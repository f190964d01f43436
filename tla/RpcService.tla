----------------------------- MODULE RpcService -----------------------------
(***************************************************************************)
(* What the JSON-RPC server over HTTP promises its clients, without        *)
(* handlers, threads or events: a request that was sent is answered, at    *)
(* most once, with the answer its content calls for.  The protocol is read *)
(* off rpc/protocol.h (the error codes and the statuses they map to) and   *)
(* src/httprpc.cpp; HttpRpc is the detailed specification that implements  *)
(* this one.                                                               *)
(***************************************************************************)
EXTENDS JsonRpc

CONSTANTS
  Reqs,     \* requests
  Inputs,   \* what a client may send: see Input in HttpRpc
  NoInput   \* nothing sent yet

VARIABLES
  input,    \* Reqs -> what the client sent
  answer    \* Reqs -> the sequence of answers it got

svars == <<input, answer>>
-----------------------------------------------------------------------------
(* The answer a request calls for.                                         *)

WellFormed(call) ==
  /\ call.isObject
  /\ call.method \notin {"missing", "notString"}
  /\ call.shape # "other"

\* The value passed for an argument of a command, "absent" if none was.
ArgumentOf(call, n) ==
  IF call.shape = "array"
  THEN IF n \in DOMAIN call.values THEN call.values[n] ELSE "absent"
  ELSE IF call.shape = "object" /\ n \in DOMAIN vRPCCommands[call.method]
       THEN LET name == vRPCCommands[call.method][n][1]
            IN  IF name \in Range(call.keys)
                THEN call.values[ValueOf(call.keys, name)]
                ELSE "absent"
       ELSE "absent"

Takes(call, name) ==
  \E n \in DOMAIN vRPCCommands[call.method] :
    name \in Range(vRPCCommands[call.method][n])

\* One error per call, the malformed call first.
ErrorOf(call) ==
  CASE ~ WellFormed(call) -> RPC_INVALID_REQUEST
    [] WellFormed(call) /\ call.method \notin mapCommands -> RPC_METHOD_NOT_FOUND
    [] /\ WellFormed(call) /\ call.method \in mapCommands
       /\ call.shape = "object"
       /\ \E name \in Range(call.keys) : ~ Takes(call, name) -> RPC_INVALID_PARAMETER
    [] OTHER -> IF call.method = "help" /\ ArgumentOf(call, 1) \notin {"str", "absent"}
                THEN RPC_MISC_ERROR
                ELSE NoError

\* Each call of a request is answered under its own id.
ReplyTo(call) ==
  [result |-> IF ErrorOf(call) = NoError THEN call.method ELSE NullResult,
   error  |-> ErrorOf(call),
   id     |-> IF call.isObject THEN call.id ELSE NullId]

ParseFailure == [result |-> NullResult, error |-> RPC_PARSE_ERROR, id |-> NullId]

Answer(status, headers, body) ==
  [status |-> status, headers |-> headers, bodies |-> <<body>>]

Json == <<"Content-Type">>

AnswerToCalls(in) ==
  CASE in.form = "object" ->
         LET reply == ReplyTo(in.calls[1])
         IN  Answer(CASE reply.error = NoError -> 200
                      [] reply.error = RPC_INVALID_REQUEST -> 400
                      [] reply.error = RPC_METHOD_NOT_FOUND -> 404
                      [] OTHER -> 500,
                    Json, Single(reply))
    [] in.form = "array" ->
         Answer(200, Json, Batch([i \in DOMAIN in.calls |-> ReplyTo(in.calls[i])]))
    [] OTHER -> Answer(500, Json, Single(ParseFailure))

AnswerTo(in) ==
  IF ~ in.known THEN Answer(500, <<>>, Text("unhandled"))
  ELSE IF in.method # "POST" THEN Answer(405, <<>>, Text("notPost"))
  ELSE IF ~ in.auth THEN Answer(401, <<"WWW-Authenticate">>, Text("empty"))
  ELSE AnswerToCalls(in)
-----------------------------------------------------------------------------
Init ==
  /\ input = [r \in Reqs |-> NoInput]
  /\ answer = [r \in Reqs |-> <<>>]

Ask(r) ==
  /\ input[r] = NoInput
  /\ \E in \in Inputs : input' = [input EXCEPT ![r] = in]
  /\ UNCHANGED answer

Reply(r) ==
  /\ input[r] # NoInput
  /\ answer[r] = <<>>
  /\ answer' = [answer EXCEPT ![r] = <<AnswerTo(input[r])>>]
  /\ UNCHANGED input

Next == \E r \in Reqs : Ask(r) \/ Reply(r)

\* The service, and its promise to answer.
SafeSpec == Init /\ [][Next]_svars
Promise == \A r \in Reqs : WF_svars(Reply(r))
=============================================================================
