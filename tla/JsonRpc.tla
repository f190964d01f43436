------------------------------ MODULE JsonRpc ------------------------------
(***************************************************************************)
(* One JSON-RPC call, from the parsed JSON value to the reply object:      *)
(* JSONRPCRequest::parse, CRPCTable::execute and JSONRPCExecOne of         *)
(* rpc/server.cpp, the reply helpers of rpc/protocol.cpp and the status    *)
(* mapping of JSONErrorReply in src/httprpc.cpp.                           *)
(*                                                                         *)
(* A call is a record                                                      *)
(*   isObject  the JSON value is an object,                                *)
(*   id        its "id" member, NullId when absent,                        *)
(*   method    its "method" member: a name, "missing" or "notString",      *)
(*   shape     its "params" member: "null" (or absent), "array", "object"  *)
(*             or "other",                                                 *)
(*   keys      the member names of params when it is an object,            *)
(*   values    the elements or member values: "str", "num" or "null".      *)
(* A C++ exception is the value `error' of the record an operator returns, *)
(* NoError when it returns normally.                                       *)
(***************************************************************************)
EXTENDS ArgContract, Integers

CONSTANTS
  Ids,      \* request ids
  NullId,   \* the one that is JSON null, or absent
  Methods,  \* "method" members, "missing" and "notString" among them
  Names     \* member names of params objects

ASSUME NullIdAssumption == NullId \in Ids

Shapes == {"null", "array", "object", "other"}

Call ==
  {call \in [isObject : BOOLEAN, id : Ids, method : Methods, shape : Shapes,
             keys : Seq(Names), values : Seq({"str", "num", "null"})] :
     call.shape = "object" => Len(call.keys) = Len(call.values)}

NoError              == 0
RPC_MISC_ERROR       == -1
RPC_INVALID_PARAMETER == -8
RPC_INVALID_REQUEST  == -32600
RPC_METHOD_NOT_FOUND == -32601
RPC_PARSE_ERROR      == -32700

\* vRPCCommands: the argument patterns of each command.
vRPCCommands ==
  [getrpcinfo |-> <<>>,
   help       |-> << <<"command">> >>,
   stop       |-> << <<"wait">> >>,
   uptime     |-> <<>>]

mapCommands == DOMAIN vRPCCommands

\* Mutant of Parse: the id is read last, so that an error loses it.
ParseIdLast(id, call) ==
  IF \/ ~ call.isObject
     \/ call.method \in {"missing", "notString"}
     \/ call.shape = "other"
  THEN [id |-> id, error |-> RPC_INVALID_REQUEST]
  ELSE [id |-> call.id, error |-> NoError]

\* JSONRPCRequest::parse on a request whose id is `id' so far: the id is
\* read before the method and the params are looked at.
Parse(id, call) ==
  IF ~ call.isObject
  THEN [id |-> id, error |-> RPC_INVALID_REQUEST]
  ELSE [id |-> call.id,
        error |-> IF \/ call.method \in {"missing", "notString"}
                     \/ call.shape = "other"
                  THEN RPC_INVALID_REQUEST
                  ELSE NoError]

\* The values the actor finds in request.params.
Positional(call) ==
  IF call.shape = "object"
  THEN LET v == PositionalVector(call.keys, vRPCCommands[call.method])
       IN  [p \in DOMAIN v |-> IF v[p] = NullArg THEN "null" ELSE call.values[v[p]]]
  ELSE IF call.shape = "array" THEN call.values ELSE <<>>

\* The actors: only help looks at its arguments, as params[0].get_str().
ActorThrows(method, params) ==
  method = "help" /\ Len(params) > 0 /\ params[1] # "str"

\* CRPCTable::execute.  The exceptions of the actors are std::exceptions and
\* become RPC_MISC_ERROR; the one of transformNamedArguments is a UniValue.
Execute(call) ==
  IF call.method \notin mapCommands
  THEN RPC_METHOD_NOT_FOUND
  ELSE IF /\ call.shape = "object"
          /\ UnknownNames(call.keys, vRPCCommands[call.method]) # {}
       THEN RPC_INVALID_PARAMETER
       ELSE IF ActorThrows(call.method, Positional(call))
            THEN RPC_MISC_ERROR
            ELSE NoError

\* The result of a successful call is named after the command.
NullResult == "null"

JSONRPCReplyObj(result, error, id) ==
  [result |-> IF error # NoError THEN NullResult ELSE result,
   error  |-> error,
   id     |-> id]

ReplyObj == [result : Methods \cup {NullResult}, error : Int, id : Ids]

\* parse and execute in one try block: what the call ends with.
Run(id, call) ==
  LET parsed == Parse(id, call)
  IN  [id |-> parsed.id,
       error |-> IF parsed.error # NoError THEN parsed.error ELSE Execute(call)]

JSONRPCExecOne(id, call) ==
  LET end == Run(id, call)
  IN  JSONRPCReplyObj(call.method, end.error, end.id)

\* The bodies of HTTP replies: a fixed text, one reply object or an array.
Text(text)     == [form |-> text, replies |-> <<>>]
Single(reply)  == [form |-> "object", replies |-> <<reply>>]
Batch(replies) == [form |-> "array", replies |-> replies]

Body ==
  [form : {"object", "array", "unhandled", "notPost", "empty", "none"},
   replies : Seq(ReplyObj)]

\* JSONErrorReply's choice of HTTP status.
ErrorStatus(error) ==
  IF error = RPC_INVALID_REQUEST THEN 400
  ELSE IF error = RPC_METHOD_NOT_FOUND THEN 404
  ELSE 500
=============================================================================
