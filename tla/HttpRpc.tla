------------------------------ MODULE HttpRpc ------------------------------
(***************************************************************************)
(* A JSON-RPC request through the server: the HTTP request handler         *)
(* HTTPReq_JSONRPC (src/httprpc.cpp), the HTTPRequest wrapper and the      *)
(* HTTPEvent that carries its reply to the event loop                      *)
(* (src/httpserver.cpp).                                                   *)
(*                                                                         *)
(* The program at hand has no driver yet: nothing creates an HTTPRequest   *)
(* and main never runs the loop.  The driver is taken from the contract of *)
(* httpserver.h: it wraps each request, calls the handler registered for   *)
(* its path, deletes the wrapper.  It calls handlers either inside the     *)
(* loop's own callback or on worker threads; libevent is used as it is     *)
(* initialised, that is without evthread_use_pthreads.                     *)
(***************************************************************************)
EXTENDS JsonRpc

CONSTANTS
  Reqs,        \* requests
  Inputs,      \* what a client may send
  NoInput,     \* nothing sent yet
  Drivers,     \* "loop" and "workers", or one of them: where handlers may run
  MaxFaults    \* bound on allocation failures

\* A client's request: "known" says that its path has a handler, "form" is
\* what its body parses to, "none" if it does not parse.
Input ==
  {in \in [known : BOOLEAN, method : {"POST", "GET"}, auth : BOOLEAN,
           form : {"object", "array", "scalar", "none"}, calls : Seq(Call)] :
     in.form = "object" => Len(in.calls) = 1 /\ in.calls[1].isObject}

ASSUME HttpAssumption ==
  /\ Inputs \subseteq Input
  /\ NoInput \notin Inputs
  /\ Drivers \subseteq {"loop", "workers"}
  /\ MaxFaults \in Nat

VARIABLES
  driver,      \* where handlers run; never changes
  input,       \* the client's request
  pc,          \* where its handler is
  req,         \* HTTPRequest::req is not nullptr
  replySent,   \* HTTPRequest::replySent
  id,          \* jreq.id
  results,     \* ret of JSONRPCExecBatch
  reply,       \* the arguments of the WriteReply in progress
  scope,       \* where it was called: "plain" code, "try", "catch" or "destructor"
  out,         \* headers and buffered bodies of the evhttp_request
  active,      \* activated HTTPEvents, in the order the loop runs them
  loop,        \* the event loop is "awake" or "blocked" in its poll
  answer,      \* what evhttp_send_reply sent
  faults,      \* allocation failures so far
  aborted      \* the process was terminated

handler == <<req, replySent, id, results, reply, scope>>
evhttp == <<driver, input, answer, loop>>
vars == <<driver, input, pc, req, replySent, id, results, reply, scope, out, active,
          loop, answer, faults, aborted>>

NoReply == [status |-> 0, body |-> Text("none")]

Init ==
  /\ driver \in Drivers
  /\ input = [r \in Reqs |-> NoInput]
  /\ pc = [r \in Reqs |-> "quiet"]
  /\ req = [r \in Reqs |-> FALSE]
  /\ replySent = [r \in Reqs |-> FALSE]
  /\ id = [r \in Reqs |-> NullId]
  /\ results = [r \in Reqs |-> <<>>]
  /\ reply = [r \in Reqs |-> NoReply]
  /\ scope = [r \in Reqs |-> "plain"]
  /\ out = [r \in Reqs |-> [headers |-> <<>>, bodies |-> <<>>]]
  /\ active = <<>>
  /\ loop = "awake"
  /\ answer = [r \in Reqs |-> <<>>]
  /\ faults = 0
  /\ aborted = FALSE
-----------------------------------------------------------------------------
(* The client, the loop's input side and the driver.                       *)

Send(r) ==
  /\ pc[r] = "quiet"
  /\ \E in \in Inputs : input' = [input EXCEPT ![r] = in]
  /\ pc' = [pc EXCEPT ![r] = "sent"]
  /\ UNCHANGED <<driver, handler, out, active, loop, answer, faults, aborted>>

\* A handler that runs inside the loop's callback holds the loop.
LoopFree ==
  driver = "loop" => \A r \in Reqs : pc[r] \in {"quiet", "sent", "gone"}

\* The request wakes the loop; the driver wraps it and calls the handler of
\* its path, if there is one, or else drops the wrapper.
Accept(r) ==
  /\ pc[r] = "sent"
  /\ LoopFree
  /\ loop' = "awake"
  /\ req' = [req EXCEPT ![r] = TRUE]
  /\ pc' = [pc EXCEPT ![r] = IF input[r].known THEN "called" ELSE "returned"]
  /\ UNCHANGED <<driver, input, replySent, id, results, reply, scope, out,
                 active, answer, faults, aborted>>

\* The poll found nothing to do.
Block ==
  /\ loop = "awake"
  /\ active = <<>>
  /\ LoopFree
  /\ loop' = "blocked"
  /\ UNCHANGED <<driver, input, pc, handler, out, active, answer, faults, aborted>>
-----------------------------------------------------------------------------
(* HTTPReq_JSONRPC                                                         *)

WriteHeader(r, header) ==
  out' = [out EXCEPT ![r].headers = Append(@, header)]

\* Call WriteReply(status, body) from the given place.
CallWriteReply(r, status, body, from) ==
  /\ reply' = [reply EXCEPT ![r] = [status |-> status, body |-> body]]
  /\ scope' = [scope EXCEPT ![r] = from]
  /\ pc' = [pc EXCEPT ![r] = "write"]

\* Mutant of JSONErrorReply: the error code is sent as the status.
JSONErrorReplyCode(r, error, replyId) ==
  /\ WriteHeader(r, "Content-Type")
  /\ CallWriteReply(r, error,
       Single(JSONRPCReplyObj(NullResult, error, replyId)), "catch")

JSONErrorReply(r, error, replyId) ==
  /\ WriteHeader(r, "Content-Type")
  /\ CallWriteReply(r, ErrorStatus(error),
       Single(JSONRPCReplyObj(NullResult, error, replyId)), "catch")

RefuseMethod(r) ==
  /\ pc[r] = "called"
  /\ input[r].method # "POST"
  /\ CallWriteReply(r, 405, Text("notPost"), "plain")
  /\ UNCHANGED <<evhttp, req, replySent, id, results, out, active, faults, aborted>>

RefuseUnauthorized(r) ==
  /\ pc[r] = "called"
  /\ input[r].method = "POST"
  /\ ~ input[r].auth
  /\ WriteHeader(r, "WWW-Authenticate")
  /\ CallWriteReply(r, 401, Text("empty"), "plain")
  /\ UNCHANGED <<evhttp, req, replySent, id, results, active, faults, aborted>>

Authorized(r) == pc[r] = "called" /\ input[r].method = "POST" /\ input[r].auth

\* The body is not JSON, or is JSON but neither an object nor an array.
RefuseBody(r) ==
  /\ Authorized(r)
  /\ input[r].form \notin {"object", "array"}
  /\ JSONErrorReply(r, RPC_PARSE_ERROR, id[r])
  /\ UNCHANGED <<evhttp, req, replySent, id, results, active, faults, aborted>>

\* A singleton request: parse leaves the id in jreq even when it throws, so
\* that JSONErrorReply finds it.
ExecSingle(r) ==
  /\ Authorized(r)
  /\ input[r].form = "object"
  /\ LET call == input[r].calls[1]
         end  == Run(id[r], call)
     IN  /\ id' = [id EXCEPT ![r] = end.id]
         /\ \/ /\ end.error = NoError
               /\ WriteHeader(r, "Content-Type")
               /\ CallWriteReply(r, 200,
                    Single(JSONRPCReplyObj(call.method, NoError, end.id)), "try")
            \/ /\ end.error # NoError
               /\ JSONErrorReply(r, end.error, end.id)
  /\ UNCHANGED <<evhttp, req, replySent, results, active, faults, aborted>>

EnterBatch(r) ==
  /\ Authorized(r)
  /\ input[r].form = "array"
  /\ pc' = [pc EXCEPT ![r] = "batch"]
  /\ UNCHANGED <<evhttp, handler, out, active, faults, aborted>>

\* Mutant of ExecNext: jreq is passed by reference, so that a call finds the
\* id of the one before it.
ExecNextByReference(r) ==
  /\ pc[r] = "batch"
  /\ Len(results[r]) < Len(input[r].calls)
  /\ LET one == JSONRPCExecOne(id[r], input[r].calls[Len(results[r]) + 1])
     IN  /\ results' = [results EXCEPT ![r] = Append(@, one)]
         /\ id' = [id EXCEPT ![r] = one.id]
  /\ UNCHANGED <<evhttp, pc, req, replySent, reply, scope, out, active,
                 faults, aborted>>

\* One turn of JSONRPCExecBatch's loop: jreq is passed by value.
ExecNext(r) ==
  /\ pc[r] = "batch"
  /\ Len(results[r]) < Len(input[r].calls)
  /\ results' = [results EXCEPT ![r] =
       Append(@, JSONRPCExecOne(id[r], input[r].calls[Len(@) + 1]))]
  /\ UNCHANGED <<evhttp, pc, req, replySent, id, reply, scope, out, active,
                 faults, aborted>>

FinishBatch(r) ==
  /\ pc[r] = "batch"
  /\ Len(results[r]) = Len(input[r].calls)
  /\ WriteHeader(r, "Content-Type")
  /\ CallWriteReply(r, 200, Batch(results[r]), "try")
  /\ UNCHANGED <<evhttp, req, replySent, id, results, active, faults, aborted>>
-----------------------------------------------------------------------------
(* HTTPRequest::WriteReply, in the order of its statements.  The loop may  *)
(* run the event before the worker has marked the reply as sent.           *)

\* Mutant of AddBody: the reply is marked as sent before it is made.
AddBodyMarking(r) ==
  /\ pc[r] = "write"
  /\ aborted' = (replySent[r] \/ ~ req[r])
  /\ out' = [out EXCEPT ![r].bodies = Append(@, reply[r].body)]
  /\ replySent' = [replySent EXCEPT ![r] = TRUE]
  /\ pc' = [pc EXCEPT ![r] = "event"]
  /\ UNCHANGED <<evhttp, req, id, results, reply, scope, active, faults>>

\* assert(!replySent && req) ends the process when it fails; evbuffer_add,
\* whose own failure goes unnoticed.
AddBody(r) ==
  /\ pc[r] = "write"
  /\ aborted' = (replySent[r] \/ ~ req[r])
  /\ \/ /\ out' = [out EXCEPT ![r].bodies = Append(@, reply[r].body)]
        /\ UNCHANGED faults
     \/ /\ faults < MaxFaults
        /\ faults' = faults + 1
        /\ UNCHANGED out
  /\ pc' = [pc EXCEPT ![r] = "event"]
  /\ UNCHANGED <<evhttp, handler, active>>

NewEvent(r) ==
  /\ pc[r] = "event"
  /\ pc' = [pc EXCEPT ![r] = "trigger"]
  /\ UNCHANGED <<evhttp, handler, out, active, faults, aborted>>

\* new HTTPEvent throws bad_alloc.  Within the try block of HTTPReq_JSONRPC
\* the handler answers it with JSONErrorReply; elsewhere nothing catches it.
NewEventThrows(r) ==
  /\ pc[r] = "event"
  /\ faults < MaxFaults
  /\ faults' = faults + 1
  /\ \/ /\ scope[r] = "try"
        /\ JSONErrorReply(r, RPC_PARSE_ERROR, id[r])
        /\ UNCHANGED aborted
     \/ /\ scope[r] # "try"
        /\ aborted' = TRUE
        /\ UNCHANGED <<pc, reply, scope, out>>
  /\ UNCHANGED <<evhttp, req, replySent, id, results, active>>

\* event_new returns null: assert(ev).
NoEvent(r) ==
  /\ pc[r] = "event"
  /\ faults < MaxFaults
  /\ faults' = faults + 1
  /\ aborted' = TRUE
  /\ UNCHANGED <<evhttp, pc, handler, out, active>>

\* The loop or another worker is using the loop's list of active events.
Racing(r) ==
  /\ driver = "workers"
  /\ \/ loop = "awake"
     \/ \E q \in Reqs \ {r} : pc[q] = "trigger"

\* event_active: without evthread_use_pthreads the list is not locked, so
\* that a race may lose the event, and a blocked loop is not woken.
Trigger(r) ==
  /\ pc[r] = "trigger"
  /\ \/ active' = Append(active, [req |-> r, status |-> reply[r].status])
     \/ /\ Racing(r)
        /\ UNCHANGED active
  /\ pc' = [pc EXCEPT ![r] = "mark"]
  /\ UNCHANGED <<evhttp, handler, out, faults, aborted>>

\* Mutant of MarkSent: neither replySent nor req is assigned.
MarkNothing(r) ==
  /\ pc[r] = "mark"
  /\ pc' = [pc EXCEPT ![r] = IF scope[r] = "destructor" THEN "gone" ELSE "returned"]
  /\ UNCHANGED <<evhttp, req, replySent, id, results, reply, scope, out, active,
                 faults, aborted>>

MarkSent(r) ==
  /\ pc[r] = "mark"
  /\ replySent' = [replySent EXCEPT ![r] = TRUE]
  /\ req' = [req EXCEPT ![r] = FALSE]
  /\ pc' = [pc EXCEPT ![r] = IF scope[r] = "destructor" THEN "gone" ELSE "returned"]
  /\ UNCHANGED <<evhttp, id, results, reply, scope, out, active, faults, aborted>>

\* Mutant of Destroy: no reply is made.
DestroySilently(r) ==
  /\ pc[r] = "returned"
  /\ pc' = [pc EXCEPT ![r] = "gone"]
  /\ UNCHANGED <<evhttp, handler, out, active, faults, aborted>>

\* ~HTTPRequest: a request nobody answered is answered here.
Destroy(r) ==
  /\ pc[r] = "returned"
  /\ \/ /\ replySent[r]
        /\ pc' = [pc EXCEPT ![r] = "gone"]
        /\ UNCHANGED <<reply, scope>>
     \/ /\ ~ replySent[r]
        /\ CallWriteReply(r, 500, Text("unhandled"), "destructor")
  /\ UNCHANGED <<evhttp, req, replySent, id, results, out, active, faults, aborted>>

\* Mutant of RunEvent: the event stays active.
RunEventAgain ==
  /\ loop = "awake"
  /\ LoopFree
  /\ active # <<>>
  /\ LET ev == Head(active)
         r  == ev.req
     IN  /\ answer' = [answer EXCEPT ![r] =
              Append(@, [status |-> ev.status,
                         headers |-> out[r].headers,
                         bodies |-> out[r].bodies])]
         /\ out' = [out EXCEPT ![r].bodies = <<>>]
  /\ UNCHANGED <<driver, input, pc, handler, active, loop, faults, aborted>>

\* The loop runs the closure of the oldest event: evhttp_send_reply.
RunEvent ==
  /\ loop = "awake"
  /\ LoopFree
  /\ active # <<>>
  /\ LET ev == Head(active)
         r  == ev.req
     IN  /\ answer' = [answer EXCEPT ![r] =
              Append(@, [status |-> ev.status,
                         headers |-> out[r].headers,
                         bodies |-> out[r].bodies])]
         /\ out' = [out EXCEPT ![r].bodies = <<>>]
  /\ active' = Tail(active)
  /\ UNCHANGED <<driver, input, pc, handler, loop, faults, aborted>>
-----------------------------------------------------------------------------
Step(r) ==
  \/ Accept(r)
  \/ RefuseMethod(r) \/ RefuseUnauthorized(r) \/ RefuseBody(r)
  \/ ExecSingle(r) \/ EnterBatch(r) \/ ExecNext(r) \/ FinishBatch(r)
  \/ AddBody(r) \/ NewEvent(r) \/ NewEventThrows(r) \/ NoEvent(r)
  \/ Trigger(r) \/ MarkSent(r) \/ Destroy(r)

Next ==
  /\ ~ aborted
  /\ \/ \E r \in Reqs : Send(r) \/ Step(r)
     \/ Block
     \/ RunEvent

Spec == Init /\ [][Next]_vars

\* Every thread keeps running and so does the loop; clients need not send.
Fairness ==
  /\ \A r \in Reqs : WF_vars(~ aborted /\ Step(r))
  /\ WF_vars(~ aborted /\ RunEvent)

FairSpec == Spec /\ Fairness
-----------------------------------------------------------------------------
Places == {"quiet", "sent", "called", "batch", "write", "event", "trigger",
           "mark", "returned", "gone"}

Header == {"Content-Type", "WWW-Authenticate"}

WriteArgs == [status : Nat, body : Body]

Output == [headers : Seq(Header), bodies : Seq(Body)]

Event == [req : Reqs, status : Nat]

Sent == [status : Nat, headers : Seq(Header), bodies : Seq(Body)]

TypeOK ==
  /\ driver \in Drivers
  /\ input \in [Reqs -> Inputs \cup {NoInput}]
  /\ pc \in [Reqs -> Places]
  /\ req \in [Reqs -> BOOLEAN]
  /\ replySent \in [Reqs -> BOOLEAN]
  /\ id \in [Reqs -> Ids]
  /\ results \in [Reqs -> Seq(ReplyObj)]
  /\ reply \in [Reqs -> WriteArgs]
  /\ scope \in [Reqs -> {"plain", "try", "catch", "destructor"}]
  /\ out \in [Reqs -> Output]
  /\ active \in Seq(Event)
  /\ loop \in {"awake", "blocked"}
  /\ answer \in [Reqs -> Seq(Sent)]
  /\ faults \in 0..MaxFaults
  /\ aborted \in BOOLEAN

\* A request is answered once: it has at most one reply event, and none once
\* it was answered, whatever fails while the reply is written (WriteReply,
\* JSONErrorReply and the reply made by ~HTTPRequest).
OneAnswer ==
  /\ \A i, j \in DOMAIN active : active[i].req = active[j].req => i = j
  /\ \A i \in DOMAIN active : answer[active[i].req] = <<>>
  /\ \A r \in Reqs : Len(answer[r]) <= 1

\* From the moment its reply event is active an evhttp_request belongs to
\* the loop, which may free it at any time: its handler and ~HTTPRequest do
\* not come back to it ("transferred back to main thread", WriteReply).
HandedOver ==
  \A r \in Reqs :
    (answer[r] # <<>> \/ \E i \in DOMAIN active : active[i].req = r) =>
      \/ pc[r] \in {"mark", "gone"}
      \/ pc[r] = "returned" /\ replySent[r]

\* Whoever calls WriteReply, assert(!replySent && req) at its head holds: the
\* handler, the catch block that replies again after a WriteReply that threw,
\* and ~HTTPRequest, whatever has failed before.
AssertionHolds == \A r \in Reqs : pc[r] = "write" => req[r] /\ ~ replySent[r]

\* The inductive invariant behind them: what each place says of the wrapper.
Wrapped ==
  \A r \in Reqs :
    /\ pc[r] # "quiet" => input[r] \in Inputs
    /\ pc[r] \in {"quiet", "sent"} => ~ replySent[r]
    /\ pc[r] \in {"called", "batch", "write", "event", "trigger", "mark"} =>
         req[r] /\ ~ replySent[r]
    /\ pc[r] = "returned" => req[r] = ~ replySent[r]

IInv ==
  /\ TypeOK
  /\ Wrapped
  /\ HandedOver
  /\ OneAnswer

\* The server implements the service of RpcService under either driver: no
\* request gets a wrong, mixed or second answer.
Service == INSTANCE RpcService

Implements == Service!SafeSpec

\* It keeps the service's promise to answer where handlers run in the loop
\* (on worker threads it does not: CrossThreadTrigger).
ServesInLoop == driver = "loop" => Service!Promise

\* In the loop every request a client sent is answered unless the process is
\* terminated, allocation failures included (WriteReply, the catch blocks of
\* HTTPReq_JSONRPC and ~HTTPRequest).
AnsweredUnlessAborted ==
  \A r \in Reqs :
    (driver = "loop" /\ pc[r] = "sent") ~> (answer[r] # <<>> \/ aborted)

\* "Can be called only once" (WriteReply in src/httpserver.h): a request has
\* at most one body written to it.
WrittenOnce == \A r \in Reqs : Len(out[r].bodies) <= 1

\* "This can be used either as a cross-thread trigger or as a timer"
\* (HTTPEvent in src/httpserver.h): an event a worker triggered is run, so
\* that its request is answered.
CrossThreadTrigger ==
  \A r \in Reqs : pc[r] = "trigger" ~> answer[r] # <<>>
=============================================================================
