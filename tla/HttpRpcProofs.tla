--------------------------- MODULE HttpRpcProofs ---------------------------
(***************************************************************************)
(* For every set of requests and inputs, on the loop's thread or on        *)
(* workers, and with any number of failed allocations: a request is        *)
(* answered at most once and its handler does not touch it after handing   *)
(* it to the loop.  As long as no allocation fails HttpRpc implements      *)
(* RpcService: whatever a client gets is the one answer its request calls  *)
(* for.                                                                    *)
(***************************************************************************)
EXTENDS HttpRpc, SequenceTheorems, WellFoundedInduction, TLAPS

\* parse and execute end with an id and an error code.
LEMMA RunType ==
  ASSUME NEW n \in Ids, NEW call \in Call
  PROVE  Run(n, call) \in [id : Ids, error : Int]
<1>1. Parse(n, call) \in [id : Ids, error : Int]
  BY DEF Parse, Call, RPC_INVALID_REQUEST, NoError
<1>2. Execute(call) \in Int
  BY DEF Execute, RPC_METHOD_NOT_FOUND, RPC_INVALID_PARAMETER, RPC_MISC_ERROR, NoError
<1> QED
  BY <1>1, <1>2 DEF Run, NoError

\* Reply objects and the bodies made of them.
LEMMA ReplyObjType ==
  ASSUME NEW res \in Methods \cup {NullResult}, NEW e \in Int, NEW n \in Ids
  PROVE  /\ JSONRPCReplyObj(res, e, n) \in ReplyObj
         /\ Single(JSONRPCReplyObj(res, e, n)) \in Body
<1>1. JSONRPCReplyObj(res, e, n) \in ReplyObj
  BY DEF JSONRPCReplyObj, ReplyObj
<1>2. ASSUME NEW o \in ReplyObj PROVE Single(o) \in Body
  BY DEF Single, Body
<1> QED
  BY <1>1, <1>2

\* The record of one element of a batch.
LEMMA ExecOneType ==
  ASSUME NEW n \in Ids, NEW call \in Call
  PROVE  JSONRPCExecOne(n, call) \in ReplyObj
<1>1. Run(n, call).id \in Ids /\ Run(n, call).error \in Int /\ call.method \in Methods
  BY RunType DEF Call
<1> QED
  BY <1>1, ReplyObjType DEF JSONRPCExecOne

\* Fixed texts are bodies.
LEMMA TextType ==
  ASSUME NEW t \in {"unhandled", "notPost", "empty", "none"}
  PROVE  Text(t) \in Body
<1>1. <<>> \in Seq(ReplyObj)
  BY EmptySeq
<1> QED
  BY <1>1 DEF Text, Body

\* What one header, one body, or sending does to the output of a request.
LEMMA OutputType ==
  ASSUME NEW o \in Output
  PROVE  /\ \A h \in Header : [o EXCEPT !.headers = Append(o.headers, h)] \in Output
         /\ \A b \in Body : [o EXCEPT !.bodies = Append(o.bodies, b)] \in Output
         /\ [o EXCEPT !.bodies = <<>>] \in Output
         /\ \A st \in Nat :
              [status |-> st, headers |-> o.headers, bodies |-> o.bodies] \in Sent
<1>1. /\ o.headers \in Seq(Header) /\ o.bodies \in Seq(Body)
      /\ \A h \in Header : Append(o.headers, h) \in Seq(Header)
      /\ \A b \in Body : Append(o.bodies, b) \in Seq(Body)
      /\ <<>> \in Seq(Body)
  BY DEF Output
<1> QED
  BY <1>1 DEF Output, Sent

\* What is known of a request that was sent.
LEMMA InputType ==
  ASSUME Wrapped, NEW r \in Reqs, pc[r] # "quiet"
  PROVE  /\ input[r] \in Input
         /\ input[r].calls \in Seq(Call)
         /\ input[r].form = "object" => input[r].calls[1] \in Call
<1>1. input[r] \in Input
  BY HttpAssumption DEF Wrapped
<1> QED
  BY <1>1 DEF Input

\* Every state of the server has the declared types.
LEMMA TypeStep == IInv /\ [Next]_vars => TypeOK'
<1> SUFFICES ASSUME IInv, [Next]_vars PROVE TypeOK'
  OBVIOUS
<1>0. TypeOK /\ Wrapped
  BY DEF IInv
<1> USE DEF TypeOK, handler, evhttp
<1>1. ASSUME NEW r \in Reqs, Send(r) PROVE TypeOK'
  BY <1>0, <1>1 DEF Send, Places
<1>2. ASSUME NEW r \in Reqs, Accept(r) PROVE TypeOK'
  BY <1>0, <1>2 DEF Accept, Places
<1>3. ASSUME NEW r \in Reqs, NEW status \in Nat, NEW body \in Body,
             NEW from \in {"plain", "try", "catch", "destructor"},
             CallWriteReply(r, status, body, from)
      PROVE  /\ reply' \in [Reqs -> WriteArgs]
             /\ scope' \in [Reqs -> {"plain", "try", "catch", "destructor"}]
             /\ pc' \in [Reqs -> Places]
  <2>1. [status |-> status, body |-> body] \in WriteArgs
    BY <1>3 DEF WriteArgs
  <2> QED
    BY <1>0, <1>3, <2>1 DEF CallWriteReply, Places
<1>4. ASSUME NEW r \in Reqs, NEW h \in Header, WriteHeader(r, h)
      PROVE  out' \in [Reqs -> Output]
  <2> DEFINE o == [out[r] EXCEPT !.headers = Append(out[r].headers, h)]
  <2>1. o \in Output
    BY <1>0, <1>4, OutputType
  <2>2. out' = [out EXCEPT ![r] = o]
    BY <1>0, <1>4 DEF WriteHeader
  <2> QED
    BY <1>0, <2>1, <2>2
<1>5. ASSUME NEW r \in Reqs, NEW e \in Int, NEW n \in Ids, JSONErrorReply(r, e, n)
      PROVE  /\ reply' \in [Reqs -> WriteArgs]
             /\ scope' \in [Reqs -> {"plain", "try", "catch", "destructor"}]
             /\ pc' \in [Reqs -> Places]
             /\ out' \in [Reqs -> Output]
  <2> DEFINE body == Single(JSONRPCReplyObj(NullResult, e, n))
  <2>1. body \in Body
    BY <1>5, ReplyObjType
  <2>3. ErrorStatus(e) \in Nat
    BY DEF ErrorStatus
  <2>2. WriteHeader(r, "Content-Type") /\ CallWriteReply(r, ErrorStatus(e), body, "catch")
    BY <1>5 DEF JSONErrorReply
  <2> HIDE DEF body
  <2> QED
    BY <1>3, <1>4, <2>1, <2>2, <2>3 DEF Header
<1>6. ASSUME NEW r \in Reqs, RefuseMethod(r) PROVE TypeOK'
  <2>1. CallWriteReply(r, 405, Text("notPost"), "plain")
    BY <1>6 DEF RefuseMethod
  <2>2. Text("notPost") \in Body
    BY TextType
  <2>3. /\ reply' \in [Reqs -> WriteArgs]
        /\ scope' \in [Reqs -> {"plain", "try", "catch", "destructor"}]
        /\ pc' \in [Reqs -> Places]
    BY <1>3, <2>1, <2>2
  <2> QED
    BY <1>0, <1>6, <2>3 DEF RefuseMethod
<1>7. ASSUME NEW r \in Reqs, RefuseUnauthorized(r) PROVE TypeOK'
  <2>1. CallWriteReply(r, 401, Text("empty"), "plain") /\ WriteHeader(r, "WWW-Authenticate")
    BY <1>7 DEF RefuseUnauthorized
  <2>2. Text("empty") \in Body
    BY TextType
  <2>3. /\ reply' \in [Reqs -> WriteArgs]
        /\ scope' \in [Reqs -> {"plain", "try", "catch", "destructor"}]
        /\ pc' \in [Reqs -> Places]
        /\ out' \in [Reqs -> Output]
    BY <1>3, <1>4, <2>1, <2>2 DEF Header
  <2> QED
    BY <1>0, <1>7, <2>3 DEF RefuseUnauthorized
<1>8. ASSUME NEW r \in Reqs, RefuseBody(r) PROVE TypeOK'
  <2>1. JSONErrorReply(r, RPC_PARSE_ERROR, id[r]) /\ RPC_PARSE_ERROR \in Int
    BY <1>8 DEF RefuseBody, RPC_PARSE_ERROR
  <2> QED
    BY <1>0, <1>5, <1>8, <2>1 DEF RefuseBody
<1>9. ASSUME NEW r \in Reqs, ExecSingle(r) PROVE TypeOK'
  <2> DEFINE call == input[r].calls[1]
             end == Run(id[r], call)
  <2>1. call \in Call /\ call.method \in Methods
    BY <1>0, <1>9, InputType DEF ExecSingle, Authorized, Call
  <2>2. end.id \in Ids /\ end.error \in Int
    BY <1>0, <2>1, RunType
  <2>3. /\ id' = [id EXCEPT ![r] = end.id]
        /\ \/ /\ WriteHeader(r, "Content-Type")
              /\ CallWriteReply(r, 200,
                   Single(JSONRPCReplyObj(call.method, NoError, end.id)), "try")
           \/ JSONErrorReply(r, end.error, end.id)
    BY <1>9 DEF ExecSingle
  <2> HIDE DEF call, end
  <2>4. NoError \in Int
    BY DEF NoError
  <2>5. Single(JSONRPCReplyObj(call.method, NoError, end.id)) \in Body
    <3>1. call.method \in Methods \cup {NullResult}
      BY <2>1
    <3> QED
      BY <2>2, <2>4, <3>1, ReplyObjType, Zenon
  <2>6. /\ reply' \in [Reqs -> WriteArgs]
        /\ scope' \in [Reqs -> {"plain", "try", "catch", "destructor"}]
        /\ pc' \in [Reqs -> Places]
        /\ out' \in [Reqs -> Output]
    BY <1>3, <1>4, <1>5, <2>2, <2>3, <2>5 DEF Header
  <2> QED
    BY <1>0, <1>9, <2>2, <2>3, <2>6 DEF ExecSingle
<1>10. ASSUME NEW r \in Reqs, EnterBatch(r) PROVE TypeOK'
  BY <1>0, <1>10 DEF EnterBatch, Places
<1>11. ASSUME NEW r \in Reqs, ExecNext(r) PROVE TypeOK'
  <2> DEFINE o == JSONRPCExecOne(id[r], input[r].calls[Len(results[r]) + 1])
  <2>1. input[r].calls[Len(results[r]) + 1] \in Call
    <3>1. input[r].calls \in Seq(Call) /\ results[r] \in Seq(ReplyObj)
          /\ Len(results[r]) < Len(input[r].calls)
      BY <1>0, <1>11, InputType DEF ExecNext
    <3> QED
      BY <3>1
  <2>2. o \in ReplyObj
    BY <1>0, <2>1, ExecOneType
  <2>3. results' = [results EXCEPT ![r] = Append(results[r], o)]
    BY <1>0, <1>11 DEF ExecNext
  <2> HIDE DEF o
  <2>4. results' \in [Reqs -> Seq(ReplyObj)]
    BY <1>0, <2>2, <2>3
  <2> QED
    BY <1>0, <1>11, <2>4 DEF ExecNext
<1>12. ASSUME NEW r \in Reqs, FinishBatch(r) PROVE TypeOK'
  <2>1. CallWriteReply(r, 200, Batch(results[r]), "try") /\ WriteHeader(r, "Content-Type")
    BY <1>12 DEF FinishBatch
  <2>2. Batch(results[r]) \in Body
    BY <1>0 DEF Batch, Body
  <2> QED
    BY <1>0, <1>3, <1>4, <1>12, <2>1, <2>2 DEF FinishBatch, Header
<1>13. ASSUME NEW r \in Reqs, AddBody(r) PROVE TypeOK'
  <2>1. out' \in [Reqs -> Output]
    <3>1. reply[r].body \in Body /\ out[r] \in Output
      BY <1>0, <1>13 DEF WriteArgs
    <3> DEFINE o == [out[r] EXCEPT !.bodies = Append(out[r].bodies, reply[r].body)]
    <3>2. o \in Output
      BY <3>1, OutputType
    <3>3. out' = [out EXCEPT ![r] = o] \/ out' = out
      BY <1>0, <1>13 DEF AddBody
    <3> QED
      BY <1>0, <3>2, <3>3
  <2>2. faults' \in 0..MaxFaults
    BY <1>0, <1>13, HttpAssumption DEF AddBody
  <2>3. aborted' \in BOOLEAN
    BY <1>13 DEF AddBody
  <2> QED
    BY <1>0, <1>13, <2>1, <2>2, <2>3 DEF AddBody, Places
<1>14. ASSUME NEW r \in Reqs, NewEvent(r) PROVE TypeOK'
  BY <1>0, <1>14 DEF NewEvent, Places
<1>15. ASSUME NEW r \in Reqs, NewEventThrows(r) PROVE TypeOK'
  <2>1. faults' \in 0..MaxFaults
    BY <1>0, <1>15, HttpAssumption DEF NewEventThrows
  <2>2. CASE JSONErrorReply(r, RPC_PARSE_ERROR, id[r]) /\ UNCHANGED aborted
    <3>1. RPC_PARSE_ERROR \in Int
      BY DEF RPC_PARSE_ERROR
    <3> QED
      BY <1>0, <1>5, <1>15, <2>1, <2>2, <3>1 DEF NewEventThrows
  <2>3. CASE aborted' = TRUE /\ UNCHANGED <<pc, reply, scope, out>>
    BY <1>0, <1>15, <2>1, <2>3 DEF NewEventThrows
  <2> QED
    BY <1>15, <2>2, <2>3 DEF NewEventThrows
<1>16. ASSUME NEW r \in Reqs, NoEvent(r) PROVE TypeOK'
  BY <1>0, <1>16, HttpAssumption DEF NoEvent
<1>17. ASSUME NEW r \in Reqs, Trigger(r) PROVE TypeOK'
  <2> DEFINE e == [req |-> r, status |-> reply[r].status]
  <2>1. e \in Event
    <3>1. reply[r].status \in Nat
      BY <1>0, <1>17 DEF WriteArgs
    <3> QED
      BY <3>1 DEF Event
  <2>2. active' = active \/ active' = Append(active, e)
    BY <1>17 DEF Trigger
  <2> HIDE DEF e
  <2>3. active' \in Seq(Event)
    <3>1. active \in Seq(Event)
      BY <1>0
    <3>2. Append(active, e) \in Seq(Event)
      BY <2>1, <3>1, AppendProperties
    <3> QED
      BY <2>2, <3>1, <3>2
  <2> QED
    BY <1>0, <1>17, <2>3 DEF Trigger, Places
<1>18. ASSUME NEW r \in Reqs, MarkSent(r) PROVE TypeOK'
  BY <1>0, <1>18 DEF MarkSent, Places
<1>19. ASSUME NEW r \in Reqs, Destroy(r) PROVE TypeOK'
  <2>1. CASE CallWriteReply(r, 500, Text("unhandled"), "destructor")
    <3>1. Text("unhandled") \in Body
      BY TextType
    <3>2. /\ reply' \in [Reqs -> WriteArgs]
          /\ scope' \in [Reqs -> {"plain", "try", "catch", "destructor"}]
          /\ pc' \in [Reqs -> Places]
      BY <1>3, <2>1, <3>1
    <3> QED
      BY <1>0, <1>19, <3>2 DEF Destroy
  <2>2. CASE pc' = [pc EXCEPT ![r] = "gone"] /\ UNCHANGED <<reply, scope>>
    BY <1>0, <1>19, <2>2 DEF Destroy, Places
  <2> QED
    BY <1>19, <2>1, <2>2 DEF Destroy
<1>20. CASE Block
  BY <1>0, <1>20 DEF Block
<1>21. CASE RunEvent
  <2> DEFINE ev == Head(active)
             a == [status |-> ev.status, headers |-> out[ev.req].headers,
                   bodies |-> out[ev.req].bodies]
  <2>1. ev \in Event /\ active' \in Seq(Event)
    BY <1>0, <1>21 DEF RunEvent
  <2>2. a \in Sent
    <3>1. ev.status \in Nat /\ ev.req \in Reqs
      BY <2>1 DEF Event
    <3>2. out[ev.req] \in Output
      BY <1>0, <3>1
    <3> QED
      BY <3>1, <3>2, OutputType
  <2>3. /\ answer' = [answer EXCEPT ![ev.req] = Append(answer[ev.req], a)]
        /\ out' = [out EXCEPT ![ev.req].bodies = <<>>]
    BY <1>0, <1>21, <2>1 DEF RunEvent
  <2> HIDE DEF a, ev
  <2>4. answer' \in [Reqs -> Seq(Sent)]
    <3>1. ev.req \in Reqs
      BY <2>1 DEF Event
    <3>2. Append(answer[ev.req], a) \in Seq(Sent)
      BY <1>0, <2>2, <3>1
    <3> QED
      BY <1>0, <2>3, <3>1, <3>2
  <2>5. out' \in [Reqs -> Output]
    <3>1. ev.req \in Reqs
      BY <2>1 DEF Event
    <3>2. [out[ev.req] EXCEPT !.bodies = <<>>] \in Output
      BY <1>0, <3>1, OutputType
    <3>3. out' = [out EXCEPT ![ev.req] = [out[ev.req] EXCEPT !.bodies = <<>>]]
      BY <1>0, <2>3, <3>1
    <3> QED
      BY <1>0, <3>1, <3>2, <3>3
  <2> QED
    BY <1>0, <1>21, <2>1, <2>4, <2>5 DEF RunEvent
<1>22. CASE UNCHANGED vars
  BY <1>0, <1>22 DEF vars
<1> QED
  BY <1>1, <1>2, <1>6, <1>7, <1>8, <1>9, <1>10, <1>11, <1>12, <1>13, <1>14, <1>15,
     <1>16, <1>17, <1>18, <1>19, <1>20, <1>21, <1>22 DEF Next, Step
-----------------------------------------------------------------------------
\* A step of a handler that still owns its request: it moves to a place where
\* it still does, and leaves the loop's events alone.
LEMMA OwnedStep ==
  ASSUME IInv, NEW r \in Reqs,
         pc[r] \in {"sent", "called", "batch", "write", "event"}
           \/ (pc[r] = "returned" /\ ~ replySent[r]),
         NEW x \in {"called", "batch", "write", "event", "trigger", "returned"},
         pc' = [pc EXCEPT ![r] = x],
         req' = [req EXCEPT ![r] = TRUE],
         UNCHANGED <<input, replySent, active, answer>>
  PROVE  Wrapped' /\ HandedOver' /\ OneAnswer'
<1>1. TypeOK /\ Wrapped /\ HandedOver /\ OneAnswer
  BY DEF IInv
<1>2. /\ \A q \in Reqs : pc'[q] = IF q = r THEN x ELSE pc[q]
      /\ \A q \in Reqs : req'[q] = IF q = r THEN TRUE ELSE req[q]
      /\ ~ replySent[r]
  BY <1>1 DEF TypeOK, Wrapped
<1>3. Wrapped'
  BY <1>1, <1>2 DEF Wrapped
<1>4. answer[r] = <<>> /\ \A i \in DOMAIN active : active[i].req # r
  BY <1>1, <1>2 DEF HandedOver
<1>5. HandedOver'
  BY <1>1, <1>2, <1>4 DEF HandedOver
<1>6. OneAnswer'
  BY <1>1 DEF OneAnswer
<1> QED
  BY <1>3, <1>5, <1>6

\* A handler's wrapper has its request until the reply is marked as sent.
LEMMA KeepsRequest ==
  ASSUME IInv, NEW r \in Reqs,
         pc[r] \in {"called", "batch", "write", "event", "trigger", "mark"}
           \/ (pc[r] = "returned" /\ ~ replySent[r])
  PROVE  req[r] /\ ~ replySent[r] /\ req = [req EXCEPT ![r] = TRUE]
<1>1. TypeOK /\ Wrapped
  BY DEF IInv
<1>2. req[r] = TRUE /\ ~ replySent[r]
  BY <1>1 DEF TypeOK, Wrapped
<1> QED
  BY <1>1, <1>2 DEF TypeOK

\* Every step keeps the three parts of the invariant that are not types.
LEMMA OwnershipStep ==
  IInv /\ [Next]_vars => Wrapped' /\ HandedOver' /\ OneAnswer'
<1> SUFFICES ASSUME IInv, [Next]_vars
             PROVE  Wrapped' /\ HandedOver' /\ OneAnswer'
  OBVIOUS
<1> DEFINE Kept == Wrapped' /\ HandedOver' /\ OneAnswer'
<1>0. /\ TypeOK /\ Wrapped /\ HandedOver /\ OneAnswer
      /\ faults \in Nat
  BY HttpAssumption DEF IInv, TypeOK
<1> USE DEF handler, evhttp
<1>1. ASSUME NEW r \in Reqs, Send(r) PROVE Kept
  <2>1. \A q \in Reqs : /\ pc'[q] = IF q = r THEN "sent" ELSE pc[q]
                        /\ q # r => input'[q] = input[q]
    BY <1>0, <1>1 DEF Send, TypeOK
  <2>2. input'[r] \in Inputs
    BY <1>0, <1>1 DEF Send, TypeOK
  <2>3. Wrapped'
    BY <1>0, <1>1, <2>1, <2>2 DEF Send, Wrapped
  <2>4. HandedOver'
    BY <1>0, <1>1, <2>1 DEF Send, HandedOver
  <2> QED
    BY <1>0, <1>1, <2>3, <2>4 DEF Send, OneAnswer
<1>2. ASSUME NEW r \in Reqs, Accept(r) PROVE Kept
  <2>1. PICK x \in {"called", "returned"} : pc' = [pc EXCEPT ![r] = x]
    BY <1>2 DEF Accept
  <2> QED
    BY <1>2, <2>1, OwnedStep DEF Accept
<1>3. ASSUME NEW r \in Reqs,
             RefuseMethod(r) \/ RefuseUnauthorized(r) \/ RefuseBody(r) \/ ExecSingle(r)
               \/ FinishBatch(r)
      PROVE  Kept
  <2>1. /\ pc[r] \in {"called", "batch"} /\ pc' = [pc EXCEPT ![r] = "write"]
        /\ UNCHANGED <<input, req, replySent, active, answer>>
    BY <1>3 DEF RefuseMethod, RefuseUnauthorized, RefuseBody, ExecSingle, FinishBatch,
                Authorized, JSONErrorReply, CallWriteReply
  <2>2. req' = [req EXCEPT ![r] = TRUE]
    BY <2>1, KeepsRequest
  <2> QED
    BY <2>1, <2>2, OwnedStep
<1>4. ASSUME NEW r \in Reqs, EnterBatch(r) \/ AddBody(r) \/ NewEvent(r)
      PROVE  Kept
  <2>1. /\ pc[r] \in {"called", "write", "event"}
        /\ UNCHANGED <<input, req, replySent, active, answer>>
    BY <1>4 DEF EnterBatch, AddBody, NewEvent, Authorized
  <2>2. PICK x \in {"batch", "event", "trigger"} : pc' = [pc EXCEPT ![r] = x]
    BY <1>4 DEF EnterBatch, AddBody, NewEvent
  <2>3. req' = [req EXCEPT ![r] = TRUE]
    BY <2>1, KeepsRequest
  <2> QED
    BY <2>1, <2>2, <2>3, OwnedStep
<1>5. ASSUME NEW r \in Reqs, NewEventThrows(r) PROVE Kept
  <2>1. CASE pc' = [pc EXCEPT ![r] = "write"]
    <3>1. pc[r] = "event" /\ UNCHANGED <<input, req, replySent, active, answer>>
      BY <1>5 DEF NewEventThrows
    <3>2. req' = [req EXCEPT ![r] = TRUE]
      BY <3>1, KeepsRequest
    <3> QED
      BY <2>1, <3>1, <3>2, OwnedStep
  <2>2. CASE pc' = pc
    BY <1>0, <1>5, <2>2 DEF NewEventThrows, Wrapped, HandedOver, OneAnswer
  <2> QED
    BY <1>5, <2>1, <2>2 DEF NewEventThrows, JSONErrorReply, CallWriteReply
<1>6. ASSUME NEW r \in Reqs, ExecNext(r) \/ NoEvent(r) PROVE Kept
  BY <1>0, <1>6 DEF ExecNext, NoEvent, Wrapped, HandedOver, OneAnswer
<1>7. ASSUME NEW r \in Reqs, Trigger(r) PROVE Kept
  <2> DEFINE e == [req |-> r, status |-> reply[r].status]
  <2>1. /\ pc[r] = "trigger" /\ UNCHANGED <<input, req, replySent, answer>>
        /\ \A q \in Reqs : pc'[q] = IF q = r THEN "mark" ELSE pc[q]
    BY <1>0, <1>7 DEF Trigger, TypeOK
  <2>2. Wrapped'
    BY <1>0, <2>1 DEF Wrapped
  <2>3. answer[r] = <<>> /\ \A i \in DOMAIN active : active[i].req # r
    BY <1>0, <2>1 DEF HandedOver
  <2>4. CASE active' = Append(active, e)
    <3>1. /\ active \in Seq(Event) /\ Len(active) \in Nat
          /\ DOMAIN active = 1..Len(active) /\ e.req = r
      BY <1>0 DEF TypeOK
    <3> HIDE DEF e
    <3>2. /\ DOMAIN active' = 1..(Len(active) + 1)
          /\ \A i \in DOMAIN active : active'[i] = active[i]
          /\ active'[Len(active) + 1] = e
      BY <2>4, <3>1
    <3>3. \A i \in DOMAIN active' : i \in DOMAIN active \/ i = Len(active) + 1
      BY <3>1, <3>2
    <3>4. OneAnswer'
      BY <1>0, <2>1, <2>3, <3>1, <3>2, <3>3 DEF OneAnswer
    <3>5. HandedOver'
      BY <1>0, <2>1, <3>1, <3>2, <3>3 DEF HandedOver
    <3> QED
      BY <2>2, <3>4, <3>5
  <2>5. CASE active' = active
    BY <1>0, <2>1, <2>2, <2>5 DEF OneAnswer, HandedOver
  <2> QED
    BY <1>7, <2>4, <2>5 DEF Trigger
<1>8. ASSUME NEW r \in Reqs, MarkSent(r) PROVE Kept
  <2>1. /\ pc[r] = "mark" /\ UNCHANGED <<input, active, answer>>
        /\ pc'[r] \in {"gone", "returned"} /\ replySent'[r] = TRUE /\ req'[r] = FALSE
        /\ \A q \in Reqs \ {r} :
             pc'[q] = pc[q] /\ req'[q] = req[q] /\ replySent'[q] = replySent[q]
    BY <1>0, <1>8 DEF MarkSent, TypeOK
  <2>2. Wrapped'
    BY <1>0, <2>1 DEF Wrapped
  <2>3. HandedOver'
    BY <1>0, <2>1 DEF HandedOver
  <2> QED
    BY <1>0, <2>1, <2>2, <2>3 DEF OneAnswer
<1>9. ASSUME NEW r \in Reqs, Destroy(r) PROVE Kept
  <2>1. pc[r] = "returned" /\ UNCHANGED <<input, req, replySent, active, answer>>
    BY <1>9 DEF Destroy
  <2>2. CASE replySent[r] /\ pc' = [pc EXCEPT ![r] = "gone"]
    <3>1. \A q \in Reqs : pc'[q] = IF q = r THEN "gone" ELSE pc[q]
      BY <1>0, <2>2 DEF TypeOK
    <3> QED
      BY <1>0, <2>1, <2>2, <3>1 DEF Wrapped, HandedOver, OneAnswer
  <2>3. CASE ~ replySent[r] /\ pc' = [pc EXCEPT ![r] = "write"]
    <3>1. req' = [req EXCEPT ![r] = TRUE]
      BY <2>1, <2>3, KeepsRequest
    <3> QED
      BY <2>1, <2>3, <3>1, OwnedStep
  <2> QED
    BY <1>9, <2>2, <2>3 DEF Destroy, CallWriteReply
<1>10. ASSUME RunEvent PROVE Kept
  <2> DEFINE r == active[1].req
  <2>1. /\ active \in Seq(Event) /\ active # <<>> /\ active' = Tail(active)
        /\ answer \in [Reqs -> Seq(Sent)] /\ r \in Reqs
        /\ UNCHANGED <<input, pc, req, replySent>>
    <3>1. /\ active \in Seq(Event) /\ active # <<>> /\ active' = Tail(active)
          /\ answer \in [Reqs -> Seq(Sent)]
          /\ UNCHANGED <<input, pc, req, replySent>>
      BY <1>0, <1>10 DEF RunEvent, TypeOK
    <3>2. active[1] \in Event
      BY <3>1
    <3> QED
      BY <3>1, <3>2 DEF Event
  <2>2. PICK a : answer' = [answer EXCEPT ![r] = Append(answer[r], a)]
    <3>1. Head(active) = active[1]
      BY <2>1
    <3>2. answer' = [answer EXCEPT ![r] =
            Append(answer[r], [status |-> active[1].status, headers |-> out[r].headers,
                               bodies |-> out[r].bodies])]
      BY <1>10, <3>1 DEF RunEvent
    <3> QED
      BY <3>2
  <2>3. /\ Len(active) \in Nat \ {0} /\ DOMAIN active = 1..Len(active)
        /\ DOMAIN active' = 1..(Len(active) - 1)
        /\ \A i \in DOMAIN active' : active'[i] = active[i + 1]
        /\ \A i \in DOMAIN active' : i + 1 \in DOMAIN active /\ i + 1 # 1
        /\ 1 \in DOMAIN active
    BY <2>1
  <2>4. answer[r] = <<>>
    BY <1>0, <2>3 DEF OneAnswer
  <2>5. Len(answer'[r]) <= 1 /\ \A q \in Reqs : q # r => answer'[q] = answer[q]
    BY <2>1, <2>2, <2>4
  <2>6. \A i \in DOMAIN active' : active'[i].req # r
    BY <1>0, <2>3 DEF OneAnswer
  <2>7. \A i \in DOMAIN active' : active'[i].req \in Reqs
    <3>1. \A i \in DOMAIN active : active[i] \in Event
      BY <2>1
    <3> QED
      BY <2>3, <3>1 DEF Event
  <2> HIDE DEF r
  <2>8. OneAnswer'
    <3>1. ASSUME NEW i \in DOMAIN active', NEW j \in DOMAIN active',
                 active'[i].req = active'[j].req
          PROVE  i = j
      <4>1. i + 1 = j + 1
        BY <1>0, <2>3, <3>1 DEF OneAnswer
      <4> QED
        BY <2>3, <4>1
    <3>2. \A i \in DOMAIN active' : answer'[active'[i].req] = <<>>
      BY <1>0, <2>3, <2>5, <2>6, <2>7 DEF OneAnswer
    <3>3. \A q \in Reqs : Len(answer'[q]) <= 1
      <4> TAKE q \in Reqs
      <4>1. Len(answer[q]) <= 1
        BY <1>0 DEF OneAnswer
      <4>2. CASE q = r
        BY <2>5, <4>2
      <4>3. CASE q # r
        BY <2>5, <4>1, <4>3
      <4> QED
        BY <4>2, <4>3
    <3> QED
      BY <3>1, <3>2, <3>3 DEF OneAnswer
  <2>9. HandedOver'
    <3> SUFFICES ASSUME NEW q \in Reqs,
                        answer'[q] # <<>> \/ \E i \in DOMAIN active' : active'[i].req = q
                 PROVE  pc[q] \in {"mark", "gone"} \/ (pc[q] = "returned" /\ replySent[q])
      BY <2>1 DEF HandedOver
    <3>1. answer[q] # <<>> \/ \E i \in DOMAIN active : active[i].req = q
      BY <2>3, <2>5 DEF r
    <3> QED
      BY <1>0, <3>1 DEF HandedOver
  <2>10. Wrapped'
    BY <1>0, <2>1 DEF Wrapped
  <2> QED
    BY <2>8, <2>9, <2>10
<1>11. ASSUME Block \/ UNCHANGED vars PROVE Kept
  <2>1. UNCHANGED <<input, pc, req, replySent, active, answer>>
    BY <1>11 DEF Block, vars
  <2> QED
    BY <1>0, <2>1 DEF Wrapped, HandedOver, OneAnswer
<1>12. Kept
  BY <1>1, <1>2, <1>3, <1>4, <1>5, <1>6, <1>7, <1>8, <1>9, <1>10, <1>11 DEF Next, Step
<1> QED
  BY <1>12

\* The invariant holds in every reachable state.
LEMMA Invariance == Spec => []IInv
<1>1. Init => IInv
  <2> SUFFICES ASSUME Init PROVE IInv
    OBVIOUS
  <2>1. Text("none") \in Body
    BY TextType
  <2>2. NoReply \in WriteArgs
    BY <2>1 DEF NoReply, WriteArgs
  <2>3. [headers |-> <<>>, bodies |-> <<>>] \in Output
    BY EmptySeq DEF Output
  <2>4. <<>> \in Seq(ReplyObj) /\ <<>> \in Seq(Event) /\ <<>> \in Seq(Sent)
    BY EmptySeq
  <2>5. 0 \in 0..MaxFaults
    BY HttpAssumption
  <2>6. TypeOK
    BY <2>2, <2>3, <2>4, <2>5, NullIdAssumption DEF Init, TypeOK, Places
  <2> QED
    BY <2>6 DEF Init, IInv, Wrapped, HandedOver, OneAnswer
<1>2. IInv /\ [Next]_vars => IInv'
  BY TypeStep, OwnershipStep DEF IInv
<1> QED
  BY <1>1, <1>2, PTL DEF Spec
-----------------------------------------------------------------------------
\* The variables of the request path keep their types.
THEOREM TypeCorrect == Spec => []TypeOK
<1>1. IInv => TypeOK
  BY DEF IInv
<1> QED
  BY Invariance, <1>1, PTL

\* No request is answered twice, whatever fails in WriteReply.
THEOREM AtMostOneAnswer == Spec => []OneAnswer
<1>1. IInv => OneAnswer
  BY DEF IInv
<1> QED
  BY Invariance, <1>1, PTL

\* No handler and no ~HTTPRequest touches a request after handing it over.
THEOREM NothingAfterHandOver == Spec => []HandedOver
<1>1. IInv => HandedOver
  BY DEF IInv
<1> QED
  BY Invariance, <1>1, PTL

\* The assertion of WriteReply cannot fail, whatever allocations have failed
\* before, in the second WriteReply of a catch block or of ~HTTPRequest either.
THEOREM NeverAsserts == Spec => []AssertionHolds
<1>1. IInv => AssertionHolds
  BY DEF IInv, Wrapped, AssertionHolds
<1> QED
  BY Invariance, <1>1, PTL
-----------------------------------------------------------------------------
(* The refinement of RpcService.                                           *)

LessNat == {p \in Nat \X Nat : p[1] < p[2]}

\* A set of numbers has a least one, and one below a bound a greatest.
LEMMA Least ==
  ASSUME NEW D, D \subseteq Nat, D # {}
  PROVE  \E d \in D : \A e \in D : d <= e
<1>1. OpToRel(<, Nat) = LessNat
  BY DEF OpToRel, LessNat
<1>2. PICK d \in D : \A e \in D : ~ (<<e, d>> \in LessNat)
  BY <1>1, NatLessThanWellFounded, WFMin
<1>3. ASSUME NEW e \in D, e < d PROVE FALSE
  <2>1. <<e, d>> \in Nat \X Nat
    OBVIOUS
  <2> QED BY <1>2, <1>3, <2>1 DEF LessNat
<1> QED BY <1>3

LEMMA Greatest ==
  ASSUME NEW n \in Nat, NEW T, T \subseteq 1..n, T # {}
  PROVE  \E i \in T : \A j \in T : j <= i
<1> DEFINE D == {n - i : i \in T}
<1>1. D \subseteq Nat
  OBVIOUS
<1>2. D # {}
  <2>1. PICK i \in T : TRUE
    OBVIOUS
  <2>2. n - i \in D
    BY <2>1
  <2> QED
    BY <2>2
<1>3. PICK d \in D : \A e \in D : d <= e
  <2> HIDE DEF D
  <2> QED BY <1>1, <1>2, Least
<1>4. PICK i \in T : d = n - i
  BY <1>3
<1>5. ASSUME NEW j \in T PROVE j <= i
  <2>1. d <= n - j
    BY <1>3
  <2> QED
    BY <1>4, <1>5, <2>1
<1> QED
  BY <1>5

\* The last member of a name that is there.
LEMMA ValueOfGiven ==
  ASSUME NEW S, NEW keys \in Seq(S), NEW name, name \in Range(keys)
  PROVE  ValueOf(keys, name) \in 1..Len(keys)
<1> DEFINE T == {i \in 1..Len(keys) : keys[i] = name}
<1>1. Len(keys) \in Nat /\ DOMAIN keys = 1..Len(keys)
  OBVIOUS
<1>2. T # {}
  BY <1>1 DEF Range
<1>3. PICK i \in T : \A j \in T : j <= i
  BY <1>1, <1>2, Greatest
<1>4. ValueOf(keys, name) \in DOMAIN keys
  BY <1>1, <1>3 DEF ValueOf
<1> QED
  BY <1>1, <1>4

\* The service's own copies of the contract's operators are the same.
LEMMA SameValueOf ==
  ASSUME NEW keys, NEW name
  PROVE  Service!ValueOf(keys, name) = ValueOf(keys, name) /\ Service!Range(keys) = Range(keys)
BY DEF Service!ValueOf, ValueOf, Service!Range, Range

\* An argument list of one argument without aliases.
LEMMA OneArgument ==
  ASSUME NEW keys, NEW name, NEW argNames, argNames = << <<name>> >>
  PROVE  /\ UnknownNames(keys, argNames) = Range(keys) \ {name}
         /\ name \in Range(keys) =>
              PositionalVector(keys, argNames) = [p \in 1..1 |-> ValueOf(keys, name)]
         /\ name \notin Range(keys) =>
              PositionalVector(keys, argNames) = [p \in 1..0 |-> NullArg]
<1>1. DOMAIN argNames = {1} /\ argNames[1] = <<name>> /\ DOMAIN <<name>> = {1} /\ <<name>>[1] = name
  OBVIOUS
<1>2. Given(keys, argNames[1]) <=> name \in Range(keys)
  BY <1>1 DEF Given
<1>3. name \in Range(keys) => ChosenName(keys, argNames[1]) = name
  BY <1>1 DEF ChosenName
<1>4. GivenPositions(keys, argNames) = IF name \in Range(keys) THEN {1} ELSE {}
  BY <1>1, <1>2 DEF GivenPositions
<1>5. UnknownNames(keys, argNames) = Range(keys) \ {name}
  <2>1. CASE name \in Range(keys)
    BY <1>3, <1>4, <2>1 DEF UnknownNames
  <2>2. CASE name \notin Range(keys)
    BY <1>4, <2>2 DEF UnknownNames
  <2> QED
    BY <2>1, <2>2
<1>6. ASSUME name \in Range(keys)
      PROVE  PositionalVector(keys, argNames) = [p \in 1..1 |-> ValueOf(keys, name)]
  <2>1. LastGiven(keys, argNames) = 1
    BY <1>4, <1>6 DEF LastGiven
  <2>2. \A p \in 1..1 : p = 1
    OBVIOUS
  <2> QED
    BY <1>2, <1>3, <1>6, <2>1, <2>2 DEF PositionalVector
<1>7. ASSUME name \notin Range(keys)
      PROVE  PositionalVector(keys, argNames) = [p \in 1..0 |-> NullArg]
  <2>1. LastGiven(keys, argNames) = 0
    BY <1>4, <1>7 DEF LastGiven
  <2>2. \A p \in 1..0 : FALSE
    OBVIOUS
  <2> QED
    BY <2>1, <2>2 DEF PositionalVector
<1> QED
  BY <1>5, <1>6, <1>7

\* ... and of none.
LEMMA NoArguments ==
  ASSUME NEW keys
  PROVE  UnknownNames(keys, <<>>) = Range(keys)
<1>1. DOMAIN <<>> = {}
  OBVIOUS
<1> QED
  BY <1>1 DEF UnknownNames, GivenPositions
-----------------------------------------------------------------------------
(* One call: what the code ends with is what the service promises.         *)

Command(m) == m \in {"getrpcinfo", "help", "stop", "uptime"}

LEMMA Commands ==
  /\ \A m : m \in mapCommands <=> Command(m)
  /\ vRPCCommands["getrpcinfo"] = <<>> /\ vRPCCommands["uptime"] = <<>>
  /\ vRPCCommands["help"] = << <<"command">> >> /\ vRPCCommands["stop"] = << <<"wait">> >>
BY DEF mapCommands, vRPCCommands, Command

LEMMA SameConstants ==
  /\ Service!vRPCCommands = vRPCCommands /\ Service!mapCommands = mapCommands
  /\ Service!NoError = NoError /\ Service!RPC_MISC_ERROR = RPC_MISC_ERROR
  /\ Service!RPC_INVALID_PARAMETER = RPC_INVALID_PARAMETER
  /\ Service!RPC_INVALID_REQUEST = RPC_INVALID_REQUEST
  /\ Service!RPC_METHOD_NOT_FOUND = RPC_METHOD_NOT_FOUND
  /\ Service!RPC_PARSE_ERROR = RPC_PARSE_ERROR
  /\ Service!NullResult = NullResult
BY DEF Service!vRPCCommands, vRPCCommands, Service!mapCommands, mapCommands,
       Service!NoError, NoError, Service!RPC_MISC_ERROR, RPC_MISC_ERROR,
       Service!RPC_INVALID_PARAMETER, RPC_INVALID_PARAMETER,
       Service!RPC_INVALID_REQUEST, RPC_INVALID_REQUEST,
       Service!RPC_METHOD_NOT_FOUND, RPC_METHOD_NOT_FOUND,
       Service!RPC_PARSE_ERROR, RPC_PARSE_ERROR, Service!NullResult, NullResult

\* A name the service does not take is one transformNamedArguments leaves over.
LEMMA SameUnknown ==
  ASSUME NEW call \in Call, Command(call.method)
  PROVE  UnknownNames(call.keys, vRPCCommands[call.method]) # {}
           <=> \E name \in Range(call.keys) : ~ Service!Takes(call, name)
<1> DEFINE argNames == vRPCCommands[call.method]
<1>1. ASSUME NEW name
      PROVE  Service!Takes(call, name) <=>
               \E n \in DOMAIN argNames : name \in Range(argNames[n])
  BY SameConstants, SameValueOf DEF Service!Takes
<1>2. ASSUME NEW n, argNames = << <<n>> >>
      PROVE  UnknownNames(call.keys, argNames) = Range(call.keys) \ {n}
             /\ \A name : Service!Takes(call, name) <=> name = n
  <2>1. DOMAIN argNames = {1} /\ argNames[1] = <<n>> /\ Range(<<n>>) = {n}
    BY <1>2 DEF Range
  <2> HIDE DEF argNames
  <2>2. UnknownNames(call.keys, argNames) = Range(call.keys) \ {n}
    BY <1>2, OneArgument
  <2> QED
    BY <1>1, <2>1, <2>2
<1>3. ASSUME argNames = <<>>
      PROVE  UnknownNames(call.keys, argNames) = Range(call.keys)
             /\ \A name : ~ Service!Takes(call, name)
  <2>1. DOMAIN argNames = {}
    BY <1>3
  <2> HIDE DEF argNames
  <2>2. UnknownNames(call.keys, argNames) = Range(call.keys)
    BY <1>3, NoArguments
  <2> QED
    BY <1>1, <2>1, <2>2
<1>4. argNames = <<>> \/ \E n : argNames = << <<n>> >>
  BY Commands DEF Command
<1> HIDE DEF argNames
<1>5. CASE argNames = <<>>
  BY <1>3, <1>5 DEF argNames
<1>6. CASE \E n : argNames = << <<n>> >>
  BY <1>2, <1>6 DEF argNames
<1> QED
  BY <1>4, <1>5, <1>6

\* help finds its argument where the service looks for it.
LEMMA SameArgument ==
  ASSUME NEW call \in Call, call.method = "help", call.shape # "other"
  PROVE  ActorThrows("help", Positional(call))
           <=> Service!ArgumentOf(call, 1) \notin {"str", "absent"}
<1>0. /\ call.keys \in Seq(Names) /\ call.values \in Seq({"str", "num", "null"})
      /\ call.shape = "object" => Len(call.keys) = Len(call.values)
      /\ call.shape \in Shapes
  BY DEF Call
<1>1. CASE call.shape = "array"
  <2>1. Positional(call) = call.values
    BY <1>1 DEF Positional
  <2>2. Service!ArgumentOf(call, 1) =
          IF 1 \in DOMAIN call.values THEN call.values[1] ELSE "absent"
    BY <1>1 DEF Service!ArgumentOf
  <2>3. 1 \in DOMAIN call.values <=> Len(call.values) > 0
    BY <1>0
  <2>4. 1 \in DOMAIN call.values => call.values[1] # "absent"
    BY <1>0
  <2> QED
    BY <2>1, <2>2, <2>3, <2>4 DEF ActorThrows
<1>2. CASE call.shape = "null"
  <2>1. Positional(call) = <<>>
    BY <1>2 DEF Positional
  <2>2. Service!ArgumentOf(call, 1) = "absent"
    BY <1>2 DEF Service!ArgumentOf
  <2> QED
    BY <2>1, <2>2 DEF ActorThrows
<1>3. CASE call.shape = "object"
  <2> DEFINE v == PositionalVector(call.keys, vRPCCommands[call.method])
             w == Positional(call)
  <2>1. w = [p \in DOMAIN v |-> IF v[p] = NullArg THEN "null" ELSE call.values[v[p]]]
    BY <1>3 DEF Positional
  <2>2. vRPCCommands[call.method] = << <<"command">> >>
    BY Commands
  <2>3. Service!ArgumentOf(call, 1) =
          IF "command" \in Range(call.keys)
          THEN call.values[ValueOf(call.keys, "command")] ELSE "absent"
    BY <1>3, <2>2, SameConstants, SameValueOf DEF Service!ArgumentOf
  <2>4. CASE "command" \in Range(call.keys)
    <3> DEFINE i == ValueOf(call.keys, "command")
    <3>1. i \in 1..Len(call.values)
      BY <1>0, <1>3, <2>4, ValueOfGiven
    <3>2. v = [p \in 1..1 |-> i]
      BY <2>2, <2>4, OneArgument
    <3> HIDE DEF i, v
    <3>3. w = [p \in 1..1 |-> call.values[i]]
      BY <2>1, <3>1, <3>2 DEF NullArg
    <3> HIDE DEF w
    <3>4. Len(w) = 1 /\ w[1] = call.values[i]
      BY <3>3
    <3>5. call.values[i] # "absent"
      BY <1>0, <3>1
    <3> QED
      BY <2>3, <2>4, <3>4, <3>5 DEF ActorThrows, i, w
  <2>5. CASE "command" \notin Range(call.keys)
    <3>1. v = [p \in 1..0 |-> NullArg]
      BY <2>2, <2>5, OneArgument
    <3> HIDE DEF v
    <3>2. Len(w) = 0
      BY <2>1, <3>1
    <3> QED
      BY <2>3, <2>5, <3>2 DEF ActorThrows
  <2> QED
    BY <2>4, <2>5
<1> QED
  BY <1>0, <1>1, <1>2, <1>3 DEF Shapes

\* parse and execute find the error the service names.
LEMMA SameError ==
  ASSUME NEW n \in Ids, NEW call \in Call
  PROVE  Run(n, call).error = Service!ErrorOf(call)
<1> DEFINE malformed == ~ call.isObject \/ call.method \in {"missing", "notString"}
                          \/ call.shape = "other"
<1>1. /\ Service!WellFormed(call) <=> ~ malformed
      /\ call.isObject \in BOOLEAN
  BY DEF Service!WellFormed, Call
<1>2. CASE malformed
  <2>1. Run(n, call).error = RPC_INVALID_REQUEST
    BY <1>2 DEF Run, Parse, RPC_INVALID_REQUEST, NoError
  <2>2. Service!ErrorOf(call) = RPC_INVALID_REQUEST
    BY <1>1, <1>2, SameConstants DEF Service!ErrorOf
  <2> QED
    BY <2>1, <2>2
<1>3. CASE ~ malformed
  <2>1. Run(n, call).error = Execute(call)
    BY <1>1, <1>3 DEF Run, Parse, NoError
  <2>2. CASE ~ Command(call.method)
    <3>1. Execute(call) = RPC_METHOD_NOT_FOUND
      BY <2>2, Commands DEF Execute
    <3>2. Service!ErrorOf(call) = RPC_METHOD_NOT_FOUND
      BY <1>1, <1>3, <2>2, Commands, SameConstants DEF Service!ErrorOf
    <3> QED
      BY <2>1, <3>1, <3>2
  <2>3. CASE Command(call.method)
    <3> DEFINE surplus == call.shape = "object"
                            /\ \E name \in Range(call.keys) : ~ Service!Takes(call, name)
               throws == call.method = "help"
                           /\ Service!ArgumentOf(call, 1) \notin {"str", "absent"}
    <3>1. ActorThrows(call.method, Positional(call)) <=> throws
      <4>1. CASE call.method = "help"
        BY <1>3, <4>1, SameArgument
      <4>2. CASE call.method # "help"
        BY <4>2 DEF ActorThrows
      <4> QED
        BY <4>1, <4>2
    <3>2. Execute(call) = IF surplus THEN RPC_INVALID_PARAMETER
                          ELSE IF throws THEN RPC_MISC_ERROR ELSE NoError
      BY <2>3, <3>1, Commands, SameUnknown DEF Execute
    <3>3. call.shape = "object" =>
            (surplus <=> \E name \in Service!Range(call.keys) : ~ Service!Takes(call, name))
      BY SameValueOf
    <3> HIDE DEF throws
    <3>4. Service!ErrorOf(call) = IF surplus THEN RPC_INVALID_PARAMETER
                                  ELSE IF throws THEN RPC_MISC_ERROR ELSE NoError
      BY <1>1, <1>3, <2>3, <3>3, Commands, SameConstants DEF Service!ErrorOf, throws
    <3> QED
      BY <2>1, <3>2, <3>4
  <2> QED
    BY <2>2, <2>3
<1> QED
  BY <1>2, <1>3

\* Under its own id, or null where it has none.
LEMMA SameReply ==
  ASSUME NEW call \in Call
  PROVE  /\ Run(NullId, call).id = Service!ReplyTo(call).id
         /\ Run(NullId, call).error = Service!ReplyTo(call).error
         /\ JSONRPCExecOne(NullId, call) = Service!ReplyTo(call)
<1>1. Run(NullId, call).error = Service!ErrorOf(call)
  BY SameError, NullIdAssumption
<1>2. Run(NullId, call).id = IF call.isObject THEN call.id ELSE NullId
  BY DEF Run, Parse
<1> QED
  BY <1>1, <1>2, SameConstants DEF Service!ReplyTo, JSONRPCExecOne, JSONRPCReplyObj
-----------------------------------------------------------------------------
(* The request: the answer the code is about to give, place by place.      *)

Rightly(r, status, headers, bodies) ==
  Service!AnswerTo(input[r]) = [status |-> status, headers |-> headers, bodies |-> bodies]

Untouched(r) == out[r] = [headers |-> <<>>, bodies |-> <<>>] /\ id[r] = NullId

AtPlace(r) ==
  /\ pc[r] = "quiet" => input[r] = NoInput
  /\ pc[r] \in {"quiet", "sent", "called", "batch"} => Untouched(r)
  /\ pc[r] \in {"quiet", "sent", "called"} => results[r] = <<>>
  /\ pc[r] \in {"called", "batch"} => input[r].known
  /\ pc[r] = "batch" =>
       /\ input[r].method = "POST" /\ input[r].auth /\ input[r].form = "array"
       /\ Len(results[r]) <= Len(input[r].calls)
       /\ \A i \in DOMAIN results[r] : results[r][i] = Service!ReplyTo(input[r].calls[i])
  /\ pc[r] = "write" =>
       out[r].bodies = <<>> /\ Rightly(r, reply[r].status, out[r].headers, <<reply[r].body>>)
  /\ pc[r] \in {"event", "trigger"} =>
       Rightly(r, reply[r].status, out[r].headers, out[r].bodies)
  /\ pc[r] = "returned" /\ ~ replySent[r] => ~ input[r].known /\ Untouched(r)

InEvents(r) ==
  \A i \in DOMAIN active :
    active[i].req = r => Rightly(r, active[i].status, out[r].headers, out[r].bodies)

AnswersRightly == \A r \in Reqs : AtPlace(r) /\ InEvents(r)

\* A step leaves what is known of the other requests as it is.
LEMMA Others ==
  ASSUME NEW q \in Reqs, AtPlace(q), InEvents(q),
         pc'[q] = pc[q], input'[q] = input[q], out'[q] = out[q], id'[q] = id[q],
         results'[q] = results[q], replySent'[q] = replySent[q], reply'[q] = reply[q],
         \A i \in DOMAIN active' :
           active'[i].req = q => \E j \in DOMAIN active : active'[i] = active[j]
  PROVE  AtPlace(q)' /\ InEvents(q)'
<1>1. AtPlace(q)'
  BY DEF AtPlace, Untouched, Rightly
<1>2. InEvents(q)'
  BY DEF InEvents, Rightly
<1> QED
  BY <1>1, <1>2

\* The answers the service gives, as the code would write them.
LEMMA AnswerCases ==
  ASSUME NEW in \in Input
  PROVE  LET answerTo == Service!AnswerTo(in)
             single   == Service!ReplyTo(in.calls[1])
         IN  IF ~ in.known
             THEN answerTo = [status |-> 500, headers |-> <<>>, bodies |-> <<Text("unhandled")>>]
             ELSE IF in.method # "POST"
             THEN answerTo = [status |-> 405, headers |-> <<>>, bodies |-> <<Text("notPost")>>]
             ELSE IF ~ in.auth
             THEN answerTo = [status |-> 401, headers |-> <<"WWW-Authenticate">>,
                              bodies |-> <<Text("empty")>>]
             ELSE IF in.form = "array"
             THEN answerTo = [status |-> 200, headers |-> <<"Content-Type">>,
                              bodies |-> <<Batch([i \in DOMAIN in.calls |->
                                                    Service!ReplyTo(in.calls[i])])>>]
             ELSE IF in.form = "object"
             THEN answerTo = [status |-> IF single.error = NoError THEN 200
                                         ELSE ErrorStatus(single.error),
                              headers |-> <<"Content-Type">>, bodies |-> <<Single(single)>>]
             ELSE answerTo = [status |-> 500, headers |-> <<"Content-Type">>,
                              bodies |-> <<Single(JSONRPCReplyObj(NullResult, RPC_PARSE_ERROR, NullId))>>]
<1> DEFINE single == Service!ReplyTo(in.calls[1])
<1>1. /\ \A t : Service!Text(t) = Text(t)
      /\ \A o : Service!Single(o) = Single(o)
      /\ \A o : Service!Batch(o) = Batch(o)
  BY DEF Service!Text, Text, Service!Single, Single, Service!Batch, Batch
<1>2. Service!ParseFailure = JSONRPCReplyObj(NullResult, RPC_PARSE_ERROR, NullId)
  BY SameConstants DEF Service!ParseFailure, JSONRPCReplyObj, RPC_PARSE_ERROR, NoError
<1>3. in.form \in {"object", "array", "scalar", "none"}
  BY DEF Input
<1>4. in.form = "object" =>
        Service!AnswerToCalls(in) =
          [status |-> IF single.error = NoError THEN 200 ELSE ErrorStatus(single.error),
           headers |-> <<"Content-Type">>, bodies |-> <<Single(single)>>]
  BY <1>1, SameConstants
  DEF Service!AnswerToCalls, Service!Answer, Service!Json, ErrorStatus,
      NoError, RPC_INVALID_REQUEST, RPC_METHOD_NOT_FOUND
<1>5. in.form = "array" =>
        Service!AnswerToCalls(in) =
          [status |-> 200, headers |-> <<"Content-Type">>,
           bodies |-> <<Batch([i \in DOMAIN in.calls |-> Service!ReplyTo(in.calls[i])])>>]
  BY <1>1 DEF Service!AnswerToCalls, Service!Answer, Service!Json
<1>6. in.form \notin {"object", "array"} =>
        Service!AnswerToCalls(in) =
          [status |-> 500, headers |-> <<"Content-Type">>,
           bodies |-> <<Single(JSONRPCReplyObj(NullResult, RPC_PARSE_ERROR, NullId))>>]
  BY <1>1, <1>2 DEF Service!AnswerToCalls, Service!Answer, Service!Json
<1> QED
  BY <1>1, <1>3, <1>4, <1>5, <1>6 DEF Service!AnswerTo, Service!Answer

\* What the other requests see of a step of one of them.
Apart(r) ==
  \A q \in Reqs \ {r} :
    /\ pc'[q] = pc[q] /\ input'[q] = input[q] /\ out'[q] = out[q] /\ id'[q] = id[q]
    /\ results'[q] = results[q] /\ replySent'[q] = replySent[q] /\ reply'[q] = reply[q]

\* A step of a handler that still owns its request.
LEMMA HandlerStep ==
  ASSUME IInv, AnswersRightly, NEW r \in Reqs,
         pc[r] \in {"quiet", "sent", "called", "batch", "write", "event"}
           \/ (pc[r] = "returned" /\ ~ replySent[r]),
         active' = active, Apart(r), AtPlace(r)'
  PROVE  AnswersRightly'
<1>1. \A i \in DOMAIN active : active[i].req # r
  BY DEF IInv, HandedOver
<1>2. InEvents(r)'
  BY <1>1 DEF InEvents
<1>3. ASSUME NEW q \in Reqs, q # r PROVE AtPlace(q)' /\ InEvents(q)'
  <2>1. AtPlace(q) /\ InEvents(q)
    BY DEF AnswersRightly
  <2>2. /\ pc'[q] = pc[q] /\ input'[q] = input[q] /\ out'[q] = out[q] /\ id'[q] = id[q]
        /\ results'[q] = results[q] /\ replySent'[q] = replySent[q] /\ reply'[q] = reply[q]
    BY <1>3 DEF Apart
  <2>3. \A i \in DOMAIN active' :
          active'[i].req = q => \E j \in DOMAIN active : active'[i] = active[j]
    OBVIOUS
  <2> QED
    BY <2>1, <2>2, <2>3, Others
<1> QED
  BY <1>2, <1>3 DEF AnswersRightly

\* A call of WriteReply with the right arguments.
LEMMA Calls ==
  ASSUME IInv, AnswersRightly, NEW r \in Reqs,
         pc[r] \in {"called", "batch"} \/ (pc[r] = "returned" /\ ~ replySent[r]),
         NEW status, NEW body, NEW from, CallWriteReply(r, status, body, from),
         NEW headers, NEW newId,
         out' = [out EXCEPT ![r] = [headers |-> headers, bodies |-> <<>>]],
         id' = [id EXCEPT ![r] = newId],
         UNCHANGED <<input, replySent, results, active>>,
         Service!AnswerTo(input[r]) =
           [status |-> status, headers |-> headers, bodies |-> <<body>>]
  PROVE  AnswersRightly'
<1>1. TypeOK
  BY DEF IInv
<1>2. Apart(r)
  BY <1>1 DEF Apart, TypeOK, CallWriteReply
<1>3. /\ pc'[r] = "write" /\ reply'[r] = [status |-> status, body |-> body]
      /\ out'[r] = [headers |-> headers, bodies |-> <<>>] /\ input'[r] = input[r]
  BY <1>1 DEF TypeOK, CallWriteReply
<1>4. Rightly(r, reply[r].status, out[r].headers, <<reply[r].body>>)'
  BY <1>3 DEF Rightly
<1>5. AtPlace(r)'
  BY <1>3, <1>4 DEF AtPlace
<1>6. active' = active
  OBVIOUS
<1> QED
  BY <1>2, <1>5, <1>6, HandlerStep

\* What Untouched says of the output behind a first header.
LEMMA FirstHeader ==
  ASSUME TypeOK, NEW r \in Reqs, Untouched(r), NEW h, WriteHeader(r, h)
  PROVE  out' = [out EXCEPT ![r] = [headers |-> <<h>>, bodies |-> <<>>]]
<1>1. Append(out[r].headers, h) = <<h>>
  BY DEF Untouched
<1>2. [out[r] EXCEPT !.headers = <<h>>] = [headers |-> <<h>>, bodies |-> <<>>]
  BY DEF Untouched
<1>3. out' = [out EXCEPT ![r] = [out[r] EXCEPT !.headers = Append(out[r].headers, h)]]
  BY DEF WriteHeader, TypeOK
<1> QED
  BY <1>1, <1>2, <1>3

LEMMA NothingWritten ==
  ASSUME TypeOK, NEW r \in Reqs, Untouched(r)
  PROVE  out = [out EXCEPT ![r] = [headers |-> <<>>, bodies |-> <<>>]]
BY DEF TypeOK, Untouched

LEMMA SameId ==
  ASSUME TypeOK, NEW r \in Reqs
  PROVE  id = [id EXCEPT ![r] = id[r]]
BY DEF TypeOK

\* Before anything is executed: the client, the driver, a batch that begins.
LEMMA ArrivalStep ==
  ASSUME IInv, AnswersRightly, NEW r \in Reqs, Send(r) \/ Accept(r) \/ EnterBatch(r)
  PROVE  AnswersRightly'
<1>1. TypeOK /\ Wrapped /\ AtPlace(r)
  BY DEF IInv, AnswersRightly
<1> USE DEF handler, evhttp
<1>2. Apart(r) /\ active' = active
  BY <1>1 DEF Apart, TypeOK, Send, Accept, EnterBatch
<1>3. CASE Send(r)
  <2>1. pc[r] = "quiet" /\ pc'[r] = "sent" /\ Untouched(r)' /\ results'[r] = <<>>
    BY <1>1, <1>3 DEF Send, TypeOK, AtPlace, Untouched
  <2>2. AtPlace(r)'
    BY <2>1 DEF AtPlace
  <2> QED
    BY <1>2, <2>1, <2>2, HandlerStep
<1>4. CASE Accept(r)
  <2>1. /\ pc[r] = "sent" /\ pc'[r] = IF input[r].known THEN "called" ELSE "returned"
        /\ Untouched(r)' /\ results'[r] = <<>> /\ input'[r] = input[r]
    BY <1>1, <1>4 DEF Accept, TypeOK, AtPlace, Untouched
  <2>2. AtPlace(r)'
    BY <2>1 DEF AtPlace
  <2> QED
    BY <1>2, <2>1, <2>2, HandlerStep
<1>5. CASE EnterBatch(r)
  <2>1. /\ pc[r] = "called" /\ pc'[r] = "batch"
        /\ Untouched(r)' /\ results'[r] = <<>> /\ input'[r] = input[r]
        /\ input[r].known /\ input[r].method = "POST" /\ input[r].auth /\ input[r].form = "array"
    BY <1>1, <1>5 DEF EnterBatch, Authorized, TypeOK, AtPlace, Untouched
  <2>2. Len(<<>>) <= Len(input[r].calls) /\ DOMAIN <<>> = {}
    <3>1. input[r].calls \in Seq(Call)
      BY <1>1, <2>1, InputType
    <3> QED
      BY <3>1
  <2>3. AtPlace(r)'
    BY <2>1, <2>2 DEF AtPlace
  <2> QED
    BY <1>2, <2>1, <2>3, HandlerStep
<1> QED
  BY <1>3, <1>4, <1>5

\* What is refused without a look at its calls, and what nobody handled.
LEMMA RefusalStep ==
  ASSUME IInv, AnswersRightly, NEW r \in Reqs,
         RefuseMethod(r) \/ RefuseUnauthorized(r) \/ RefuseBody(r)
           \/ (Destroy(r) /\ ~ replySent[r])
  PROVE  AnswersRightly'
<1>1. TypeOK /\ Wrapped /\ AtPlace(r)
  BY DEF IInv, AnswersRightly
<1>2. /\ pc[r] = "called" \/ (pc[r] = "returned" /\ ~ replySent[r])
      /\ UNCHANGED <<input, replySent, id, results, active>>
  BY DEF RefuseMethod, RefuseUnauthorized, RefuseBody, Authorized, Destroy, evhttp
<1>3. /\ input[r] \in Input /\ Untouched(r)
      /\ pc[r] = "called" => input[r].known
      /\ pc[r] = "returned" => ~ input[r].known
  BY <1>1, <1>2, InputType DEF AtPlace
<1>4. id' = [id EXCEPT ![r] = id[r]] /\ id[r] = NullId
  BY <1>1, <1>2, <1>3, SameId DEF Untouched
<1>5. CASE RefuseMethod(r)
  <2> DEFINE body == Text("notPost")
  <2>1. CallWriteReply(r, 405, body, "plain")
    BY <1>5 DEF RefuseMethod
  <2>2. /\ out' = out
        /\ pc[r] = "called" /\ input[r].method # "POST"
    BY <1>5 DEF RefuseMethod
  <2>3. out' = [out EXCEPT ![r] = [headers |-> <<>>, bodies |-> <<>>]]
    BY <1>1, <1>3, <2>2, NothingWritten
  <2>4. Service!AnswerTo(input[r]) =
          [status |-> 405, headers |-> <<>>, bodies |-> <<body>>]
    BY <1>3, <2>2, AnswerCases
  <2> HIDE DEF body
  <2> QED
    BY <1>2, <1>4, <2>1, <2>3, <2>4, Calls
<1>6. CASE RefuseUnauthorized(r)
  <2> DEFINE body == Text("empty")
  <2>1. CallWriteReply(r, 401, body, "plain")
    BY <1>6 DEF RefuseUnauthorized
  <2>2. /\ WriteHeader(r, "WWW-Authenticate")
        /\ pc[r] = "called" /\ input[r].method = "POST" /\ ~ input[r].auth
    BY <1>6 DEF RefuseUnauthorized
  <2>3. out' = [out EXCEPT ![r] = [headers |-> <<"WWW-Authenticate">>, bodies |-> <<>>]]
    BY <1>1, <1>3, <2>2, FirstHeader
  <2>4. Service!AnswerTo(input[r]) =
          [status |-> 401, headers |-> <<"WWW-Authenticate">>, bodies |-> <<body>>]
    BY <1>3, <2>2, AnswerCases
  <2> HIDE DEF body
  <2> QED
    BY <1>2, <1>4, <2>1, <2>3, <2>4, Calls
<1>7. CASE RefuseBody(r)
  <2> DEFINE body == Single(JSONRPCReplyObj(NullResult, RPC_PARSE_ERROR, NullId))
  <2>1. /\ pc[r] = "called" /\ input[r].method = "POST" /\ input[r].auth
        /\ input[r].form \notin {"object", "array"}
        /\ JSONErrorReply(r, RPC_PARSE_ERROR, NullId)
    BY <1>4, <1>7 DEF RefuseBody, Authorized
  <2>2. ErrorStatus(RPC_PARSE_ERROR) = 500
    BY DEF ErrorStatus, RPC_PARSE_ERROR, RPC_INVALID_REQUEST, RPC_METHOD_NOT_FOUND
  <2>3. CallWriteReply(r, 500, body, "catch") /\ WriteHeader(r, "Content-Type")
    BY <2>1, <2>2 DEF JSONErrorReply
  <2>4. out' = [out EXCEPT ![r] = [headers |-> <<"Content-Type">>, bodies |-> <<>>]]
    BY <1>1, <1>3, <2>3, FirstHeader
  <2>5. Service!AnswerTo(input[r]) =
          [status |-> 500, headers |-> <<"Content-Type">>, bodies |-> <<body>>]
    BY <1>3, <2>1, AnswerCases
  <2> HIDE DEF body
  <2> QED
    BY <1>2, <1>4, <2>3, <2>4, <2>5, Calls
<1>8. CASE Destroy(r) /\ ~ replySent[r]
  <2> DEFINE body == Text("unhandled")
  <2>1. CallWriteReply(r, 500, body, "destructor")
    BY <1>8 DEF Destroy
  <2>2. /\ out' = out
        /\ pc[r] = "returned"
    BY <1>8 DEF Destroy
  <2>3. out' = [out EXCEPT ![r] = [headers |-> <<>>, bodies |-> <<>>]]
    BY <1>1, <1>3, <2>2, NothingWritten
  <2>4. Service!AnswerTo(input[r]) =
          [status |-> 500, headers |-> <<>>, bodies |-> <<body>>]
    BY <1>3, <2>2, AnswerCases
  <2> HIDE DEF body
  <2> QED
    BY <1>2, <1>4, <1>8, <2>1, <2>3, <2>4, Calls
<1> QED
  BY <1>5, <1>6, <1>7, <1>8

\* A singleton request.
LEMMA SingleStep ==
  ASSUME IInv, AnswersRightly, NEW r \in Reqs, ExecSingle(r)
  PROVE  AnswersRightly'
<1> DEFINE call   == input[r].calls[1]
           single == Service!ReplyTo(call)
           status == IF single.error = NoError THEN 200 ELSE ErrorStatus(single.error)
           body   == Single(single)
<1>1. TypeOK /\ Wrapped /\ AtPlace(r)
  BY DEF IInv, AnswersRightly
<1>2. /\ pc[r] = "called" /\ input[r].form = "object"
      /\ input[r].method = "POST" /\ input[r].auth
      /\ UNCHANGED <<input, replySent, results, active>>
  BY DEF ExecSingle, Authorized, evhttp
<1>3. /\ input[r] \in Input /\ call \in Call /\ Untouched(r) /\ id[r] = NullId
      /\ input[r].known
  BY <1>1, <1>2, InputType DEF AtPlace, Untouched
<1>4. Service!AnswerTo(input[r]) =
        [status |-> status, headers |-> <<"Content-Type">>, bodies |-> <<body>>]
  BY <1>2, <1>3, AnswerCases
<1>5. Run(NullId, call).id = single.id /\ Run(NullId, call).error = single.error
  BY <1>3, SameReply
<1>6. single = JSONRPCReplyObj(call.method, single.error, single.id)
  BY SameConstants DEF Service!ReplyTo, JSONRPCReplyObj
<1>7. single.error # NoError => single = JSONRPCReplyObj(NullResult, single.error, single.id)
  BY <1>6 DEF JSONRPCReplyObj
<1>8. /\ id' = [id EXCEPT ![r] = single.id]
      /\ \/ /\ single.error = NoError
            /\ WriteHeader(r, "Content-Type")
            /\ CallWriteReply(r, 200,
                 Single(JSONRPCReplyObj(call.method, NoError, single.id)), "try")
         \/ /\ single.error # NoError
            /\ JSONErrorReply(r, single.error, single.id)
  BY <1>3, <1>5 DEF ExecSingle
<1>9. WriteHeader(r, "Content-Type")
  BY <1>8 DEF JSONErrorReply
<1>10. out' = [out EXCEPT ![r] = [headers |-> <<"Content-Type">>, bodies |-> <<>>]]
  BY <1>1, <1>3, <1>9, FirstHeader
<1>11. PICK from : CallWriteReply(r, status, body, from)
  <2>1. CASE single.error = NoError
    <3>1. CallWriteReply(r, 200,
            Single(JSONRPCReplyObj(call.method, single.error, single.id)), "try")
      BY <1>8, <2>1
    <3>2. CallWriteReply(r, status, body, "try")
      BY <1>6, <2>1, <3>1
    <3> QED
      BY <3>2
  <2>2. CASE single.error # NoError
    <3>1. CallWriteReply(r, ErrorStatus(single.error),
            Single(JSONRPCReplyObj(NullResult, single.error, single.id)), "catch")
      BY <1>8, <2>2 DEF JSONErrorReply
    <3>2. CallWriteReply(r, status, body, "catch")
      BY <1>7, <2>2, <3>1
    <3> QED
      BY <3>2
  <2> QED
    BY <2>1, <2>2
<1>12. id' = [id EXCEPT ![r] = single.id]
  BY <1>8
<1>13. pc[r] = "called"
  BY <1>2
<1>14. UNCHANGED <<input, replySent, results, active>>
  BY <1>2
<1> HIDE DEF call, single, status, body
<1> QED
  BY <1>4, <1>10, <1>11, <1>12, <1>13, <1>14, Calls

\* A batch: each call answered for itself, in order.
LEMMA BatchStep ==
  ASSUME IInv, AnswersRightly, NEW r \in Reqs, ExecNext(r) \/ FinishBatch(r)
  PROVE  AnswersRightly'
<1> DEFINE calls == input[r].calls
           n == Len(results[r])
<1>1. TypeOK /\ Wrapped /\ AtPlace(r)
  BY DEF IInv, AnswersRightly
<1>2. pc[r] = "batch"
  BY DEF ExecNext, FinishBatch
<1>3. /\ input[r] \in Input /\ calls \in Seq(Call) /\ Untouched(r) /\ id[r] = NullId
      /\ input[r].known /\ input[r].method = "POST" /\ input[r].auth /\ input[r].form = "array"
      /\ n <= Len(calls)
      /\ \A i \in DOMAIN results[r] : results[r][i] = Service!ReplyTo(calls[i])
  BY <1>1, <1>2, InputType DEF AtPlace, Untouched
<1>4. results[r] \in Seq(ReplyObj) /\ n \in Nat /\ DOMAIN results[r] = 1..n
  BY <1>1 DEF TypeOK
<1>5. CASE ExecNext(r)
  <2> DEFINE one == JSONRPCExecOne(id[r], calls[n + 1])
  <2>1. /\ n < Len(calls) /\ results' = [results EXCEPT ![r] = Append(results[r], one)]
        /\ UNCHANGED <<input, pc, replySent, id, reply, out, active>>
    BY <1>1, <1>5 DEF ExecNext, evhttp, TypeOK
  <2>2. calls[n + 1] \in Call
    BY <1>3, <1>4, <2>1
  <2>3. one = Service!ReplyTo(calls[n + 1])
    BY <1>3, <2>2, SameReply
  <2> HIDE DEF one
  <2>4. results'[r] = Append(results[r], one)
    BY <1>1, <2>1 DEF TypeOK
  <2>5. /\ Len(results'[r]) = n + 1 /\ DOMAIN results'[r] = 1..(n + 1)
        /\ \A i \in 1..n : results'[r][i] = results[r][i]
        /\ results'[r][n + 1] = one
    BY <1>4, <2>4
  <2>6. \A i \in DOMAIN results'[r] : results'[r][i] = Service!ReplyTo(calls[i])
    <3> TAKE i \in DOMAIN results'[r]
    <3>1. i \in 1..n \/ i = n + 1
      BY <1>4, <2>5
    <3> QED
      BY <1>3, <1>4, <2>3, <2>5, <3>1
  <2>7. Len(results'[r]) <= Len(calls)
    BY <1>3, <1>4, <2>1, <2>5
  <2>8. AtPlace(r)'
    BY <1>2, <1>3, <2>1, <2>6, <2>7 DEF AtPlace, Untouched
  <2>9. Apart(r) /\ active' = active
    BY <1>1, <2>1 DEF Apart, TypeOK
  <2> QED
    BY <1>2, <2>8, <2>9, HandlerStep
<1>6. CASE FinishBatch(r)
  <2> DEFINE body == Batch(results[r])
  <2>1. CallWriteReply(r, 200, body, "try")
    BY <1>6 DEF FinishBatch
  <2>2. /\ WriteHeader(r, "Content-Type") /\ n = Len(calls)
        /\ UNCHANGED <<input, replySent, id, results, active>>
    BY <1>6 DEF FinishBatch, evhttp
  <2>3. results[r] = [i \in DOMAIN calls |-> Service!ReplyTo(calls[i])]
    <3>1. DOMAIN calls = DOMAIN results[r]
      BY <1>3, <1>4, <2>2
    <3>2. results[r] = [i \in DOMAIN results[r] |-> results[r][i]]
      BY <1>4
    <3> QED
      BY <1>3, <3>1, <3>2
  <2>4. Service!AnswerTo(input[r]) =
          [status |-> 200, headers |-> <<"Content-Type">>, bodies |-> <<body>>]
    BY <1>3, <2>3, AnswerCases
  <2>5. out' = [out EXCEPT ![r] = [headers |-> <<"Content-Type">>, bodies |-> <<>>]]
    BY <1>1, <1>3, <2>2, FirstHeader
  <2>6. id' = [id EXCEPT ![r] = id[r]]
    BY <1>1, <2>2, SameId
  <2>7. UNCHANGED <<input, replySent, results, active>>
    BY <2>2
  <2> HIDE DEF body
  <2> QED
    BY <1>2, <2>1, <2>4, <2>5, <2>6, <2>7, Calls
<1> QED
  BY <1>5, <1>6

\* WriteReply up to the hand-over, no allocation failing.
LEMMA WriteStep ==
  ASSUME MaxFaults = 0, IInv, AnswersRightly, NEW r \in Reqs, AddBody(r) \/ NewEvent(r)
  PROVE  AnswersRightly'
<1>1. TypeOK /\ AtPlace(r)
  BY DEF IInv, AnswersRightly
<1>2. faults = 0
  BY <1>1 DEF TypeOK
<1>3. CASE AddBody(r)
  <2>1. /\ pc[r] = "write" /\ pc' = [pc EXCEPT ![r] = "event"]
        /\ out' = [out EXCEPT ![r].bodies = Append(out[r].bodies, reply[r].body)]
        /\ UNCHANGED <<input, id, results, replySent, reply, active>>
    BY <1>1, <1>2, <1>3 DEF AddBody, evhttp, handler, TypeOK
  <2>2. out[r] \in Output /\ out[r].bodies = <<>>
    BY <1>1, <2>1 DEF AtPlace, TypeOK
  <2>3. out'[r].headers = out[r].headers /\ out'[r].bodies = <<reply[r].body>>
    BY <1>1, <2>1, <2>2 DEF TypeOK, Output
  <2>4. Rightly(r, reply[r].status, out[r].headers, <<reply[r].body>>)
    BY <1>1, <2>1 DEF AtPlace
  <2>5. Rightly(r, reply[r].status, out[r].headers, out[r].bodies)'
    BY <2>1, <2>3, <2>4 DEF Rightly
  <2>6. AtPlace(r)'
    BY <1>1, <2>1, <2>5 DEF AtPlace, TypeOK
  <2>7. Apart(r) /\ active' = active
    BY <1>1, <2>1 DEF Apart, TypeOK
  <2> QED
    BY <2>1, <2>6, <2>7, HandlerStep
<1>4. CASE NewEvent(r)
  <2>1. /\ pc[r] = "event" /\ pc' = [pc EXCEPT ![r] = "trigger"]
        /\ UNCHANGED <<input, id, results, replySent, reply, out, active>>
    BY <1>4 DEF NewEvent, evhttp, handler
  <2>2. AtPlace(r)'
    BY <1>1, <2>1 DEF AtPlace, Rightly, TypeOK
  <2>3. Apart(r) /\ active' = active
    BY <1>1, <2>1 DEF Apart, TypeOK
  <2> QED
    BY <2>1, <2>2, <2>3, HandlerStep
<1> QED
  BY <1>3, <1>4

\* The hand-over: the event carries what the handler wrote.
LEMMA TriggerStep ==
  ASSUME IInv, AnswersRightly, NEW r \in Reqs, Trigger(r)
  PROVE  AnswersRightly'
<1> DEFINE e == [req |-> r, status |-> reply[r].status]
<1>1. TypeOK /\ AtPlace(r) /\ InEvents(r)
  BY DEF IInv, AnswersRightly
<1>2. /\ pc[r] = "trigger" /\ pc' = [pc EXCEPT ![r] = "mark"]
      /\ UNCHANGED <<input, id, results, replySent, reply, out>>
      /\ active' = Append(active, e) \/ active' = active
  BY DEF Trigger, evhttp, handler
<1>3. Rightly(r, reply[r].status, out[r].headers, out[r].bodies)
  BY <1>1, <1>2 DEF AtPlace
<1>4. e.req = r /\ e.status = reply[r].status
  OBVIOUS
<1> HIDE DEF e
<1>5. ASSUME NEW i \in DOMAIN active'
      PROVE  active'[i] = e \/ \E j \in DOMAIN active : active'[i] = active[j]
  <2>1. active \in Seq(Event) /\ DOMAIN active = 1..Len(active) /\ Len(active) \in Nat
    BY <1>1 DEF TypeOK
  <2>2. CASE active' = Append(active, e)
    <3>1. /\ DOMAIN active' = 1..(Len(active) + 1) /\ active'[Len(active) + 1] = e
          /\ \A j \in 1..Len(active) : active'[j] = active[j]
      BY <2>1, <2>2
    <3>2. i \in 1..Len(active) \/ i = Len(active) + 1
      BY <1>5, <2>1, <3>1
    <3> QED
      BY <2>1, <3>1, <3>2
  <2> QED
    BY <1>2, <1>5, <2>2
<1>6. AtPlace(r)'
  BY <1>1, <1>2 DEF AtPlace, TypeOK
<1>7. InEvents(r)'
  <2>1. ASSUME NEW i \in DOMAIN active', active'[i].req = r
        PROVE  Rightly(r, active'[i].status, out[r].headers, out[r].bodies)
    <3>1. CASE active'[i] = e
      BY <1>3, <1>4, <3>1
    <3>2. CASE \E j \in DOMAIN active : active'[i] = active[j]
      BY <1>1, <2>1, <3>2 DEF InEvents
    <3> QED
      BY <1>5, <3>1, <3>2
  <2> QED
    BY <1>2, <2>1 DEF InEvents, Rightly
<1>8. ASSUME NEW q \in Reqs, q # r PROVE AtPlace(q)' /\ InEvents(q)'
  <2>1. AtPlace(q) /\ InEvents(q)
    BY DEF AnswersRightly
  <2>2. pc'[q] = pc[q]
    BY <1>1, <1>2, <1>8 DEF TypeOK
  <2>3. /\ input'[q] = input[q] /\ out'[q] = out[q] /\ id'[q] = id[q]
        /\ results'[q] = results[q] /\ replySent'[q] = replySent[q] /\ reply'[q] = reply[q]
    BY <1>2
  <2>4. \A i \in DOMAIN active' :
          active'[i].req = q => \E j \in DOMAIN active : active'[i] = active[j]
    BY <1>4, <1>5, <1>8
  <2> QED
    BY <2>1, <2>2, <2>3, <2>4, Others
<1> QED
  BY <1>6, <1>7, <1>8 DEF AnswersRightly

\* Behind the hand-over nothing is written.
LEMMA ReturnStep ==
  ASSUME IInv, AnswersRightly, NEW r \in Reqs,
         MarkSent(r) \/ (Destroy(r) /\ replySent[r])
  PROVE  AnswersRightly'
<1>1. TypeOK /\ AtPlace(r) /\ InEvents(r)
  BY DEF IInv, AnswersRightly
<1>2. /\ \/ pc'[r] = "returned" /\ replySent'[r]
         \/ pc'[r] = "gone"
      /\ \A q \in Reqs \ {r} : pc'[q] = pc[q] /\ replySent'[q] = replySent[q]
  BY <1>1 DEF MarkSent, Destroy, evhttp, TypeOK
<1>3. UNCHANGED <<input, id, results, reply, out, active>>
  BY DEF MarkSent, Destroy, evhttp
<1>4. AtPlace(r)'
  BY <1>2 DEF AtPlace
<1>5. InEvents(r)'
  BY <1>1, <1>3 DEF InEvents, Rightly
<1>6. ASSUME NEW q \in Reqs, q # r PROVE AtPlace(q)' /\ InEvents(q)'
  <2>1. AtPlace(q) /\ InEvents(q)
    BY DEF AnswersRightly
  <2>2. /\ pc'[q] = pc[q] /\ replySent'[q] = replySent[q]
        /\ input'[q] = input[q] /\ out'[q] = out[q] /\ id'[q] = id[q]
        /\ results'[q] = results[q] /\ reply'[q] = reply[q]
    BY <1>2, <1>3, <1>6
  <2>3. \A i \in DOMAIN active' :
          active'[i].req = q => \E j \in DOMAIN active : active'[i] = active[j]
    BY <1>3
  <2> QED
    BY <2>1, <2>2, <2>3, Others
<1> QED
  BY <1>4, <1>5, <1>6 DEF AnswersRightly

\* The loop empties the output of a request whose handler is done with it.
LEMMA LoopStep ==
  ASSUME IInv, AnswersRightly, RunEvent
  PROVE  AnswersRightly'
<1>1. TypeOK /\ HandedOver /\ OneAnswer
  BY DEF IInv
<1>2. /\ active \in Seq(Event) /\ Len(active) \in Nat \ {0}
      /\ DOMAIN active = 1..Len(active) /\ 1 \in DOMAIN active
      /\ Head(active) = active[1] /\ active' = Tail(active)
  BY <1>1 DEF RunEvent, TypeOK
<1>3. /\ DOMAIN active' = 1..(Len(active) - 1)
      /\ \A i \in DOMAIN active' : active'[i] = active[i + 1] /\ i + 1 \in DOMAIN active
  BY <1>2
<1>4. PICK r \in Reqs : r = active[1].req
  <2>1. active[1] \in Event
    BY <1>2
  <2> QED
    BY <2>1 DEF Event
<1>5. /\ out' = [out EXCEPT ![r].bodies = <<>>]
      /\ UNCHANGED <<input, pc, id, results, reply, replySent>>
  BY <1>2, <1>4 DEF RunEvent, handler
<1>6. \A i \in DOMAIN active' : active'[i].req # r
  <2> TAKE i \in DOMAIN active'
  <2>1. i + 1 \in DOMAIN active /\ i + 1 # 1 /\ active'[i] = active[i + 1]
    BY <1>2, <1>3
  <2> QED
    BY <1>1, <1>2, <1>4, <2>1 DEF OneAnswer
<1>7. pc[r] \in {"mark", "gone"} \/ (pc[r] = "returned" /\ replySent[r])
  BY <1>1, <1>2, <1>4 DEF HandedOver
<1>8. AtPlace(r)' /\ InEvents(r)'
  <2>1. AtPlace(r)'
    BY <1>5, <1>7 DEF AtPlace
  <2> QED
    BY <1>6, <2>1 DEF InEvents
<1>9. ASSUME NEW q \in Reqs, q # r PROVE AtPlace(q)' /\ InEvents(q)'
  <2>1. AtPlace(q) /\ InEvents(q)
    BY DEF AnswersRightly
  <2>2. out'[q] = out[q]
    BY <1>1, <1>5, <1>9 DEF TypeOK
  <2>3. /\ pc'[q] = pc[q] /\ replySent'[q] = replySent[q]
        /\ input'[q] = input[q] /\ id'[q] = id[q]
        /\ results'[q] = results[q] /\ reply'[q] = reply[q]
    BY <1>5
  <2>4. \A i \in DOMAIN active' :
          active'[i].req = q => \E j \in DOMAIN active : active'[i] = active[j]
    BY <1>3
  <2> QED
    BY <2>1, <2>2, <2>3, <2>4, Others
<1> QED
  BY <1>8, <1>9 DEF AnswersRightly

LEMMA AnswersStep ==
  ASSUME MaxFaults = 0, IInv, AnswersRightly, [Next]_vars
  PROVE  AnswersRightly'
<1>1. ASSUME NEW r \in Reqs, NewEventThrows(r) \/ NoEvent(r) PROVE FALSE
  BY <1>1 DEF NewEventThrows, NoEvent, IInv, TypeOK
<1>2. ASSUME UNCHANGED <<input, pc, id, results, reply, replySent, out, active>>
      PROVE  AnswersRightly'
  <2>1. ASSUME NEW q \in Reqs PROVE AtPlace(q)' /\ InEvents(q)'
    <3>1. AtPlace(q) /\ InEvents(q)
      BY DEF AnswersRightly
    <3>2. /\ pc'[q] = pc[q] /\ input'[q] = input[q] /\ out'[q] = out[q] /\ id'[q] = id[q]
          /\ results'[q] = results[q] /\ replySent'[q] = replySent[q] /\ reply'[q] = reply[q]
      BY <1>2
    <3>3. \A i \in DOMAIN active' :
            active'[i].req = q => \E j \in DOMAIN active : active'[i] = active[j]
      BY <1>2
    <3> QED
      BY <3>1, <3>2, <3>3, Others
  <2> QED
    BY <2>1 DEF AnswersRightly
<1>3. CASE Block \/ UNCHANGED vars
  BY <1>2, <1>3 DEF Block, vars, handler
<1>4. CASE RunEvent
  BY <1>4, LoopStep
<1>5. ASSUME NEW r \in Reqs, Destroy(r) PROVE AnswersRightly'
  BY <1>5, RefusalStep, ReturnStep
<1>6. ASSUME NEW r \in Reqs, Send(r) \/ Step(r) PROVE AnswersRightly'
  BY <1>1, <1>5, <1>6, ArrivalStep, RefusalStep, SingleStep, BatchStep, WriteStep,
     TriggerStep, ReturnStep DEF Step
<1> QED
  BY <1>3, <1>4, <1>6 DEF Next
-----------------------------------------------------------------------------
(* The client asks where Send is, and is replied to where the loop runs    *)
(* the event; nothing else shows.                                          *)

LEMMA AsksStep ==
  ASSUME IInv, AnswersRightly, NEW r \in Reqs, Send(r)
  PROVE  Service!Ask(r)
<1>1. input[r] = NoInput
  BY DEF AnswersRightly, AtPlace, Send
<1> QED
  BY <1>1 DEF Service!Ask, Send

LEMMA RepliesStep ==
  ASSUME IInv, AnswersRightly, RunEvent
  PROVE  \E r \in Reqs : Service!Reply(r)
<1>1. TypeOK /\ Wrapped /\ HandedOver /\ OneAnswer
  BY DEF IInv
<1>2. /\ active \in Seq(Event) /\ 1 \in DOMAIN active /\ Head(active) = active[1]
      /\ active[1] \in Event
  BY <1>1 DEF RunEvent, TypeOK
<1>3. PICK r \in Reqs : r = active[1].req
  BY <1>2 DEF Event
<1> DEFINE sent == [status |-> active[1].status, headers |-> out[r].headers,
                    bodies |-> out[r].bodies]
<1>4. answer' = [answer EXCEPT ![r] = Append(answer[r], sent)] /\ input' = input
  BY <1>2, <1>3 DEF RunEvent
<1>5. Service!AnswerTo(input[r]) = sent
  BY <1>2, <1>3 DEF AnswersRightly, InEvents, Rightly
<1>6. answer[r] = <<>>
  BY <1>1, <1>2, <1>3 DEF OneAnswer
<1>7. input[r] # NoInput
  <2>1. pc[r] # "quiet"
    BY <1>1, <1>2, <1>3 DEF HandedOver
  <2> QED
    BY <1>1, <2>1, HttpAssumption DEF Wrapped
<1> HIDE DEF sent
<1>8. Append(answer[r], sent) = <<Service!AnswerTo(input[r])>>
  BY <1>5, <1>6
<1>9. Service!Reply(r)
  BY <1>4, <1>6, <1>7, <1>8 DEF Service!Reply
<1> QED
  BY <1>9

LEMMA ServiceStep ==
  ASSUME IInv, AnswersRightly, [Next]_vars
  PROVE  Service!Next \/ UNCHANGED <<input, answer>>
<1>1. ASSUME NEW r \in Reqs, Send(r) PROVE Service!Next
  BY <1>1, AsksStep DEF Service!Next
<1>2. CASE RunEvent
  BY <1>2, RepliesStep DEF Service!Next
<1>3. ASSUME NEW r \in Reqs, Step(r) PROVE UNCHANGED <<input, answer>>
  BY <1>3 DEF Step, Accept, RefuseMethod, RefuseUnauthorized, RefuseBody, ExecSingle,
              EnterBatch, ExecNext, FinishBatch, AddBody, NewEvent, NewEventThrows, NoEvent,
              Trigger, MarkSent, Destroy, evhttp
<1>4. CASE Block \/ UNCHANGED vars
  BY <1>4 DEF Block, vars
<1> QED
  BY <1>1, <1>2, <1>3, <1>4 DEF Next

\* Where no allocation fails, the server implements the service, with
\* handlers in the loop or on workers, for any requests at any time: each
\* client gets the one answer its request calls for, or none yet.
THEOREM ServesRightly == ASSUME MaxFaults = 0 PROVE Spec => Implements
<1>1. Init => AnswersRightly /\ Service!Init
  <2> SUFFICES ASSUME Init PROVE AnswersRightly /\ Service!Init
    OBVIOUS
  <2>1. ASSUME NEW r \in Reqs PROVE AtPlace(r) /\ InEvents(r)
    BY DEF Init, AtPlace, InEvents, Untouched
  <2> QED
    BY <2>1 DEF AnswersRightly, Service!Init, Init
<1>2. IInv /\ AnswersRightly /\ [Next]_vars => AnswersRightly'
  BY AnswersStep
<1>3. IInv /\ AnswersRightly /\ [Next]_vars => [Service!Next]_(Service!svars)
  BY ServiceStep DEF Service!svars
<1> QED
  BY <1>1, <1>2, <1>3, Invariance, PTL DEF Spec, Implements, Service!SafeSpec
=============================================================================
