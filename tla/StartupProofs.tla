--------------------------- MODULE StartupProofs ---------------------------
(***************************************************************************)
(* Proofs about Startup: whatever the number of processes and starts, a    *)
(* server that listens on every endpoint is the one the cookie file        *)
(* belongs to.  The invariant says what each place of main implies; the    *)
(* heart of the argument is that a process at work on the file has a       *)
(* socket of its own, so that none can be while another has them all.      *)
(***************************************************************************)
EXTENDS Startup, TLAPS

LEMMA InitIInv == Init => IInv
BY StartupAssumption
DEF Init, IInv, TypeOK, SocketsOwned, Placed, WrittenCookie, Endpoints, Cookies,
    Started, Owners

\* Types.
LEMMA StepTypes == ASSUME TypeOK, [Next]_vars PROVE TypeOK'
<1>1. CASE UNCHANGED vars
  BY <1>1 DEF TypeOK, vars, own
<1>2. ASSUME NEW p \in Procs, Boot(p) PROVE TypeOK'
  BY <1>2 DEF TypeOK, Boot, GoTo
<1>3. ASSUME NEW p \in Procs, ObtainBase(p) \/ ObtainHttp(p) PROVE TypeOK'
  BY <1>3 DEF TypeOK, ObtainBase, ObtainHttp, GoTo, Owners
<1>4. ASSUME NEW p \in Procs, Bind(p) PROVE TypeOK'
  <2>1. /\ Len(Endpoints) = 2
        /\ DOMAIN Endpoints = 1..2
    BY DEF Endpoints
  <2>2. /\ tried' \in [Procs -> 0..2]
        /\ boundSockets' \in [Procs -> SUBSET (1..2)]
        /\ listener' \in [1..2 -> Procs \cup {Nobody}]
    BY <1>4, <2>1 DEF TypeOK, Bind
  <2> QED BY <1>4, <2>1, <2>2 DEF TypeOK, Bind
<1>5. ASSUME NEW p \in Procs, FinishInit(p) PROVE TypeOK'
  BY <1>5 DEF TypeOK, FinishInit, GoTo, Released, Owners
<1>6. ASSUME NEW p \in Procs, OpenCookie(p) \/ WriteCookie(p) \/ Register(p) PROVE TypeOK'
  <2>1. UNCHANGED <<base, http, tried, boundSockets, listener>>
    BY <1>6 DEF OpenCookie, WriteCookie, Register
  <2>2. /\ place' \in [Procs -> {"down", "obtainBase", "obtainHttp", "bind", "failed",
                                 "openCookie", "writeCookie", "register", "serving"}]
        /\ lost' \subseteq Procs
    BY <1>6 DEF TypeOK, OpenCookie, WriteCookie, Register, GoTo
  <2>3. file' \in {file, NoCookie, Cookie}
    BY <1>6 DEF OpenCookie, WriteCookie, Register
  <2>4. token' \in [Procs -> Cookies]
    BY <1>6 DEF TypeOK, OpenCookie, WriteCookie, Register, Cookies
  <2>5. file' \in Cookies
    BY <2>3 DEF TypeOK, Cookies
  <2> QED BY <2>1, <2>2, <2>4, <2>5 DEF TypeOK
<1>7. ASSUME NEW p \in Procs, Exit(p) PROVE TypeOK'
  BY <1>7, StartupAssumption DEF TypeOK, Exit, GoTo, Released, Cookies, Owners
<1> QED BY <1>1, <1>2, <1>3, <1>4, <1>5, <1>6, <1>7 DEF Next

\* Sockets: a process records exactly the endpoints it listens on.
LEMMA StepSockets == ASSUME IInv, [Next]_vars PROVE SocketsOwned'
<1> USE DEF IInv
<1>0. DOMAIN listener = DOMAIN Endpoints /\ Nobody \notin Procs
  BY StartupAssumption DEF TypeOK
<1>1. CASE UNCHANGED vars
  BY <1>1 DEF SocketsOwned, vars, own
<1>2. ASSUME NEW p \in Procs, Boot(p) \/ OpenCookie(p) \/ WriteCookie(p) \/ Register(p)
      PROVE SocketsOwned'
  BY <1>2 DEF SocketsOwned, Boot, OpenCookie, WriteCookie, Register
<1>3. ASSUME NEW p \in Procs, ObtainBase(p) \/ ObtainHttp(p) PROVE SocketsOwned'
  <2>1. boundSockets' = boundSockets /\ listener' = listener
    BY <1>3 DEF ObtainBase, ObtainHttp
  <2>2. \A q \in Procs : http[q] # "none" => http'[q] # "none"
    BY <1>3 DEF TypeOK, ObtainBase, ObtainHttp
  <2>3. \A q \in Procs : base[q] # "none" => base'[q] # "none"
    BY <1>3 DEF TypeOK, ObtainBase, ObtainHttp
  <2> QED BY <2>1, <2>2, <2>3 DEF SocketsOwned
<1>4. ASSUME NEW p \in Procs, Bind(p) PROVE SocketsOwned'
  <2>1. UNCHANGED <<base, http>> /\ base[p] = "raii" /\ http[p] = "raii"
    BY <1>4 DEF Bind, Placed
  <2>2. CASE UNCHANGED <<listener, boundSockets>>
    BY <2>1, <2>2 DEF SocketsOwned
  <2>3. CASE ~ UNCHANGED <<listener, boundSockets>>
    <3>1. PICK a : /\ listener[a] = Nobody
                   /\ a \in DOMAIN Endpoints
                   /\ listener' = [listener EXCEPT ![a] = p]
                   /\ boundSockets' = [boundSockets EXCEPT ![p] = @ \cup {a}]
      BY <1>4, <2>3 DEF TypeOK, Bind, Endpoints
    <3>2. ASSUME NEW q \in Procs
          PROVE  boundSockets'[q] = {b \in DOMAIN listener' : listener'[b] = q}
      BY <1>0, <3>1 DEF TypeOK, SocketsOwned
    <3>3. \A q \in Procs \ {p} : boundSockets'[q] = boundSockets[q]
      BY <3>1 DEF TypeOK
    <3> QED BY <2>1, <3>2, <3>3 DEF SocketsOwned
  <2> QED BY <2>2, <2>3
<1>5. ASSUME NEW p \in Procs, FinishInit(p) PROVE SocketsOwned'
  BY <1>0, <1>5 DEF TypeOK, SocketsOwned, FinishInit, Released
<1>6. ASSUME NEW p \in Procs, Exit(p) PROVE SocketsOwned'
  BY <1>0, <1>6 DEF TypeOK, SocketsOwned, Exit, Released
<1> QED BY <1>1, <1>2, <1>3, <1>4, <1>5, <1>6 DEF Next

\* Places.
LEMMA StepPlaces == ASSUME IInv, [Next]_vars PROVE Placed'
<1> USE DEF IInv
<1>1. CASE UNCHANGED vars
  BY <1>1 DEF Placed, Started, vars, own
<1>2. ASSUME NEW p \in Procs, Boot(p) PROVE Placed'
  BY <1>2 DEF TypeOK, Placed, Started, Boot, GoTo
<1>3. ASSUME NEW p \in Procs, ObtainBase(p) \/ ObtainHttp(p) \/ Bind(p) PROVE Placed'
  BY <1>3 DEF TypeOK, Placed, Started, ObtainBase, ObtainHttp, Bind, GoTo
<1>4. ASSUME NEW p \in Procs, FinishInit(p) PROVE Placed'
  BY <1>4 DEF TypeOK, Placed, Started, FinishInit, GoTo
<1>5. ASSUME NEW p \in Procs, OpenCookie(p) \/ WriteCookie(p) \/ Register(p) PROVE Placed'
  BY <1>5 DEF TypeOK, Placed, Started, OpenCookie, WriteCookie, Register, GoTo
<1>6. ASSUME NEW p \in Procs, Exit(p) PROVE Placed'
  BY <1>6 DEF TypeOK, Placed, Started, Exit, GoTo
<1> QED BY <1>1, <1>2, <1>3, <1>4, <1>5, <1>6 DEF Next

\* Two processes never both work on the file and listen on every endpoint.
LEMMA FileOwner ==
  ASSUME IInv, NEW p \in Procs, NEW q \in Procs, p # q,
         place[q] \in Started, boundSockets[p] = DOMAIN Endpoints
  PROVE  FALSE
<1>1. PICK a \in DOMAIN Endpoints : a \in boundSockets[q]
  BY DEF IInv, TypeOK, Placed
<1>2. listener[a] = q /\ listener[a] = p
  BY <1>1 DEF IInv, SocketsOwned
<1> QED BY <1>2

LEMMA StepCookie == ASSUME IInv, [Next]_vars PROVE WrittenCookie'
<1> USE DEF IInv
<1>1. CASE UNCHANGED vars
  BY <1>1 DEF WrittenCookie, vars, own
<1>2. ASSUME NEW p \in Procs, ObtainBase(p) \/ ObtainHttp(p) \/ Bind(p) \/ Register(p)
      PROVE WrittenCookie'
  <2>1. SUFFICES ASSUME NEW q \in Procs, place'[q] \in {"register", "serving"},
                        boundSockets'[q] = DOMAIN Endpoints, q \notin lost'
                 PROVE file' = Cookie /\ token'[q] = Cookie
    BY DEF WrittenCookie
  <2>2. place[q] \in {"register", "serving"} /\ boundSockets[q] = boundSockets'[q]
    BY <1>2, <2>1 DEF TypeOK, ObtainBase, ObtainHttp, Bind, Register, GoTo
  <2> QED BY <1>2, <2>1, <2>2 DEF WrittenCookie, ObtainBase, ObtainHttp, Bind, Register
<1>3. ASSUME NEW p \in Procs, Boot(p) PROVE WrittenCookie'
  BY <1>3 DEF TypeOK, WrittenCookie, Boot, GoTo
<1>4. ASSUME NEW p \in Procs, FinishInit(p) PROVE WrittenCookie'
  BY <1>4 DEF TypeOK, WrittenCookie, FinishInit, GoTo
<1>5. ASSUME NEW p \in Procs, OpenCookie(p) \/ WriteCookie(p) PROVE WrittenCookie'
  <2>1. SUFFICES ASSUME NEW q \in Procs, place'[q] \in {"register", "serving"},
                        boundSockets'[q] = DOMAIN Endpoints, q \notin lost'
                 PROVE file' = Cookie /\ token'[q] = Cookie
    BY DEF WrittenCookie
  <2>2. boundSockets' = boundSockets /\ place[p] \in Started
    BY <1>5 DEF OpenCookie, WriteCookie, Started
  <2>3. q = p
    BY <2>1, <2>2, FileOwner
  <2> QED BY <1>5, <2>1, <2>3 DEF TypeOK, OpenCookie, WriteCookie, GoTo
<1>6. ASSUME NEW p \in Procs, Exit(p) PROVE WrittenCookie'
  BY <1>6 DEF TypeOK, WrittenCookie, Exit, GoTo
<1> QED BY <1>1, <1>2, <1>3, <1>4, <1>5, <1>6 DEF Next

LEMMA Invariance == Spec => []IInv
<1>1. IInv /\ [Next]_vars => IInv'
  BY StepTypes, StepSockets, StepPlaces, StepCookie DEF IInv
<1> QED BY InitIInv, <1>1, PTL DEF Spec

\* Every variable keeps its type, for any processes and any number of starts.
THEOREM TypeCorrect == Spec => []TypeOK
<1>1. IInv => TypeOK
  BY DEF IInv
<1> QED BY Invariance, <1>1, PTL

\* boundSockets and the sockets that listen never differ, and no socket
\* outlives its server.
THEOREM NoStraySocket == Spec => []SocketsOwned
<1>1. IInv => SocketsOwned
  BY DEF IInv
<1> QED BY Invariance, <1>1, PTL

\* ./.cookie belongs to the server that listens on every endpoint, whatever
\* other processes do.
THEOREM CookieOfWholeServer == Spec => []WholeServerKeepsCookie
<1>1. IInv => WholeServerKeepsCookie
  BY DEF IInv, Placed, WrittenCookie, WholeServerKeepsCookie, NoCookie, Cookie
<1> QED BY Invariance, <1>1, PTL
=============================================================================
