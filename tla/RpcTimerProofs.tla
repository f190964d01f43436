--------------------------- MODULE RpcTimerProofs ---------------------------
(***************************************************************************)
(* Proofs of the safety properties of RpcTimer, for any number of events   *)
(* and any bounds on time.                                                 *)
(***************************************************************************)
EXTENDS RpcTimer, TLAPS

Items(s) == {s[i] : i \in DOMAIN s}

NoneTwice(s) == \A i, j \in DOMAIN s : s[i] = s[j] => i = j

\* The loop's lists have an event once and apart, before it has fired and,
\* the active one, not before it is due.
Lists ==
  /\ NoneTwice(active)
  /\ \A e \in armed : e \notin Queued
  /\ \A e \in Events : e \in armed \cup Queued => fired[e] = 0
  /\ \A e \in Events : e \in Queued \/ fired[e] = 1 => due[e] <= now

\* The inductive invariant.
IInv ==
  /\ TypeOK
  /\ Lists
  /\ NothingFreedIsUsed
  /\ OneDeletes
  /\ \A e \in Events : memory[e] = "unborn" => fired[e] = 0

LEMMA ItemsOf ==
  ASSUME NEW S, NEW s \in Seq(S)
  PROVE  /\ Len(s) \in Nat
         /\ DOMAIN s = 1..Len(s)
         /\ \A x : x \in Items(s) <=> \E i \in 1..Len(s) : s[i] = x
         /\ NoneTwice(s) <=> \A i, j \in 1..Len(s) : s[i] = s[j] => i = j
BY DEF Items, NoneTwice

LEMMA AppendItems ==
  ASSUME NEW S, NEW s \in Seq(S), NEW e \in S
  PROVE  /\ Append(s, e) \in Seq(S)
         /\ Items(Append(s, e)) = Items(s) \cup {e}
         /\ NoneTwice(s) /\ e \notin Items(s) => NoneTwice(Append(s, e))
BY DEF Items, NoneTwice

LEMMA TailItems ==
  ASSUME NEW S, NEW s \in Seq(S), s # <<>>, NoneTwice(s)
  PROVE  /\ Head(s) \in S /\ Tail(s) \in Seq(S)
         /\ Head(s) \in Items(s)
         /\ Items(Tail(s)) = Items(s) \ {Head(s)}
         /\ NoneTwice(Tail(s))
<1> DEFINE t == Tail(s)
<1>1. /\ Len(s) \in Nat \ {0} /\ Head(s) = s[1] /\ Head(s) \in S /\ t \in Seq(S)
      /\ Len(t) = Len(s) - 1
      /\ \A i \in 1..(Len(s) - 1) : t[i] = s[i + 1]
  OBVIOUS
<1> HIDE DEF t
<1>2. /\ \A x : x \in Items(s) <=> \E i \in 1..Len(s) : s[i] = x
      /\ \A i, j \in 1..Len(s) : s[i] = s[j] => i = j
      /\ \A x : x \in Items(t) <=> \E i \in 1..Len(t) : t[i] = x
      /\ NoneTwice(t) <=> \A i, j \in 1..Len(t) : t[i] = t[j] => i = j
  <2>1. t \in Seq(S)
    BY <1>1
  <2> QED BY <2>1, ItemsOf, Zenon
<1>3. NoneTwice(t)
  BY <1>1, <1>2
<1>4. ASSUME NEW x PROVE x \in Items(t) <=> x \in Items(s) /\ x # Head(s)
  <2>1. ASSUME NEW i \in 1..Len(t) PROVE i + 1 \in 1..Len(s) /\ t[i] = s[i + 1] /\ t[i] # s[1]
    BY <1>1, <1>2
  <2>2. ASSUME NEW i \in 1..Len(s), s[i] # s[1] PROVE i - 1 \in 1..Len(t) /\ t[i - 1] = s[i]
    <3>1. i # 1 /\ i - 1 \in 1..(Len(s) - 1)
      BY <2>2, <1>1
    <3>2. t[i - 1] = s[(i - 1) + 1]
      BY <3>1, <1>1
    <3> QED BY <3>1, <3>2, <1>1
  <2> QED BY <2>1, <2>2, <1>1, <1>2
<1>5. Head(s) \in Items(s)
  BY <1>1, <1>2
<1> QED BY <1>1, <1>3, <1>4, <1>5 DEF t

LEMMA Joined ==
  ASSUME NEW S, NEW a \in Seq(S), NEW b \in Seq(S)
  PROVE  /\ a \o b \in Seq(S)
         /\ Len(a \o b) = Len(a) + Len(b)
         /\ \A j \in 1..(Len(a) + Len(b)) :
              (a \o b)[j] = IF j <= Len(a) THEN a[j] ELSE b[j - Len(a)]
OBVIOUS

LEMMA Removed ==
  ASSUME NEW S, NEW s \in Seq(S), NEW i \in 1..Len(s)
  PROVE  /\ RemoveAt(s, i) \in Seq(S)
         /\ Len(RemoveAt(s, i)) = Len(s) - 1
         /\ \A j \in 1..(Len(s) - 1) :
              RemoveAt(s, i)[j] = IF j < i THEN s[j] ELSE s[j + 1]
<1> DEFINE a == SubSeq(s, 1, i - 1)
           b == SubSeq(s, i + 1, Len(s))
           t == a \o b
<1>1. /\ a \in Seq(S) /\ Len(a) = i - 1
      /\ \A j \in 1..(i - 1) : a[j] = s[j]
      /\ b \in Seq(S) /\ Len(b) = Len(s) - i
      /\ \A j \in 1..(Len(s) - i) : b[j] = s[j + i]
      /\ Len(s) \in Nat
  OBVIOUS
<1>2. RemoveAt(s, i) = t
  BY DEF RemoveAt
<1> HIDE DEF a, b
<1>3. /\ t \in Seq(S)
      /\ Len(t) = Len(a) + Len(b)
      /\ \A j \in 1..(Len(a) + Len(b)) : t[j] = IF j <= Len(a) THEN a[j] ELSE b[j - Len(a)]
  BY <1>1, Joined, Zenon
<1> HIDE DEF t
<1>4. Len(t) = Len(s) - 1
  BY <1>1, <1>3
<1>5. ASSUME NEW j \in 1..(Len(s) - 1)
      PROVE  t[j] = IF j < i THEN s[j] ELSE s[j + 1]
  <2>1. /\ Len(a) = i - 1 /\ Len(b) = Len(s) - i /\ Len(s) \in Nat /\ i \in 1..Len(s)
    BY <1>1
  <2>2. j \in 1..(Len(a) + Len(b))
    BY <2>1
  <2>3. t[j] = IF j <= Len(a) THEN a[j] ELSE b[j - Len(a)]
    BY <2>2, <1>3
  <2>4. CASE j < i
    <3>1. j <= Len(a) /\ j \in 1..(i - 1)
      BY <2>1, <2>4
    <3> QED BY <3>1, <2>3, <2>4, <1>1
  <2>5. CASE ~ j < i
    <3>1. ~ (j <= Len(a)) /\ j - Len(a) \in 1..(Len(s) - i) /\ (j - Len(a)) + i = j + 1
      BY <2>1, <2>5
    <3>2. b[j - Len(a)] = s[(j - Len(a)) + i]
      BY <3>1, <1>1
    <3> QED BY <3>1, <3>2, <2>3, <2>5
  <2> QED BY <2>4, <2>5
<1> QED BY <1>2, <1>3, <1>4, <1>5

LEMMA RemoveItems ==
  ASSUME NEW S, NEW s \in Seq(S), NEW i \in 1..Len(s), NoneTwice(s)
  PROVE  /\ RemoveAt(s, i) \in Seq(S)
         /\ NoneTwice(RemoveAt(s, i))
         /\ \A x : x \in Items(RemoveAt(s, i)) <=> x \in Items(s) /\ x # s[i]
<1> DEFINE t == RemoveAt(s, i)
           n == Len(s)
           m == Len(t)
<1>1. t \in Seq(S) /\ n \in Nat /\ i \in 1..n
  BY Removed
<1>2. /\ \A j, k \in 1..n : s[j] = s[k] => j = k
      /\ \A x : x \in Items(s) <=> \E j \in 1..n : s[j] = x
  BY ItemsOf, Zenon
<1>3. /\ NoneTwice(t) <=> \A j, k \in 1..m : t[j] = t[k] => j = k
      /\ \A x : x \in Items(t) <=> \E j \in 1..m : t[j] = x
  BY <1>1, ItemsOf, Zenon
<1>4. m = n - 1 /\ \A j \in 1..(n - 1) : t[j] = IF j < i THEN s[j] ELSE s[j + 1]
  BY Removed, Zenon
<1> HIDE DEF t, n, m
<1>5. ASSUME NEW j \in 1..m, NEW k \in 1..m, t[j] = t[k] PROVE j = k
  BY <1>1, <1>2, <1>4, <1>5
<1>6. ASSUME NEW j \in 1..m PROVE (\E k \in 1..n : s[k] = t[j]) /\ t[j] # s[i]
  <2>1. {j, j + 1} \subseteq 1..n /\ (j < i \/ j + 1 # i)
    BY <1>1, <1>4
  <2> QED BY <2>1, <1>1, <1>2, <1>4
<1>7. ASSUME NEW j \in 1..n, s[j] # s[i] PROVE \E k \in 1..m : t[k] = s[j]
  <2>1. CASE j < i
    BY <2>1, <1>1, <1>4
  <2>2. CASE j > i
    <3>1. j - 1 \in 1..m /\ ~ (j - 1 < i) /\ (j - 1) + 1 = j
      BY <2>2, <1>1, <1>4
    <3> QED BY <3>1, <1>4
  <2> QED BY <2>1, <2>2, <1>7, <1>1
<1>8. NoneTwice(t)
  BY <1>3, <1>5
<1>9. ASSUME NEW x PROVE x \in Items(t) <=> x \in Items(s) /\ x # s[i]
  BY <1>2, <1>3, <1>6, <1>7, Zenon
<1> QED BY <1>1, <1>8, <1>9 DEF t

\* What is left of the loop's lists when an event is destructed.
LEMMA Destructed ==
  ASSUME TypeOK, NoneTwice(active), NEW e \in Events, Destruct(e)
  PROVE  /\ active' \in Seq(Events) /\ NoneTwice(active')
         /\ Queued' = Queued \ {e}
         /\ armed' = armed \ {e}
         /\ memory' = [memory EXCEPT ![e] = "freed"]
<1>1. active \in Seq(Events)
  BY DEF TypeOK
<1>2. CASE e \notin Queued /\ UNCHANGED active
  BY <1>1, <1>2 DEF Destruct, Queued
<1>3. ASSUME NEW i \in DOMAIN active, active[i] = e,
             active' = RemoveAt(active, i)
      PROVE  active' \in Seq(Events) /\ NoneTwice(active') /\ Queued' = Queued \ {e}
  <2>1. i \in 1..Len(active)
    BY <1>1
  <2>2. /\ active' \in Seq(Events) /\ NoneTwice(active')
        /\ \A x : x \in Items(active') <=> x \in Items(active) /\ x # e
    BY <1>1, <1>3, <2>1, RemoveItems, Zenon
  <2>3. Queued = Items(active) /\ Queued' = Items(active')
    BY DEF Queued, Items
  <2> QED BY <2>2, <2>3
<1> QED BY <1>2, <1>3 DEF Destruct

\* What Append and Tail leave of them.
LEMMA Appended ==
  ASSUME TypeOK, NEW e \in Events, active' = Append(active, e)
  PROVE  /\ active' \in Seq(Events)
         /\ Queued' = Queued \cup {e}
         /\ NoneTwice(active) /\ e \notin Queued => NoneTwice(active')
<1>1. active \in Seq(Events)
  BY DEF TypeOK
<1>2. Queued = Items(active) /\ Queued' = Items(active')
  BY DEF Queued, Items
<1> QED BY <1>1, <1>2, AppendItems, Zenon

LEMMA Called ==
  ASSUME TypeOK, NoneTwice(active), active # <<>>, active' = Tail(active)
  PROVE  /\ active' \in Seq(Events) /\ NoneTwice(active')
         /\ Head(active) \in Events /\ Head(active) \in Queued
         /\ Queued' = Queued \ {Head(active)}
<1>1. active \in Seq(Events)
  BY DEF TypeOK
<1>2. Queued = Items(active) /\ Queued' = Items(active')
  BY DEF Queued, Items
<1> QED BY <1>1, <1>2, TailItems, Zenon
-----------------------------------------------------------------------------
LEMMA InitIInv == Init => IInv
<1> SUFFICES ASSUME Init PROVE IInv
  OBVIOUS
<1>1. active = <<>> /\ Queued = {}
  BY DEF Init, Queued
<1>2. NoneTwice(active)
  BY <1>1 DEF NoneTwice
<1> QED BY <1>1, <1>2, TimerAssumption
    DEF Init, IInv, TypeOK, Lists, NothingFreedIsUsed, OneDeletes, InLoop

\* A new event is in none of the loop's lists and nobody's.
LEMMA Unborn ==
  ASSUME IInv, NEW e \in Events, memory[e] = "unborn"
  PROVE  e \notin armed /\ e \notin Queued /\ running # e /\ e \notin owned /\ fired[e] = 0
BY DEF IInv, NothingFreedIsUsed, InLoop

LEMMA StepNewTimer == ASSUME IInv, NEW e \in Events, NewTimer(e) PROVE IInv'
<1>1. PICK millis \in 0..MaxMillis : now + millis <= MaxTime /\ TriggerAfter(e, millis)
  BY DEF NewTimer
<1>2. /\ memory' = [memory EXCEPT ![e] = "live"]
      /\ deleteWhenTriggered' = [deleteWhenTriggered EXCEPT ![e] = FALSE]
      /\ owned' = owned \cup {e}
      /\ due' = [due EXCEPT ![e] = now + millis]
      /\ armed' = armed \cup {e}
      /\ active' = active /\ running' = running /\ fired' = fired /\ now' = now
  BY <1>1 DEF NewTimer, Construct, TriggerAfter
<1>3. Queued' = Queued /\ NoneTwice(active')
  BY <1>2 DEF Queued, IInv, Lists
<1>4. e \notin armed /\ e \notin Queued /\ running # e /\ e \notin owned /\ fired[e] = 0
  BY Unborn DEF NewTimer, Construct
<1>5. TypeOK'
  <2>1. now + millis \in 0..MaxTime
    BY <1>1, TimerAssumption DEF IInv, TypeOK
  <2> QED BY <1>2, <2>1 DEF IInv, TypeOK
<1>6. Lists'
  BY <1>2, <1>3, <1>4 DEF IInv, TypeOK, Lists
<1>7. NothingFreedIsUsed'
  BY <1>2, <1>3 DEF IInv, TypeOK, NothingFreedIsUsed, InLoop
<1>8. OneDeletes'
  BY <1>2, <1>3, <1>4 DEF IInv, TypeOK, OneDeletes, InLoop
<1>9. (\A x \in Events : memory[x] = "unborn" => fired[x] = 0)'
  BY <1>2 DEF IInv, TypeOK
<1> QED BY <1>5, <1>6, <1>7, <1>8, <1>9 DEF IInv

LEMMA StepNewReplyEvent == ASSUME IInv, NEW e \in Events, NewReplyEvent(e) PROVE IInv'
<1>1. /\ memory' = [memory EXCEPT ![e] = "live"]
      /\ deleteWhenTriggered' = [deleteWhenTriggered EXCEPT ![e] = TRUE]
      /\ due' = [due EXCEPT ![e] = now]
      /\ active' = Append(active, e)
      /\ owned' = owned /\ armed' = armed /\ running' = running /\ fired' = fired /\ now' = now
  BY DEF NewReplyEvent, Construct, TriggerNow
<1>2. e \notin armed /\ e \notin Queued /\ running # e /\ e \notin owned /\ fired[e] = 0
  BY Unborn DEF NewReplyEvent, Construct
<1>3. active' \in Seq(Events) /\ Queued' = Queued \cup {e} /\ NoneTwice(active')
  BY <1>1, <1>2, Appended DEF IInv, Lists
<1>4. TypeOK'
  BY <1>1, <1>3 DEF IInv, TypeOK
<1>5. Lists'
  BY <1>1, <1>2, <1>3 DEF IInv, TypeOK, Lists
<1>6. NothingFreedIsUsed'
  BY <1>1, <1>3 DEF IInv, TypeOK, NothingFreedIsUsed, InLoop
<1>7. OneDeletes'
  BY <1>1, <1>2, <1>3 DEF IInv, TypeOK, OneDeletes, InLoop
<1>8. (\A x \in Events : memory[x] = "unborn" => fired[x] = 0)'
  BY <1>1 DEF IInv, TypeOK
<1> QED BY <1>4, <1>5, <1>6, <1>7, <1>8 DEF IInv

LEMMA StepDelete == ASSUME IInv, NEW e \in Events, Delete(e) PROVE IInv'
<1>1. /\ running # e /\ owned' = owned \ {e}
      /\ deleteWhenTriggered' = deleteWhenTriggered /\ due' = due
      /\ running' = running /\ fired' = fired /\ now' = now
  BY DEF Delete
<1>2. /\ active' \in Seq(Events) /\ NoneTwice(active')
      /\ Queued' = Queued \ {e}
      /\ armed' = armed \ {e}
      /\ memory' = [memory EXCEPT ![e] = "freed"]
  BY Destructed DEF Delete, IInv, Lists
<1>3. TypeOK'
  BY <1>1, <1>2 DEF IInv, TypeOK
<1>4. Lists'
  BY <1>1, <1>2 DEF IInv, TypeOK, Lists
<1>5. NothingFreedIsUsed'
  BY <1>1, <1>2 DEF IInv, TypeOK, NothingFreedIsUsed, InLoop
<1>6. OneDeletes'
  BY <1>1, <1>2 DEF IInv, TypeOK, OneDeletes, InLoop
<1>7. (\A x \in Events : memory[x] = "unborn" => fired[x] = 0)'
  BY <1>1, <1>2 DEF IInv, TypeOK
<1> QED BY <1>3, <1>4, <1>5, <1>6, <1>7 DEF IInv

LEMMA StepExpire == ASSUME IInv, NEW e \in Events, Expire(e) PROVE IInv'
<1>1. /\ e \in armed /\ due[e] <= now
      /\ armed' = armed \ {e}
      /\ active' = Append(active, e)
      /\ memory' = memory /\ deleteWhenTriggered' = deleteWhenTriggered /\ owned' = owned
      /\ due' = due /\ running' = running /\ fired' = fired /\ now' = now
  BY DEF Expire
<1>2. e \notin Queued
  BY <1>1 DEF IInv, Lists
<1>3. active' \in Seq(Events) /\ Queued' = Queued \cup {e} /\ NoneTwice(active')
  BY <1>1, <1>2, Appended DEF IInv, Lists
<1>4. TypeOK'
  BY <1>1, <1>3 DEF IInv, TypeOK
<1>5. Lists'
  BY <1>1, <1>2, <1>3 DEF IInv, TypeOK, Lists
<1>6. NothingFreedIsUsed'
  BY <1>1, <1>3 DEF IInv, TypeOK, NothingFreedIsUsed, InLoop
<1>7. OneDeletes'
  BY <1>1, <1>3 DEF IInv, TypeOK, OneDeletes, InLoop
<1>8. (\A x \in Events : memory[x] = "unborn" => fired[x] = 0)'
  BY <1>1 DEF IInv
<1> QED BY <1>4, <1>5, <1>6, <1>7, <1>8 DEF IInv

LEMMA StepTick == ASSUME IInv, Tick PROVE IInv'
<1>1. /\ now < MaxTime /\ now' = now + 1
      /\ memory' = memory /\ deleteWhenTriggered' = deleteWhenTriggered /\ owned' = owned
      /\ due' = due /\ armed' = armed /\ active' = active
      /\ running' = running /\ fired' = fired
  BY DEF Tick
<1>2. Queued' = Queued /\ NoneTwice(active')
  BY <1>1 DEF Queued, IInv, Lists
<1>3. TypeOK'
  BY <1>1, TimerAssumption DEF IInv, TypeOK
<1>4. Lists'
  <2>1. \A e \in Events : due[e] \in Int /\ now \in Int
    BY TimerAssumption DEF IInv, TypeOK
  <2> QED BY <1>1, <1>2, <2>1 DEF IInv, Lists
<1>5. NothingFreedIsUsed' /\ OneDeletes'
  BY <1>1, <1>2 DEF IInv, NothingFreedIsUsed, OneDeletes, InLoop
<1>6. (\A x \in Events : memory[x] = "unborn" => fired[x] = 0)'
  BY <1>1 DEF IInv
<1> QED BY <1>3, <1>4, <1>5, <1>6 DEF IInv

LEMMA StepCall == ASSUME IInv, Call PROVE IInv'
<1> DEFINE e == Head(active)
<1>1. /\ running = NoEvent /\ running' = e
      /\ fired' = [fired EXCEPT ![e] = @ + 1]
      /\ memory' = memory /\ deleteWhenTriggered' = deleteWhenTriggered /\ owned' = owned
      /\ due' = due /\ armed' = armed /\ now' = now
  BY DEF Call
<1>2. /\ active' \in Seq(Events) /\ NoneTwice(active')
      /\ e \in Events /\ e \in Queued
      /\ Queued' = Queued \ {e}
  BY Called DEF Call, IInv, Lists
<1> HIDE DEF e
<1>3. e \notin armed /\ fired[e] = 0 /\ due[e] <= now /\ memory[e] = "live"
  BY <1>2 DEF IInv, Lists, NothingFreedIsUsed, InLoop
<1>4. fired' = [fired EXCEPT ![e] = 1]
  BY <1>1, <1>2, <1>3
<1>5. TypeOK'
  BY <1>1, <1>2, <1>4 DEF IInv, TypeOK
<1>6. Lists'
  BY <1>1, <1>2, <1>3, <1>4 DEF IInv, TypeOK, Lists
<1>7. NothingFreedIsUsed'
  BY <1>1, <1>2, <1>3 DEF IInv, NothingFreedIsUsed, InLoop
<1>8. OneDeletes'
  BY <1>1, <1>2, TimerAssumption DEF IInv, OneDeletes, InLoop
<1>9. (\A x \in Events : memory[x] = "unborn" => fired[x] = 0)'
  BY <1>1, <1>3, <1>4 DEF IInv, TypeOK
<1> QED BY <1>5, <1>6, <1>7, <1>8, <1>9 DEF IInv

LEMMA StepReturn == ASSUME IInv, Return PROVE IInv'
<1>1. /\ running \in Events /\ running' = NoEvent
      /\ deleteWhenTriggered' = deleteWhenTriggered /\ owned' = owned
      /\ due' = due /\ fired' = fired /\ now' = now
  BY DEF Return, IInv, TypeOK
<1>2. CASE deleteWhenTriggered[running] /\ Destruct(running)
  <2>1. /\ active' \in Seq(Events) /\ NoneTwice(active')
        /\ Queued' = Queued \ {running}
        /\ armed' = armed \ {running}
        /\ memory' = [memory EXCEPT ![running] = "freed"]
    BY <1>1, <1>2, Destructed DEF IInv, Lists
  <2>2. running \notin owned
    BY <1>1, <1>2 DEF IInv, NothingFreedIsUsed, OneDeletes, InLoop
  <2>3. TypeOK'
    BY <1>1, <2>1 DEF IInv, TypeOK
  <2>4. Lists'
    BY <1>1, <2>1 DEF IInv, TypeOK, Lists
  <2>5. NothingFreedIsUsed'
    BY <1>1, <2>1, <2>2, TimerAssumption DEF IInv, TypeOK, NothingFreedIsUsed, InLoop
  <2>6. OneDeletes'
    BY <1>1, <2>1, TimerAssumption DEF IInv, TypeOK, OneDeletes, InLoop
  <2>7. (\A x \in Events : memory[x] = "unborn" => fired[x] = 0)'
    BY <1>1, <2>1 DEF IInv, TypeOK
  <2> QED BY <2>3, <2>4, <2>5, <2>6, <2>7 DEF IInv
<1>3. CASE ~ deleteWhenTriggered[running] /\ UNCHANGED <<memory, armed, active>>
  <2>1. /\ memory' = memory /\ armed' = armed /\ active' = active
        /\ Queued' = Queued /\ NoneTwice(active')
    BY <1>3 DEF Queued, IInv, Lists
  <2>2. TypeOK' /\ Lists'
    BY <1>1, <2>1 DEF IInv, TypeOK, Lists
  <2>3. NothingFreedIsUsed'
    BY <1>1, <2>1, TimerAssumption DEF IInv, NothingFreedIsUsed, InLoop
  <2>4. OneDeletes'
    BY <1>1, <1>3, <2>1, TimerAssumption DEF IInv, OneDeletes, InLoop
  <2>5. (\A x \in Events : memory[x] = "unborn" => fired[x] = 0)'
    BY <1>1, <2>1 DEF IInv
  <2> QED BY <2>2, <2>3, <2>4, <2>5 DEF IInv
<1> QED BY <1>2, <1>3 DEF Return

LEMMA StutterIInv == ASSUME IInv, UNCHANGED vars PROVE IInv'
<1>1. /\ memory' = memory /\ deleteWhenTriggered' = deleteWhenTriggered /\ owned' = owned
      /\ due' = due /\ armed' = armed /\ active' = active
      /\ running' = running /\ fired' = fired /\ now' = now
  BY DEF vars
<1>2. Queued' = Queued
  BY <1>1 DEF Queued
<1> QED BY <1>1, <1>2
    DEF IInv, TypeOK, Lists, NoneTwice, NothingFreedIsUsed, OneDeletes, InLoop

LEMMA Inductive == Spec => []IInv
<1>1. IInv /\ [Next]_vars => IInv'
  BY StepNewTimer, StepNewReplyEvent, StepDelete, StepExpire, StepTick, StepCall,
     StepReturn, StutterIInv DEF Next
<1> QED BY InitIInv, <1>1, PTL DEF Spec

\* Type correctness, for any events and bounds.
THEOREM TypeCorrect == Spec => []TypeOK
<1>1. IInv => TypeOK
  BY DEF IInv
<1> QED BY Inductive, <1>1, PTL

\* A timer may be deleted pending, active or run: the loop keeps no pointer
\* to it, and neither does whoever called NewTimer (~HTTPEvent,
\* httpevent_callback_fn).
THEOREM DeletedIsForgotten == Spec => []NothingFreedIsUsed
<1>1. IInv => NothingFreedIsUsed
  BY DEF IInv
<1> QED BY Inductive, <1>1, PTL

\* Each event has one who deletes it: the caller of NewTimer, or the callback.
THEOREM OneOwner == Spec => []OneDeletes
<1>1. IInv => OneDeletes
  BY DEF IInv
<1> QED BY Inductive, <1>1, PTL

\* A timer's function is called at most once, and not before its time.
THEOREM FiresOnceAndInTime == Spec => []OnceAndInTime
<1>1. IInv => OnceAndInTime
  BY DEF IInv, TypeOK, Lists, OnceAndInTime
<1> QED BY Inductive, <1>1, PTL
=============================================================================
