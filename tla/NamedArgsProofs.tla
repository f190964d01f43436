--------------------------- MODULE NamedArgsProofs ---------------------------
(***************************************************************************)
(* For every params object and every argument list with disjoint aliases,  *)
(* transformNamedArguments returns the positional vector of ArgContract or *)
(* throws exactly when the contract says so.                               *)
(***************************************************************************)
EXTENDS NamedArgs, SequenceTheorems, TLAPS

\* What the assumption on the constants gives for the arguments of one call.
LEMMA ArgTypes ==
  ASSUME TypeOK
  PROVE  /\ keys \in Seq(Names)
         /\ argNames \in Seq(Seq(Names))
         /\ DisjointAliases(argNames)
         /\ Len(keys) \in Nat /\ DOMAIN keys = 1..Len(keys)
         /\ Len(argNames) \in Nat /\ DOMAIN argNames = 1..Len(argNames)
         /\ \A i \in DOMAIN keys : keys[i] \in Names
         /\ \A p \in DOMAIN argNames : argNames[p] \in Seq(Names)
  BY ArgsAssumption DEF TypeOK

\* A name has one last occurrence, so a position that is one is its value.
LEMMA ValueOfIsLast ==
  ASSUME NEW s, NEW x, DOMAIN s \subseteq Nat,
         NEW i \in DOMAIN s, s[i] = x,
         \A j \in DOMAIN s : s[j] = x => j <= i
  PROVE  ValueOf(s, x) = i
<1>1. x \in Range(s)
  BY DEF Range
<1>2. \A k \in DOMAIN s :
        (s[k] = x /\ \A j \in DOMAIN s : s[j] = x => j <= k) => k = i
  OBVIOUS
<1> QED
  BY <1>1, <1>2 DEF ValueOf

\* A pattern has one first alias in use, so an alias that is one is chosen.
LEMMA ChosenIsFirst ==
  ASSUME NEW s, NEW pattern, DOMAIN pattern \subseteq Nat,
         NEW a \in DOMAIN pattern, pattern[a] \in Range(s),
         \A b \in DOMAIN pattern : pattern[b] \in Range(s) => a <= b
  PROVE  ChosenName(s, pattern) = pattern[a]
<1>1. \A c \in DOMAIN pattern :
        (/\ pattern[c] \in Range(s)
         /\ \A b \in DOMAIN pattern : pattern[b] \in Range(s) => c <= b) => c = a
  OBVIOUS
<1> QED
  BY <1>1 DEF ChosenName

\* What filling the hole and pushing one value does to the vector.
LEMMA PushAfterHole ==
  ASSUME NEW v \in Seq(Nat), NEW h \in Nat, NEW e \in Nat
  PROVE  LET w == (v \o Nulls(h)) \o <<e>>
         IN  /\ w \in Seq(Nat)
             /\ Len(w) = Len(v) + h + 1
             /\ \A p \in 1..Len(w) :
                  w[p] = IF p <= Len(v) THEN v[p]
                         ELSE IF p <= Len(v) + h THEN NullArg ELSE e
<1>1. Nulls(h) \in Seq(Nat) /\ Len(Nulls(h)) = h
        /\ \A i \in 1..h : Nulls(h)[i] = NullArg
  BY DEF Nulls, NullArg
<1>2. <<e>> \in Seq(Nat) /\ Len(<<e>>) = 1 /\ <<e>>[1] = e
  OBVIOUS
<1> DEFINE u == v \o Nulls(h)
           w == u \o <<e>>
<1>3. /\ u \in Seq(Nat)
      /\ Len(u) = Len(v) + h
      /\ \A i \in 1..(Len(v) + h) : u[i] = IF i <= Len(v) THEN v[i] ELSE Nulls(h)[i - Len(v)]
  BY <1>1, ConcatProperties
<1> HIDE DEF u
<1>4. /\ w \in Seq(Nat)
      /\ Len(w) = Len(u) + 1
      /\ \A i \in 1..(Len(u) + 1) : w[i] = IF i <= Len(u) THEN u[i] ELSE <<e>>[i - Len(u)]
  BY <1>2, <1>3, ConcatProperties
<1> HIDE DEF w
<1>5. Len(v) \in Nat
  OBVIOUS
<1>6. ASSUME NEW p \in 1..Len(w)
      PROVE  w[p] = IF p <= Len(v) THEN v[p] ELSE IF p <= Len(v) + h THEN NullArg ELSE e
  <2>1. CASE p <= Len(v)
    <3>1. p \in 1..(Len(v) + h) /\ p \in 1..(Len(u) + 1) /\ p <= Len(u)
      BY <1>3, <1>4, <1>5, <2>1
    <3>2. w[p] = u[p]
      BY <1>4, <3>1
    <3>3. u[p] = v[p]
      BY <1>3, <2>1, <3>1
    <3> QED
      BY <2>1, <3>2, <3>3
  <2>2. CASE p > Len(v) /\ p <= Len(v) + h
    <3>1. p - Len(v) \in 1..h
      BY <1>5, <2>2
    <3> QED
      BY <1>1, <1>3, <1>4, <1>5, <2>2, <3>1
  <2>3. CASE p > Len(v) + h
    <3>1. p = Len(u) + 1 /\ p \in 1..(Len(u) + 1) /\ Len(u) \in Nat
      BY <1>3, <1>4, <1>5, <2>3
    <3>2. w[p] = <<e>>[p - Len(u)] /\ p - Len(u) = 1
      BY <1>4, <3>1
    <3>3. ~ (p <= Len(v)) /\ ~ (p <= Len(v) + h)
      BY <1>5, <2>3
    <3> QED
      BY <1>2, <3>2, <3>3
  <2> QED
    BY <1>5, <2>1, <2>2, <2>3
<1> QED
  BY <1>3, <1>4, <1>5, <1>6 DEF w, u
-----------------------------------------------------------------------------
\* An alias of the next pattern is still in the map exactly when the caller
\* used it: earlier patterns took names of their own only.
LEMMA NextPatternUntaken ==
  ASSUME IInv, AtPattern
  PROVE  LET pattern == argNames[pos + 1]
         IN  /\ pattern \in Seq(Names)
             /\ \A b \in DOMAIN pattern :
                  /\ pattern[b] \in Names
                  /\ pattern[b] \notin TakenNames
                  /\ argsIn[pattern[b]] = ValueOf(keys, pattern[b])
                  /\ b \in InMap(pattern) <=> pattern[b] \in Range(keys)
<1> DEFINE pattern == argNames[pos + 1]
<1>1. TypeOK /\ TakenFromOwnPattern /\ MapHoldsRest
  BY DEF IInv
<1>2. pos + 1 \in DOMAIN argNames /\ pos \in Nat
  BY <1>1, ArgTypes DEF AtPattern, TypeOK
<1>3. pattern \in Seq(Names)
  BY <1>1, <1>2, ArgTypes
<1>4. ASSUME NEW b \in DOMAIN pattern
      PROVE  /\ pattern[b] \in Names
             /\ pattern[b] \notin TakenNames
             /\ argsIn[pattern[b]] = ValueOf(keys, pattern[b])
             /\ b \in InMap(pattern) <=> pattern[b] \in Range(keys)
  <2>1. pattern[b] \in Names /\ pattern[b] \in Range(pattern)
    BY <1>3, <1>4 DEF Range
  <2>2. pattern[b] \notin TakenNames
    <3>1. SUFFICES ASSUME NEW q \in 1..pos, Given(keys, argNames[q]),
                          pattern[b] = ChosenName(keys, argNames[q])
                   PROVE  FALSE
      BY DEF TakenNames
    <3>2. pattern[b] \in Range(argNames[q])
      BY <1>1, <3>1 DEF TakenFromOwnPattern
    <3>3. q \in DOMAIN argNames /\ q # pos + 1
      BY <1>1, <1>2, ArgTypes DEF TypeOK
    <3>4. Range(argNames[q]) \cap Range(pattern) = {}
      BY <1>1, <1>2, <3>3, ArgTypes DEF DisjointAliases
    <3> QED
      BY <2>1, <3>2, <3>4
  <2>3. argsIn[pattern[b]] = ValueOf(keys, pattern[b])
    BY <1>1, <2>1, <2>2 DEF MapHoldsRest, AtPattern
  <2>4. ValueOf(keys, pattern[b]) # 0 <=> pattern[b] \in Range(keys)
    BY <1>1, <2>1 DEF MapHoldsRest, AtPattern, ValueOf
  <2> QED
    BY <1>4, <2>1, <2>2, <2>3, <2>4 DEF InMap
<1> QED
  BY <1>3, <1>4

\* Every call starts with the invariant.
LEMMA InitIInv == Init => IInv
<1> SUFFICES ASSUME Init PROVE IInv
  OBVIOUS
<1>1. keys \in Seq(Names) /\ argNames \in Seq(Seq(Names))
  BY ArgsAssumption DEF Init
<1>2. TypeOK
  BY <1>1 DEF Init, TypeOK
<1>3. MapHoldsPrefix /\ TakenFromOwnPattern /\ VectorSoFar /\ Settled
  BY <1>1 DEF Init, MapHoldsPrefix, TakenFromOwnPattern, VectorSoFar, Settled
<1>4. MapHoldsRest
  <2> SUFFICES ASSUME read = Len(keys), NEW x \in Names
               PROVE  /\ argsIn[x] = IF x \in TakenNames THEN 0 ELSE ValueOf(keys, x)
                      /\ x \in Range(keys) => ValueOf(keys, x) # 0
    BY DEF MapHoldsRest
  <2>1. DOMAIN keys = {}
    BY <1>1 DEF Init
  <2>2. x \notin Range(keys)
    BY <2>1 DEF Range
  <2> QED
    BY <2>2 DEF Init, ValueOf
<1> QED
  BY <1>2, <1>3, <1>4 DEF IInv
-----------------------------------------------------------------------------
\* Reading one more member keeps the invariant.
LEMMA InsertArgIInv == IInv /\ InsertArg => IInv'
<1> SUFFICES ASSUME IInv, InsertArg PROVE IInv'
  OBVIOUS
<1> USE DEF InsertArg
<1>1. TypeOK /\ MapHoldsPrefix /\ VectorSoFar /\ Settled
  BY DEF IInv
<1>2. /\ pos = 0 /\ pos' = 0 /\ outcome = "running"
      /\ keys' = keys /\ argNames' = argNames /\ read' = read + 1
      /\ read \in Nat /\ read + 1 \in DOMAIN keys /\ keys[read + 1] \in Names
  BY <1>1, ArgTypes DEF TypeOK, VectorSoFar, Settled
<1>3. TypeOK'
  BY <1>1, <1>2, ArgTypes DEF TypeOK
<1>4. ASSUME NEW x \in Names
      PROVE  /\ argsIn'[x] # 0 => argsIn'[x] <= read + 1 /\ keys[argsIn'[x]] = x
             /\ \A j \in 1..(read + 1) : keys[j] = x => j <= argsIn'[x]
  <2>1. argsIn'[x] = IF x = keys[read + 1] THEN read + 1 ELSE argsIn[x]
    BY <1>1, <1>2 DEF TypeOK
  <2>2. /\ argsIn[x] \in Nat
        /\ argsIn[x] # 0 => argsIn[x] <= read /\ keys[argsIn[x]] = x
        /\ \A j \in 1..read : keys[j] = x => j <= argsIn[x]
    BY <1>1, <1>2, ArgTypes DEF TypeOK, MapHoldsPrefix
  <2>3. CASE x = keys[read + 1]
    BY <1>2, <2>1, <2>3
  <2>4. CASE x # keys[read + 1]
    BY <1>2, <2>1, <2>2, <2>4
  <2> QED
    BY <2>3, <2>4
<1>5. MapHoldsPrefix'
  BY <1>2, <1>4 DEF MapHoldsPrefix
<1>6. MapHoldsRest'
  <2> SUFFICES ASSUME read + 1 = Len(keys), NEW x \in Names
               PROVE  /\ argsIn'[x] = IF x \in TakenNames' THEN 0 ELSE ValueOf(keys, x)
                      /\ x \in Range(keys) => ValueOf(keys, x) # 0
    BY <1>2 DEF MapHoldsRest
  <2>1. x \notin TakenNames'
    BY <1>2 DEF TakenNames
  <2>2. DOMAIN keys = 1..(read + 1) /\ DOMAIN keys \subseteq Nat
    BY <1>1, ArgTypes
  <2>3. CASE argsIn'[x] # 0
    <3>1. argsIn'[x] \in DOMAIN keys
      BY <1>3, <2>2, <2>3, <1>2 DEF TypeOK
    <3>2. ValueOf(keys, x) = argsIn'[x]
      BY <1>4, <2>2, <2>3, <3>1, ValueOfIsLast
    <3> QED
      BY <2>1, <2>3, <3>2
  <2>4. CASE argsIn'[x] = 0
    <3>1. \A j \in DOMAIN keys : keys[j] # x
      BY <1>4, <2>2, <2>4
    <3>2. x \notin Range(keys)
      BY <3>1 DEF Range
    <3> QED
      BY <2>1, <2>4, <3>2 DEF ValueOf
  <2> QED
    BY <2>3, <2>4
<1>7. TakenFromOwnPattern' /\ Settled'
  BY <1>2 DEF TakenFromOwnPattern, Settled
<1>8. VectorSoFar'
  BY <1>1, <1>2 DEF VectorSoFar
<1> QED
  BY <1>3, <1>5, <1>6, <1>7, <1>8 DEF IInv

\* Taking an argument keeps the invariant.
LEMMA TakeArgIInv == IInv /\ TakeArg => IInv'
<1> SUFFICES ASSUME IInv, TakeArg PROVE IInv'
  OBVIOUS
<1> DEFINE pattern == argNames[pos + 1]
<1>1. TypeOK /\ TakenFromOwnPattern /\ MapHoldsRest /\ VectorSoFar /\ Settled
  BY DEF IInv
<1>2. AtPattern /\ read = Len(keys)
  BY DEF TakeArg, AtPattern
<1>3. /\ keys' = keys /\ argNames' = argNames /\ read' = read /\ outcome' = outcome
      /\ hole' = 0 /\ pos' = pos + 1
  BY DEF TakeArg
<1>4. PICK a \in InMap(pattern) :
        /\ \A b \in InMap(pattern) : a <= b
        /\ params' = (params \o Nulls(hole)) \o <<argsIn[pattern[a]]>>
        /\ argsIn' = [argsIn EXCEPT ![pattern[a]] = 0]
  BY DEF TakeArg
<1>5. /\ pos \in Nat /\ pos + 1 \in DOMAIN argNames /\ pos + 1 \in 0..Len(argNames)
      /\ Len(argNames) \in Nat
  BY <1>1, <1>2, ArgTypes DEF TypeOK, AtPattern
<1>6. /\ a \in DOMAIN pattern /\ pattern \in Seq(Names) /\ DOMAIN pattern \subseteq Nat
      /\ pattern[a] \in Names
      /\ pattern[a] \in Range(keys) /\ pattern[a] \in Range(pattern)
      /\ argsIn[pattern[a]] = ValueOf(keys, pattern[a])
  BY <1>2, <1>4, NextPatternUntaken DEF InMap, Range
<1>7. /\ Given(keys, pattern) /\ ChosenName(keys, pattern) = pattern[a]
  <2>1. \A b \in DOMAIN pattern : pattern[b] \in Range(keys) => a <= b
    BY <1>2, <1>4, NextPatternUntaken
  <2> QED
    BY <1>6, <2>1, ChosenIsFirst DEF Given
<1>8. TakenNames' = TakenNames \cup {pattern[a]}
  <2>1. {q \in 1..(pos + 1) : Given(keys, argNames[q])}
          = {q \in 1..pos : Given(keys, argNames[q])} \cup {pos + 1}
    BY <1>5, <1>7
  <2>2. TakenNames'
          = {ChosenName(keys, argNames[p]) : p \in {q \in 1..(pos + 1) : Given(keys, argNames[q])}}
    BY <1>3 DEF TakenNames
  <2> QED
    BY <1>7, <2>1, <2>2 DEF TakenNames
<1>9. /\ argsIn[pattern[a]] \in Nat /\ hole \in Nat /\ params \in Seq(Nat)
  BY <1>1, <1>6, ArgTypes DEF TypeOK
<1>10. /\ params' \in Seq(Nat)
       /\ Len(params') = Len(params) + hole + 1
       /\ \A p \in 1..Len(params') :
            params'[p] = IF p <= Len(params) THEN params[p]
                         ELSE IF p <= Len(params) + hole THEN NullArg
                              ELSE argsIn[pattern[a]]
  <2> DEFINE e == argsIn[pattern[a]]
  <2>1. e \in Nat /\ params' = (params \o Nulls(hole)) \o <<e>>
    BY <1>4, <1>9
  <2> HIDE DEF e
  <2>2. /\ params' \in Seq(Nat)
        /\ Len(params') = Len(params) + hole + 1
        /\ \A p \in 1..Len(params') :
             params'[p] = IF p <= Len(params) THEN params[p]
                          ELSE IF p <= Len(params) + hole THEN NullArg ELSE e
    BY <1>9, <2>1, PushAfterHole
  <2> QED
    BY <2>2 DEF e
<1>11. argsIn' \in [Names -> 0..Len(keys)]
  <2>1. argsIn \in [Names -> 0..Len(keys)] /\ 0 \in 0..Len(keys)
    BY <1>1, ArgTypes DEF TypeOK
  <2> QED
    BY <1>4, <2>1
<1>12. TypeOK'
  BY <1>1, <1>3, <1>5, <1>10, <1>11 DEF TypeOK
<1>13. MapHoldsPrefix'
  BY <1>3, <1>5 DEF MapHoldsPrefix
<1>14. TakenFromOwnPattern'
  <2> SUFFICES ASSUME NEW p \in 1..(pos + 1), Given(keys, argNames[p])
               PROVE  ChosenName(keys, argNames[p]) \in Range(argNames[p]) \cap Range(keys)
    BY <1>3 DEF TakenFromOwnPattern
  <2>1. p \in 1..pos \/ p = pos + 1
    BY <1>5
  <2> QED
    BY <1>1, <1>6, <1>7, <2>1 DEF TakenFromOwnPattern
<1>15. MapHoldsRest'
  <2> SUFFICES ASSUME NEW x \in Names
               PROVE  /\ argsIn'[x] = IF x \in TakenNames' THEN 0 ELSE ValueOf(keys, x)
                      /\ x \in Range(keys) => ValueOf(keys, x) # 0
    BY <1>3 DEF MapHoldsRest
  <2>1. argsIn'[x] = IF x = pattern[a] THEN 0 ELSE argsIn[x]
    BY <1>1, <1>4 DEF TypeOK
  <2>2. /\ argsIn[x] = IF x \in TakenNames THEN 0 ELSE ValueOf(keys, x)
        /\ x \in Range(keys) => ValueOf(keys, x) # 0
    BY <1>1, <1>2 DEF MapHoldsRest
  <2> QED
    BY <1>8, <2>1, <2>2
<1>16. VectorSoFar'
  <2>1. Len(params) \in Nat /\ Len(params) + hole = pos /\ Len(params') = pos + 1
        /\ DOMAIN params' = 1..(pos + 1) /\ DOMAIN params = 1..Len(params)
    BY <1>1, <1>9, <1>10 DEF VectorSoFar
  <2>2. ASSUME NEW p \in 1..(pos + 1)
        PROVE  params'[p] = IF Given(keys, argNames[p])
                            THEN ValueOf(keys, ChosenName(keys, argNames[p]))
                            ELSE NullArg
    <3>1. CASE p <= Len(params)
      BY <1>1, <1>10, <2>1, <3>1 DEF VectorSoFar
    <3>2. CASE p > Len(params) /\ p <= pos
      BY <1>1, <1>10, <2>1, <3>2 DEF VectorSoFar
    <3>3. CASE p = pos + 1
      BY <1>6, <1>7, <1>9, <1>10, <2>1, <3>3
    <3> QED
      BY <1>5, <2>1, <3>1, <3>2, <3>3
  <2> QED
    BY <1>2, <1>3, <1>5, <1>7, <2>1, <2>2 DEF VectorSoFar
<1>17. Settled'
  BY <1>1, <1>2, <1>3 DEF Settled, AtPattern, TypeOK
<1> QED
  BY <1>12, <1>13, <1>14, <1>15, <1>16, <1>17 DEF IInv

\* Skipping a pattern keeps the invariant.
LEMMA SkipArgIInv == IInv /\ SkipArg => IInv'
<1> SUFFICES ASSUME IInv, SkipArg PROVE IInv'
  OBVIOUS
<1> DEFINE pattern == argNames[pos + 1]
<1>1. TypeOK /\ TakenFromOwnPattern /\ MapHoldsRest /\ VectorSoFar /\ Settled
  BY DEF IInv
<1>2. AtPattern /\ read = Len(keys)
  BY DEF SkipArg, AtPattern
<1>3. /\ keys' = keys /\ argNames' = argNames /\ read' = read /\ outcome' = outcome
      /\ argsIn' = argsIn /\ params' = params
      /\ hole' = hole + 1 /\ pos' = pos + 1
  BY DEF SkipArg
<1>4. /\ pos \in Nat /\ pos + 1 \in DOMAIN argNames /\ pos + 1 \in 0..Len(argNames)
      /\ hole \in Nat /\ Len(params) \in Nat
  BY <1>1, <1>2, ArgTypes DEF TypeOK, AtPattern
<1>5. ~ Given(keys, pattern)
  BY <1>2, NextPatternUntaken DEF SkipArg, Given, InMap
<1>6. TypeOK'
  BY <1>1, <1>3, <1>4 DEF TypeOK
<1>7. TakenNames' = TakenNames
  <2>1. {q \in 1..(pos + 1) : Given(keys, argNames[q])}
          = {q \in 1..pos : Given(keys, argNames[q])}
    BY <1>4, <1>5
  <2>2. TakenNames'
          = {ChosenName(keys, argNames[p]) : p \in {q \in 1..(pos + 1) : Given(keys, argNames[q])}}
    BY <1>3 DEF TakenNames
  <2> QED
    BY <2>1, <2>2 DEF TakenNames
<1>8. MapHoldsPrefix' /\ MapHoldsRest'
  BY <1>1, <1>3, <1>4, <1>7 DEF MapHoldsPrefix, MapHoldsRest
<1>9. TakenFromOwnPattern'
  <2> SUFFICES ASSUME NEW p \in 1..(pos + 1), Given(keys, argNames[p])
               PROVE  ChosenName(keys, argNames[p]) \in Range(argNames[p]) \cap Range(keys)
    BY <1>3 DEF TakenFromOwnPattern
  <2>1. p \in 1..pos
    BY <1>4, <1>5
  <2> QED
    BY <1>1, <2>1 DEF TakenFromOwnPattern
<1>10. VectorSoFar'
  <2>1. \A p \in (Len(params) + 1)..(pos + 1) : ~ Given(keys, argNames[p])
    <3> TAKE p \in (Len(params) + 1)..(pos + 1)
    <3>1. p \in (Len(params) + 1)..pos \/ p = pos + 1
      BY <1>4
    <3> QED
      BY <1>1, <1>5, <3>1 DEF VectorSoFar
  <2> QED
    BY <1>1, <1>2, <1>3, <1>4, <2>1 DEF VectorSoFar
<1>11. Settled'
  BY <1>1, <1>2, <1>3 DEF Settled, AtPattern, TypeOK
<1> QED
  BY <1>6, <1>8, <1>9, <1>10, <1>11 DEF IInv

\* Returning or throwing keeps the invariant.
LEMMA FinishIInv == IInv /\ Finish => IInv'
<1> SUFFICES ASSUME IInv, Finish PROVE IInv'
  OBVIOUS
<1>1. TypeOK /\ MapHoldsPrefix /\ TakenFromOwnPattern /\ MapHoldsRest /\ VectorSoFar
  BY DEF IInv
<1>2. /\ keys' = keys /\ argNames' = argNames /\ read' = read /\ argsIn' = argsIn
      /\ pos' = pos /\ hole' = hole /\ params' = params
  BY DEF Finish
<1>3. TypeOK'
  BY <1>1, <1>2 DEF TypeOK, Finish
<1>4. MapHoldsPrefix' /\ TakenFromOwnPattern' /\ VectorSoFar'
  BY <1>1, <1>2 DEF MapHoldsPrefix, TakenFromOwnPattern, VectorSoFar
<1>5. TakenNames' = TakenNames
  BY <1>2 DEF TakenNames
<1>6. MapHoldsRest'
  BY <1>1, <1>2, <1>5 DEF MapHoldsRest
<1>7. Settled'
  BY <1>2 DEF Settled, Finish
<1> QED
  BY <1>3, <1>4, <1>6, <1>7 DEF IInv

\* IInv holds in every state of every call.
LEMMA Invariance == Spec => []IInv
<1>1. IInv /\ [Next]_vars => IInv'
  <2> SUFFICES ASSUME IInv, [Next]_vars PROVE IInv'
    OBVIOUS
  <2>1. CASE InsertArg
    BY <2>1, InsertArgIInv
  <2>2. CASE TakeArg
    BY <2>2, TakeArgIInv
  <2>3. CASE SkipArg
    BY <2>3, SkipArgIInv
  <2>4. CASE Finish
    BY <2>4, FinishIInv
  <2>5. CASE UNCHANGED vars
    BY <2>5 DEF vars, IInv, TypeOK, MapHoldsPrefix, TakenFromOwnPattern,
                MapHoldsRest, TakenNames, VectorSoFar, Settled
  <2> QED
    BY <2>1, <2>2, <2>3, <2>4, <2>5 DEF Next
<1> QED
  BY InitIInv, <1>1, PTL DEF Spec
-----------------------------------------------------------------------------
\* The variables of transformNamedArguments keep their types.
THEOREM TypeCorrect == Spec => []TypeOK
<1>1. IInv => TypeOK
  BY DEF IInv
<1> QED
  BY Invariance, <1>1, PTL

\* The vector a command's actor is called with (transformNamedArguments) is
\* the positional one, for every params object and every argument list.
THEOREM AlwaysPositional == Spec => []ReturnsPositional
<1>1. IInv => ReturnsPositional
  <2> SUFFICES ASSUME IInv, outcome = "returned"
               PROVE  IsPositional(params, keys, argNames)
    BY DEF ReturnsPositional
  <2>1. TypeOK /\ VectorSoFar /\ pos = Len(argNames)
    BY DEF IInv, Settled
  <2>2. /\ Len(params) \in Nat /\ hole \in Nat /\ Len(params) + hole = Len(argNames)
        /\ DOMAIN params = 1..Len(params) /\ DOMAIN argNames = 1..Len(argNames)
    BY <2>1, ArgTypes DEF TypeOK, VectorSoFar
  <2>3. ASSUME NEW p \in GivenPositions(keys, argNames) PROVE p <= Len(params)
    BY <2>1, <2>2 DEF GivenPositions, VectorSoFar
  <2>4. Len(params) # 0 => Len(params) \in GivenPositions(keys, argNames)
    BY <2>1, <2>2 DEF GivenPositions, VectorSoFar
  <2> QED
    BY <2>1, <2>2, <2>3, <2>4 DEF IsPositional, VectorSoFar
<1> QED
  BY Invariance, <1>1, PTL

\* transformNamedArguments throws exactly on a name the command does not take.
THEOREM NoArgumentLost == Spec => []ThrowsOnUnknownOnly
<1>1. IInv => ThrowsOnUnknownOnly
  <2> SUFFICES ASSUME IInv, outcome # "running"
               PROVE  ThrowsOnUnknownOnly
    BY DEF ThrowsOnUnknownOnly
  <2>1. TypeOK /\ MapHoldsRest /\ read = Len(keys) /\ pos = Len(argNames)
    BY DEF IInv, Settled
  <2>2. TakenNames = {ChosenName(keys, argNames[p]) : p \in GivenPositions(keys, argNames)}
    BY <2>1, ArgTypes DEF TakenNames, GivenPositions
  <2>3. Range(keys) \subseteq Names
    BY <2>1, ArgTypes DEF Range
  <2>4. ASSUME NEW x \in Names
        PROVE  argsIn[x] # 0 <=> x \in UnknownNames(keys, argNames)
    BY <2>1, <2>2, <2>4 DEF MapHoldsRest, UnknownNames, ValueOf
  <2>5. /\ outcome = "threw" => \E x \in Names : argsIn[x] # 0
        /\ outcome = "returned" => \A x \in Names : argsIn[x] = 0
    BY DEF IInv, Settled
  <2> QED
    BY <2>3, <2>4, <2>5 DEF ThrowsOnUnknownOnly, UnknownNames
<1> QED
  BY Invariance, <1>1, PTL
=============================================================================
