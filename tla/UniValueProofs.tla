--------------------------- MODULE UniValueProofs ---------------------------
(***************************************************************************)
(* Proofs about UniValueObject, for any values, keys and texts.            *)
(***************************************************************************)
EXTENDS UniValueObject, WellFoundedInduction, TLAPS

IInv == TypeOK /\ WellFormed

LEMMA Joined ==
  ASSUME NEW S, NEW a \in Seq(S), NEW b \in Seq(S)
  PROVE  a \o b \in Seq(S) /\ Len(a \o b) = Len(a) + Len(b)
OBVIOUS

LEMMA Appended ==
  ASSUME NEW S, NEW s \in Seq(S), NEW e \in S
  PROVE  Append(s, e) \in Seq(S) /\ Len(Append(s, e)) = Len(s) + 1
OBVIOUS

LEMMA Bound == MaxSize \in Nat
BY ObjectAssumption, Zenon

LEMMA SomeTexts == "" \in Texts /\ "1" \in Texts
BY ObjectAssumption, Zenon DEF Texts

LEMMA InitIInv == Init => IInv
<1> SUFFICES ASSUME Init PROVE IInv
  OBVIOUS
<1>1. /\ typ = [x \in Objs |-> "VNULL"] /\ val = [x \in Objs |-> ""]
      /\ keys = [x \in Objs |-> <<>>] /\ values = [x \in Objs |-> <<>>]
      /\ unset = {}
  BY DEF Init
<1>2. "" \in Texts
  BY SomeTexts
<1>3. TypeOK
  <2>1. typ \in [Objs -> Scalars \cup {"VARR", "VOBJ"}] /\ val \in [Objs -> Texts]
    BY <1>1, <1>2 DEF Scalars
  <2>2. keys \in [Objs -> Seq(Keys)] /\ values \in [Objs -> Seq(Elems)]
    <3>1. <<>> \in Seq(Keys) /\ <<>> \in Seq(Elems)
      OBVIOUS
    <3> QED BY <1>1, <3>1, Zenon
  <2>3. \A x \in Objs : Len(keys[x]) <= MaxSize /\ Len(values[x]) <= MaxSize
    <3>1. Len(<<>>) <= MaxSize
      BY Bound
    <3>2. \A x \in Objs : keys[x] = <<>> /\ values[x] = <<>>
      BY <1>1, Zenon
    <3> QED BY <3>1, <3>2
  <2> QED BY <1>1, <2>1, <2>2, <2>3 DEF TypeOK
<1>4. WellFormed
  BY <1>1 DEF WellFormed
<1> QED BY <1>3, <1>4 DEF IInv

LEMMA Replaced ==
  ASSUME NEW S, NEW s \in Seq(S), NEW e \in S, NEW i
  PROVE  [s EXCEPT ![i] = e] \in Seq(S) /\ Len([s EXCEPT ![i] = e]) = Len(s)
<1> DEFINE t == [s EXCEPT ![i] = e]
<1>1. Len(s) \in Nat /\ s \in [1..Len(s) -> S]
  OBVIOUS
<1>2. t \in [1..Len(s) -> S]
  BY <1>1
<1> HIDE DEF t
<1>3. t \in Seq(S) /\ Len(t) = Len(s)
  BY <1>1, <1>2
<1> QED BY <1>3 DEF t

\* What a setter leaves behind.
LEMMA Cleared ==
  ASSUME IInv, NEW x \in Objs, NEW type \in Scalars \cup {"VARR", "VOBJ"}, NEW text \in Texts,
         type = "VNUM" => text \in NumberTexts, Clear(x, type, text)
  PROVE  IInv'
<1>1. /\ typ' = [typ EXCEPT ![x] = type]
      /\ val' = [val EXCEPT ![x] = text]
      /\ keys' = [keys EXCEPT ![x] = <<>>]
      /\ values' = [values EXCEPT ![x] = <<>>]
      /\ unset' = unset \ {x}
  BY DEF Clear
<1>2. TypeOK'
  <2>1. (typ \in [Objs -> Scalars \cup {"VARR", "VOBJ"}])' /\ (val \in [Objs -> Texts])'
    BY <1>1 DEF IInv, TypeOK
  <2>2. (keys \in [Objs -> Seq(Keys)])' /\ (values \in [Objs -> Seq(Elems)])'
    BY <1>1 DEF IInv, TypeOK
  <2>3. (\A y \in Objs : Len(keys[y]) <= MaxSize /\ Len(values[y]) <= MaxSize)'
    <3>1. 0 <= MaxSize
      BY Bound
    <3> QED BY <1>1, <3>1 DEF IInv, TypeOK
  <2>4. (unset \subseteq Objs)'
    BY <1>1 DEF IInv, TypeOK
  <2> QED BY <2>1, <2>2, <2>3, <2>4 DEF TypeOK
<1>3. WellFormed'
  BY <1>1 DEF IInv, TypeOK, WellFormed
<1> QED BY <1>2, <1>3 DEF IInv

LEMMA StepSet == ASSUME IInv, NEW x \in Objs, Set(x) PROVE IInv'
<1>1. "" \in Texts /\ "1" \in Texts
  BY SomeTexts
<1>2. ASSUME NEW type \in {"VNULL", "VARR", "VOBJ"}, Clear(x, type, "") PROVE IInv'
  BY <1>1, <1>2, Cleared DEF Scalars
<1>3. ASSUME NEW text \in {"", "1"}, Clear(x, "VBOOL", text) PROVE IInv'
  BY <1>1, <1>3, Cleared DEF Scalars
<1>4. ASSUME NEW text \in Texts, Clear(x, "VSTR", text) PROVE IInv'
  BY <1>4, Cleared DEF Scalars
<1> QED BY <1>2, <1>3, <1>4 DEF Set, SetLiteral

LEMMA StepSetNumStr == ASSUME IInv, NEW x \in Objs, SetNumStr(x) PROVE IInv'
<1>1. PICK text \in NumberTexts : Clear(x, "VNUM", text)
  BY DEF SetNumStr
<1> QED BY <1>1, Cleared DEF Scalars, Texts

LEMMA StepSetFloat == ASSUME IInv, NEW x \in Objs, SetFloat(x) PROVE IInv'
<1>1. CASE SetNumStr(x)
  BY <1>1, StepSetNumStr
<1>2. CASE /\ typ' = [typ EXCEPT ![x] = "VNUM"]
           /\ unset' = unset \cup {x}
           /\ UNCHANGED <<val, keys, values>>
  <2>1. val' = val /\ keys' = keys /\ values' = values
    BY <1>2
  <2> QED BY <1>2, <2>1 DEF IInv, TypeOK, WellFormed, Scalars
<1> QED BY <1>1, <1>2 DEF SetFloat

LEMMA StepPushBack ==
  ASSUME IInv, NEW x \in Objs, NEW e \in Elems, PushBack(x, e) PROVE IInv'
<1>1. /\ typ[x] = "VARR" /\ Len(values[x]) < MaxSize
      /\ values' = [values EXCEPT ![x] = Append(values[x], e)]
      /\ typ' = typ /\ val' = val /\ keys' = keys /\ unset' = unset
  BY DEF PushBack
<1>2. values[x] \in Seq(Elems) /\ Len(values[x]) \in Nat
  BY DEF IInv, TypeOK
<1>3. /\ Append(values[x], e) \in Seq(Elems)
      /\ Len(Append(values[x], e)) <= MaxSize
  <2>1. MaxSize \in Nat
    BY Bound
  <2> QED BY <1>1, <1>2, <2>1, Appended
<1>4. TypeOK'
  BY <1>1, <1>3 DEF IInv, TypeOK
<1>5. WellFormed'
  BY <1>1 DEF IInv, TypeOK, WellFormed
<1> QED BY <1>4, <1>5 DEF IInv

LEMMA StepPushBackV ==
  ASSUME IInv, NEW x \in Objs, NEW y \in Objs, PushBackV(x, y) PROVE IInv'
<1>1. /\ typ[x] = "VARR" /\ Len(values[x]) + Len(values[y]) <= MaxSize
      /\ values' = [values EXCEPT ![x] = values[x] \o values[y]]
      /\ typ' = typ /\ val' = val /\ keys' = keys /\ unset' = unset
  BY DEF PushBackV
<1>2. values[x] \in Seq(Elems) /\ values[y] \in Seq(Elems)
  BY DEF IInv, TypeOK
<1>3. /\ values[x] \o values[y] \in Seq(Elems)
      /\ Len(values[x] \o values[y]) <= MaxSize
  BY <1>1, <1>2, Joined
<1>4. TypeOK'
  BY <1>1, <1>3 DEF IInv, TypeOK
<1>5. WellFormed'
  BY <1>1 DEF IInv, TypeOK, WellFormed
<1> QED BY <1>4, <1>5 DEF IInv


LEMMA StepPushKV ==
  ASSUME IInv, NEW x \in Objs, NEW k \in Keys, NEW e \in Elems, PushKV(x, k, e) PROVE IInv'
<1>1. /\ typ[x] = "VOBJ"
      /\ typ' = typ /\ val' = val /\ unset' = unset
  BY DEF PushKV
<1>2. /\ keys[x] \in Seq(Keys) /\ values[x] \in Seq(Elems)
      /\ Len(keys[x]) = Len(values[x]) /\ Len(values[x]) <= MaxSize
      /\ x \notin unset
  BY <1>1 DEF IInv, TypeOK, WellFormed
<1>3. CASE /\ findKey(x, k) # 0
           /\ values' = [values EXCEPT ![x][findKey(x, k)] = e]
           /\ keys' = keys
  <2> DEFINE s == [values[x] EXCEPT ![findKey(x, k)] = e]
  <2>1. s \in Seq(Elems) /\ Len(s) = Len(values[x])
    BY <1>2, Replaced
  <2>2. values' = [values EXCEPT ![x] = s]
    BY <1>3
  <2> HIDE DEF s
  <2>3. TypeOK'
    BY <1>1, <1>2, <1>3, <2>1, <2>2 DEF IInv, TypeOK
  <2>4. WellFormed'
    BY <1>1, <1>2, <1>3, <2>1, <2>2 DEF IInv, TypeOK, WellFormed
  <2> QED BY <2>3, <2>4 DEF IInv
<1>4. CASE /\ Len(keys[x]) < MaxSize
           /\ keys' = [keys EXCEPT ![x] = Append(keys[x], k)]
           /\ values' = [values EXCEPT ![x] = Append(values[x], e)]
  <2>1. /\ Append(keys[x], k) \in Seq(Keys) /\ Append(values[x], e) \in Seq(Elems)
        /\ Len(Append(keys[x], k)) = Len(Append(values[x], e))
        /\ Len(Append(keys[x], k)) <= MaxSize
    BY <1>2, <1>4, Bound
  <2>2. TypeOK'
    BY <1>1, <1>4, <2>1 DEF IInv, TypeOK
  <2>3. WellFormed'
    BY <1>1, <1>2, <1>4, <2>1 DEF IInv, TypeOK, WellFormed
  <2> QED BY <2>2, <2>3 DEF IInv
<1> QED BY <1>3, <1>4 DEF PushKV

LEMMA StepPushKVs ==
  ASSUME IInv, NEW x \in Objs, NEW y \in Objs, PushKVs(x, y) PROVE IInv'
<1>1. /\ typ[x] = "VOBJ" /\ typ[y] = "VOBJ"
      /\ Len(keys[x]) + Len(keys[y]) <= MaxSize
      /\ keys' = [keys EXCEPT ![x] = keys[x] \o keys[y]]
      /\ values' = [values EXCEPT ![x] = values[x] \o values[y]]
      /\ typ' = typ /\ val' = val /\ unset' = unset
  BY DEF PushKVs
<1>2. /\ keys[x] \in Seq(Keys) /\ values[x] \in Seq(Elems)
      /\ keys[y] \in Seq(Keys) /\ values[y] \in Seq(Elems)
      /\ Len(keys[x]) = Len(values[x]) /\ Len(keys[y]) = Len(values[y])
      /\ x \notin unset
  BY <1>1 DEF IInv, TypeOK, WellFormed
<1>3. /\ keys[x] \o keys[y] \in Seq(Keys) /\ values[x] \o values[y] \in Seq(Elems)
      /\ Len(keys[x] \o keys[y]) = Len(keys[x]) + Len(keys[y])
      /\ Len(values[x] \o values[y]) = Len(values[x]) + Len(values[y])
  BY <1>2, Joined
<1>4. TypeOK'
  BY <1>1, <1>2, <1>3 DEF IInv, TypeOK
<1>5. WellFormed'
  BY <1>1, <1>2, <1>3 DEF IInv, TypeOK, WellFormed
<1> QED BY <1>4, <1>5 DEF IInv

LEMMA StutterIInv == ASSUME IInv, UNCHANGED vars PROVE IInv'
BY DEF IInv, TypeOK, WellFormed, vars

LEMMA Inductive == Spec => []IInv
<1>1. IInv /\ [Next]_vars => IInv'
  BY StepSet, StepSetNumStr, StepSetFloat, StepPushBack, StepPushBackV, StepPushKV,
     StepPushKVs, StutterIInv DEF Next
<1> QED BY InitIInv, <1>1, PTL DEF Spec

\* Type correctness, for any values, keys and texts.
THEOREM TypeCorrect == Spec => []TypeOK
<1>1. IInv => TypeOK
  BY DEF IInv
<1> QED BY Inductive, <1>1, PTL

\* Whatever is called, an object has a value for each key, and what is left
\* over from an earlier type is left over from a failing setFloat.
THEOREM AlwaysWellFormed == Spec => []WellFormed
<1>1. IInv => WellFormed
  BY DEF IInv
<1> QED BY Inductive, <1>1, PTL

-----------------------------------------------------------------------------
LessNat == {p \in Nat \X Nat : p[1] < p[2]}

LEMMA LeastNat ==
  ASSUME NEW T, T \subseteq Nat, T # {}
  PROVE  \E x \in T : \A y \in T : x <= y
<1>1. OpToRel(<, Nat) = LessNat
  BY DEF OpToRel, LessNat
<1>2. PICK x \in T : \A y \in T : ~ (<<y, x>> \in LessNat)
  BY <1>1, NatLessThanWellFounded, WFMin
<1>3. ASSUME NEW y \in T, y < x PROVE FALSE
  <2>1. <<y, x>> \in Nat \X Nat
    OBVIOUS
  <2> QED BY <1>2, <1>3, <2>1 DEF LessNat
<1> QED BY <1>3

\* findKey as a function of the keys.
First(s, k) ==
  IF \E i \in DOMAIN s : s[i] = k
  THEN CHOOSE i \in DOMAIN s : s[i] = k /\ \A j \in 1..(i - 1) : s[j] # k
  ELSE 0

\* The value at the place of a key.
Looked(s, v, k) == IF First(s, k) # 0 THEN v[First(s, k)] ELSE Missing

LEMMA FirstNone ==
  ASSUME NEW S, NEW s \in Seq(S), NEW k, \A i \in 1..Len(s) : s[i] # k
  PROVE  First(s, k) = 0
<1>1. DOMAIN s = 1..Len(s)
  OBVIOUS
<1> QED BY <1>1, Zenon DEF First

LEMMA FirstSome ==
  ASSUME NEW S, NEW s \in Seq(S), NEW k, NEW h \in 1..Len(s), s[h] = k
  PROVE  /\ First(s, k) \in 1..Len(s) /\ First(s, k) # 0
         /\ s[First(s, k)] = k
         /\ \A j \in 1..(First(s, k) - 1) : s[j] # k
<1> DEFINE T == {i \in 1..Len(s) : s[i] = k}
           P(i) == s[i] = k /\ \A j \in 1..(i - 1) : s[j] # k
<1>1. DOMAIN s = 1..Len(s) /\ Len(s) \in Nat
  OBVIOUS
<1>2. T \subseteq Nat /\ h \in T
  BY <1>1
<1>3. PICK i \in T : \A j \in T : i <= j
  BY <1>2, LeastNat, Zenon
<1>4. i \in 1..Len(s) /\ s[i] = k
  BY <1>3
<1>5. \A j \in 1..(i - 1) : s[j] # k
  <2> SUFFICES ASSUME NEW j \in 1..(i - 1), s[j] = k PROVE FALSE
    OBVIOUS
  <2>1. j \in T /\ ~ (i <= j)
    BY <1>1, <1>4
  <2> QED BY <2>1, <1>3
<1>6. i \in DOMAIN s /\ P(i)
  BY <1>1, <1>4, <1>5
<1>7. First(s, k) = CHOOSE n \in DOMAIN s : P(n)
  BY <1>6, Zenon DEF First
<1>8. First(s, k) \in DOMAIN s /\ P(First(s, k))
  BY <1>6, <1>7, Zenon
<1>9. First(s, k) \in 1..Len(s)
  BY <1>1, <1>8, Zenon
<1> HIDE DEF P
<1>10. First(s, k) # 0
  BY <1>1, <1>9
<1> QED BY <1>8, <1>9, <1>10, Zenon DEF P

LEMMA FirstIs ==
  ASSUME NEW S, NEW s \in Seq(S), NEW k, NEW i \in 1..Len(s), s[i] = k,
         \A j \in 1..(i - 1) : s[j] # k
  PROVE  First(s, k) = i
<1> DEFINE f == First(s, k)
<1>1. f \in 1..Len(s) /\ s[f] = k /\ \A j \in 1..(f - 1) : s[j] # k
  BY FirstSome, Zenon
<1> HIDE DEF f
<1>2. Len(s) \in Nat
  OBVIOUS
<1>3. ~ (f < i) /\ ~ (i < f)
  BY <1>1, <1>2
<1> QED BY <1>1, <1>2, <1>3 DEF f

\* Looking up behind Append, at the end of pushKV, ...
LEMMA LookedAppend ==
  ASSUME NEW S, NEW s \in Seq(S), NEW V, NEW v \in Seq(V), Len(s) = Len(v),
         NEW k \in S, NEW e \in V, First(s, k) = 0, NEW q
  PROVE  Looked(Append(s, k), Append(v, e), q) = IF q = k THEN e ELSE Looked(s, v, q)
<1> DEFINE t == Append(s, k)
           w == Append(v, e)
           n == Len(s)
<1>1. /\ n \in Nat /\ t \in Seq(S) /\ Len(t) = n + 1
      /\ t[n + 1] = k /\ w[n + 1] = e
      /\ \A i \in 1..n : t[i] = s[i] /\ w[i] = v[i]
  OBVIOUS
<1>2. \A i \in 1..n : s[i] # k
  BY FirstSome, Zenon
<1> HIDE DEF t, w, n
<1>3. CASE q = k
  <2>1. First(t, q) = n + 1
    <3>1. n + 1 \in 1..Len(t) /\ t[n + 1] = q
      BY <1>1, <1>3
    <3>2. \A j \in 1..((n + 1) - 1) : t[j] # q
      BY <1>1, <1>2, <1>3
    <3> QED BY <1>1, <3>1, <3>2, FirstIs
  <2>2. n + 1 # 0
    BY <1>1
  <2> QED BY <1>1, <1>3, <2>1, <2>2, Zenon DEF Looked, t, w
<1>4. CASE q # k /\ \E i \in 1..n : s[i] = q
  <2> DEFINE f == First(s, q)
  <2>1. f \in 1..n /\ f # 0 /\ s[f] = q /\ \A j \in 1..(f - 1) : s[j] # q
    BY <1>4, FirstSome, Zenon DEF n
  <2> HIDE DEF f
  <2>2. First(t, q) = f
    <3>1. f \in 1..Len(t) /\ t[f] = q /\ \A j \in 1..(f - 1) : t[j] # q
      BY <1>1, <2>1
    <3> QED BY <1>1, <3>1, FirstIs
  <2>3. w[f] = v[f]
    BY <1>1, <2>1
  <2> QED BY <1>4, <2>1, <2>2, <2>3, Zenon DEF Looked, t, w, f
<1>5. CASE q # k /\ \A i \in 1..n : s[i] # q
  <2>1. First(s, q) = 0
    BY <1>5, FirstNone, Zenon DEF n
  <2>2. First(t, q) = 0
    <3>1. \A i \in 1..Len(t) : t[i] # q
      BY <1>1, <1>5
    <3> QED BY <1>1, <3>1, FirstNone, Zenon
  <2> QED BY <1>5, <2>1, <2>2, Zenon DEF Looked, t, w
<1> QED BY <1>3, <1>4, <1>5

\* ... where pushKV replaces a value, ...
LEMMA LookedReplace ==
  ASSUME NEW S, NEW s \in Seq(S), NEW V, NEW v \in Seq(V), Len(s) = Len(v),
         NEW k \in S, NEW e \in V, NEW f, f = First(s, k), f # 0, NEW q
  PROVE  Looked(s, [v EXCEPT ![f] = e], q) = IF q = k THEN e ELSE Looked(s, v, q)
<1> DEFINE g == First(s, q)
           w == [v EXCEPT ![f] = e]
<1>1. \E i \in 1..Len(s) : s[i] = k
  BY FirstNone, Zenon
<1>2. f \in 1..Len(s) /\ f # 0 /\ s[f] = k
  BY <1>1, FirstSome, Zenon
<1>3. f \in DOMAIN v /\ DOMAIN v = 1..Len(s)
  BY <1>2
<1>4. w[f] = e /\ \A i \in 1..Len(s) : i # f => w[i] = v[i]
  BY <1>3, Zenon
<1>5. g = 0 \/ (g \in 1..Len(s) /\ s[g] = q)
  BY FirstNone, FirstSome, Zenon
<1>6. CASE q = k
  BY <1>2, <1>4, <1>6, Zenon DEF Looked
<1>7. CASE q # k
  <2>1. g # 0 => w[g] = v[g]
    BY <1>2, <1>4, <1>5, <1>7, Zenon
  <2> QED BY <1>7, <2>1, Zenon DEF Looked
<1> QED BY <1>6, <1>7

\* ... and in two objects, one behind the other, as pushKVs leaves them.
LEMMA LookedJoined ==
  ASSUME NEW S, NEW s \in Seq(S), NEW s2 \in Seq(S), NEW V, NEW v \in Seq(V), NEW v2 \in Seq(V),
         Len(s) = Len(v), Len(s2) = Len(v2), Missing \notin V, NEW q
  PROVE  Looked(s \o s2, v \o v2, q) =
           IF Looked(s, v, q) = Missing THEN Looked(s2, v2, q) ELSE Looked(s, v, q)
<1> DEFINE t == s \o s2
           w == v \o v2
           n == Len(s)
           n2 == Len(s2)
<1>1. /\ n \in Nat /\ n2 \in Nat /\ t \in Seq(S) /\ Len(t) = n + n2
      /\ \A i \in 1..n : v[i] \in V
  OBVIOUS
<1>2. \A i \in 1..(n + n2) : t[i] = IF i <= n THEN s[i] ELSE s2[i - n]
  OBVIOUS
<1>3. \A i \in 1..(n + n2) : w[i] = IF i <= n THEN v[i] ELSE v2[i - n]
  OBVIOUS
<1> HIDE DEF t, w, n, n2
<1>4. CASE \E i \in 1..n : s[i] = q
  <2> DEFINE f == First(s, q)
  <2>1. f \in 1..n /\ f # 0 /\ s[f] = q /\ \A j \in 1..(f - 1) : s[j] # q
    BY <1>4, FirstSome, Zenon DEF n
  <2> HIDE DEF f
  <2>2. First(t, q) = f
    <3>1. f \in 1..Len(t) /\ f \in 1..(n + n2) /\ f <= n
      BY <1>1, <2>1
    <3>2. t[f] = q
      BY <1>2, <2>1, <3>1
    <3>3. ASSUME NEW j \in 1..(f - 1) PROVE t[j] # q
      <4>1. j \in 1..(n + n2) /\ j <= n
        BY <1>1, <2>1
      <4> QED BY <4>1, <1>2, <2>1
    <3> QED BY <1>1, <3>1, <3>2, <3>3, FirstIs
  <2>3. w[f] = v[f] /\ v[f] # Missing
    BY <1>1, <1>3, <2>1
  <2> QED BY <2>1, <2>2, <2>3, Zenon DEF Looked, t, w, f
<1>5. CASE ~ (\E i \in 1..n : s[i] = q) /\ \E i \in 1..n2 : s2[i] = q
  <2> DEFINE f == First(s2, q)
  <2>1. f \in 1..n2 /\ f # 0 /\ s2[f] = q /\ \A j \in 1..(f - 1) : s2[j] # q
    BY <1>5, FirstSome, Zenon DEF n2
  <2> HIDE DEF f
  <2>2. First(t, q) = n + f
    <3>1. n + f \in 1..Len(t) /\ ~ (n + f <= n) /\ (n + f) - n = f
      BY <1>1, <2>1
    <3>2. t[n + f] = q
      BY <1>1, <1>2, <2>1, <3>1
    <3>3. ASSUME NEW j \in 1..((n + f) - 1) PROVE t[j] # q
      <4>1. j \in 1..(n + n2) /\ (j <= n => j \in 1..n) /\ (~ (j <= n) => j - n \in 1..(f - 1))
        BY <1>1, <2>1
      <4> QED BY <4>1, <1>2, <1>5, <2>1
    <3> QED BY <1>1, <3>1, <3>2, <3>3, FirstIs
  <2>3. w[n + f] = v2[f] /\ n + f # 0
    <3>1. n + f \in 1..(n + n2) /\ ~ (n + f <= n) /\ (n + f) - n = f /\ n + f # 0
      BY <1>1, <2>1
    <3> QED BY <1>3, <3>1
  <2>4. First(s, q) = 0
    BY <1>5, FirstNone, Zenon DEF n
  <2> QED BY <2>1, <2>2, <2>3, <2>4, Zenon DEF Looked, t, w, f
<1>6. CASE ~ (\E i \in 1..n : s[i] = q) /\ ~ \E i \in 1..n2 : s2[i] = q
  <2>1. First(s, q) = 0 /\ First(s2, q) = 0
    BY <1>6, FirstNone, Zenon DEF n, n2
  <2>2. \A i \in 1..Len(t) : t[i] # q
    <3> SUFFICES ASSUME NEW i \in 1..Len(t) PROVE t[i] # q
      OBVIOUS
    <3>1. i \in 1..(n + n2) /\ (i <= n => i \in 1..n) /\ (~ (i <= n) => i - n \in 1..n2)
      BY <1>1
    <3> QED BY <3>1, <1>2, <1>6
  <2>3. First(t, q) = 0
    BY <1>1, <2>2, FirstNone, Zenon
  <2> QED BY <2>1, <2>3, Zenon DEF Looked, t, w
<1> QED BY <1>4, <1>5, <1>6
-----------------------------------------------------------------------------
\* What operator[] finds, by the key's first place.
Found(x, q) == IF typ[x] = "VOBJ" THEN Looked(keys[x], values[x], q) ELSE Missing

LEMMA IndexIsFound ==
  ASSUME NEW x \in Objs, NEW q \in Keys
  PROVE  Index(x, q) = Found(x, q) /\ Index(x, q)' = Found(x, q)'
<1>1. findKey(x, q) = First(keys[x], q) /\ findKey(x, q)' = First(keys'[x], q)
  BY Zenon DEF findKey, First
<1>2. Index(x, q) = Found(x, q)
  BY <1>1 DEF Index, Found, Looked
<1>3. Index(x, q)' = Found(x, q)'
  BY <1>1 DEF Index, Found, Looked
<1> QED BY <1>2, <1>3

members == [x \in Objs |-> [q \in Keys |-> Index(x, q)]]

Nothing == [q \in Keys |-> Missing]

LEMMA MembersAre ==
  /\ members = [x \in Objs |-> [q \in Keys |-> Found(x, q)]]
  /\ members' = [x \in Objs |-> [q \in Keys |-> Found(x, q)']]
<1>1. members = [x \in Objs |-> [q \in Keys |-> Found(x, q)]]
  BY IndexIsFound, Zenon DEF members
<1>2. members' = [x \in Objs |-> [q \in Keys |-> Found(x, q)']]
  BY IndexIsFound, Zenon DEF members
<1> QED BY <1>1, <1>2

\* A step that touches one value touches one map.
LEMMA OneMap ==
  ASSUME NEW x \in Objs, NEW f,
         \A y \in Objs \ {x} : typ'[y] = typ[y] /\ keys'[y] = keys[y] /\ values'[y] = values[y],
         [q \in Keys |-> Found(x, q)'] = f
  PROVE  members' = [members EXCEPT ![x] = f]
<1>1. ASSUME NEW y \in Objs, y # x, NEW q \in Keys PROVE Found(y, q)' = Found(y, q)
  BY <1>1, Zenon DEF Found
<1>2. ASSUME NEW y \in Objs PROVE members'[y] = IF y = x THEN f ELSE members[y]
  BY <1>1, MembersAre, Zenon
<1>3. members' = [y \in Objs |-> members'[y]]
  BY MembersAre, Zenon
<1>4. [members EXCEPT ![x] = f] = [y \in Objs |-> IF y = x THEN f ELSE members[y]]
  BY Zenon DEF members
<1> QED BY <1>2, <1>3, <1>4, Zenon

LEMMA NoneFound ==
  ASSUME NEW x \in Objs, typ'[x] # "VOBJ" \/ keys'[x] = <<>>
  PROVE  [q \in Keys |-> Found(x, q)'] = Nothing
<1>1. ASSUME NEW q \in Keys PROVE Found(x, q)' = Missing
  <2>1. CASE typ'[x] # "VOBJ"
    BY <2>1, Zenon DEF Found
  <2>2. CASE keys'[x] = <<>>
    <3>1. ~ \E i \in DOMAIN <<>> : <<>>[i] = q
      OBVIOUS
    <3> QED BY <2>2, <3>1, Zenon DEF Found, Looked, First
  <2> QED BY <2>1, <2>2
<1> QED BY <1>1, Zenon DEF Nothing

LEMMA ClearResets ==
  ASSUME IInv, NEW x \in Objs, NEW type, NEW text, Clear(x, type, text)
  PROVE  members' = [members EXCEPT ![x] = Nothing]
<1>1. /\ \A y \in Objs \ {x} :
           typ'[y] = typ[y] /\ keys'[y] = keys[y] /\ values'[y] = values[y]
      /\ keys'[x] = <<>>
  BY DEF Clear, IInv, TypeOK
<1> QED BY <1>1, NoneFound, OneMap, Zenon

LEMMA SetFloatResets ==
  ASSUME IInv, NEW x \in Objs, SetFloat(x)
  PROVE  members' = [members EXCEPT ![x] = Nothing]
<1>1. CASE SetNumStr(x)
  BY <1>1, ClearResets DEF SetNumStr
<1>2. CASE typ' = [typ EXCEPT ![x] = "VNUM"] /\ UNCHANGED <<val, keys, values>>
  <2>1. /\ \A y \in Objs \ {x} :
             typ'[y] = typ[y] /\ keys'[y] = keys[y] /\ values'[y] = values[y]
        /\ typ'[x] # "VOBJ"
    BY <1>2 DEF IInv, TypeOK
  <2> QED BY <2>1, NoneFound, OneMap, Zenon
<1> QED BY <1>1, <1>2 DEF SetFloat

\* Elements of arrays are not members.
LEMMA ArraysKeep ==
  ASSUME IInv, NEW x \in Objs, typ[x] = "VARR", typ' = typ, keys' = keys,
         \A y \in Objs \ {x} : values'[y] = values[y]
  PROVE  members' = members
<1>1. ASSUME NEW y \in Objs, NEW q \in Keys PROVE Found(y, q)' = Found(y, q)
  <2>1. CASE y = x
    <3>1. typ[y] # "VOBJ" /\ typ'[y] # "VOBJ"
      BY <2>1
    <3> QED BY <3>1, Zenon DEF Found
  <2>2. CASE y # x
    BY <2>2, Zenon DEF Found
  <2> QED BY <2>1, <2>2
<1> QED BY <1>1, MembersAre, Zenon

LEMMA PushKVPuts ==
  ASSUME IInv, NEW x \in Objs, NEW k \in Keys, NEW e \in Elems, PushKV(x, k, e)
  PROVE  members' = [members EXCEPT ![x][k] = e]
<1>1. typ[x] = "VOBJ" /\ typ' = typ
  BY DEF PushKV
<1>2. /\ keys[x] \in Seq(Keys) /\ values[x] \in Seq(Elems)
      /\ Len(keys[x]) = Len(values[x])
  BY <1>1 DEF IInv, TypeOK, WellFormed
<1>3. findKey(x, k) = First(keys[x], k)
  BY Zenon DEF findKey, First
<1>4. ASSUME NEW q \in Keys
      PROVE  Found(x, q)' = IF q = k THEN e ELSE Found(x, q)
  <2>1. CASE /\ findKey(x, k) # 0
             /\ values' = [values EXCEPT ![x][findKey(x, k)] = e]
             /\ keys' = keys
    <3>1. values'[x] = [values[x] EXCEPT ![First(keys[x], k)] = e]
      BY <2>1, <1>3 DEF IInv, TypeOK
    <3>2. First(keys[x], k) # 0
      BY <2>1, <1>3
    <3>3. Looked(keys[x], [values[x] EXCEPT ![First(keys[x], k)] = e], q) =
            IF q = k THEN e ELSE Looked(keys[x], values[x], q)
      BY <3>2, <1>2, LookedReplace
    <3> QED BY <3>1, <3>3, <2>1, <1>1, Zenon DEF Found
  <2>2. CASE /\ findKey(x, k) = 0
             /\ keys' = [keys EXCEPT ![x] = Append(keys[x], k)]
             /\ values' = [values EXCEPT ![x] = Append(values[x], e)]
    <3>1. keys'[x] = Append(keys[x], k) /\ values'[x] = Append(values[x], e)
      BY <2>2 DEF IInv, TypeOK
    <3>2. First(keys[x], k) = 0
      BY <2>2, <1>3
    <3>3. Looked(Append(keys[x], k), Append(values[x], e), q) =
            IF q = k THEN e ELSE Looked(keys[x], values[x], q)
      BY <3>2, <1>2, LookedAppend
    <3> QED BY <3>1, <3>3, <1>1, Zenon DEF Found
  <2> QED BY <2>1, <2>2 DEF PushKV
<1>5. \A y \in Objs \ {x} : typ'[y] = typ[y] /\ keys'[y] = keys[y] /\ values'[y] = values[y]
  BY <1>1 DEF PushKV, IInv, TypeOK
<1>6. [q \in Keys |-> Found(x, q)'] = [members[x] EXCEPT ![k] = e]
  <2>1. members[x] = [q \in Keys |-> Found(x, q)]
    BY MembersAre, Zenon
  <2> QED BY <2>1, <1>4, Zenon
<1>7. members' = [members EXCEPT ![x] = [members[x] EXCEPT ![k] = e]]
  BY <1>5, <1>6, OneMap, Zenon
<1> QED BY <1>7, Zenon

LEMMA PushKVsAdds ==
  ASSUME IInv, NEW x \in Objs, NEW y \in Objs, PushKVs(x, y)
  PROVE  members' = [members EXCEPT ![x] =
           [q \in Keys |-> IF members[x][q] = Missing THEN members[y][q] ELSE members[x][q]]]
<1>1. /\ typ[x] = "VOBJ" /\ typ[y] = "VOBJ" /\ typ' = typ
      /\ keys' = [keys EXCEPT ![x] = keys[x] \o keys[y]]
      /\ values' = [values EXCEPT ![x] = values[x] \o values[y]]
  BY DEF PushKVs
<1>2. /\ keys[x] \in Seq(Keys) /\ values[x] \in Seq(Elems)
      /\ keys[y] \in Seq(Keys) /\ values[y] \in Seq(Elems)
      /\ Len(keys[x]) = Len(values[x]) /\ Len(keys[y]) = Len(values[y])
  BY <1>1 DEF IInv, TypeOK, WellFormed
<1>3. keys'[x] = keys[x] \o keys[y] /\ values'[x] = values[x] \o values[y]
  BY <1>1 DEF IInv, TypeOK
<1>4. Missing \notin Elems
  BY ObjectAssumption, Zenon
<1>5. ASSUME NEW q \in Keys
      PROVE  Found(x, q)' = IF Found(x, q) = Missing THEN Found(y, q) ELSE Found(x, q)
  <2>1. Looked(keys[x] \o keys[y], values[x] \o values[y], q) =
          IF Looked(keys[x], values[x], q) = Missing
          THEN Looked(keys[y], values[y], q) ELSE Looked(keys[x], values[x], q)
    BY <1>2, <1>4, LookedJoined
  <2> QED BY <2>1, <1>1, <1>3, Zenon DEF Found
<1>6. \A z \in Objs \ {x} : typ'[z] = typ[z] /\ keys'[z] = keys[z] /\ values'[z] = values[z]
  BY <1>1 DEF IInv, TypeOK
<1>7. [q \in Keys |-> Found(x, q)'] =
        [q \in Keys |-> IF members[x][q] = Missing THEN members[y][q] ELSE members[x][q]]
  <2>1. \A q \in Keys : members[x][q] = Found(x, q) /\ members[y][q] = Found(y, q)
    BY MembersAre, Zenon
  <2> QED BY <2>1, <1>5, Zenon
<1> QED BY <1>6, <1>7, OneMap, Zenon

\* The steps of ObjectMap, in terms of `members'.
LEMMA LookupIs ==
  /\ Lookup!Init <=> members = [x \in Objs |-> Nothing]
  /\ \A x \in Objs, k \in Keys, e \in Elems :
       Lookup!Put(x, k, e) <=> members' = [members EXCEPT ![x][k] = e]
  /\ \A x \in Objs, y \in Objs :
       Lookup!AddAll(x, y) <=> members' = [members EXCEPT ![x] =
         [q \in Keys |-> IF members[x][q] = Missing THEN members[y][q] ELSE members[x][q]]]
  /\ \A x \in Objs : Lookup!Reset(x) <=> members' = [members EXCEPT ![x] = Nothing]
<1>1. Lookup!Init <=> members = [x \in Objs |-> Nothing]
  BY DEF Lookup!Init, Lookup!Nothing, members, Nothing
<1>2. ASSUME NEW x \in Objs, NEW k \in Keys, NEW e \in Elems
      PROVE  Lookup!Put(x, k, e) <=> members' = [members EXCEPT ![x][k] = e]
  BY DEF Lookup!Put, members
<1>3. ASSUME NEW x \in Objs, NEW y \in Objs
      PROVE  Lookup!AddAll(x, y) <=> members' = [members EXCEPT ![x] =
               [q \in Keys |-> IF members[x][q] = Missing THEN members[y][q] ELSE members[x][q]]]
  BY DEF Lookup!AddAll, members
<1>4. ASSUME NEW x \in Objs
      PROVE  Lookup!Reset(x) <=> members' = [members EXCEPT ![x] = Nothing]
  BY DEF Lookup!Reset, Lookup!Nothing, members, Nothing
<1> QED BY <1>1, <1>2, <1>3, <1>4

LEMMA InitIsMap == Init => Lookup!Init
<1> SUFFICES ASSUME Init PROVE members = [x \in Objs |-> Nothing]
  BY LookupIs
<1>1. \A x \in Objs, q \in Keys : Found(x, q) = Missing
  BY Zenon DEF Init, Found
<1> QED BY <1>1, MembersAre, Zenon DEF Nothing

LEMMA StepIsMap == ASSUME IInv, Next PROVE Lookup!Next \/ members' = members
<1>1. ASSUME NEW x \in Objs, Set(x) \/ SetNumStr(x) \/ SetFloat(x) PROVE Lookup!Next
  <2>1. members' = [members EXCEPT ![x] = Nothing]
    BY <1>1, ClearResets, SetFloatResets DEF Set, SetLiteral, SetNumStr
  <2> QED BY <2>1, LookupIs, Zenon DEF Lookup!Next
<1>2. ASSUME NEW x \in Objs, NEW e \in Elems, PushBack(x, e) PROVE members' = members
  <2>1. /\ typ[x] = "VARR" /\ typ' = typ /\ keys' = keys
        /\ \A y \in Objs \ {x} : values'[y] = values[y]
    BY <1>2 DEF PushBack, IInv, TypeOK
  <2> QED BY <2>1, ArraysKeep, Zenon
<1>3. ASSUME NEW x \in Objs, NEW k \in Keys, NEW e \in Elems, PushKV(x, k, e) PROVE Lookup!Next
  <2>1. Lookup!Put(x, k, e)
    BY <1>3, PushKVPuts, LookupIs
  <2> QED BY <2>1, Zenon DEF Lookup!Next
<1>4. ASSUME NEW x \in Objs, NEW y \in Objs, PushBackV(x, y) PROVE members' = members
  <2>1. /\ typ[x] = "VARR" /\ typ' = typ /\ keys' = keys
        /\ \A z \in Objs \ {x} : values'[z] = values[z]
    BY <1>4 DEF PushBackV, IInv, TypeOK
  <2> QED BY <2>1, ArraysKeep, Zenon
<1>5. ASSUME NEW x \in Objs, NEW y \in Objs, PushKVs(x, y) PROVE Lookup!Next
  <2>1. Lookup!AddAll(x, y)
    BY <1>5, PushKVsAdds, LookupIs
  <2> QED BY <2>1, Zenon DEF Lookup!Next
<1> QED BY <1>1, <1>2, <1>3, <1>4, <1>5 DEF Next

\* Looked up by operator[], every object is a map that pushKV, pushKVs and
\* the setters change as ObjectMap says, duplicate keys notwithstanding.
THEOREM ObjectIsMap == Spec => IsMap
<1>1. IInv /\ [Next]_vars => [Lookup!Next]_members
  <2>1. UNCHANGED vars => members' = members
    BY DEF vars, members, Index, findKey
  <2> QED BY <2>1, StepIsMap
<1>2. [Lookup!Next]_members <=> [Lookup!Next]_([x \in Objs |-> [k \in Keys |-> Index(x, k)]])
  BY DEF members
<1> QED BY InitIsMap, Inductive, <1>1, <1>2, PTL DEF Spec, IsMap, Lookup!Spec
-----------------------------------------------------------------------------
\* Where no key is there twice, its first place is its last.
LEMMA LookupsOfOne ==
  ASSUME IInv, NEW x \in Objs, Distinct(keys[x]), typ[x] = "VOBJ", NEW k \in DOMAIN getObjMap(x)
  PROVE  /\ findKey(x, k) # 0
         /\ getObjMap(x)[k] = values[x][findKey(x, k)]
<1> DEFINE s == keys[x]
           P(i) == s[i] = k /\ \A j \in (i + 1)..Len(s) : s[j] # k
<1>1. s \in Seq(Keys) /\ DOMAIN s = 1..Len(s) /\ Len(s) \in Nat
  BY DEF IInv, TypeOK
<1>2. PICK i \in 1..Len(s) : s[i] = k
  BY <1>1, Zenon DEF getObjMap
<1>3. \A j \in 1..Len(s) : s[j] = k => j = i
  BY <1>1, <1>2, Zenon DEF Distinct
<1>4. findKey(x, k) = i
  <2>1. \A j \in 1..(i - 1) : s[j] # k
    BY <1>1, <1>2, <1>3
  <2>2. First(s, k) = i
    BY <1>1, <1>2, <2>1, FirstIs
  <2>3. findKey(x, k) = First(s, k)
    BY Zenon DEF findKey, First
  <2> QED BY <2>2, <2>3
<1>5. (CHOOSE n \in DOMAIN s : P(n)) = i
  <2>1. \A j \in (i + 1)..Len(s) : s[j] # k
    BY <1>1, <1>2, <1>3
  <2>2. i \in DOMAIN s /\ P(i)
    BY <1>1, <1>2, <2>1, Zenon
  <2>3. \A n \in DOMAIN s : P(n) => n = i
    BY <1>1, <1>3, Zenon
  <2> QED BY <2>2, <2>3, Zenon
<1>6. getObjMap(x)[k] = values[x][CHOOSE n \in DOMAIN s : P(n)]
  BY Zenon DEF getObjMap
<1>7. i # 0
  BY <1>1
<1> QED BY <1>4, <1>5, <1>6, <1>7, Zenon

LEMMA Agree == IInv => LookupsAgree
<1> SUFFICES ASSUME IInv, NEW x \in Objs \ unset
             PROVE  /\ \A k \in Keys : find_value(x, k) = Index(x, k)
                    /\ Distinct(keys[x]) =>
                         \A k \in DOMAIN getObjMap(x) :
                           /\ getObjMap(x)[k] = Index(x, k)
                           /\ checkObject(x, [key \in {k} |-> getObjMap(x)[k].typ])
  BY Zenon DEF LookupsAgree
<1>1. typ[x] # "VOBJ" => keys[x] = <<>>
  BY DEF IInv, WellFormed
<1>2. ASSUME NEW k \in Keys PROVE find_value(x, k) = Index(x, k)
  <2>1. CASE typ[x] = "VOBJ"
    BY <2>1, Zenon DEF find_value, Index
  <2>2. CASE typ[x] # "VOBJ"
    <3>1. ~ \E i \in DOMAIN <<>> : <<>>[i] = k
      OBVIOUS
    <3>2. findKey(x, k) = 0
      BY <1>1, <2>2, <3>1, Zenon DEF findKey
    <3> QED BY <2>2, <3>2, Zenon DEF find_value, Index
  <2> QED BY <2>1, <2>2
<1>3. ASSUME Distinct(keys[x]), NEW k \in DOMAIN getObjMap(x)
      PROVE  /\ getObjMap(x)[k] = Index(x, k)
             /\ checkObject(x, [key \in {k} |-> getObjMap(x)[k].typ])
  <2>1. typ[x] = "VOBJ"
    <3> SUFFICES ASSUME typ[x] # "VOBJ" PROVE FALSE
      OBVIOUS
    <3>1. \E i \in DOMAIN keys[x] : keys[x][i] = k
      BY Zenon DEF getObjMap
    <3>2. ~ \E i \in DOMAIN <<>> : <<>>[i] = k
      OBVIOUS
    <3> QED BY <1>1, <3>1, <3>2, Zenon
  <2>2. /\ findKey(x, k) # 0
        /\ getObjMap(x)[k] = values[x][findKey(x, k)]
    BY <1>3, <2>1, LookupsOfOne, Zenon
  <2>3. getObjMap(x)[k] = Index(x, k)
    BY <2>1, <2>2, Zenon DEF Index
  <2>4. checkObject(x, [key \in {k} |-> getObjMap(x)[k].typ])
    BY <2>1, <2>2, Zenon DEF checkObject
  <2> QED BY <2>3, <2>4
<1> QED BY <1>2, <1>3

\* All ways to look a member up agree, on objects without duplicate keys.
THEOREM AlwaysAgree == Spec => []LookupsAgree
BY Inductive, Agree, PTL

LEMMA DistinctJoined ==
  ASSUME NEW S, NEW s \in Seq(S), NEW s2 \in Seq(S), Distinct(s), Distinct(s2),
         ~ \E i \in DOMAIN s, j \in DOMAIN s2 : s[i] = s2[j]
  PROVE  Distinct(s \o s2)
<1> DEFINE t == s \o s2
           n == Len(s)
           n2 == Len(s2)
<1>1. /\ n \in Nat /\ n2 \in Nat /\ DOMAIN t = 1..(n + n2)
      /\ DOMAIN s = 1..n /\ DOMAIN s2 = 1..n2
  OBVIOUS
<1>2. \A i \in 1..(n + n2) : t[i] = IF i <= n THEN s[i] ELSE s2[i - n]
  OBVIOUS
<1>3. /\ \A i, j \in 1..n : s[i] = s[j] => i = j
      /\ \A i, j \in 1..n2 : s2[i] = s2[j] => i = j
      /\ \A i \in 1..n, j \in 1..n2 : s[i] # s2[j]
  BY <1>1, Zenon DEF Distinct
<1> HIDE DEF t, n, n2
<1>4. ASSUME NEW i \in 1..(n + n2), NEW j \in 1..(n + n2), t[i] = t[j] PROVE i = j
  <2>1. /\ i <= n => i \in 1..n
        /\ ~ (i <= n) => i - n \in 1..n2
        /\ j <= n => j \in 1..n
        /\ ~ (j <= n) => j - n \in 1..n2
    BY <1>1
  <2>2. i - n = j - n => i = j
    BY <1>1
  <2> QED BY <1>2, <1>3, <1>4, <2>1, <2>2, Zenon
<1>5. \A i, j \in DOMAIN t : t[i] = t[j] => i = j
  BY <1>1, <1>4, Zenon
<1> QED BY <1>5 DEF t, Distinct

LEMMA DuplicatesStep ==
  ASSUME IInv, Next, NEW x \in Objs, Distinct(keys[x]), ~ Distinct(keys'[x])
  PROVE  \E y \in Objs \ {x} :
           /\ keys'[x] = keys[x] \o keys[y]
           /\ Distinct(keys[y]) =>
                \E i \in DOMAIN keys[x], j \in DOMAIN keys[y] : keys[x][i] = keys[y][j]
<1>1. keys'[x] # <<>> /\ keys'[x] # keys[x]
  BY DEF Distinct
<1>2. ASSUME NEW z \in Objs, NEW type, NEW text, Clear(z, type, text) PROVE FALSE
  BY <1>1, <1>2 DEF Clear, IInv, TypeOK
<1>3. ASSUME NEW z \in Objs, Set(z) \/ SetNumStr(z) \/ SetFloat(z) PROVE FALSE
  BY <1>1, <1>2, <1>3 DEF Set, SetLiteral, SetNumStr, SetFloat
<1>4. ASSUME NEW z \in Objs, NEW e \in Elems, PushBack(z, e) PROVE FALSE
  BY <1>1, <1>4 DEF PushBack
<1>5. ASSUME NEW z \in Objs, NEW y \in Objs, PushBackV(z, y) PROVE FALSE
  BY <1>1, <1>5 DEF PushBackV
<1>6. ASSUME NEW z \in Objs, NEW k \in Keys, NEW e \in Elems, PushKV(z, k, e) PROVE FALSE
  <2>1. z = x /\ findKey(x, k) = 0 /\ keys'[x] = Append(keys[x], k)
    BY <1>1, <1>6 DEF PushKV, IInv, TypeOK
  <2>2. keys[x] \in Seq(Keys)
    BY DEF IInv, TypeOK
  <2>3. First(keys[x], k) = 0
    BY <2>1, Zenon DEF findKey, First
  <2>4. \A i \in 1..Len(keys[x]) : keys[x][i] # k
    BY <2>2, <2>3, FirstSome, Zenon
  <2>5. Distinct(Append(keys[x], k))
    BY <2>2, <2>4 DEF Distinct
  <2> QED BY <2>1, <2>5
<1>7. ASSUME NEW z \in Objs, NEW y \in Objs \ {z}, PushKVs(z, y)
      PROVE  /\ z = x /\ keys'[x] = keys[x] \o keys[y]
             /\ Distinct(keys[y]) =>
                  \E i \in DOMAIN keys[x], j \in DOMAIN keys[y] : keys[x][i] = keys[y][j]
  <2>1. z = x /\ keys'[x] = keys[x] \o keys[y]
    BY <1>1, <1>7 DEF PushKVs, IInv, TypeOK
  <2>2. keys[x] \in Seq(Keys) /\ keys[y] \in Seq(Keys)
    BY DEF IInv, TypeOK
  <2>3. ASSUME Distinct(keys[y]),
               ~ \E i \in DOMAIN keys[x], j \in DOMAIN keys[y] : keys[x][i] = keys[y][j]
        PROVE  Distinct(keys[x] \o keys[y])
    BY <2>2, <2>3, DistinctJoined, Zenon
  <2> QED BY <2>1, <2>3
<1> QED BY <1>3, <1>4, <1>5, <1>6, <1>7 DEF Next

\* Only pushKVs makes duplicate keys, from keys that were there.
THEOREM OnlyPushKVsDuplicates == Spec => DuplicatesFromPushKVs
<1>1. IInv /\ [Next]_vars =>
        [\A x \in Objs :
           Distinct(keys[x]) /\ ~ Distinct(keys'[x]) =>
             \E y \in Objs \ {x} :
               /\ keys'[x] = keys[x] \o keys[y]
               /\ Distinct(keys[y]) =>
                    \E i \in DOMAIN keys[x], j \in DOMAIN keys[y] : keys[x][i] = keys[y][j]]_vars
  BY DuplicatesStep
<1> QED BY Inductive, <1>1, PTL DEF Spec, DuplicatesFromPushKVs
=============================================================================
