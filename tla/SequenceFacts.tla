--------------------------- MODULE SequenceFacts ---------------------------
(***************************************************************************)
(* What the proofs about texts keep needing: functions that are defined by *)
(* recursion exist, where the elements of a sequence are that was put      *)
(* together, and what is cut out of one.                                   *)
(***************************************************************************)
EXTENDS Integers, SequencesExt, SequenceTheorems, WellFoundedInduction, TLAPS

(* Functions that are defined by recursion on what lies behind a place.    *)

LessNat == {p \in Nat \X Nat : p[1] < p[2]}

LEMMA Least ==
  ASSUME NEW D, D \subseteq Nat, D # {}
  PROVE  \E d \in D : \A e \in D : d <= e
<1>1. OpToRel(<, Nat) = LessNat
  BY DEF OpToRel, LessNat
<1>2. PICK d \in D : \A e \in D : ~ (<<e, d>> \in LessNat)
  BY <1>1, NatLessThanWellFounded, WFMin
<1>3. ASSUME NEW e \in D, e < d PROVE FALSE
  <2>1. <<e, d>> \in Nat \X Nat
    OBVIOUS
  <2> QED BY <1>2, <1>3, <2>1 DEF LessNat
<1> QED BY <1>3

\* What the step h makes at i of the values behind i is a value again, and f
\* has the values it makes.
Steps(h, a, n, T) == \A i \in a..n : \A g \in [(i + 1)..n -> T] : h[i][g] \in T

Solves(f, h, a, n, T) ==
  /\ f \in [a..n -> T]
  /\ \A i \in a..n : f[i] = h[i][[k \in (i + 1)..n |-> f[k]]]

LEMMA Downward ==
  ASSUME NEW a \in Nat, NEW n \in Nat, a <= n + 1, NEW T, NEW h, Steps(h, a, n, T)
  PROVE  \E f : Solves(f, h, a, n, T)
<1> USE DEF Steps
<1> DEFINE Fits(f, lo) ==
             /\ f \in [lo..n -> T]
             /\ \A i \in lo..n : f[i] = h[i][[k \in (i + 1)..n |-> f[k]]]
           D == {m \in 0..(n + 1 - a) : ~ \E f : Fits(f, n + 1 - m)}
<1>1. ASSUME D # {} PROVE FALSE
  <2>1. D \subseteq Nat
    OBVIOUS
  <2>2. PICK m \in D : \A e \in D : m <= e
    <3> HIDE DEF D
    <3> QED BY <1>1, <2>1, Least
  <2>3. m \in 0..(n + 1 - a) /\ ~ \E f : Fits(f, n + 1 - m)
    <3> HIDE DEF Fits
    <3> QED BY <2>2
  <2>4. m # 0
    <3>1. Fits([x \in {} |-> x], n + 1)
      OBVIOUS
    <3> HIDE DEF Fits
    <3>2. SUFFICES ASSUME m = 0 PROVE FALSE
      OBVIOUS
    <3>3. n + 1 - m = n + 1
      BY <3>2
    <3> QED BY <2>3, <3>1, <3>3
  <2>5. m - 1 \in 0..(n + 1 - a) /\ m - 1 \notin D
    <3> HIDE DEF D
    <3> QED BY <2>2, <2>3, <2>4
  <2> DEFINE lo == n + 1 - m
  <2>6. lo \in a..n /\ n + 1 - (m - 1) = lo + 1
    BY <2>3, <2>4
  <2>7. PICK f : Fits(f, lo + 1)
    <3> HIDE DEF Fits
    <3> QED BY <2>5, <2>6
  <2> HIDE DEF lo
  <2> DEFINE g == [i \in lo..n |-> IF i = lo THEN h[lo][f] ELSE f[i]]
  <2>8. f \in [(lo + 1)..n -> T] /\ h[lo][f] \in T
    BY <2>6, <2>7
  <2>9. g \in [lo..n -> T]
    BY <2>6, <2>8
  <2>10. ASSUME NEW i \in lo..n PROVE g[i] = h[i][[k \in (i + 1)..n |-> g[k]]]
    <3>1. [k \in (i + 1)..n |-> g[k]] = [k \in (i + 1)..n |-> f[k]]
      <4>1. \A k \in (i + 1)..n : g[k] = f[k]
        BY <2>6
      <4> HIDE DEF g
      <4> QED BY <4>1
    <3>2. CASE i = lo
      <4>1. f = [k \in (i + 1)..n |-> f[k]]
        BY <2>8, <3>2
      <4> QED BY <3>1, <3>2, <4>1
    <3>3. CASE i # lo
      <4>1. i \in (lo + 1)..n /\ g[i] = f[i]
        BY <2>6, <3>3
      <4>2. f[i] = h[i][[k \in (i + 1)..n |-> f[k]]]
        BY <2>7, <4>1
      <4> QED BY <3>1, <4>1, <4>2
    <3> QED BY <3>2, <3>3
  <2>11. Fits(g, lo)
    <3> HIDE DEF g
    <3> QED BY <2>9, <2>10
  <2> HIDE DEF Fits, g
  <2> QED BY <2>3, <2>11 DEF lo
<1>2. n + 1 - a \in 0..(n + 1 - a) /\ n + 1 - (n + 1 - a) = a
  OBVIOUS
<1>3. \E f : Fits(f, a)
  <2> HIDE DEF Fits
  <2> QED BY <1>1, <1>2
<1> QED BY <1>3 DEF Solves

\* The same from the left, where a value depends on the one before it.
UpSteps(h, n, T) == \A i \in 1..n : \A v \in T : h[i][v] \in T

UpSolves(f, h, n, T, base) ==
  /\ f \in [0..n -> T]
  /\ f[0] = base
  /\ \A i \in 1..n : f[i] = h[i][f[i - 1]]

LEMMA Upward ==
  ASSUME NEW n \in Nat, NEW T, NEW base \in T, NEW h, UpSteps(h, n, T)
  PROVE  \E f : UpSolves(f, h, n, T, base)
<1> DEFINE D == {m \in 0..n : ~ \E f : UpSolves(f, h, m, T, base)}
<1>1. ASSUME D # {} PROVE FALSE
  <2>1. D \subseteq Nat
    OBVIOUS
  <2>2. PICK m \in D : \A e \in D : m <= e
    <3> HIDE DEF D
    <3> QED BY <1>1, <2>1, Least
  <2>3. m \in 0..n /\ ~ \E f : UpSolves(f, h, m, T, base)
    BY <2>2
  <2>4. UpSolves([x \in {0} |-> base], h, 0, T, base)
    BY DEF UpSolves
  <2>5. m # 0
    BY <2>3, <2>4, Zenon
  <2>6. m - 1 \in 0..n /\ m - 1 \notin D
    <3> HIDE DEF D
    <3> QED BY <2>2, <2>3, <2>5
  <2>7. PICK f : UpSolves(f, h, m - 1, T, base)
    BY <2>6, Zenon
  <2>8. m - 1 \in 0..(m - 1) /\ m \in 1..n
    BY <2>3, <2>5
  <2>9. f[m - 1] \in T /\ h[m][f[m - 1]] \in T
    BY <2>7, <2>8 DEF UpSolves, UpSteps
  <2> DEFINE g == [i \in 0..m |-> IF i = m THEN h[m][f[m - 1]] ELSE f[i]]
  <2>10. g \in [0..m -> T]
    <3>1. \A i \in 0..m : i # m => i \in 0..(m - 1)
      BY <2>8
    <3> QED BY <2>7, <2>9, <3>1 DEF UpSolves
  <2>11. g[0] = base
    BY <2>7, <2>8 DEF UpSolves
  <2>12. ASSUME NEW i \in 1..m PROVE g[i] = h[i][g[i - 1]]
    <3>1. i - 1 \in 0..(m - 1) /\ g[i - 1] = f[i - 1]
      BY <2>8
    <3>2. CASE i = m
      BY <2>8, <3>1, <3>2
    <3>3. CASE i # m
      <4>1. i \in 1..(m - 1) /\ g[i] = f[i]
        BY <2>8, <3>3
      <4>2. f[i] = h[i][f[i - 1]]
        BY <2>7, <4>1 DEF UpSolves
      <4> QED BY <3>1, <4>1, <4>2
    <3> QED BY <3>2, <3>3
  <2> HIDE DEF g
  <2>13. UpSolves(g, h, m, T, base)
    BY <2>10, <2>11, <2>12 DEF UpSolves
  <2> QED BY <2>3, <2>13, Zenon
<1>2. n \in 0..n
  OBVIOUS
<1> QED BY <1>1, <1>2

\* Induction from the right and from the left, over a set that is named.
LEMMA FromRight ==
  ASSUME NEW a \in Nat, NEW n \in Nat, NEW G,
         \A i \in a..n : (\A k \in (i + 1)..n : k \in G) => i \in G
  PROVE  \A i \in a..n : i \in G
<1> DEFINE D == {n - i : i \in {k \in a..n : k \notin G}}
<1>1. SUFFICES ASSUME NEW j \in a..n, j \notin G PROVE FALSE
  OBVIOUS
<1>2. n - j \in D /\ D \subseteq Nat
  BY <1>1
<1>3. PICK d \in D : \A e \in D : d <= e
  <2> HIDE DEF D
  <2> QED BY <1>2, Least
<1>4. PICK i \in a..n : i \notin G /\ d = n - i
  BY <1>3
<1>5. ASSUME NEW k \in (i + 1)..n, k \notin G PROVE FALSE
  <2>1. n - k \in D
    BY <1>4, <1>5
  <2>2. d <= n - k
    <3> HIDE DEF D
    <3> QED BY <1>3, <2>1
  <2> QED BY <1>4, <2>2
<1> QED BY <1>4, <1>5

LEMMA FromLeft ==
  ASSUME NEW a \in Nat, NEW n \in Nat, NEW G,
         \A i \in a..n : (\A k \in a..(i - 1) : k \in G) => i \in G
  PROVE  \A i \in a..n : i \in G
<1> DEFINE D == {i \in a..n : i \notin G}
<1>1. SUFFICES ASSUME D # {} PROVE FALSE
  OBVIOUS
<1>2. D \subseteq Nat
  OBVIOUS
<1>3. PICK i \in D : \A e \in D : i <= e
  <2> HIDE DEF D
  <2> QED BY <1>1, <1>2, Least
<1>4. ASSUME NEW k \in a..(i - 1), k \notin G PROVE FALSE
  <2>1. k \in D
    BY <1>3, <1>4
  <2>2. i <= k
    <3> HIDE DEF D
    <3> QED BY <1>3, <2>1
  <2> QED BY <1>3, <2>2
<1> QED BY <1>3, <1>4

-----------------------------------------------------------------------------
(* A sequence from some place on.                                          *)

LEMMA FunctionIsSeq ==
  ASSUME NEW S, NEW n \in Nat, NEW f \in [1..n -> S]
  PROVE  f \in Seq(S) /\ Len(f) = n
OBVIOUS

\* w is t behind s.
Joins(s, t, w, S) ==
  /\ w \in Seq(S) /\ Len(w) = Len(s) + Len(t)
  /\ \A k \in 1..Len(s) : w[k] = s[k]
  /\ \A k \in 1..Len(t) : w[Len(s) + k] = t[k]

LEMMA JoinedPlaces ==
  ASSUME NEW S, NEW s \in Seq(S), NEW t \in Seq(S)
  PROVE  Joins(s, t, s \o t, S)
<1>1. Len(s) \in Nat /\ Len(t) \in Nat
  OBVIOUS
<1>2. /\ s \o t \in Seq(S) /\ Len(s \o t) = Len(s) + Len(t)
      /\ \A i \in 1..(Len(s) + Len(t)) :
           (s \o t)[i] = IF i <= Len(s) THEN s[i] ELSE t[i - Len(s)]
  BY ConcatProperties, Zenon
<1>3. PICK w : w = s \o t
  OBVIOUS
<1>4. \A i \in 1..(Len(s) + Len(t)) : w[i] = IF i <= Len(s) THEN s[i] ELSE t[i - Len(s)]
  BY <1>2, <1>3, Zenon
<1>5. ASSUME NEW k \in 1..Len(s) PROVE w[k] = s[k]
  BY <1>1, <1>4
<1>6. ASSUME NEW k \in 1..Len(t) PROVE w[Len(s) + k] = t[k]
  <2>1. /\ Len(s) + k \in 1..(Len(s) + Len(t)) /\ ~ (Len(s) + k <= Len(s))
        /\ Len(s) + k - Len(s) = k
    BY <1>1
  <2> QED BY <1>4, <2>1
<1> QED BY <1>2, <1>3, <1>5, <1>6, Zenon DEF Joins

\* One element, and a sequence behind it or in front of it.
LEMMA OneElementMore ==
  ASSUME NEW S, NEW e \in S, NEW s \in Seq(S)
  PROVE  /\ <<e>> \o s \in Seq(S) /\ Len(<<e>> \o s) = Len(s) + 1
         /\ (<<e>> \o s)[1] = e
         /\ \A k \in 1..Len(s) : (<<e>> \o s)[k + 1] = s[k]
         /\ s \o <<e>> \in Seq(S) /\ Len(s \o <<e>>) = Len(s) + 1
         /\ (s \o <<e>>)[Len(s) + 1] = e
         /\ \A k \in 1..Len(s) : (s \o <<e>>)[k] = s[k]
<1>1. PICK q : q = <<e>>
  OBVIOUS
<1>2. q \in Seq(S) /\ Len(q) = 1 /\ q[1] = e
  BY <1>1
<1>3. Len(s) \in Nat
  OBVIOUS
<1>4. /\ q \o s \in Seq(S) /\ Len(q \o s) = 1 + Len(s)
      /\ \A i \in 1..(1 + Len(s)) : (q \o s)[i] = IF i <= 1 THEN q[i] ELSE s[i - 1]
  <2>1. /\ q \o s \in Seq(S) /\ Len(q \o s) = Len(q) + Len(s)
        /\ \A i \in 1..(Len(q) + Len(s)) :
             (q \o s)[i] = IF i <= Len(q) THEN q[i] ELSE s[i - Len(q)]
    BY <1>2, ConcatProperties, Zenon
  <2> QED BY <1>2, <2>1, Zenon
<1>5. /\ s \o q \in Seq(S) /\ Len(s \o q) = Len(s) + 1
      /\ \A i \in 1..(Len(s) + 1) : (s \o q)[i] = IF i <= Len(s) THEN s[i] ELSE q[i - Len(s)]
  <2>1. /\ s \o q \in Seq(S) /\ Len(s \o q) = Len(s) + Len(q)
        /\ \A i \in 1..(Len(s) + Len(q)) :
             (s \o q)[i] = IF i <= Len(s) THEN s[i] ELSE q[i - Len(s)]
    BY <1>2, ConcatProperties, Zenon
  <2> QED BY <1>2, <2>1, Zenon
<1>6. PICK x, y : x = q \o s /\ y = s \o q
  OBVIOUS
<1>7. /\ Len(x) = Len(s) + 1 /\ x[1] = e /\ \A k \in 1..Len(s) : x[k + 1] = s[k]
  BY <1>2, <1>3, <1>4, <1>6
<1>8. /\ Len(y) = Len(s) + 1 /\ y[Len(s) + 1] = e /\ \A k \in 1..Len(s) : y[k] = s[k]
  BY <1>2, <1>3, <1>5, <1>6
<1> QED BY <1>1, <1>4, <1>5, <1>6, <1>7, <1>8, Zenon

\* The elements from k on.
From(s, k) == [l \in 1..(Len(s) + 1 - k) |-> s[k + l - 1]]

LEMMA FromType ==
  ASSUME NEW S, NEW s \in Seq(S), NEW k \in 1..(Len(s) + 1)
  PROVE  /\ From(s, k) \in Seq(S) /\ Len(From(s, k)) = Len(s) + 1 - k
         /\ \A l \in 1..(Len(s) + 1 - k) : From(s, k)[l] = s[k + l - 1]
<1> DEFINE n == Len(s) + 1 - k
           t == From(s, k)
<1>1. Len(s) \in Nat /\ n \in Nat
  OBVIOUS
<1>2. \A l \in 1..n : s[k + l - 1] \in S
  <2>1. \A l \in 1..n : k + l - 1 \in 1..Len(s)
    BY <1>1
  <2> QED BY <2>1, ElementOfSeq, Zenon
<1>3. t \in [1..n -> S] /\ \A l \in 1..n : t[l] = s[k + l - 1]
  BY <1>2 DEF From
<1> HIDE DEF t, n
<1>4. t \in Seq(S) /\ Len(t) = n
  BY <1>1, <1>3, FunctionIsSeq
<1> QED BY <1>3, <1>4, Zenon DEF t, n

LEMMA FromMore ==
  ASSUME NEW S, NEW s \in Seq(S), NEW k \in 1..Len(s)
  PROVE  <<s[k]>> \o From(s, k + 1) = From(s, k)
<1> DEFINE n == Len(s)
<1>1. n \in Nat /\ k + 1 \in 1..(n + 1) /\ k \in 1..(n + 1) /\ s[k] \in S
  <2>1. s[k] \in S
    BY ElementOfSeq, Zenon
  <2> QED BY <2>1
<1>2. PICK e, rest, all : e = s[k] /\ rest = From(s, k + 1) /\ all = From(s, k)
  OBVIOUS
<1>3. rest \in Seq(S) /\ Len(rest) = n + 1 - (k + 1)
      /\ \A l \in 1..(n + 1 - (k + 1)) : rest[l] = s[k + 1 + l - 1]
  BY <1>1, <1>2, FromType, Zenon
<1>4. all \in Seq(S) /\ Len(all) = n + 1 - k
      /\ \A l \in 1..(n + 1 - k) : all[l] = s[k + l - 1]
  BY <1>1, <1>2, FromType, Zenon
<1>5. PICK t : t = <<e>> \o rest
  OBVIOUS
<1>6. /\ t \in Seq(S) /\ Len(t) = Len(rest) + 1
      /\ t[1] = e
      /\ \A l \in 1..Len(rest) : t[l + 1] = rest[l]
  BY <1>1, <1>2, <1>3, <1>5, OneElementMore
<1>7. n + 1 - (k + 1) = n - k /\ Len(t) = n + 1 - k /\ Len(rest) = n - k
  BY <1>1, <1>3, <1>6
<1>8. ASSUME NEW l \in 1..(n + 1 - k) PROVE t[l] = all[l]
  <2>1. CASE l = 1
    <3>1. k + l - 1 = k
      BY <1>1, <2>1
    <3> QED BY <1>2, <1>4, <1>6, <2>1, <3>1
  <2>2. CASE l # 1
    <3>1. l - 1 + 1 = l /\ l - 1 \in 1..(n - k) /\ k + 1 + (l - 1) - 1 = k + l - 1
      BY <1>1, <2>2
    <3>2. t[l] = rest[l - 1]
      BY <1>6, <1>7, <3>1
    <3>3. rest[l - 1] = s[k + 1 + (l - 1) - 1]
      BY <1>3, <1>7, <3>1
    <3> QED BY <1>4, <3>1, <3>2, <3>3
  <2> QED BY <2>1, <2>2
<1>9. t = all
  <2>1. Len(t) = Len(all) /\ \A l \in 1..Len(t) : t[l] = all[l]
    BY <1>4, <1>7, <1>8
  <2> QED BY <1>4, <1>6, <2>1, SeqEqual
<1> QED BY <1>2, <1>5, <1>9, Zenon

LEMMA FromEnds ==
  ASSUME NEW S, NEW s \in Seq(S)
  PROVE  From(s, Len(s) + 1) = <<>> /\ From(s, 1) = s
<1>1. Len(s) \in Nat
  OBVIOUS
<1>2. 1..(Len(s) + 1 - (Len(s) + 1)) = {}
  BY <1>1
<1>3. From(s, Len(s) + 1) = <<>>
  BY <1>2 DEF From
<1>4. From(s, 1) = s
  <2>1. PICK t : t = From(s, 1)
    OBVIOUS
  <2>2. 1 \in 1..(Len(s) + 1)
    BY <1>1
  <2>3. t \in Seq(S) /\ Len(t) = Len(s) + 1 - 1
        /\ \A l \in 1..(Len(s) + 1 - 1) : t[l] = s[1 + l - 1]
    BY <2>1, <2>2, FromType
  <2>4. Len(t) = Len(s) /\ \A l \in 1..Len(t) : t[l] = s[l]
    BY <1>1, <2>3
  <2>5. t = s
    BY <2>3, <2>4, SeqEqual
  <2> QED BY <2>1, <2>5
<1> QED BY <1>3, <1>4

-----------------------------------------------------------------------------
(* What is put together from pieces, and where they are.                   *)

\* t is the pieces ss one behind the other, and off says where they begin.
Pieced(ss, off, t) ==
  /\ off \in [1..(Len(ss) + 1) -> 1..(Len(t) + 1)]
  /\ off[1] = 1
  /\ off[Len(ss) + 1] = Len(t) + 1
  /\ \A k \in 1..Len(ss) :
       /\ off[k + 1] = off[k] + Len(ss[k])
       /\ \A j \in 1..Len(ss[k]) : t[off[k] + j - 1] = ss[k][j]

\* t is the first i pieces, ends[k] the place behind the piece k.
FirstPieces(ss, ends, i, t, S) ==
  /\ t \in Seq(S)
  /\ Len(t) + 1 = ends[i]
  /\ \A k \in 1..i : /\ ends[k] <= ends[i]
                     /\ \A j \in 1..Len(ss[k]) : t[ends[k - 1] + j - 1] = ss[k][j]

Ends(ss, ends) ==
  /\ ends \in [0..Len(ss) -> Nat]
  /\ ends[0] = 1
  /\ \A i \in 1..Len(ss) : ends[i] = ends[i - 1] + Len(ss[i])

LEMMA EndsExist ==
  ASSUME NEW S, NEW ss \in Seq(Seq(S))
  PROVE  \E ends : Ends(ss, ends)
<1> DEFINE n == Len(ss)
           h == [i \in 1..n |-> [v \in Nat |-> v + Len(ss[i])]]
<1>1. n \in Nat /\ \A i \in 1..n : Len(ss[i]) \in Nat
  OBVIOUS
<1> HIDE DEF n
<1>2. UpSteps(h, n, Nat)
  BY <1>1 DEF UpSteps
<1>3. PICK f : UpSolves(f, h, n, Nat, 1)
  <2> HIDE DEF h
  <2> QED BY <1>1, <1>2, Upward
<1>4. ASSUME NEW i \in 1..n PROVE f[i] = f[i - 1] + Len(ss[i])
  <2>1. i - 1 \in 0..n /\ f[i - 1] \in Nat
    BY <1>1, <1>3 DEF UpSolves
  <2>2. f[i] = h[i][f[i - 1]]
    BY <1>3 DEF UpSolves
  <2> QED BY <2>1, <2>2
<1>5. Ends(ss, f)
  BY <1>3, <1>4 DEF Ends, UpSolves, n
<1> QED BY <1>5

LEMMA EndsPositive ==
  ASSUME NEW S, NEW ss \in Seq(Seq(S)), NEW ends, Ends(ss, ends), NEW k \in 0..Len(ss)
  PROVE  1 <= ends[k]
<1> DEFINE G == {l \in 0..Len(ss) : 1 <= ends[l]}
<1>1. Len(ss) \in Nat
  OBVIOUS
<1>2. ASSUME NEW l \in 0..Len(ss), \A x \in 0..(l - 1) : x \in G PROVE l \in G
  <2>1. CASE l = 0
    BY <2>1 DEF Ends
  <2>2. CASE l # 0
    <3>1. l \in 1..Len(ss) /\ l - 1 \in 0..(l - 1) /\ l - 1 \in 0..Len(ss)
      BY <1>1, <2>2
    <3>2. 1 <= ends[l - 1] /\ ends[l - 1] \in Nat
      BY <1>2, <3>1 DEF Ends
    <3>3. ends[l] = ends[l - 1] + Len(ss[l]) /\ Len(ss[l]) \in Nat
      BY <3>1 DEF Ends
    <3> QED BY <3>2, <3>3
  <2> QED BY <2>1, <2>2
<1> HIDE DEF G
<1>3. \A l \in 0..Len(ss) : l \in G
  BY <1>1, <1>2, FromLeft
<1> QED BY <1>3 DEF G

LEMMA PieceMore ==
  ASSUME NEW S, NEW ss \in Seq(Seq(S)), NEW ends, Ends(ss, ends), NEW i \in 1..Len(ss),
         NEW t, i = 1 => t = <<>>,
         i # 1 => FirstPieces(ss, ends, i - 1, t, S)
  PROVE  FirstPieces(ss, ends, i, t \o ss[i], S)
<1>1. /\ Len(ss) \in Nat
      /\ \A k \in 1..Len(ss) : ss[k] \in Seq(S) /\ Len(ss[k]) \in Nat
  OBVIOUS
<1>2. /\ \A k \in 0..Len(ss) : ends[k] \in Nat
      /\ ends[0] = 1
      /\ \A k \in 1..Len(ss) : ends[k] = ends[k - 1] + Len(ss[k])
  BY DEF Ends
<1>3. /\ t \in Seq(S) /\ Len(t) \in Nat
      /\ Len(t) + 1 = ends[i - 1]
      /\ \A k \in 1..(i - 1) : /\ ends[k] <= ends[i - 1]
                               /\ \A j \in 1..Len(ss[k]) : t[ends[k - 1] + j - 1] = ss[k][j]
  <2>1. CASE i = 1
    BY <1>2, <2>1
  <2>2. CASE i # 1
    BY <2>2 DEF FirstPieces
  <2> QED BY <2>1, <2>2
<1>4. PICK p, w : p = ss[i] /\ w = t \o p
  OBVIOUS
<1>5. p \in Seq(S) /\ Len(p) = Len(ss[i]) /\ Len(p) \in Nat
  BY <1>1, <1>4
<1>6. /\ w \in Seq(S) /\ Len(w) = Len(t) + Len(p)
      /\ \A j \in 1..Len(t) : w[j] = t[j]
      /\ \A j \in 1..Len(p) : w[Len(t) + j] = p[j]
  <2>1. t \in Seq(S) /\ p \in Seq(S)
    BY <1>3, <1>5
  <2>2. Joins(t, p, w, S)
    BY <1>4, <2>1, JoinedPlaces, Zenon
  <2> QED BY <2>2, Zenon DEF Joins
<1>7. i - 1 \in 0..Len(ss) /\ ends[i - 1] \in Nat /\ ends[i] = ends[i - 1] + Len(p)
  BY <1>1, <1>2, <1>5
<1>8. Len(w) + 1 = ends[i]
  BY <1>3, <1>5, <1>6, <1>7
<1>9. ASSUME NEW k \in 1..i
      PROVE  /\ ends[k] <= ends[i]
             /\ \A j \in 1..Len(ss[k]) : w[ends[k - 1] + j - 1] = ss[k][j]
  <2>1. CASE k = i
    <3>1. ASSUME NEW j \in 1..Len(ss[k]) PROVE w[ends[k - 1] + j - 1] = ss[k][j]
      <4>1. j \in 1..Len(p) /\ ss[k] = p
        BY <1>4, <1>5, <2>1
      <4>2. ends[k - 1] + j - 1 = Len(t) + j
        BY <1>3, <1>7, <2>1
      <4> QED BY <1>6, <4>1, <4>2
    <3> QED BY <1>5, <1>7, <2>1, <3>1
  <2>2. CASE k # i
    <3>1. k \in 1..(i - 1) /\ k \in 1..Len(ss) /\ k - 1 \in 0..Len(ss) /\ k \in 0..Len(ss)
      BY <1>1, <2>2
    <3>2. /\ ends[k] <= ends[i - 1] /\ ends[k] \in Nat /\ ends[k - 1] \in Nat
          /\ ends[k] = ends[k - 1] + Len(ss[k])
      BY <1>2, <1>3, <3>1
    <3>3. ASSUME NEW j \in 1..Len(ss[k]) PROVE w[ends[k - 1] + j - 1] = ss[k][j]
      <4>1. 1 <= ends[k - 1]
        BY <3>1, EndsPositive
      <4>2. ends[k - 1] + j - 1 \in 1..Len(t)
        <5>1. PICK x, l, y : x = ends[k - 1] /\ l = Len(ss[k]) /\ y = ends[i - 1]
          OBVIOUS
        <5>2. x \in Nat /\ l \in Nat /\ y \in Nat /\ 1 <= x /\ x + l <= y /\ Len(t) + 1 = y
          BY <1>1, <1>3, <1>7, <3>1, <3>2, <4>1, <5>1
        <5>3. j \in 1..l
          BY <5>1
        <5>4. x + j - 1 \in 1..Len(t)
          BY <1>3, <5>2, <5>3
        <5> QED BY <5>1, <5>4
      <4>3. t[ends[k - 1] + j - 1] = ss[k][j]
        BY <1>3, <3>1
      <4> QED BY <1>6, <4>2, <4>3
    <3>4. ends[k] <= ends[i]
      BY <1>5, <1>7, <3>2
    <3> QED BY <3>3, <3>4
  <2> QED BY <2>1, <2>2
<1>10. FirstPieces(ss, ends, i, w, S)
  BY <1>6, <1>8, <1>9, Zenon DEF FirstPieces
<1> QED BY <1>4, <1>10

LEMMA FlattenPieces ==
  ASSUME NEW S, NEW ss \in Seq(Seq(S))
  PROVE  /\ FlattenSeq(ss) \in Seq(S)
         /\ \E off : Pieced(ss, off, FlattenSeq(ss))
<1> DEFINE n == Len(ss)
           E(f, i) == IF i = 1 THEN ss[i] ELSE f[i - 1] \o ss[i]
           F == CHOOSE f : f = [i \in 1..Len(ss) |-> E(f, i)]
<1>1. n \in Nat
  OBVIOUS
<1>2. PICK ends : Ends(ss, ends)
  BY EndsExist
<1>3. FirstPieces(ss, ends, n, FlattenSeq(ss), S)
  <2>1. CASE n = 0
    <3>1. FlattenSeq(ss) = ss /\ ss = <<>>
      BY <2>1 DEF FlattenSeq
    <3>2. ends[n] = 1
      BY <1>2, <2>1 DEF Ends
    <3> QED BY <2>1, <3>1, <3>2 DEF FirstPieces
  <2>2. CASE n # 0
    <3>1. FlattenSeq(ss) = F[n]
      BY <2>2, Zenon DEF FlattenSeq
    <3>2. \E f : f = [i \in 1..n |-> E(f, i)]
      <4> DEFINE h == [i \in 1..n |-> [v \in Seq(S) |-> v \o ss[i]]]
      <4>1. UpSteps(h, n, Seq(S))
        <5>1. ASSUME NEW i \in 1..n, NEW v \in Seq(S) PROVE h[i][v] \in Seq(S)
          <6>1. ss[i] \in Seq(S)
            OBVIOUS
          <6>2. v \o ss[i] \in Seq(S)
            BY <6>1
          <6> QED BY <6>2
        <5> QED BY <5>1, Zenon DEF UpSteps
      <4>2. <<>> \in Seq(S)
        OBVIOUS
      <4>3. PICK f : UpSolves(f, h, n, Seq(S), <<>>)
        <5> HIDE DEF h, n
        <5> QED BY <1>1, <4>1, <4>2, Upward
      <4> DEFINE g == [i \in 1..n |-> f[i]]
      <4>4. ASSUME NEW i \in 1..n PROVE g[i] = E(g, i)
        <5>0. i - 1 \in 0..n
          BY <1>1
        <5>1. f[i - 1] \in Seq(S) /\ f[i] = h[i][f[i - 1]]
          <6> HIDE DEF h, n
          <6> QED BY <4>3, <5>0, Zenon DEF UpSolves
        <5>2. g[i] = f[i - 1] \o ss[i]
          BY <5>1
        <5>3. CASE i = 1
          <6>1. f[i - 1] = <<>>
            BY <4>3, <5>3 DEF UpSolves
          <6>2. <<>> \o ss[i] = ss[i]
            <7>1. ss[i] \in Seq(S)
              OBVIOUS
            <7> QED BY <7>1
          <6> QED BY <5>2, <5>3, <6>1, <6>2
        <5>4. CASE i # 1
          <6>1. i - 1 \in 1..n
            BY <1>1, <5>4
          <6>2. g[i - 1] = f[i - 1]
            BY <6>1
          <6> HIDE DEF g
          <6> QED BY <5>2, <5>4, <6>2
        <5> QED BY <5>3, <5>4
      <4> HIDE DEF E
      <4>5. g = [i \in 1..n |-> E(g, i)]
        <5>1. \A i \in 1..n : g[i] = E(g, i)
          BY <4>4
        <5>2. g = [i \in 1..n |-> g[i]]
          BY Zenon
        <5> HIDE DEF g
        <5> QED BY <5>1, <5>2
      <4> QED BY <4>5, Zenon
    <3>3. F = [i \in 1..n |-> E(F, i)]
      <4> HIDE DEF E
      <4> QED BY <3>2, Zenon DEF n
    <3> HIDE DEF F
    <3> DEFINE G == {i \in 1..n : FirstPieces(ss, ends, i, F[i], S)}
    <3>4. ASSUME NEW i \in 1..n, \A k \in 1..(i - 1) : k \in G PROVE i \in G
      <4> DEFINE t == IF i = 1 THEN <<>> ELSE F[i - 1]
      <4>1. i # 1 => FirstPieces(ss, ends, i - 1, t, S)
        <5>1. ASSUME i # 1 PROVE i - 1 \in 1..(i - 1)
          BY <1>1, <5>1
        <5> QED BY <3>4, <5>1
      <4>2. FirstPieces(ss, ends, i, t \o ss[i], S)
        <5> HIDE DEF t
        <5>1. i = 1 => t = <<>>
          BY DEF t
        <5> QED BY <1>2, <4>1, <5>1, PieceMore, Zenon
      <4>3. F[i] = t \o ss[i]
        <5>1. ss[i] \in Seq(S) /\ <<>> \o ss[i] = ss[i]
          <6>1. ss[i] \in Seq(S)
            OBVIOUS
          <6> QED BY <6>1
        <5> QED BY <3>3, <5>1
      <4> QED BY <4>2, <4>3
    <3> HIDE DEF G
    <3>5. \A i \in 1..n : i \in G
      <4> HIDE DEF n
      <4> QED BY <1>1, <3>4, FromLeft
    <3>6. n \in 1..n
      BY <1>1, <2>2
    <3> QED BY <3>1, <3>5, <3>6 DEF G
  <2> QED BY <2>1, <2>2
<1> HIDE DEF F
<1> DEFINE off == [k \in 1..(n + 1) |-> ends[k - 1]]
<1>4. Pieced(ss, off, FlattenSeq(ss))
  <2>1. off \in [1..(n + 1) -> Nat] /\ off[1] = 1 /\ off[n + 1] = ends[n]
    BY <1>1, <1>2 DEF Ends
  <2>0. ends[n] = Len(FlattenSeq(ss)) + 1 /\ \A k \in 1..n : ends[k] <= ends[n]
    BY <1>3, Zenon DEF FirstPieces
  <2>4. ASSUME NEW k \in 1..(n + 1) PROVE off[k] \in 1..(Len(FlattenSeq(ss)) + 1)
    <3>1. k - 1 \in 0..n /\ n \in 0..n /\ 0 \in 0..n
      BY <1>1
    <3>2. 1 <= ends[k - 1] /\ 1 <= ends[n] /\ ends[k - 1] \in Nat /\ ends[n] \in Nat
          /\ ends[0] = 1
      <4>1. 1 <= ends[k - 1] /\ 1 <= ends[n]
        BY <1>2, <3>1, EndsPositive, Zenon
      <4> QED BY <1>2, <3>1, <4>1, Zenon DEF Ends
    <3>3. ends[k - 1] <= ends[n]
      BY <1>1, <2>0, <3>2
    <3> QED BY <2>0, <3>2, <3>3
  <2>5. off \in [1..(n + 1) -> 1..(Len(FlattenSeq(ss)) + 1)]
    <3> HIDE DEF n
    <3> QED BY <2>4
  <2>2. ASSUME NEW k \in 1..n
        PROVE  /\ off[k + 1] = off[k] + Len(ss[k])
               /\ \A j \in 1..Len(ss[k]) : FlattenSeq(ss)[off[k] + j - 1] = ss[k][j]
    <3>1. off[k] = ends[k - 1] /\ off[k + 1] = ends[k]
      BY <1>1
    <3>2. \A j \in 1..Len(ss[k]) : FlattenSeq(ss)[ends[k - 1] + j - 1] = ss[k][j]
      BY <1>3, Zenon DEF FirstPieces
    <3>3. ends[k] = ends[k - 1] + Len(ss[k])
      BY <1>2, Zenon DEF Ends
    <3> HIDE DEF off
    <3> QED BY <3>1, <3>2, <3>3, Zenon
  <2>3. off[n + 1] = Len(FlattenSeq(ss)) + 1
    BY <1>3, <2>1 DEF FirstPieces
  <2> HIDE DEF off
  <2> QED BY <2>1, <2>2, <2>3, <2>5, Zenon DEF Pieced
<1>5. FlattenSeq(ss) \in Seq(S)
  BY <1>3, Zenon DEF FirstPieces
<1> QED BY <1>4, <1>5
-----------------------------------------------------------------------------
(* Texts put together, and cut out again.                                  *)

LEMMA Associative ==
  ASSUME NEW S, NEW s \in Seq(S), NEW t \in Seq(S), NEW u \in Seq(S)
  PROVE  (s \o t) \o u = s \o (t \o u)
OBVIOUS

LEMMA NothingBehind ==
  ASSUME NEW S, NEW s \in Seq(S)
  PROVE  s \o <<>> = s /\ <<>> \o s = s
OBVIOUS

\* f has the concatenations of the first pieces of ss.
Chain(f, ss, S) ==
  /\ f \in [0..Len(ss) -> Seq(S)]
  /\ f[0] = <<>>
  /\ \A i \in 1..Len(ss) : f[i] = f[i - 1] \o ss[i]

LEMMA FlattenChain ==
  ASSUME NEW S, NEW ss \in Seq(Seq(S))
  PROVE  \E f : Chain(f, ss, S) /\ FlattenSeq(ss) = f[Len(ss)]
<1> DEFINE n == Len(ss)
           E(f, i) == IF i = 1 THEN ss[i] ELSE f[i - 1] \o ss[i]
           F == CHOOSE f : f = [i \in 1..Len(ss) |-> E(f, i)]
           h == [i \in 1..n |-> [v \in Seq(S) |-> v \o ss[i]]]
<1>1. n \in Nat /\ <<>> \in Seq(S)
  OBVIOUS
<1>2. \A i \in 1..n : ss[i] \in Seq(S) /\ <<>> \o ss[i] = ss[i]
  <2>1. ASSUME NEW i \in 1..n PROVE ss[i] \in Seq(S)
    OBVIOUS
  <2> QED BY <2>1, NothingBehind
<1>3. UpSteps(h, n, Seq(S))
  <2>1. ASSUME NEW i \in 1..n, NEW v \in Seq(S) PROVE h[i][v] \in Seq(S)
    <3>1. ss[i] \in Seq(S)
      BY <1>2
    <3>2. v \o ss[i] \in Seq(S)
      BY <3>1
    <3> QED BY <3>2
  <2> QED BY <2>1, Zenon DEF UpSteps
<1>4. PICK f : UpSolves(f, h, n, Seq(S), <<>>)
  <2> HIDE DEF h, n
  <2> QED BY <1>1, <1>3, Upward
<1>5. /\ f \in [0..n -> Seq(S)] /\ f[0] = <<>>
      /\ \A i \in 1..n : f[i] = h[i][f[i - 1]]
  BY <1>4, Zenon DEF UpSolves
<1>6. ASSUME NEW i \in 1..n PROVE f[i] = f[i - 1] \o ss[i]
  <2>1. i - 1 \in 0..n
    BY <1>1
  <2>2. f[i - 1] \in Seq(S)
    BY <1>5, <2>1, Zenon
  <2> QED BY <1>5, <2>2
<1>7. Chain(f, ss, S)
  BY <1>5, <1>6, Zenon DEF Chain
<1>8. FlattenSeq(ss) = f[n]
  <2>1. CASE n = 0
    <3>1. FlattenSeq(ss) = ss /\ ss = <<>>
      BY <2>1 DEF FlattenSeq
    <3> QED BY <1>5, <2>1, <3>1
  <2>2. CASE n # 0
    <3>1. FlattenSeq(ss) = F[n]
      BY <2>2, Zenon DEF FlattenSeq
    <3> DEFINE g == [i \in 1..n |-> f[i]]
    <3>2. ASSUME NEW i \in 1..n PROVE g[i] = E(g, i)
      <4>1. g[i] = f[i - 1] \o ss[i]
        BY <1>6
      <4>2. CASE i = 1
        <5>1. f[i - 1] = <<>>
          BY <1>5, <4>2
        <5>2. g[i] = ss[i]
          BY <1>2, <4>1, <5>1
        <5> HIDE DEF g
        <5> QED BY <4>2, <5>2
      <4>3. CASE i # 1
        <5>1. i - 1 \in 1..n
          BY <1>1, <4>3
        <5>2. g[i - 1] = f[i - 1]
          BY <5>1
        <5> HIDE DEF g
        <5> QED BY <4>1, <4>3, <5>2
      <4> QED BY <4>2, <4>3
    <3> HIDE DEF E
    <3>3. g = [i \in 1..n |-> E(g, i)]
      <4>1. \A i \in 1..n : g[i] = E(g, i)
        BY <3>2
      <4>2. g = [i \in 1..n |-> g[i]]
        BY Zenon
      <4> HIDE DEF g
      <4> QED BY <4>1, <4>2
    <3>4. F = [i \in 1..n |-> E(F, i)]
      BY <3>3, Zenon DEF n
    <3> HIDE DEF F
    <3> DEFINE G == {i \in 1..n : F[i] = f[i]}
    <3>5. ASSUME NEW i \in 1..n, \A k \in 1..(i - 1) : k \in G PROVE i \in G
      <4>1. F[i] = E(F, i)
        BY <3>4
      <4>2. CASE i = 1
        <5>1. f[i - 1] = <<>>
          BY <1>5, <4>2
        <5>2. f[i] = ss[i]
          BY <1>2, <1>6, <5>1
        <5> QED BY <4>1, <4>2, <5>2 DEF E
      <4>3. CASE i # 1
        <5>1. i - 1 \in 1..(i - 1)
          BY <1>1, <4>3
        <5>2. F[i - 1] = f[i - 1]
          BY <3>5, <5>1
        <5> QED BY <1>6, <4>1, <4>3, <5>2 DEF E
      <4> QED BY <4>2, <4>3
    <3> HIDE DEF G
    <3>6. \A i \in 1..n : i \in G
      <4> HIDE DEF n
      <4> QED BY <1>1, <3>5, FromLeft
    <3>7. n \in 1..n
      BY <1>1, <2>2
    <3> QED BY <3>1, <3>6, <3>7 DEF G
  <2> QED BY <2>1, <2>2
<1> QED BY <1>7, <1>8, Zenon

LEMMA FlattenJoins ==
  ASSUME NEW S, NEW a \in Seq(Seq(S)), NEW b \in Seq(Seq(S))
  PROVE  FlattenSeq(a \o b) = FlattenSeq(a) \o FlattenSeq(b)
<1>1. PICK w : w = a \o b
  OBVIOUS
<1>2. Joins(a, b, w, Seq(S))
  BY <1>1, JoinedPlaces, Zenon
<1>3. /\ w \in Seq(Seq(S)) /\ Len(w) = Len(a) + Len(b)
      /\ \A k \in 1..Len(a) : w[k] = a[k]
      /\ \A k \in 1..Len(b) : w[Len(a) + k] = b[k]
      /\ Len(a) \in Nat /\ Len(b) \in Nat
  BY <1>2 DEF Joins
<1>4. PICK f : Chain(f, a, S) /\ FlattenSeq(a) = f[Len(a)]
  BY FlattenChain, Zenon
<1>5. PICK g : Chain(g, b, S) /\ FlattenSeq(b) = g[Len(b)]
  BY FlattenChain, Zenon
<1>6. PICK h : Chain(h, w, S) /\ FlattenSeq(w) = h[Len(w)]
  BY <1>3, FlattenChain, Zenon
<1> DEFINE G == {i \in 0..Len(a) : h[i] = f[i]}
<1>7. ASSUME NEW i \in 0..Len(a), \A k \in 0..(i - 1) : k \in G PROVE i \in G
  <2>1. CASE i = 0
    BY <1>4, <1>6, <2>1 DEF Chain
  <2>2. CASE i # 0
    <3>1. i - 1 \in 0..(i - 1) /\ i \in 1..Len(a) /\ i \in 1..Len(w)
      BY <1>3, <2>2
    <3>2. h[i - 1] = f[i - 1]
      BY <1>7, <3>1
    <3>3. h[i] = h[i - 1] \o w[i] /\ f[i] = f[i - 1] \o a[i] /\ w[i] = a[i]
      BY <1>3, <1>4, <1>6, <3>1, Zenon DEF Chain
    <3> QED BY <3>2, <3>3
  <2> QED BY <2>1, <2>2
<1> HIDE DEF G
<1>8. \A i \in 0..Len(a) : i \in G
  BY <1>3, <1>7, FromLeft
<1>9. h[Len(a)] = f[Len(a)] /\ f[Len(a)] \in Seq(S)
  <2>1. Len(a) \in 0..Len(a)
    BY <1>3
  <2> QED BY <1>4, <1>8, <2>1 DEF G, Chain
<1> DEFINE K == {i \in 0..Len(b) : h[Len(a) + i] = f[Len(a)] \o g[i]}
<1>10. ASSUME NEW i \in 0..Len(b), \A k \in 0..(i - 1) : k \in K PROVE i \in K
  <2>1. CASE i = 0
    <3>1. f[Len(a)] \o <<>> = f[Len(a)]
      BY <1>9, NothingBehind
    <3>2. Len(a) + i = Len(a) /\ g[i] = <<>>
      BY <1>3, <1>5, <2>1 DEF Chain
    <3> QED BY <1>9, <3>1, <3>2
  <2>2. CASE i # 0
    <3>1. /\ i - 1 \in 0..(i - 1) /\ i \in 1..Len(b) /\ Len(a) + i \in 1..Len(w)
          /\ Len(a) + i - 1 = Len(a) + (i - 1) /\ i - 1 \in 0..Len(b)
      BY <1>3, <2>2
    <3>2. h[Len(a) + (i - 1)] = f[Len(a)] \o g[i - 1]
      BY <1>10, <3>1
    <3>3. h[Len(a) + i] = h[Len(a) + i - 1] \o w[Len(a) + i]
      <4>1. \A j \in 1..Len(w) : h[j] = h[j - 1] \o w[j]
        BY <1>6, Zenon DEF Chain
      <4>2. PICK j \in 1..Len(w) : j = Len(a) + i
        BY <3>1
      <4>3. PICK v : v = w[j]
        OBVIOUS
      <4>4. h[j] = h[j - 1] \o v
        BY <4>1, <4>3, Zenon
      <4>5. j - 1 = Len(a) + i - 1
        BY <1>3, <4>2, SMT
      <4> QED BY <4>2, <4>3, <4>4, <4>5, Zenon
    <3>4. g[i] = g[i - 1] \o b[i] /\ w[Len(a) + i] = b[i] /\ g[i - 1] \in Seq(S)
      BY <1>3, <1>5, <3>1, Zenon DEF Chain
    <3>5. b[i] \in Seq(S)
      BY <3>1
    <3>6. (f[Len(a)] \o g[i - 1]) \o b[i] = f[Len(a)] \o (g[i - 1] \o b[i])
      <4>1. PICK x, y, z : x = f[Len(a)] /\ y = g[i - 1] /\ z = b[i]
        OBVIOUS
      <4>2. x \in Seq(S) /\ y \in Seq(S) /\ z \in Seq(S)
        BY <1>9, <3>4, <3>5, <4>1, Zenon
      <4>3. (x \o y) \o z = x \o (y \o z)
        BY <4>2, Associative
      <4> QED BY <4>1, <4>3, Zenon
    <3>7. h[Len(a) + i] = f[Len(a)] \o g[i]
      BY <3>1, <3>2, <3>3, <3>4, <3>6, Zenon
    <3> QED BY <3>7
  <2> QED BY <2>1, <2>2
<1> HIDE DEF K
<1>11. \A i \in 0..Len(b) : i \in K
  BY <1>3, <1>10, FromLeft
<1>12. h[Len(w)] = f[Len(a)] \o g[Len(b)]
  <2>1. Len(b) \in 0..Len(b)
    BY <1>3
  <2> QED BY <1>3, <1>11, <2>1 DEF K
<1> QED BY <1>1, <1>4, <1>5, <1>6, <1>12, Zenon

\* The part of s from the place a up to the place b, which is not in it.
Cut(s, a, b) == [j \in 1..(b - a) |-> s[a + j - 1]]

LEMMA CutType ==
  ASSUME NEW S, NEW s \in Seq(S), NEW a \in Nat, NEW b \in Nat,
         1 <= a, a <= b, b <= Len(s) + 1
  PROVE  Cut(s, a, b) \in Seq(S) /\ Len(Cut(s, a, b)) = b - a
<1>1. b - a \in Nat /\ \A j \in 1..(b - a) : a + j - 1 \in 1..Len(s)
  OBVIOUS
<1>2. \A j \in 1..(b - a) : s[a + j - 1] \in S
  BY <1>1, ElementOfSeq, Zenon
<1>3. Cut(s, a, b) \in [1..(b - a) -> S]
  BY <1>2 DEF Cut
<1> HIDE DEF Cut
<1> QED BY <1>1, <1>3, FunctionIsSeq

LEMMA CutJoin ==
  ASSUME NEW S, NEW s \in Seq(S), NEW a \in Nat, NEW b \in Nat, NEW c \in Nat,
         1 <= a, a <= b, b <= c, c <= Len(s) + 1
  PROVE  Cut(s, a, b) \o Cut(s, b, c) = Cut(s, a, c)
<1>1. PICK x, y, z : x = Cut(s, a, b) /\ y = Cut(s, b, c) /\ z = Cut(s, a, c)
  OBVIOUS
<1>2. /\ x \in Seq(S) /\ Len(x) = b - a
      /\ y \in Seq(S) /\ Len(y) = c - b
      /\ z \in Seq(S) /\ Len(z) = c - a
  <2>1. a <= c /\ b <= Len(s) + 1 /\ 1 <= b
    OBVIOUS
  <2> QED BY <1>1, <2>1, CutType
<1>3. PICK w : w = x \o y
  OBVIOUS
<1>4. Joins(x, y, w, S)
  BY <1>2, <1>3, JoinedPlaces, Zenon
<1>5. Len(w) = c - a
  BY <1>2, <1>4 DEF Joins
<1>6. ASSUME NEW j \in 1..(c - a) PROVE w[j] = z[j]
  <2>1. z[j] = s[a + j - 1]
    BY <1>1 DEF Cut
  <2>2. CASE j <= b - a
    <3>1. j \in 1..Len(x) /\ j \in 1..(b - a)
      BY <1>2, <2>2
    <3>2. w[j] = x[j]
      BY <1>4, <3>1 DEF Joins
    <3>3. x[j] = s[a + j - 1]
      BY <1>1, <3>1 DEF Cut
    <3> QED BY <2>1, <3>2, <3>3
  <2>3. CASE ~ (j <= b - a)
    <3>1. PICK k : k = j - (b - a)
      OBVIOUS
    <3>2. k \in 1..Len(y) /\ k \in 1..(c - b) /\ Len(x) + k = j
          /\ b + k - 1 = a + j - 1
      BY <1>2, <2>3, <3>1
    <3>3. w[j] = y[k]
      BY <1>4, <3>2 DEF Joins
    <3>4. y[k] = s[b + k - 1]
      BY <1>1, <3>2 DEF Cut
    <3> QED BY <2>1, <3>2, <3>3, <3>4
  <2> QED BY <2>2, <2>3
<1>7. w = z
  <2>1. w \in Seq(S) /\ Len(w) = Len(z) /\ \A j \in 1..Len(w) : w[j] = z[j]
    BY <1>2, <1>4, <1>5, <1>6 DEF Joins
  <2> QED BY <1>2, <2>1, SeqEqual
<1> QED BY <1>1, <1>3, <1>7, Zenon

LEMMA CutEnds ==
  ASSUME NEW S, NEW s \in Seq(S)
  PROVE  /\ Cut(s, 1, Len(s) + 1) = s
         /\ \A a \in 1..(Len(s) + 1) : Cut(s, a, a) = <<>>
         /\ \A a \in 1..Len(s) : Cut(s, a, a + 1) = <<s[a]>>
<1>1. Len(s) \in Nat
  OBVIOUS
<1>2. Cut(s, 1, Len(s) + 1) = s
  <2>1. PICK z, b : z = Cut(s, 1, b) /\ b = Len(s) + 1
    OBVIOUS
  <2>2. z \in Seq(S) /\ Len(z) = b - 1
    <3>1. 1 \in Nat /\ b \in Nat /\ 1 <= 1 /\ 1 <= b /\ b <= Len(s) + 1
      BY <1>1, <2>1
    <3> QED BY <2>1, <3>1, CutType, Zenon
  <2>3. ASSUME NEW j \in 1..Len(s) PROVE z[j] = s[j]
    <3>1. j \in 1..(b - 1) /\ 1 + j - 1 = j
      BY <1>1, <2>1
    <3> QED BY <2>1, <3>1 DEF Cut
  <2>4. Len(z) = Len(s) /\ \A j \in 1..Len(z) : z[j] = s[j]
    BY <1>1, <2>1, <2>2, <2>3
  <2> QED BY <2>1, <2>2, <2>4, SeqEqual
<1>3. ASSUME NEW a \in 1..(Len(s) + 1) PROVE Cut(s, a, a) = <<>>
  <2>1. 1..(a - a) = {}
    BY <1>1
  <2> QED BY <2>1 DEF Cut
<1>4. ASSUME NEW a \in 1..Len(s) PROVE Cut(s, a, a + 1) = <<s[a]>>
  <2>1. PICK z, e, b : z = Cut(s, a, b) /\ e = s[a] /\ b = a + 1
    OBVIOUS
  <2>2. z \in Seq(S) /\ Len(z) = b - a
    <3>1. a \in Nat /\ b \in Nat /\ 1 <= a /\ a <= b /\ b <= Len(s) + 1
      BY <1>1, <2>1
    <3> QED BY <2>1, <3>1, CutType, Zenon
  <2>3. 1 \in 1..(b - a) /\ a + 1 - 1 = a /\ b - a = 1
    BY <1>1, <2>1
  <2>4. z[1] = e
    BY <2>1, <2>3 DEF Cut
  <2>5. Len(z) = 1 /\ e \in S
    <3>1. s[a] \in S
      BY ElementOfSeq
    <3> QED BY <2>1, <2>2, <2>3, <3>1
  <2>6. z = <<e>>
    <3>1. PICK y : y = <<e>>
      OBVIOUS
    <3>2. y \in Seq(S) /\ Len(y) = 1 /\ y[1] = e
      BY <2>5, <3>1
    <3>3. Len(z) = Len(y) /\ \A j \in 1..Len(z) : z[j] = y[j]
      BY <2>4, <2>5, <3>2
    <3>4. z = y
      BY <2>2, <3>2, <3>3, SeqEqual
    <3> QED BY <3>1, <3>4, Zenon
  <2> QED BY <2>1, <2>6
<1> QED BY <1>2, <1>3, <1>4
=============================================================================
