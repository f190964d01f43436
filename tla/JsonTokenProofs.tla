-------------------------- MODULE JsonTokenProofs --------------------------
(***************************************************************************)
(* Proofs about JSONUTF8StringFilter, getJsonToken and the getters: for    *)
(* strings of any length made of any bytes and escapes, texts of any       *)
(* length made of any bytes, and integer types of any width.               *)
(***************************************************************************)
EXTENDS JsonToken, SequenceFacts
-----------------------------------------------------------------------------
(* The methods of the filter, as changes of its members.                   *)

\* f has the members of a filter.
Recorded(f) ==
  f = [str |-> f.str, is_valid |-> f.is_valid, codepoint |-> f.codepoint,
       state |-> f.state, surpair |-> f.surpair]

Members(g, a, c, s, p) ==
  Recorded(g) /\ g.str = a /\ g.codepoint = c /\ g.state = s /\ g.surpair = p

LEMMA ValidIs ==
  ASSUME NEW f, Recorded(f), NEW x, NEW g, g = Valid(f, x)
  PROVE  /\ Members(g, f.str, f.codepoint, f.state, f.surpair)
         /\ g.is_valid = (f.is_valid /\ x)
<1>1. PICK a, v, c, s, p : f = [str |-> a, is_valid |-> v, codepoint |-> c, state |-> s, surpair |-> p]
  BY DEF Recorded
<1>2. g = [str |-> a, is_valid |-> (v /\ x), codepoint |-> c, state |-> s, surpair |-> p]
  BY <1>1 DEF Valid
<1> QED BY <1>1, <1>2 DEF Members, Recorded

LEMMA SetPairIs ==
  ASSUME NEW f, Recorded(f), NEW x, NEW g, g = SetPair(f, x)
  PROVE  Members(g, f.str, f.codepoint, f.state, x) /\ g.is_valid = f.is_valid
<1>1. PICK a, v, c, s, p : f = [str |-> a, is_valid |-> v, codepoint |-> c, state |-> s, surpair |-> p]
  BY DEF Recorded
<1>2. g = [str |-> a, is_valid |-> v, codepoint |-> c, state |-> s, surpair |-> x]
  BY <1>1 DEF SetPair
<1> QED BY <1>1, <1>2 DEF Members, Recorded

LEMMA AppendIs ==
  ASSUME NEW f, Recorded(f), NEW x, NEW g, g = append_codepoint(f, x)
  PROVE  Members(g, Append(f.str, x), f.codepoint, f.state, f.surpair) /\ g.is_valid = f.is_valid
<1>1. PICK a, v, c, s, p : f = [str |-> a, is_valid |-> v, codepoint |-> c, state |-> s, surpair |-> p]
  BY DEF Recorded
<1>2. PICK t : t = Append(a, x)
  OBVIOUS
<1>3. g = [str |-> t, is_valid |-> v, codepoint |-> c, state |-> s, surpair |-> p]
  BY <1>1, <1>2 DEF append_codepoint
<1>4. t = Append(f.str, x)
  BY <1>1, <1>2
<1> QED BY <1>1, <1>3, <1>4 DEF Members, Recorded

LEMMA SetSequenceIs ==
  ASSUME NEW f, Recorded(f), NEW x, NEW y, NEW g, g = SetSequence(f, x, y)
  PROVE  Members(g, f.str, x, y, f.surpair) /\ g.is_valid = f.is_valid
<1>1. PICK a, v, c, s, p : f = [str |-> a, is_valid |-> v, codepoint |-> c, state |-> s, surpair |-> p]
  BY DEF Recorded
<1>2. PICK h : h = [f EXCEPT !.codepoint = x]
  OBVIOUS
<1>3. h = [str |-> a, is_valid |-> v, codepoint |-> x, state |-> s, surpair |-> p]
  BY <1>1, <1>2
<1>4. g = [h EXCEPT !.state = y]
  BY <1>2, Zenon DEF SetSequence
<1>5. g = [str |-> a, is_valid |-> v, codepoint |-> x, state |-> y, surpair |-> p]
  BY <1>3, <1>4
<1> QED BY <1>1, <1>5 DEF Members, Recorded

\* What push_back_u(ch) makes of a string a, a validity v and a pair p,
\* where `fits' says that no byte sequence is open.
Written(a, v, p, ch, fits, g) ==
  \/ /\ ch \in HighHalves
     /\ g.surpair = IF p # 0 THEN p ELSE ch
     /\ g.is_valid = (v /\ fits /\ p = 0)
     /\ g.str = a
  \/ /\ ch \in LowHalves
     /\ g.str = IF p # 0 THEN Append(a, Joined(p, ch)) ELSE a
     /\ g.surpair = 0
     /\ g.is_valid = (v /\ fits /\ p # 0)
  \/ /\ ch \notin Surrogates
     /\ g.str = IF p = 0 THEN Append(a, ch) ELSE a
     /\ g.is_valid = (v /\ fits /\ p = 0)
     /\ g.surpair = p

LEMMA HalvesApart ==
  /\ \A v \in HighHalves : v \notin LowHalves /\ v \in Surrogates /\ v # 0
  /\ \A v \in LowHalves : v \notin HighHalves /\ v \in Surrogates
<1>1. ASSUME NEW v \in HighHalves PROVE v \notin LowHalves /\ v # 0
  <2>1. v \in Int /\ v < 56320 /\ v # 0
    BY SMT DEF HighHalves
  <2>2. \A n \in LowHalves : n >= 56320
    BY SMT DEF LowHalves
  <2> QED BY <2>1, <2>2, SMT
<1>2. ASSUME NEW v \in LowHalves PROVE v \notin HighHalves
  BY <1>1, Zenon
<1> QED BY <1>1, <1>2, Zenon DEF Surrogates

LEMMA PushUIs ==
  ASSUME NEW f, Recorded(f), NEW ch, NEW g, g = push_back_u(f, ch)
  PROVE  /\ Recorded(g) /\ g.codepoint = f.codepoint /\ g.state = f.state
         /\ Written(f.str, f.is_valid, f.surpair, ch, f.state = 0, g)
<1>1. PICK h : h = Valid(f, f.state = 0)
  OBVIOUS
<1>2. /\ Members(h, f.str, f.codepoint, f.state, f.surpair)
      /\ h.is_valid = (f.is_valid /\ f.state = 0)
  BY <1>1, ValidIs, Zenon
<1>3. /\ Recorded(h)
      /\ h.str = f.str /\ h.codepoint = f.codepoint /\ h.state = f.state /\ h.surpair = f.surpair
  BY <1>2, Zenon DEF Members
<1>6. CASE ~ (ch \in LowHalves <=> f.surpair # 0)
  <2>1. g = Valid(h, FALSE)
    <3>1. CASE ch \in LowHalves
      <4>1. f.surpair = 0 /\ ch \in Surrogates /\ ch \notin HighHalves
        BY <1>6, <3>1, HalvesApart
      <4> QED BY <1>1, <3>1, <4>1 DEF push_back_u
    <3>2. CASE ch \notin LowHalves
      <4>1. f.surpair # 0
        BY <1>6, <3>2
      <4> QED BY <1>1, <3>2, <4>1 DEF push_back_u
    <3> QED BY <3>1, <3>2
  <2>2. Members(g, h.str, h.codepoint, h.state, h.surpair) /\ g.is_valid = (h.is_valid /\ FALSE)
    BY <1>3, <2>1, ValidIs, Zenon
  <2>3. Recorded(g) /\ g.str = f.str /\ g.codepoint = f.codepoint /\ g.state = f.state /\ g.surpair = f.surpair
    BY <1>3, <2>2, Zenon DEF Members
  <2>5. g.is_valid = FALSE
    BY <2>2
  <2>6. Written(f.str, f.is_valid, f.surpair, ch, f.state = 0, g)
    <3>1. CASE ch \in LowHalves
      <4>1. f.surpair = 0
        BY <1>6, <3>1
      <4>2. g.is_valid = (f.is_valid /\ f.state = 0 /\ f.surpair # 0)
        BY <2>5, <4>1
      <4> QED BY <2>3, <3>1, <4>1, <4>2, Zenon DEF Written
    <3>2. CASE ch \notin LowHalves
      <4>1. f.surpair # 0
        BY <1>6, <3>2
      <4>2. g.is_valid = (f.is_valid /\ f.state = 0 /\ f.surpair = 0)
        BY <2>5, <4>1
      <4> QED BY <2>3, <3>2, <4>1, <4>2, Zenon DEF Written, Surrogates
    <3> QED BY <3>1, <3>2
  <2> QED BY <2>3, <2>6, Zenon
<1>7. CASE ch \in LowHalves /\ f.surpair # 0
  <2>1. g = SetPair(append_codepoint(h, Joined(f.surpair, ch)), 0)
    BY <1>1, <1>7, HalvesApart DEF push_back_u
  <2>2. PICK k : k = append_codepoint(h, Joined(f.surpair, ch))
    OBVIOUS
  <2>3. Members(k, Append(h.str, Joined(f.surpair, ch)), h.codepoint, h.state, h.surpair) /\ k.is_valid = h.is_valid
    BY <1>3, <2>2, AppendIs, Zenon
  <2>4. Recorded(k)
    BY <2>3, Zenon DEF Members
  <2>5. Members(g, k.str, k.codepoint, k.state, 0) /\ g.is_valid = k.is_valid
    <3>1. g = SetPair(k, 0)
      BY <2>1, <2>2, Zenon
    <3> QED BY <2>4, <3>1, SetPairIs, Zenon
  <2>6. /\ Recorded(g) /\ g.codepoint = f.codepoint /\ g.state = f.state /\ g.surpair = 0
        /\ g.str = Append(f.str, Joined(f.surpair, ch))
        /\ g.is_valid = (f.is_valid /\ f.state = 0)
    BY <1>2, <1>3, <2>3, <2>5, Zenon DEF Members
  <2>7. g.is_valid = (f.is_valid /\ f.state = 0 /\ f.surpair # 0)
    BY <1>7, <2>6
  <2> QED BY <1>7, <2>6, <2>7, Zenon DEF Written
<1>8. CASE ch \in HighHalves /\ f.surpair = 0
  <2>1. g = SetPair(h, ch)
    BY <1>1, <1>8, HalvesApart DEF push_back_u
  <2>5. Members(g, h.str, h.codepoint, h.state, ch) /\ g.is_valid = h.is_valid
    BY <1>3, <2>1, SetPairIs, Zenon
  <2>6. /\ Recorded(g) /\ g.codepoint = f.codepoint /\ g.state = f.state /\ g.surpair = ch
        /\ g.str = f.str
        /\ g.is_valid = (f.is_valid /\ f.state = 0)
    BY <1>2, <1>3, <2>5, Zenon DEF Members
  <2>7. g.is_valid = (f.is_valid /\ f.state = 0 /\ f.surpair = 0)
    BY <1>8, <2>6
  <2> QED BY <1>8, <2>6, <2>7, Zenon DEF Written
<1>9. CASE ch \notin Surrogates /\ f.surpair = 0
  <2>1. g = append_codepoint(h, ch)
    BY <1>1, <1>9 DEF push_back_u, Surrogates
  <2>5. Members(g, Append(h.str, ch), h.codepoint, h.state, h.surpair) /\ g.is_valid = h.is_valid
    BY <1>3, <2>1, AppendIs, Zenon
  <2>6. /\ Recorded(g) /\ g.codepoint = f.codepoint /\ g.state = f.state /\ g.surpair = f.surpair
        /\ g.str = Append(f.str, ch)
        /\ g.is_valid = (f.is_valid /\ f.state = 0)
    BY <1>2, <1>3, <2>5, Zenon DEF Members
  <2>7. g.is_valid = (f.is_valid /\ f.state = 0 /\ f.surpair = 0)
    BY <1>9, <2>6
  <2> QED BY <1>9, <2>6, <2>7, Zenon DEF Written
<1>10. \/ ~ (ch \in LowHalves <=> f.surpair # 0)
       \/ (ch \in LowHalves /\ f.surpair # 0)
       \/ (ch \in HighHalves /\ f.surpair = 0)
       \/ (ch \notin Surrogates /\ f.surpair = 0)
  BY Zenon DEF Surrogates
<1> QED BY <1>6, <1>7, <1>8, <1>9, <1>10, Zenon

\* ... and what Continue does, which leaves `left' bits open.
Continued(f, b, left, g) ==
  /\ Recorded(g) /\ g.state = left
  /\ g.codepoint = f.codepoint + (b % 64) * 2 ^ left
  /\ left = 0 => Written(f.str, f.is_valid, f.surpair, g.codepoint, b \in 128..191, g)
  /\ left # 0 => g.is_valid = (f.is_valid /\ b \in 128..191) /\ g.str = f.str /\ g.surpair = f.surpair

LEMMA ContinueIs ==
  ASSUME NEW f, Recorded(f), NEW b, NEW g, g = Continue(f, b), NEW left, left = f.state - 6
  PROVE  Continued(f, b, left, g)
<1> DEFINE tail == b \in 128..191
           bits == f.codepoint + (b % 64) * 2 ^ left
<1>1. PICK h : h = Valid(f, tail)
  OBVIOUS
<1>2. PICK k : k = SetSequence(h, bits, left)
  OBVIOUS
<1>3. g = IF left = 0 THEN push_back_u(k, k.codepoint) ELSE k
  BY <1>1, <1>2, Zenon DEF Continue
<1> HIDE DEF tail, bits
<1>4. Members(h, f.str, f.codepoint, f.state, f.surpair) /\ h.is_valid = (f.is_valid /\ tail)
  BY <1>1, ValidIs, Zenon
<1>5. Recorded(h) /\ h.str = f.str /\ h.surpair = f.surpair
  BY <1>4, Zenon DEF Members
<1>6. Members(k, h.str, bits, left, h.surpair) /\ k.is_valid = h.is_valid
  BY <1>2, <1>5, SetSequenceIs
<1>7. /\ Recorded(k) /\ k.str = f.str /\ k.codepoint = bits /\ k.state = left
      /\ k.surpair = f.surpair /\ k.is_valid = (f.is_valid /\ tail)
  BY <1>4, <1>5, <1>6, Zenon DEF Members
<1>8. CASE left = 0
  <2>1. g = push_back_u(k, bits)
    BY <1>3, <1>7, <1>8, Zenon
  <2>2. /\ Recorded(g) /\ g.codepoint = k.codepoint /\ g.state = k.state
        /\ Written(k.str, k.is_valid, k.surpair, bits, k.state = 0, g)
    <3>1. Recorded(k) /\ g = push_back_u(k, bits)
      BY <1>7, <2>1, Zenon
    <3> QED BY <3>1, PushUIs
  <2>3. Written(f.str, f.is_valid, f.surpair, bits, tail, g)
    BY <1>7, <1>8, <2>2, Zenon DEF Written
  <2> QED BY <1>7, <1>8, <2>2, <2>3, Zenon DEF tail, bits, Continued
<1>9. CASE left # 0
  <2>1. g = k
    BY <1>3, <1>9, Zenon
  <2> QED BY <1>7, <1>9, <2>1, Zenon DEF tail, bits, Continued
<1> QED BY <1>8, <1>9, Zenon
-----------------------------------------------------------------------------
(* The steps of push_back and push_back_u.                                 *)

WriteCodepoint(c, fits) ==
  \/ /\ c \in HighHalves
     /\ surpair' = IF surpair # 0 THEN surpair ELSE c
     /\ is_valid' = (is_valid /\ fits /\ surpair = 0)
     /\ UNCHANGED str
  \/ /\ c \in LowHalves
     /\ str' = IF surpair # 0 THEN Append(str, Joined(surpair, c)) ELSE str
     /\ surpair' = 0
     /\ is_valid' = (is_valid /\ fits /\ surpair # 0)
  \/ /\ c \notin Surrogates
     /\ str' = IF surpair = 0 THEN Append(str, c) ELSE str
     /\ is_valid' = (is_valid /\ fits /\ surpair = 0)
     /\ UNCHANGED surpair

PushAscii(b) ==
  /\ b < 128
  /\ state = 0
  /\ str' = Append(str, b)
  /\ UNCHANGED <<is_valid, codepoint, state, surpair>>

PushLead(b) ==
  /\ b \in 192..247
  /\ state = 0
  /\ codepoint' = LeadValue(b)
  /\ state' = LeadBits(b)
  /\ UNCHANGED <<str, is_valid, surpair>>

PushStray(b) ==
  /\ b \in 128..191 \/ b >= 248
  /\ state = 0
  /\ is_valid' = FALSE
  /\ UNCHANGED <<str, codepoint, state, surpair>>

PushContinuation(b) ==
  /\ state # 0
  /\ state' = state - 6
  /\ codepoint' = codepoint + (b % 64) * 2 ^ (state - 6)
  /\ \/ state' = 0 /\ WriteCodepoint(codepoint', b \in 128..191)
     \/ /\ state' # 0
        /\ is_valid' = (is_valid /\ b \in 128..191)
        /\ UNCHANGED <<str, surpair>>

PushEscape(u) == WriteCodepoint(u, state = 0) /\ UNCHANGED <<codepoint, state>>

\* The step that pushes x.
Taken(x) ==
  \/ ~ x.esc /\ (PushAscii(x.val) \/ PushLead(x.val) \/ PushStray(x.val) \/ PushContinuation(x.val))
  \/ x.esc /\ PushEscape(x.val)

LEMMA ByteCases ==
  ASSUME NEW b \in 0..255
  PROVE  /\ b < 128 \/ b \in 192..247 \/ (b \in 128..191 \/ b >= 248)
         /\ b < 128 => b \notin 192..247 /\ ~ (b \in 128..191 \/ b >= 248)
         /\ b \in 192..247 => ~ (b \in 128..191 \/ b >= 248)
OBVIOUS

LEMMA IsTaken ==
  ASSUME Recorded(filter), NEW x \in Units, filter' = Feed(filter, x)
  PROVE  Taken(x) /\ Recorded(filter')
<1> USE DEF str, is_valid, codepoint, state, surpair
<1>1. PICK f, g, b : f = filter /\ g = filter' /\ b = x.val
  OBVIOUS
<1>2. CASE x.esc
  <2>1. g = push_back_u(f, b)
    BY <1>1, <1>2 DEF Feed
  <2>2. /\ Recorded(g) /\ g.codepoint = f.codepoint /\ g.state = f.state
        /\ Written(f.str, f.is_valid, f.surpair, b, f.state = 0, g)
    BY <1>1, <2>1, PushUIs
  <2> QED BY <1>1, <1>2, <2>2, Zenon DEF Taken, PushEscape, WriteCodepoint, Written
<1>3. CASE ~ x.esc
  <2>1. g = push_back(f, b)
    BY <1>1, <1>3 DEF Feed
  <2>2. b \in 0..255
    BY <1>1, <1>3 DEF Units
  <2>3. CASE f.state # 0
    <3>1. g = Continue(f, b)
      BY <2>1, <2>3, Zenon DEF push_back
    <3>2. PICK left : left = f.state - 6
      OBVIOUS
    <3>3. /\ Recorded(g) /\ g.state = left
          /\ g.codepoint = f.codepoint + (b % 64) * 2 ^ left
          /\ left = 0 => Written(f.str, f.is_valid, f.surpair, g.codepoint, b \in 128..191, g)
          /\ left # 0 => g.is_valid = (f.is_valid /\ b \in 128..191) /\ g.str = f.str /\ g.surpair = f.surpair
      <4>1. Recorded(f)
        BY <1>1
      <4> HIDE DEF str, is_valid, codepoint, state, surpair
      <4>2. Continued(f, b, left, g)
        BY <3>1, <3>2, <4>1, ContinueIs, Zenon
      <4> QED BY <4>2, Zenon DEF Continued
    <3>4. PushContinuation(b)
      BY <1>1, <2>3, <3>2, <3>3, Zenon DEF PushContinuation, WriteCodepoint, Written
    <3> QED BY <1>1, <1>3, <3>3, <3>4, Zenon DEF Taken
  <2>4. CASE f.state = 0 /\ b < 128
    <3>1. g = append_codepoint(f, b)
      BY <2>1, <2>2, <2>4 DEF push_back
    <3>2. Members(g, Append(f.str, b), f.codepoint, f.state, f.surpair) /\ g.is_valid = f.is_valid
      BY <1>1, <3>1, AppendIs, Zenon
    <3>3. PushAscii(b) /\ Recorded(g)
      BY <1>1, <2>4, <3>2, Zenon DEF PushAscii, Members
    <3> QED BY <1>1, <1>3, <3>3, Zenon DEF Taken
  <2>5. CASE f.state = 0 /\ b \in 192..247
    <3>1. g = SetSequence(f, LeadValue(b), LeadBits(b))
      <4>1. ~ (b < 128)
        BY <2>2, <2>5
      <4> QED BY <2>1, <2>5, <4>1, Zenon DEF push_back
    <3>2. Members(g, f.str, LeadValue(b), LeadBits(b), f.surpair) /\ g.is_valid = f.is_valid
      BY <1>1, <3>1, SetSequenceIs
    <3>3. PushLead(b) /\ Recorded(g)
      BY <1>1, <2>5, <3>2, Zenon DEF PushLead, Members
    <3> QED BY <1>1, <1>3, <3>3, Zenon DEF Taken
  <2>6. CASE f.state = 0 /\ (b \in 128..191 \/ b >= 248)
    <3>1. g = Valid(f, FALSE)
      <4>1. ~ (b < 128) /\ b \notin 192..247
        BY <2>2, <2>6
      <4> QED BY <2>1, <2>6, <4>1, Zenon DEF push_back
    <3>2. Members(g, f.str, f.codepoint, f.state, f.surpair) /\ g.is_valid = (f.is_valid /\ FALSE)
      BY <1>1, <3>1, ValidIs, Zenon
    <3>4. g.is_valid = FALSE
      BY <3>2
    <3>3. PushStray(b) /\ Recorded(g)
      BY <1>1, <2>6, <3>2, <3>4, Zenon DEF PushStray, Members
    <3> QED BY <1>1, <1>3, <3>3, Zenon DEF Taken
  <2>7. b < 128 \/ b \in 192..247 \/ (b \in 128..191 \/ b >= 248)
    BY <2>2, ByteCases
  <2> QED BY <2>3, <2>4, <2>5, <2>6, <2>7, Zenon
<1> QED BY <1>2, <1>3
-----------------------------------------------------------------------------
(* What every step keeps.                                                  *)

\* The inductive invariant: the types say that the bits below `state' are
\* clear, without which no bound on the code points would be kept.
IInv == TypeOK /\ NoHalves

LEMMA Powers == 2 ^ 0 = 1 /\ 2 ^ 6 = 64 /\ 2 ^ 12 = 4096 /\ 2 ^ 18 = 262144 /\ 2 ^ 21 = 2097152
OBVIOUS

LEMMA Appended ==
  ASSUME NEW S, NEW s \in Seq(S), NEW e \in S
  PROVE  /\ Append(s, e) \in Seq(S)
         /\ \A i \in DOMAIN Append(s, e) : Append(s, e)[i] \in {s[j] : j \in DOMAIN s} \cup {e}
OBVIOUS

\* What is stored with one more code point, none of them half of a character.
Stored(s) == s \in Seq(CodePoints) /\ \A i \in DOMAIN s : s[i] \notin Surrogates

LEMMA StoredAppend ==
  ASSUME NEW s, Stored(s), NEW c \in CodePoints, c \notin Surrogates
  PROVE  Stored(Append(s, c))
<1>1. s \in Seq(CodePoints) /\ \A i \in DOMAIN s : s[i] \notin Surrogates
  BY DEF Stored
<1>2. /\ Append(s, c) \in Seq(CodePoints)
      /\ \A i \in DOMAIN Append(s, c) :
           Append(s, c)[i] \in {s[j] : j \in DOMAIN s} \cup {c}
  BY <1>1, Appended, Zenon
<1> QED BY <1>1, <1>2, Zenon DEF Stored

\* Two halves make a character of the planes above the first.
LEMMA PairRange ==
  ASSUME NEW high \in HighHalves, NEW low \in LowHalves
  PROVE  Joined(high, low) \in CodePoints /\ Joined(high, low) \notin Surrogates
<1> DEFINE n == (high - 55296) * 1024 + (low - 56320)
<1>1. n \in Nat /\ n < 1048576
  BY SMT DEF HighHalves, LowHalves
<1> HIDE DEF n
<1>2. OrPlane1(n) \in Nat /\ OrPlane1(n) >= 65536 /\ OrPlane1(n) < 1114112
  BY <1>1, SMT DEF OrPlane1
<1>3. OrPlane1(n) \in CodePoints
  BY <1>2, Powers, SMT DEF CodePoints
<1>4. OrPlane1(n) \notin HighHalves
  BY <1>2, SMT DEF HighHalves
<1>5. OrPlane1(n) \notin LowHalves
  BY <1>2, SMT DEF LowHalves
<1>6. Joined(high, low) = OrPlane1(n)
  BY SMT DEF Joined, n
<1> QED BY <1>3, <1>4, <1>5, <1>6, SMT DEF Surrogates

LEMMA CodepointKept ==
  ASSUME Stored(str), is_valid \in BOOLEAN, surpair \in HighHalves \cup {0},
         NEW c \in CodePoints, NEW fits \in BOOLEAN, WriteCodepoint(c, fits)
  PROVE  /\ Stored(str')
         /\ is_valid' \in BOOLEAN
         /\ surpair' \in HighHalves \cup {0}
<1>1. CASE /\ c \in HighHalves
           /\ surpair' = IF surpair # 0 THEN surpair ELSE c
           /\ is_valid' = (is_valid /\ fits /\ surpair = 0)
           /\ UNCHANGED str
  BY <1>1, Zenon
<1>2. CASE /\ c \in LowHalves
           /\ str' = IF surpair # 0 THEN Append(str, Joined(surpair, c)) ELSE str
           /\ surpair' = 0
           /\ is_valid' = (is_valid /\ fits /\ surpair # 0)
  <2>1. CASE surpair # 0
    <3>1. Joined(surpair, c) \in CodePoints /\ Joined(surpair, c) \notin Surrogates
      BY <1>2, <2>1, PairRange, Zenon
    <3>2. Stored(Append(str, Joined(surpair, c)))
      BY <3>1, StoredAppend, Zenon
    <3> QED BY <1>2, <2>1, <3>2, Zenon
  <2>2. CASE surpair = 0
    BY <1>2, <2>2, Zenon
  <2> QED BY <2>1, <2>2, Zenon
<1>3. CASE /\ c \notin Surrogates
           /\ str' = IF surpair = 0 THEN Append(str, c) ELSE str
           /\ is_valid' = (is_valid /\ fits /\ surpair = 0)
           /\ UNCHANGED surpair
  BY <1>3, StoredAppend, Zenon
<1> QED BY <1>1, <1>2, <1>3 DEF WriteCodepoint

\* What a step that pushes a unit leaves behind, whatever the unit.
Opened == status = "open" /\ units \in Seq(Units) /\ Recorded(filter)

\* What IInv says, member by member.
LEMMA Parts ==
  ASSUME IInv
  PROVE  /\ Stored(str) /\ is_valid \in BOOLEAN /\ state \in {0, 6, 12, 18}
         /\ codepoint \in CodePoints /\ codepoint % (2 ^ state) = 0
         /\ surpair \in HighHalves \cup {0}
         /\ units \in Seq(Units)
         /\ status \in {"open", "accepted", "refused"}
         /\ Recorded(filter)
<1>1. /\ filter \in [str : Seq(CodePoints), is_valid : BOOLEAN, codepoint : CodePoints,
                     state : {0, 6, 12, 18}, surpair : HighHalves \cup {0}]
      /\ codepoint % (2 ^ state) = 0
      /\ units \in Seq(Units) /\ status \in {"open", "accepted", "refused"}
      /\ \A i \in DOMAIN str : str[i] \notin Surrogates
  BY Zenon DEF IInv, TypeOK, NoHalves
<1>2. PICK S, C, W, H : /\ S = Seq(CodePoints) /\ C = CodePoints /\ W = {0, 6, 12, 18}
                        /\ H = HighHalves \cup {0}
  OBVIOUS
<1>3. filter \in [str : S, is_valid : BOOLEAN, codepoint : C, state : W, surpair : H]
  BY <1>1, <1>2, Zenon
<1>4. /\ filter.str \in S /\ filter.is_valid \in BOOLEAN /\ filter.codepoint \in C
      /\ filter.state \in W /\ filter.surpair \in H
  BY <1>3
<1>5. Recorded(filter)
  BY <1>3 DEF Recorded
<1> QED BY <1>1, <1>2, <1>4, <1>5, Zenon DEF Stored, str, is_valid, codepoint, state, surpair

LEMMA Assemble ==
  ASSUME Opened', Stored(str)', (is_valid \in BOOLEAN)', (state \in {0, 6, 12, 18})',
         (codepoint \in CodePoints)', (codepoint % (2 ^ state) = 0)',
         (surpair \in HighHalves \cup {0})'
  PROVE  IInv'
<1>1. PICK S, C, W, H : /\ S = Seq(CodePoints) /\ C = CodePoints /\ W = {0, 6, 12, 18}
                        /\ H = HighHalves \cup {0}
  OBVIOUS
<1>2. PICK f : f = filter'
  OBVIOUS
<1>3. f.str \in S /\ f.is_valid \in BOOLEAN /\ f.codepoint \in C /\ f.state \in W /\ f.surpair \in H
  BY <1>1, <1>2, Zenon DEF Stored, str, is_valid, codepoint, state, surpair
<1>4. f = [str |-> f.str, is_valid |-> f.is_valid, codepoint |-> f.codepoint,
           state |-> f.state, surpair |-> f.surpair]
  BY <1>2, Zenon DEF Opened, Recorded
<1>5. f \in [str : S, is_valid : BOOLEAN, codepoint : C, state : W, surpair : H]
  BY <1>3, <1>4
<1>6. TypeOK'
  BY <1>1, <1>2, <1>5, Zenon DEF TypeOK, Opened
<1>7. NoHalves'
  BY Zenon DEF NoHalves, Stored
<1> QED BY <1>6, <1>7 DEF IInv

LEMMA InitIInv == Init => IInv
<1> SUFFICES ASSUME Init PROVE IInv
  OBVIOUS
<1>1. <<>> \in Seq(CodePoints) /\ <<>> \in Seq(Units)
  OBVIOUS
<1>2. DOMAIN <<>> = {} /\ 0 \in CodePoints /\ 0 % (2 ^ 0) = 0
  BY Powers DEF CodePoints
<1>3. /\ str = <<>> /\ codepoint = 0 /\ state = 0 /\ units = <<>> /\ status = "open"
  BY DEF Init, NewFilter, str, codepoint, state
<1>4. PICK S, C, W, H : /\ S = Seq(CodePoints) /\ C = CodePoints /\ W = {0, 6, 12, 18}
                        /\ H = HighHalves \cup {0}
  OBVIOUS
<1>5. <<>> \in S /\ 0 \in C /\ 0 \in W /\ 0 \in H
  BY <1>1, <1>2, <1>4
<1>6. filter \in [str : S, is_valid : BOOLEAN, codepoint : C, state : W, surpair : H]
  BY <1>5 DEF Init, NewFilter
<1>7. TypeOK
  BY <1>1, <1>2, <1>3, <1>4, <1>6, Zenon DEF TypeOK
<1>8. NoHalves
  BY <1>2, <1>3, Zenon DEF NoHalves
<1> QED BY <1>7, <1>8 DEF IInv

LEMMA UnitValIsInt == \A v \in UnitVals : v \in Int
<1>1. PICK n \in Nat : n = 65535
  OBVIOUS
<1>2. UnitVals = 0..n
  BY <1>1, SMT DEF UnitVals
<1> QED BY <1>2, SMT

LEMMA ByteIsUnit ==
  ASSUME NEW b \in 0..255
  PROVE  Byte(b) \in Units /\ b \in UnitVals
<1>1. b \in UnitVals
  BY SMT DEF UnitVals
<1>2. PICK B : B = 0..255
  OBVIOUS
<1>3. [esc |-> FALSE, val |-> b] \in [esc : {FALSE}, val : B]
  BY <1>2
<1> QED BY <1>1, <1>2, <1>3, Zenon DEF Byte, Units

LEMMA EscapeIsUnit ==
  ASSUME NEW u \in UnitVals
  PROVE  [esc |-> TRUE, val |-> u] \in Units
<1>1. [esc |-> TRUE, val |-> u] \in [esc : {TRUE}, val : UnitVals]
  OBVIOUS
<1> QED BY <1>1, Zenon DEF Units

LEMMA UnitParts ==
  ASSUME NEW x \in Units
  PROVE  /\ x.esc \in BOOLEAN /\ x.val \in UnitVals
         /\ ~ x.esc => x.val \in 0..255
         /\ x = [esc |-> x.esc, val |-> x.val]
<1>1. PICK B, V : B = 0..255 /\ V = UnitVals
  OBVIOUS
<1>2. x \in [esc : {FALSE}, val : B] \/ x \in [esc : {TRUE}, val : V]
  BY <1>1, Zenon DEF Units
<1>3. CASE x \in [esc : {FALSE}, val : B]
  <2>1. x.esc = FALSE /\ x.val \in B /\ x = [esc |-> x.esc, val |-> x.val]
    BY <1>3
  <2>2. x.val \in UnitVals
    BY <1>1, <2>1, ByteIsUnit, Zenon
  <2> QED BY <1>1, <2>1, <2>2, Zenon
<1>4. CASE x \in [esc : {TRUE}, val : V]
  <2>1. x.esc = TRUE /\ x.val \in V /\ x = [esc |-> x.esc, val |-> x.val]
    BY <1>4
  <2> QED BY <1>1, <2>1, Zenon
<1> QED BY <1>2, <1>3, <1>4

\* Nothing but Finalize changes the status, and it is the last step.
LEMMA PushLeaves ==
  ASSUME IInv, NEW x \in Units, Push(x)
  PROVE  Taken(x) /\ Opened'
<1>1. units \in Seq(Units) /\ Recorded(filter)
  BY Parts, Zenon
<1>2. /\ units' = Append(units, x) /\ status' = "open"
      /\ filter' = Feed(filter, x)
  BY DEF Push
<1>3. units' \in Seq(Units)
  BY <1>1, <1>2, Appended, Zenon
<1>4. Taken(x) /\ Recorded(filter')
  BY <1>1, <1>2, IsTaken, Zenon
<1> QED BY <1>2, <1>3, <1>4, Zenon DEF Opened

LEMMA AsciiRange ==
  ASSUME NEW b \in 0..255, b < 128
  PROVE  b \in CodePoints /\ b \notin Surrogates
<1>1. b \in CodePoints
  BY Powers, SMT DEF CodePoints
<1>2. b \notin HighHalves
  BY SMT DEF HighHalves
<1>3. b \notin LowHalves
  BY SMT DEF LowHalves
<1> QED BY <1>1, <1>2, <1>3, Zenon DEF Surrogates

LEMMA StepAscii == ASSUME IInv, NEW b \in 0..255, PushAscii(b), Opened' PROVE IInv'
<1>1. /\ b < 128 /\ str' = Append(str, b) /\ is_valid' = is_valid
      /\ codepoint' = codepoint /\ state' = state /\ surpair' = surpair
  BY Zenon DEF PushAscii
<1>3. b \in CodePoints /\ b \notin Surrogates
  BY <1>1, AsciiRange, Zenon
<1>4. Stored(str')
  BY <1>1, <1>3, Parts, StoredAppend, Zenon
<1> QED BY <1>1, <1>4, Parts, Assemble, Zenon

LEMMA LeadRange ==
  ASSUME NEW b \in 192..247
  PROVE  /\ LeadBits(b) \in {6, 12, 18}
         /\ LeadValue(b) \in CodePoints
         /\ LeadValue(b) % (2 ^ LeadBits(b)) = 0
<1>1. CASE b < 224
  <2>1. LeadBits(b) = 6 /\ LeadValue(b) = (b - 192) * 64
    BY <1>1, Powers DEF LeadBits, LeadValue
  <2> QED BY <1>1, <2>1, Powers DEF CodePoints
<1>2. CASE ~ b < 224 /\ b < 240
  <2>1. LeadBits(b) = 12 /\ LeadValue(b) = (b - 224) * 4096
    BY <1>2, Powers DEF LeadBits, LeadValue
  <2> QED BY <1>2, <2>1, Powers DEF CodePoints
<1>3. CASE ~ b < 224 /\ ~ b < 240
  <2>1. LeadBits(b) = 18 /\ LeadValue(b) = (b - 240) * 262144
    BY <1>3, Powers DEF LeadBits, LeadValue
  <2> QED BY <1>3, <2>1, Powers DEF CodePoints
<1> QED BY <1>1, <1>2, <1>3

LEMMA StepLead == ASSUME IInv, NEW b \in 0..255, PushLead(b), Opened' PROVE IInv'
<1>1. /\ b \in 192..247 /\ codepoint' = LeadValue(b) /\ state' = LeadBits(b)
      /\ str' = str /\ is_valid' = is_valid /\ surpair' = surpair
  BY DEF PushLead
<1>3. /\ state' \in {0, 6, 12, 18}
      /\ codepoint' \in CodePoints /\ codepoint' % (2 ^ state') = 0
  BY <1>1, LeadRange
<1> QED BY <1>1, <1>3, Parts, Assemble, Zenon

LEMMA StepStray == ASSUME IInv, NEW b \in 0..255, PushStray(b), Opened' PROVE IInv'
<1>1. /\ is_valid' = FALSE /\ str' = str /\ codepoint' = codepoint /\ state' = state
      /\ surpair' = surpair
  BY DEF PushStray
<1> QED BY <1>1, Parts, Assemble, Zenon

\* Six more bits fit where they go.
LEMMA ContinuationRange ==
  ASSUME NEW s \in {6, 12, 18}, NEW c \in CodePoints, c % (2 ^ s) = 0, NEW b \in 0..255
  PROVE  /\ s - 6 \in {0, 6, 12}
         /\ c + (b % 64) * 2 ^ (s - 6) \in CodePoints
         /\ (c + (b % 64) * 2 ^ (s - 6)) % (2 ^ (s - 6)) = 0
<1> DEFINE d == b % 64
<1>1. d \in 0..63
  OBVIOUS
<1> HIDE DEF d
<1>2. CASE s = 6
  <2>1. c % 64 = 0 /\ 2 ^ (s - 6) = 1
    BY <1>2, Powers
  <2> QED BY <1>1, <1>2, <2>1 DEF d, CodePoints
<1>3. CASE s = 12
  <2>1. c % 4096 = 0 /\ 2 ^ (s - 6) = 64
    BY <1>3, Powers
  <2> QED BY <1>1, <1>3, <2>1 DEF d, CodePoints
<1>4. CASE s = 18
  <2>1. c % 262144 = 0 /\ 2 ^ (s - 6) = 4096
    BY <1>4, Powers
  <2> QED BY <1>1, <1>4, <2>1 DEF d, CodePoints
<1> QED BY <1>2, <1>3, <1>4

LEMMA StepContinuation == ASSUME IInv, NEW b \in 0..255, PushContinuation(b), Opened' PROVE IInv'
<1>1. state \in {6, 12, 18} /\ codepoint \in CodePoints /\ codepoint % (2 ^ state) = 0
  BY Parts, SMT DEF PushContinuation
<1>4. /\ state' = state - 6
      /\ codepoint' = codepoint + (b % 64) * 2 ^ (state - 6)
  BY DEF PushContinuation
<1>6. /\ state - 6 \in {0, 6, 12}
      /\ codepoint + (b % 64) * 2 ^ (state - 6) \in CodePoints
      /\ (codepoint + (b % 64) * 2 ^ (state - 6)) % (2 ^ (state - 6)) = 0
  BY <1>1, ContinuationRange, Zenon
<1>7. state' \in {0, 6, 12, 18} /\ codepoint' \in CodePoints /\ codepoint' % (2 ^ state') = 0
  <2>1. state' \in {0, 6, 12, 18}
    BY <1>4, <1>6, SMT
  <2>2. codepoint' \in CodePoints
    BY <1>4, <1>6, Zenon
  <2>3. codepoint' % (2 ^ state') = 0
    BY <1>4, <1>6, Zenon
  <2> QED BY <2>1, <2>2, <2>3, Zenon
<1>8. Stored(str') /\ is_valid' \in BOOLEAN /\ surpair' \in HighHalves \cup {0}
  <2> DEFINE tail == b \in 128..191
  <2>1. tail \in BOOLEAN
    OBVIOUS
  <2>2. \/ WriteCodepoint(codepoint', tail)
        \/ is_valid' = (is_valid /\ tail) /\ str' = str /\ surpair' = surpair
    BY DEF PushContinuation
  <2> HIDE DEF tail
  <2>3. CASE WriteCodepoint(codepoint', tail)
    BY <1>7, <2>1, <2>3, Parts, CodepointKept, Zenon
  <2>4. CASE is_valid' = (is_valid /\ tail) /\ str' = str /\ surpair' = surpair
    BY <2>1, <2>4, Parts, Zenon
  <2> QED BY <2>2, <2>3, <2>4, Zenon
<1> QED BY <1>7, <1>8, Assemble, Zenon

LEMMA StepEscape == ASSUME IInv, NEW u \in UnitVals, PushEscape(u), Opened' PROVE IInv'
<1>1. u \in CodePoints
  BY Powers, SMT DEF CodePoints, UnitVals
<1>2. WriteCodepoint(u, state = 0) /\ codepoint' = codepoint /\ state' = state
  BY Zenon DEF PushEscape
<1>3. Stored(str') /\ is_valid' \in BOOLEAN /\ surpair' \in HighHalves \cup {0}
  BY <1>1, <1>2, Parts, CodepointKept, Zenon
<1> QED BY <1>2, <1>3, Parts, Assemble, Zenon

LEMMA StepPush == ASSUME IInv, NEW x \in Units, Push(x) PROVE IInv'
<1>1. Taken(x) /\ Opened'
  BY PushLeaves, Zenon
<1>2. CASE x.esc
  BY <1>1, <1>2, UnitParts, StepEscape, Zenon DEF Taken
<1>3. CASE ~ x.esc
  BY <1>1, <1>3, UnitParts, StepAscii, StepLead, StepStray, StepContinuation, Zenon DEF Taken
<1> QED BY <1>2, <1>3

\* What finalize does.
LEMMA Finalized ==
  ASSUME IInv, Finalize
  PROVE  /\ is_valid' = (is_valid /\ state = 0 /\ surpair = 0)
         /\ str' = str /\ codepoint' = codepoint /\ state' = state /\ surpair' = surpair
         /\ Recorded(filter')
         /\ status = "open" /\ units' = units
         /\ status' = IF is_valid' THEN "accepted" ELSE "refused"
<1>1. PICK f, g : f = filter /\ g = filter'
  OBVIOUS
<1>2. /\ g = Valid(f, f.state = 0 /\ f.surpair = 0) /\ g = finalize(f)
      /\ status = "open" /\ units' = units
      /\ status' = IF g.is_valid THEN "accepted" ELSE "refused"
  BY <1>1, Zenon DEF Finalize, finalize
<1>3. Recorded(f)
  BY <1>1, Parts, Zenon
<1>4. /\ Members(g, f.str, f.codepoint, f.state, f.surpair)
      /\ g.is_valid = (f.is_valid /\ f.state = 0 /\ f.surpair = 0)
  BY <1>2, <1>3, ValidIs, Zenon
<1> QED BY <1>1, <1>2, <1>4, Zenon DEF Members, str, is_valid, codepoint, state, surpair

LEMMA StepFinalize == ASSUME IInv, Finalize PROVE IInv'
<1>1. /\ is_valid' = (is_valid /\ state = 0 /\ surpair = 0)
      /\ str' = str /\ codepoint' = codepoint /\ state' = state /\ surpair' = surpair
      /\ Recorded(filter') /\ units' = units
      /\ status' = IF is_valid' THEN "accepted" ELSE "refused"
  BY Finalized, Zenon
<1>2. status' \in {"open", "accepted", "refused"}
  BY <1>1, Zenon
<1>3. PICK S, C, W, H : /\ S = Seq(CodePoints) /\ C = CodePoints /\ W = {0, 6, 12, 18}
                        /\ H = HighHalves \cup {0}
  OBVIOUS
<1>4. PICK f : f = filter'
  OBVIOUS
<1>5. is_valid' \in BOOLEAN
  BY <1>1, Zenon
<1>6. f.str \in S /\ f.is_valid \in BOOLEAN /\ f.codepoint \in C /\ f.state \in W /\ f.surpair \in H
  BY <1>1, <1>3, <1>4, <1>5, Parts, Zenon DEF Stored, str, is_valid, codepoint, state, surpair
<1>7. f = [str |-> f.str, is_valid |-> f.is_valid, codepoint |-> f.codepoint,
           state |-> f.state, surpair |-> f.surpair]
  BY <1>1, <1>4, Zenon DEF Recorded
<1>8. f \in [str : S, is_valid : BOOLEAN, codepoint : C, state : W, surpair : H]
  BY <1>6, <1>7
<1>9. TypeOK'
  BY <1>1, <1>2, <1>3, <1>4, <1>8, Parts, Zenon DEF TypeOK
<1>10. NoHalves'
  BY <1>1, Parts, Zenon DEF NoHalves, Stored
<1> QED BY <1>9, <1>10 DEF IInv

LEMMA StepInv == IInv /\ [Next]_vars => IInv'
<1>1. ASSUME IInv, UNCHANGED vars PROVE IInv'
  <2>1. filter' = filter /\ units' = units /\ status' = status
    BY <1>1 DEF vars
  <2> QED BY <1>1, <2>1, Zenon DEF IInv, TypeOK, NoHalves, str, codepoint, state
<1> QED BY <1>1, StepPush, StepFinalize, Zenon DEF Next

LEMMA Inductive == Spec => []IInv
BY InitIInv, StepInv, PTL DEF Spec

\* Type correctness; that |= never meets a bit that is set is part of it.
THEOREM TypeCorrect == Spec => []TypeOK
<1>1. IInv => TypeOK
  BY DEF IInv
<1> QED BY Inductive, <1>1, PTL

\* No half of a character is stored, in whatever string.
THEOREM NeverHalves == Spec => []NoHalves
<1>1. IInv => NoHalves
  BY DEF IInv
<1> QED BY Inductive, <1>1, PTL
-----------------------------------------------------------------------------
(* The characters of a text.                                               *)

TextUnits == Seq(Units)

\* The number that n bytes from i spell, written out.
Spelled(u, i, n) ==
  LET v1 == u[i].val - Lead[n].first
      v2 == v1 * 64 + (u[i + 1].val - 128)
      v3 == v2 * 64 + (u[i + 2].val - 128)
      v4 == v3 * 64 + (u[i + 3].val - 128)
  IN  IF n = 1 THEN v1 ELSE IF n = 2 THEN v2 ELSE IF n = 3 THEN v3 ELSE v4

LEMMA NumberIs ==
  ASSUME NEW u, NEW i, NEW n \in 1..4
  PROVE  Number(u, i, n) = Spelled(u, i, n)
<1> DEFINE v1 == u[i].val - Lead[n].first
           v2 == v1 * 64 + (u[i + 1].val - 128)
           v3 == v2 * 64 + (u[i + 2].val - 128)
           v4 == v3 * 64 + (u[i + 3].val - 128)
           F(f) == f = [k \in 0..(n - 1) |->
                          IF k = 0 THEN u[i].val - Lead[n].first
                                   ELSE f[k - 1] * 64 + (u[i + k].val - 128)]
           g == [k \in 0..(n - 1) |-> IF k = 0 THEN v1 ELSE IF k = 1 THEN v2
                                      ELSE IF k = 2 THEN v3 ELSE v4]
           f == CHOOSE f : F(f)
<1>1. Number(u, i, n) = f[n - 1]
  BY Zenon DEF Number
<1>2. F(g)
  <2> DEFINE r(k) == IF k = 0 THEN u[i].val - Lead[n].first
                     ELSE g[k - 1] * 64 + (u[i + k].val - 128)
  <2>1. ASSUME NEW k \in 0..(n - 1) PROVE g[k] = r(k)
    <3>1. CASE k = 0
      BY <3>1
    <3>2. CASE k = 1
      <4>1. g[k] = v2 /\ g[k - 1] = v1
        BY <3>2
      <4> QED BY <3>2, <4>1
    <3>3. CASE k = 2
      <4>1. g[k] = v3 /\ g[k - 1] = v2
        BY <3>3
      <4> QED BY <3>3, <4>1
    <3>4. CASE k = 3
      <4>1. g[k] = v4 /\ g[k - 1] = v3
        BY <3>4
      <4> QED BY <3>4, <4>1
    <3> QED BY <3>1, <3>2, <3>3, <3>4
  <2>2. g = [k \in 0..(n - 1) |-> g[k]]
    BY Zenon
  <2> HIDE DEF g
  <2> QED BY <2>1, <2>2
<1>3. F(f)
  <2> HIDE DEF F
  <2> QED BY <1>2, Zenon
<1> HIDE DEF f, g
<1>4. f[0] = v1
  BY <1>3
<1>5. n > 1 => f[1] = v2
  BY <1>3, <1>4
<1> HIDE DEF v1
<1>6. n > 2 => f[2] = v3
  BY <1>3, <1>5
<1> HIDE DEF v2
<1>7. n > 3 => f[3] = v4
  BY <1>3, <1>6
<1> HIDE DEF v3, v4
<1>8. f[n - 1] = IF n = 1 THEN v1 ELSE IF n = 2 THEN v2 ELSE IF n = 3 THEN v3 ELSE v4
  BY <1>4, <1>5, <1>6, <1>7
<1> QED BY <1>1, <1>8, Zenon DEF Spelled, v1, v2, v3, v4
\* The three ways to spell a character c at i.
BytesAre(u, i, n, c) ==
  /\ ~ u[i].esc
  /\ u[i].val \in Lead[n].first..Lead[n].last
  /\ i + n - 1 <= Len(u)
  /\ \A j \in (i + 1)..(i + n - 1) : IsTail(u[j])
  /\ Spelled(u, i, n) >= Lead[n].least
  /\ IsCharacter(Spelled(u, i, n))
  /\ c = [char |-> Spelled(u, i, n), length |-> n]

EscapeIs(u, i, c) ==
  /\ u[i].esc /\ IsCharacter(u[i].val)
  /\ c = [char |-> u[i].val, length |-> 1]

PairChar(high, low) == 65536 + (high - 55296) * 1024 + (low - 56320)

PairIs(u, i, c) ==
  /\ IsPair(u, i)
  /\ c = [char |-> PairChar(u[i].val, u[i + 1].val), length |-> 2]

LEMMA CharIs ==
  ASSUME NEW u, NEW i, NEW c
  PROVE  c \in CharsAt(u, i) <=>
           (\E n \in 1..4 : BytesAre(u, i, n, c)) \/ EscapeIs(u, i, c) \/ PairIs(u, i, c)
<1>1. c \in InBytes(u, i) <=> \E n \in 1..4 : BytesAre(u, i, n, c)
  <2>1. \A n \in 1..4 : Number(u, i, n) = Spelled(u, i, n)
    BY NumberIs, Zenon
  <2>2. c \in InBytes(u, i) <=>
          \E n \in 1..4 :
            /\ ~ u[i].esc
            /\ u[i].val \in Lead[n].first..Lead[n].last
            /\ i + n - 1 <= Len(u)
            /\ \A j \in (i + 1)..(i + n - 1) : IsTail(u[j])
            /\ Number(u, i, n) >= Lead[n].least
            /\ IsCharacter(Number(u, i, n))
            /\ c = [char |-> Number(u, i, n), length |-> n]
    BY Zenon DEF InBytes
  <2> QED BY <2>1, <2>2, Zenon DEF BytesAre
<1>2. c \in Escaped(u, i) <=> EscapeIs(u, i, c)
  BY Zenon DEF Escaped, EscapeIs
<1>3. c \in Paired(u, i) <=> PairIs(u, i, c)
  <2>1. Paired(u, i) = IF IsPair(u, i)
                       THEN {[char |-> PairChar(u[i].val, u[i + 1].val), length |-> 2]}
                       ELSE {}
    BY SMT DEF Paired, PairChar
  <2> QED BY <2>1, Zenon DEF PairIs
<1> QED BY <1>1, <1>2, <1>3, Zenon DEF CharsAt

Chars == 0..MaxCharacter
Strings == Seq(Chars)

LEMMA UnitType ==
  ASSUME NEW u \in TextUnits, NEW i \in 1..Len(u)
  PROVE  u[i] \in Units /\ u[i].esc \in BOOLEAN /\ u[i].val \in UnitVals
<1>1. u[i] \in Units
  BY ElementOfSeq, Zenon DEF TextUnits
<1>2. u[i].esc \in BOOLEAN /\ u[i].val \in UnitVals
  BY <1>1, UnitParts, Zenon
<1> QED BY <1>1, <1>2, Zenon

LEMMA CharacterIsChar == ASSUME NEW n, IsCharacter(n) PROVE n \in Chars /\ n \notin Surrogates
BY Zenon DEF IsCharacter, Chars

LEMMA CharType ==
  ASSUME NEW u \in TextUnits, NEW i \in 1..Len(u), NEW c \in CharsAt(u, i)
  PROVE  /\ c.char \in Chars
         /\ c.length \in 1..4
         /\ i + c.length <= Len(u) + 1
<1>1. Len(u) \in Nat
  BY DEF TextUnits
<1>2. CASE \E n \in 1..4 : BytesAre(u, i, n, c)
  <2>1. PICK n \in 1..4 : BytesAre(u, i, n, c)
    BY <1>2
  <2>2. /\ c = [char |-> Spelled(u, i, n), length |-> n]
        /\ IsCharacter(Spelled(u, i, n))
        /\ i + n - 1 <= Len(u)
    BY <2>1, Zenon DEF BytesAre
  <2>3. Spelled(u, i, n) \in Chars
    BY <2>2, CharacterIsChar
  <2> QED BY <1>1, <2>2, <2>3, SMT
<1>3. CASE EscapeIs(u, i, c)
  <2>1. c = [char |-> u[i].val, length |-> 1] /\ IsCharacter(u[i].val)
    BY <1>3, Zenon DEF EscapeIs
  <2>2. u[i].val \in Chars
    BY <2>1, CharacterIsChar
  <2> QED BY <1>1, <2>1, <2>2, SMT
<1>4. CASE PairIs(u, i, c)
  <2>1. i < Len(u) /\ u[i].val \in HighHalves /\ u[i + 1].val \in LowHalves
    BY <1>4, Zenon DEF PairIs, IsPair
  <2>2. c.char = PairChar(u[i].val, u[i + 1].val) /\ c.length = 2
    BY <1>4, SMT DEF PairIs
  <2>3. PairChar(u[i].val, u[i + 1].val) \in Chars
    <3>1. \A high \in HighHalves, low \in LowHalves :
            PairChar(high, low) \in Nat /\ PairChar(high, low) <= MaxCharacter
      BY SMT DEF HighHalves, LowHalves, PairChar, MaxCharacter
    <3>2. MaxCharacter \in Nat
      BY SMT DEF MaxCharacter
    <3>3. \A high \in HighHalves, low \in LowHalves : PairChar(high, low) \in Chars
      BY <3>1, <3>2, SMT DEF Chars
    <3> QED BY <2>1, <3>3, Zenon
  <2> QED BY <1>1, <2>1, <2>2, <2>3, SMT
<1> QED BY <1>2, <1>3, <1>4, CharIs, Zenon

\* What is appended to a text does not change what was spelled.
LEMMA CharStays ==
  ASSUME NEW u \in TextUnits, NEW w \in TextUnits, Len(u) <= Len(w),
         \A j \in 1..Len(u) : w[j] = u[j],
         NEW i \in 1..Len(u), NEW c \in CharsAt(w, i), i + c.length <= Len(u) + 1
  PROVE  c \in CharsAt(u, i)
<1>1. Len(u) \in Nat /\ w[i] = u[i]
  BY DEF TextUnits
<1>2. CASE \E n \in 1..4 : BytesAre(w, i, n, c)
  <2>1. PICK n \in 1..4 : BytesAre(w, i, n, c)
    BY <1>2
  <2>2. n = c.length /\ i + n - 1 <= Len(u)
    BY <1>1, <2>1 DEF BytesAre
  <2>3. \A j \in (i + 1)..(i + n - 1) : j \in 1..Len(u)
    BY <1>1, <2>2
  <2>4. \A j \in (i + 1)..(i + n - 1) : w[j] = u[j]
    BY <2>3
  <2>5. Spelled(w, i, n) = Spelled(u, i, n)
    <3>1. n > 1 => w[i + 1] = u[i + 1]
      BY <1>1, <2>2
    <3>2. n > 2 => w[i + 2] = u[i + 2]
      BY <1>1, <2>2
    <3>3. n > 3 => w[i + 3] = u[i + 3]
      BY <1>1, <2>2
    <3>4. CASE n = 1
      BY <1>1, <3>4, Zenon DEF Spelled
    <3>5. CASE n = 2
      BY <1>1, <3>1, <3>5 DEF Spelled
    <3>6. CASE n = 3
      BY <1>1, <3>1, <3>2, <3>6 DEF Spelled
    <3>7. CASE n = 4
      BY <1>1, <3>1, <3>2, <3>3, <3>7 DEF Spelled
    <3> QED BY <3>4, <3>5, <3>6, <3>7
  <2>6. BytesAre(u, i, n, c)
    BY <1>1, <2>1, <2>2, <2>4, <2>5, Zenon DEF BytesAre
  <2> QED BY <2>6, CharIs, Zenon
<1>3. CASE EscapeIs(w, i, c)
  <2>1. EscapeIs(u, i, c)
    BY <1>1, <1>3, Zenon DEF EscapeIs
  <2> QED BY <2>1, CharIs, Zenon
<1>4. CASE PairIs(w, i, c)
  <2>1. c.length = 2
    BY <1>4 DEF PairIs
  <2>2. i < Len(u) /\ w[i + 1] = u[i + 1]
    BY <1>1, <2>1
  <2>3. PairIs(u, i, c)
    BY <1>1, <1>4, <2>2, Zenon DEF PairIs, IsPair
  <2> QED BY <2>3, CharIs, Zenon
<1> QED BY <1>2, <1>3, <1>4, CharIs, Zenon
\* The units from i up to p spell m: the places where its characters start.
Cuts(u, i, p, m, cut) ==
  /\ cut[1] = i
  /\ cut[Len(m) + 1] = p
  /\ \A k \in 1..Len(m) :
       \E c \in CharsAt(u, cut[k]) : m[k] = c.char /\ cut[k + 1] = cut[k] + c.length

Spells(u, i, p, m) == \E cut \in [1..(Len(m) + 1) -> i..p] : Cuts(u, i, p, m, cut)

\* A character more in front.
LEMMA SpellsFirst ==
  ASSUME NEW u \in TextUnits, NEW i \in 1..Len(u), NEW c \in CharsAt(u, i),
         NEW p \in 1..(Len(u) + 1), NEW rest \in Strings, NEW q, q = i + c.length,
         Spells(u, q, p, rest)
  PROVE  <<c.char>> \o rest \in Strings /\ Spells(u, i, p, <<c.char>> \o rest)
<1>1. c.char \in Chars /\ c.length \in 1..4 /\ Len(rest) \in Nat
  <2>1. c.char \in Chars /\ c.length \in 1..4
    BY CharType, Zenon
  <2> QED BY <2>1 DEF Strings
<1>2. PICK cut \in [1..(Len(rest) + 1) -> q..p] : Cuts(u, q, p, rest, cut)
  BY Zenon DEF Spells
<1> DEFINE m == <<c.char>> \o rest
           new == [k \in 1..(Len(m) + 1) |-> IF k = 1 THEN i ELSE cut[k - 1]]
<1>3. /\ m \in Strings
      /\ Len(m) = Len(rest) + 1
      /\ m[1] = c.char
      /\ \A k \in 2..Len(m) : m[k] = rest[k - 1]
  BY <1>1 DEF Strings
<1> HIDE DEF m
<1>4. q \in Nat /\ i < q /\ Len(u) \in Nat
  BY <1>1 DEF TextUnits
<1>5. new \in [1..(Len(m) + 1) -> i..p]
  <2>1. ASSUME NEW k \in 1..(Len(m) + 1), k # 1 PROVE cut[k - 1] \in q..p
    <3>1. k - 1 \in 1..(Len(rest) + 1)
      BY <1>1, <1>3, <2>1
    <3> QED BY <1>2, <3>1, Zenon
  <2>2. q..p \subseteq i..p /\ i \in i..p
    <3>1. cut[Len(rest) + 1] \in q..p
      BY <1>1, <1>2
    <3> QED BY <1>4, <3>1
  <2> QED BY <2>1, <2>2
<1>6. new[1] = i /\ new[Len(m) + 1] = p
  BY <1>1, <1>2, <1>3 DEF Cuts
<1>7. ASSUME NEW k \in 1..Len(m)
      PROVE  \E d \in CharsAt(u, new[k]) : m[k] = d.char /\ new[k + 1] = new[k] + d.length
  <2>1. CASE k = 1
    <3>1. new[k] = i /\ new[k + 1] = q
      BY <1>1, <1>2, <1>3, <2>1 DEF Cuts
    <3> QED BY <1>3, <2>1, <3>1
  <2>2. CASE k # 1
    <3>1. /\ k - 1 \in 1..Len(rest) /\ k \in 2..Len(m)
          /\ new[k] = cut[k - 1] /\ new[k + 1] = cut[k - 1 + 1]
      <4>1. k + 1 \in 1..(Len(m) + 1) /\ k \in 1..(Len(m) + 1) /\ k + 1 # 1
            /\ k + 1 - 1 = k - 1 + 1
        BY <1>1, <1>3
      <4>2. k - 1 \in 1..Len(rest) /\ k \in 2..Len(m)
        BY <1>1, <1>3, <2>2
      <4> QED BY <2>2, <4>1, <4>2
    <3>2. m[k] = rest[k - 1]
      BY <1>3, <3>1
    <3>3. \E d \in CharsAt(u, cut[k - 1]) :
            rest[k - 1] = d.char /\ cut[k - 1 + 1] = cut[k - 1] + d.length
      BY <1>2, <3>1, Zenon DEF Cuts
    <3> QED BY <3>1, <3>2, <3>3, Zenon
  <2> QED BY <2>1, <2>2
<1> HIDE DEF new
<1>8. Cuts(u, i, p, m, new)
  BY <1>6, <1>7, Zenon DEF Cuts
<1>9. Spells(u, i, p, m)
  BY <1>5, <1>8, Zenon DEF Spells
<1> QED BY <1>3, <1>9, Zenon DEF m

LEMMA CharLength ==
  ASSUME NEW u, NEW i, NEW c \in CharsAt(u, i)
  PROVE  c.length \in 1..4
<1>1. CASE \E n \in 1..4 : BytesAre(u, i, n, c)
  BY <1>1 DEF BytesAre
<1>2. CASE EscapeIs(u, i, c)
  BY <1>2 DEF EscapeIs
<1>3. CASE PairIs(u, i, c)
  BY <1>3, SMT DEF PairIs
<1> QED BY <1>1, <1>2, <1>3, CharIs, Zenon

LEMMA CutsRise ==
  ASSUME NEW u, NEW p \in Nat, NEW m \in Strings,
         NEW cut \in [1..(Len(m) + 1) -> 1..p], Cuts(u, 1, p, m, cut),
         NEW k \in 1..Len(m)
  PROVE  cut[k] <= cut[Len(m)]
<1> DEFINE n == Len(m)
           G == {j \in 1..n : cut[j] <= cut[n]}
<1>1. n \in Nat
  BY DEF Strings
<1>2. ASSUME NEW j \in 1..n, \A l \in (j + 1)..n : l \in G PROVE j \in G
  <2>1. cut[j] \in 1..p /\ cut[n] \in 1..p /\ cut[j + 1] \in 1..p
    BY <1>1
  <2>2. CASE j = n
    BY <1>1, <2>1, <2>2
  <2>3. CASE j # n
    <3>1. j + 1 \in (j + 1)..n
      BY <1>1, <2>3
    <3>2. cut[j + 1] <= cut[n]
      BY <1>2, <3>1
    <3>3. PICK d \in CharsAt(u, cut[j]) : cut[j + 1] = cut[j] + d.length
      BY Zenon DEF Cuts
    <3>4. d.length \in 1..4
      BY CharLength, Zenon
    <3> QED BY <2>1, <3>2, <3>3, <3>4
  <2> QED BY <2>2, <2>3
<1> HIDE DEF G
<1>3. \A j \in 1..n : j \in G
  <2> HIDE DEF n
  <2>1. PICK a : a = 1
    OBVIOUS
  <2>2. a \in Nat /\ \A j \in a..n : (\A l \in (j + 1)..n : l \in G) => j \in G
    BY <1>2, <2>1
  <2>3. \A j \in a..n : j \in G
    BY <1>1, <2>2, FromRight, Zenon
  <2> QED BY <2>1, <2>3
<1> QED BY <1>3 DEF G

LEMMA FrontOf ==
  ASSUME NEW m \in Strings, Len(m) # 0
  PROVE  LET start == SubSeq(m, 1, Len(m) - 1)
         IN  /\ start \in Strings /\ Len(start) = Len(m) - 1
             /\ m = Append(start, m[Len(m)])
             /\ \A k \in 1..(Len(m) - 1) : start[k] = m[k]
<1> DEFINE n == Len(m)
           start == SubSeq(m, 1, n - 1)
<1>1. n \in Nat \ {0} /\ m \in Seq(Chars)
  BY DEF Strings
<1>2. \A k \in 1..n : m[k] \in Chars
  BY <1>1, ElementOfSeq, Zenon
<1>3. start \in Seq(Chars) /\ Len(start) = n - 1 /\ \A k \in 1..(n - 1) : start[k] = m[k]
  <2>1. PICK e : e = n - 1
    OBVIOUS
  <2>2. e \in Int /\ \A k \in 1..e : m[k] \in Chars
    <3>1. \A k \in 1..e : k \in 1..n
      BY <1>1, <2>1
    <3> QED BY <1>1, <1>2, <2>1, <3>1
  <2>3. /\ SubSeq(m, 1, e) \in Seq(Chars)
        /\ Len(SubSeq(m, 1, e)) = IF 1 <= e THEN e - 1 + 1 ELSE 0
        /\ \A k \in 1..(e - 1 + 1) : SubSeq(m, 1, e)[k] = m[1 + k - 1]
    BY <2>2, SubSeqProperties
  <2> QED BY <1>1, <2>1, <2>2, <2>3
<1> HIDE DEF start
<1>4. PICK t : t = Append(start, m[n])
  OBVIOUS
<1>5. n \in 1..n
  BY <1>1
<1>6. t \in Seq(Chars) /\ Len(t) = n
  BY <1>1, <1>2, <1>3, <1>4, <1>5
<1>7. \A k \in 1..n : t[k] = m[k]
  BY <1>1, <1>3, <1>4
<1>8. t = m
  <2>1. Len(t) = Len(m) /\ \A k \in 1..Len(t) : t[k] = m[k]
    BY <1>6, <1>7
  <2> QED BY <1>1, <1>6, <2>1, SeqEqual, Zenon
<1> QED BY <1>1, <1>3, <1>4, <1>8, Zenon DEF Strings, start

\* The last character, and what is before it.
LEMMA SpellsLast ==
  ASSUME NEW u \in TextUnits, NEW p \in 2..(Len(u) + 1), NEW m \in Strings, Spells(u, 1, p, m)
  PROVE  \E q \in 1..Len(u) : \E c \in CharsAt(u, q) : \E start \in Strings :
           /\ q + c.length = p
           /\ Spells(u, 1, q, start)
           /\ m = Append(start, c.char)
<1>1. PICK cut \in [1..(Len(m) + 1) -> 1..p] : Cuts(u, 1, p, m, cut)
  BY Zenon DEF Spells
<1> DEFINE n == Len(m)
<1>2. n \in Nat /\ Len(u) \in Nat
  BY DEF Strings, TextUnits
<1>3. n # 0
  BY <1>1 DEF Cuts
<1>4. n \in 1..n /\ n + 1 \in 1..(n + 1) /\ n \in 1..(n + 1)
  BY <1>2, <1>3
<1>5. PICK c \in CharsAt(u, cut[n]) : m[n] = c.char /\ cut[n + 1] = cut[n] + c.length
  BY <1>1, <1>4, Zenon DEF Cuts
<1>6. cut[n] \in 1..p /\ cut[n + 1] = p
  BY <1>1, <1>4, Zenon DEF Cuts
<1>7. PICK q : q = cut[n]
  OBVIOUS
<1>8. c.length \in 1..4
  BY <1>5, CharLength, Zenon
<1>9. q \in 1..Len(u) /\ c \in CharsAt(u, q) /\ q + c.length = p
  BY <1>2, <1>5, <1>6, <1>7, <1>8
<1> DEFINE start == SubSeq(m, 1, n - 1)
           new == [k \in 1..n |-> cut[k]]
<1>10. /\ start \in Strings /\ Len(start) = n - 1 /\ m = Append(start, m[n])
       /\ \A k \in 1..(n - 1) : start[k] = m[k]
  BY <1>2, <1>3, FrontOf, Zenon
<1> HIDE DEF start
<1>11. new \in [1..(Len(start) + 1) -> 1..q]
  <2>1. \A k \in 1..n : cut[k] \in 1..p /\ cut[k] <= q
    <3>1. p \in Nat /\ \A k \in 1..n : k \in 1..(n + 1)
      BY <1>2
    <3>2. \A k \in 1..n : cut[k] <= q
      BY <1>1, <1>7, <3>1, CutsRise, Zenon
    <3> QED BY <1>1, <3>1, <3>2
  <2>2. 1..(Len(start) + 1) = 1..n
    BY <1>2, <1>10
  <2> QED BY <1>2, <1>9, <2>1, <2>2
<1>12. Cuts(u, 1, q, start, new)
  <2>1. new[1] = 1 /\ new[Len(start) + 1] = q
    BY <1>1, <1>2, <1>3, <1>7, <1>10 DEF Cuts
  <2>2. ASSUME NEW k \in 1..Len(start)
        PROVE  \E d \in CharsAt(u, new[k]) : start[k] = d.char /\ new[k + 1] = new[k] + d.length
    <3>1. k \in 1..n /\ k + 1 \in 1..n /\ k \in 1..(n - 1)
      BY <1>2, <1>10
    <3>2. new[k] = cut[k] /\ new[k + 1] = cut[k + 1] /\ start[k] = m[k]
      BY <1>10, <3>1
    <3>3. \E d \in CharsAt(u, cut[k]) : m[k] = d.char /\ cut[k + 1] = cut[k] + d.length
      BY <1>1, <3>1, Zenon DEF Cuts
    <3> QED BY <3>2, <3>3, Zenon
  <2> HIDE DEF new
  <2> QED BY <2>1, <2>2, Zenon DEF Cuts
<1> HIDE DEF new
<1>13. Spells(u, 1, q, start)
  BY <1>11, <1>12, Zenon DEF Spells
<1> QED BY <1>5, <1>9, <1>10, <1>13, Zenon
LEMMA SpellsStays ==
  ASSUME NEW u \in TextUnits, NEW w \in TextUnits, Len(u) <= Len(w),
         \A j \in 1..Len(u) : w[j] = u[j],
         NEW p \in 1..(Len(u) + 1), NEW m \in Strings, Spells(w, 1, p, m)
  PROVE  Spells(u, 1, p, m)
<1>1. PICK cut \in [1..(Len(m) + 1) -> 1..p] : Cuts(w, 1, p, m, cut)
  BY Zenon DEF Spells
<1>2. Len(u) \in Nat /\ Len(m) \in Nat
  BY DEF TextUnits, Strings
<1>3. ASSUME NEW k \in 1..Len(m)
      PROVE  \E c \in CharsAt(u, cut[k]) : m[k] = c.char /\ cut[k + 1] = cut[k] + c.length
  <2>1. PICK c \in CharsAt(w, cut[k]) : m[k] = c.char /\ cut[k + 1] = cut[k] + c.length
    BY <1>1, Zenon DEF Cuts
  <2>2. c.length \in 1..4
    BY <2>1, CharLength, Zenon
  <2>3. cut[k] \in 1..p /\ cut[k + 1] \in 1..p
    BY <1>1, <1>2
  <2>4. PICK i : i = cut[k]
    OBVIOUS
  <2>5. i \in 1..Len(u) /\ c \in CharsAt(w, i) /\ i + c.length <= Len(u) + 1
    BY <1>2, <2>1, <2>2, <2>3, <2>4
  <2>6. c \in CharsAt(u, i)
    BY <2>5, CharStays, Zenon
  <2> QED BY <2>1, <2>4, <2>6, Zenon
<1>4. Cuts(u, 1, p, m, cut)
  BY <1>1, <1>3, Zenon DEF Cuts
<1> QED BY <1>1, <1>4, Zenon DEF Spells

LEMMA SpellsNothing ==
  ASSUME NEW u, NEW p \in Nat \ {0}
  PROVE  <<>> \in Strings /\ Spells(u, p, p, <<>>)
<1> DEFINE cut == [k \in 1..1 |-> p]
<1>1. <<>> \in Strings /\ Len(<<>>) = 0
  BY DEF Strings
<1>2. cut \in [1..(Len(<<>>) + 1) -> p..p]
  OBVIOUS
<1>3. Cuts(u, p, p, <<>>, cut)
  BY DEF Cuts
<1> HIDE DEF cut
<1> QED BY <1>1, <1>2, <1>3, Zenon DEF Spells
-----------------------------------------------------------------------------
(* Meanings, and what is spelled.                                          *)

\* One step of the recursion in Meanings.
FromHere(u, f, i) ==
  IF i = Len(u) + 1
  THEN {<<>>}
  ELSE UNION {{<<c.char>> \o rest : rest \in f[i + c.length]} : c \in CharsAt(u, i)}

Prepends(u, f, i, r) ==
  \E c \in CharsAt(u, i) : \E rest \in f[i + c.length] : r = <<c.char>> \o rest

LEMMA InFromHere ==
  ASSUME NEW u, NEW f, NEW i, NEW r, i # Len(u) + 1
  PROVE  r \in FromHere(u, f, i) <=> Prepends(u, f, i, r)
<1>1. ASSUME r \in FromHere(u, f, i)
      PROVE  Prepends(u, f, i, r)
  BY <1>1, Zenon DEF FromHere, Prepends
<1>2. ASSUME NEW c \in CharsAt(u, i), NEW rest \in f[i + c.length], r = <<c.char>> \o rest
      PROVE  r \in FromHere(u, f, i)
  <2> DEFINE S(d) == {<<d.char>> \o r2 : r2 \in f[i + d.length]}
  <2>1. r \in S(c)
    BY <1>2
  <2>2. FromHere(u, f, i) = UNION {S(d) : d \in CharsAt(u, i)}
    BY Zenon DEF FromHere
  <2> HIDE DEF S
  <2> QED BY <2>1, <2>2, Zenon
<1> QED BY <1>1, <1>2, Zenon DEF Prepends

MeaningsFrom(u, f) ==
  /\ Meanings(u) = f[1]
  /\ f \in [1..(Len(u) + 1) -> SUBSET Strings]
  /\ \A i \in 1..(Len(u) + 1) : f[i] = FromHere(u, f, i)

LEMMA MeaningsRecursion ==
  ASSUME NEW u \in TextUnits
  PROVE  \E f : MeaningsFrom(u, f)
<1> DEFINE n == Len(u) + 1
           T == SUBSET Strings
           F == CHOOSE f : f = [i \in 1..(Len(u) + 1) |-> FromHere(u, f, i)]
<1>1. Len(u) \in Nat /\ n \in Nat /\ 1 \in Nat /\ 1 <= n + 1
  BY DEF TextUnits
<1>2. Meanings(u) = F[1]
  BY Zenon DEF Meanings, FromHere
<1>3. ASSUME NEW i \in 1..n, i # n, NEW c \in CharsAt(u, i)
      PROVE  /\ c.char \in Chars
             /\ i + c.length \in (i + 1)..n
  <2>1. i \in 1..Len(u)
    BY <1>1, <1>3
  <2>2. c.char \in Chars /\ c.length \in 1..4 /\ i + c.length <= Len(u) + 1
    BY <2>1, CharType, Zenon
  <2> QED BY <1>1, <2>1, <2>2
<1>4. ASSUME NEW i \in 1..n, NEW f, \A k \in (i + 1)..n : f[k] \in T
      PROVE  FromHere(u, f, i) \in T
  <2>1. CASE i = n
    <3>1. <<>> \in Strings
      BY DEF Strings
    <3> QED BY <2>1, <3>1 DEF FromHere
  <2>2. CASE i # n
    <3>1. ASSUME NEW c \in CharsAt(u, i), NEW rest \in f[i + c.length]
          PROVE  <<c.char>> \o rest \in Strings
      <4>1. c.char \in Chars /\ i + c.length \in (i + 1)..n
        BY <1>3, <2>2
      <4>2. rest \in Strings
        BY <1>4, <4>1
      <4> QED BY <4>1, <4>2 DEF Strings
    <3>3. \A r \in FromHere(u, f, i) : r \in Strings
      <4>1. \A r \in FromHere(u, f, i) : Prepends(u, f, i, r)
        BY <2>2, InFromHere, Zenon
      <4> QED BY <3>1, <4>1, Zenon DEF Prepends
    <3> QED BY <3>3
  <2> QED BY <2>1, <2>2
<1>5. \E f : f = [i \in 1..n |-> FromHere(u, f, i)]
  <2> DEFINE h == [i \in 1..n |-> [g \in [(i + 1)..n -> T] |-> FromHere(u, g, i)]]
  <2> HIDE DEF T
  <2>1. Steps(h, 1, n, T)
    BY <1>4 DEF Steps
  <2> HIDE DEF h
  <2>2. PICK f : Solves(f, h, 1, n, T)
    BY <1>1, <2>1, Downward
  <2>3. ASSUME NEW i \in 1..n PROVE f[i] = FromHere(u, f, i)
    <3> DEFINE g == [k \in (i + 1)..n |-> f[k]]
    <3>1. g \in [(i + 1)..n -> T]
      BY <1>1, <2>2 DEF Solves
    <3>2. f[i] = FromHere(u, g, i)
      BY <2>2, <3>1 DEF h, Solves
    <3>3. FromHere(u, g, i) = FromHere(u, f, i)
      <4>1. CASE i # n
        <5>1. \A c \in CharsAt(u, i) : g[i + c.length] = f[i + c.length]
          BY <1>3, <4>1
        <5> HIDE DEF g
        <5>3. \A r : /\ r \in FromHere(u, g, i) <=> Prepends(u, g, i, r)
                     /\ r \in FromHere(u, f, i) <=> Prepends(u, f, i, r)
          BY <4>1, InFromHere, Zenon
        <5>4. \A r : Prepends(u, g, i, r) <=> Prepends(u, f, i, r)
          BY <5>1, Zenon DEF Prepends
        <5>5. \A r : r \in FromHere(u, g, i) <=> r \in FromHere(u, f, i)
          BY <5>3, <5>4, Zenon
        <5> QED BY <5>5, Zenon
      <4>2. CASE i = n
        BY <4>2, Zenon DEF FromHere
      <4> QED BY <4>1, <4>2
    <3> QED BY <3>2, <3>3
  <2>4. f = [i \in 1..n |-> FromHere(u, f, i)]
    BY <2>2, <2>3 DEF Solves
  <2> QED BY <2>4
<1>6. F = [i \in 1..n |-> FromHere(u, F, i)]
  <2> HIDE DEF n
  <2> QED BY <1>5, Zenon DEF n
<1> HIDE DEF F
<1>7. \A i \in 1..n : F[i] = FromHere(u, F, i)
  BY <1>6
<1>8. \A i \in 1..n : F[i] \in T
  <2> DEFINE G == {i \in 1..n : F[i] \in T}
  <2> HIDE DEF T
  <2>1. ASSUME NEW i \in 1..n, \A k \in (i + 1)..n : k \in G PROVE i \in G
    <3>1. FromHere(u, F, i) \in T
      BY <1>4, <2>1
    <3> QED BY <1>7, <3>1
  <2> HIDE DEF G
  <2>2. \A i \in 1..n : i \in G
    BY <1>1, <2>1, FromRight
  <2> QED BY <2>2 DEF G
<1>9. F \in [1..n -> T]
  <2> HIDE DEF T
  <2> QED BY <1>6, <1>8
<1>10. MeaningsFrom(u, F)
  BY <1>2, <1>7, <1>9, Zenon DEF MeaningsFrom
<1> QED BY <1>10

\* A meaning is spelled by the whole text.
LEMMA MeaningSpelled ==
  ASSUME NEW u \in TextUnits, NEW m \in Meanings(u)
  PROVE  m \in Strings /\ Spells(u, 1, Len(u) + 1, m)
<1> DEFINE n == Len(u) + 1
<1>1. PICK f : MeaningsFrom(u, f)
  BY MeaningsRecursion
<1>2. n \in Nat \ {0} /\ n \in 1..n /\ Len(u) \in Nat
  BY DEF TextUnits
<1> DEFINE G == {i \in 1..n : \A r \in f[i] : r \in Strings /\ Spells(u, i, n, r)}
<1>3. ASSUME NEW i \in 1..n, \A k \in (i + 1)..n : k \in G PROVE i \in G
  <2>1. SUFFICES ASSUME NEW r \in f[i] PROVE r \in Strings /\ Spells(u, i, n, r)
    OBVIOUS
  <2>2. r \in FromHere(u, f, i)
    BY <1>1, <2>1, Zenon DEF MeaningsFrom
  <2>3. CASE i = n
    BY <1>2, <2>2, <2>3, SpellsNothing, Zenon DEF FromHere
  <2>4. CASE i # n
    <3>1. PICK c \in CharsAt(u, i) : \E rest \in f[i + c.length] : r = <<c.char>> \o rest
      <4>1. Prepends(u, f, i, r)
        BY <2>2, <2>4, InFromHere, Zenon
      <4> QED BY <4>1, Zenon DEF Prepends
    <3>2. PICK rest \in f[i + c.length] : r = <<c.char>> \o rest
      BY <3>1
    <3>3. i \in 1..Len(u)
      BY <1>2, <2>4
    <3>4. c.length \in 1..4 /\ i + c.length <= Len(u) + 1
      BY <3>3, CharType, Zenon
    <3>5. PICK q : q = i + c.length
      OBVIOUS
    <3>6. q \in (i + 1)..n
      BY <1>2, <3>3, <3>4, <3>5
    <3>7. rest \in Strings /\ Spells(u, q, n, rest)
      BY <1>3, <3>2, <3>5, <3>6
    <3> QED BY <1>2, <3>2, <3>3, <3>5, <3>7, SpellsFirst, Zenon
  <2> QED BY <2>3, <2>4
<1> HIDE DEF G
<1>4. \A i \in 1..n : i \in G
  <2> HIDE DEF n
  <2> QED BY <1>2, <1>3, FromRight
<1>5. m \in f[1] /\ 1 \in 1..n
  BY <1>1, <1>2 DEF MeaningsFrom
<1> QED BY <1>4, <1>5 DEF G
-----------------------------------------------------------------------------
(* One unit more.                                                          *)

\* The codepoint when k bytes of the character that starts at p were read.
Sum(lead, bits, second, third, k) ==
  lead + (IF k > 1 THEN second * 2 ^ (bits - 6) ELSE 0)
       + (IF k > 2 THEN third * 2 ^ (bits - 12) ELSE 0)

Seen(u, p, k) ==
  Sum(LeadValue(u[p].val), LeadBits(u[p].val), u[p + 1].val - 128, u[p + 2].val - 128, k)

\* The sums by the bits behind the leading byte, and the bytes read.
SumSays(lead, bits, second, third, k) ==
  /\ k = 1 => Sum(lead, bits, second, third, k) = lead
  /\ bits = 12 /\ k = 2 /\ second \in Int => Sum(lead, bits, second, third, k) = lead + second * 64
  /\ bits = 18 /\ k = 2 /\ second \in Int => Sum(lead, bits, second, third, k) = lead + second * 4096
  /\ bits = 18 /\ k = 3 /\ second \in Int /\ third \in Int =>
       Sum(lead, bits, second, third, k) = lead + second * 4096 + third * 64

LEMMA SumIs ==
  ASSUME NEW lead \in Int, NEW bits, NEW second, NEW third, NEW k
  PROVE  SumSays(lead, bits, second, third, k)
<1>1. CASE k = 1
  BY <1>1, SMT DEF Sum, SumSays
<1>2. CASE bits = 12 /\ k = 2 /\ second \in Int
  BY <1>2, Powers, SMT DEF Sum, SumSays
<1>3. CASE bits = 18 /\ k = 2 /\ second \in Int
  BY <1>3, Powers, SMT DEF Sum, SumSays
<1>4. CASE bits = 18 /\ k = 3 /\ second \in Int /\ third \in Int
  BY <1>4, Powers, SMT DEF Sum, SumSays
<1> QED BY <1>1, <1>2, <1>3, <1>4, SMT DEF SumSays

\* At the end of u a character that starts at p has begun and lacks bytes.
Begun(u, p) ==
  /\ ~ u[p].esc /\ u[p].val \in 192..247
  /\ 6 * (Len(u) - p) < LeadBits(u[p].val)
  /\ \A j \in (p + 1)..Len(u) : IsTail(u[j])

Longer(u, x, w) ==
  /\ u \in TextUnits /\ x \in Units /\ w \in TextUnits
  /\ Len(w) = Len(u) + 1 /\ Len(u) \in Nat
  /\ \A j \in 1..Len(u) : w[j] = u[j]
  /\ w[Len(u) + 1] = x

LEMMA AppendLonger ==
  ASSUME NEW u \in TextUnits, NEW x \in Units
  PROVE  Longer(u, x, Append(u, x))
BY DEF TextUnits, Longer

LEMMA LeadTable ==
  /\ Lead[1].first = 0 /\ Lead[1].last = 127
  /\ Lead[2].first = 192 /\ Lead[2].last = 223
  /\ Lead[3].first = 224 /\ Lead[3].last = 239
  /\ Lead[4].first = 240 /\ Lead[4].last = 247
BY SMT DEF Lead

\* The bits behind a leading byte, and its value, by the length it announces.
LeadSays(n, v) ==
  /\ v \in 192..247
  /\ LeadBits(v) = 6 * (n - 1)
  /\ n = 2 => LeadValue(v) = (v - 192) * 64
  /\ n = 3 => LeadValue(v) = (v - 224) * 4096
  /\ n = 4 => LeadValue(v) = (v - 240) * 262144

LEMMA LeadIs ==
  ASSUME NEW n \in 2..4, NEW v \in Lead[n].first..Lead[n].last
  PROVE  LeadSays(n, v)
<1> USE DEF LeadSays
<1>1. CASE n = 2
  <2>1. v \in 192..223
    BY <1>1, LeadTable
  <2> QED BY <1>1, <2>1, Powers DEF LeadBits, LeadValue
<1>2. CASE n = 3
  <2>1. v \in 224..239
    BY <1>2, LeadTable
  <2> QED BY <1>2, <2>1, Powers DEF LeadBits, LeadValue
<1>3. CASE n = 4
  <2>1. v \in 240..247
    BY <1>3, LeadTable
  <2> QED BY <1>3, <2>1, Powers DEF LeadBits, LeadValue
<1> QED BY <1>1, <1>2, <1>3

\* The last byte of a character of several bytes.
LEMMA LastByte ==
  ASSUME NEW u, NEW x, NEW w, Longer(u, x, w), NEW q \in 1..Len(u), NEW n \in 2..4,
         q + n = Len(w) + 1, NEW c, BytesAre(w, q, n, c)
  PROVE  /\ Begun(u, q) /\ IsTail(x)
         /\ LeadBits(u[q].val) - 6 * (Len(u) - q) = 6
         /\ c.char = Seen(u, q, Len(u) - q + 1) + (x.val - 128)
         /\ IsCharacter(c.char)
<1>1. /\ Len(w) = Len(u) + 1 /\ Len(u) \in Nat /\ u \in TextUnits
      /\ \A j \in 1..Len(u) : w[j] = u[j]
      /\ w[Len(u) + 1] = x
  BY DEF Longer
<1>2. w[q] = u[q] /\ Len(u) - q = n - 2
  BY <1>1
<1>3. /\ ~ u[q].esc /\ u[q].val \in Lead[n].first..Lead[n].last
      /\ \A j \in (q + 1)..(q + n - 1) : IsTail(w[j])
      /\ IsCharacter(Spelled(w, q, n))
      /\ c = [char |-> Spelled(w, q, n), length |-> n]
  BY <1>2, Zenon DEF BytesAre
<1>4. LeadSays(n, u[q].val) /\ u[q].val \in 192..247 /\ LeadBits(u[q].val) = 6 * (n - 1)
  <2>1. LeadSays(n, u[q].val)
    BY <1>3, LeadIs, Zenon
  <2> QED BY <2>1, SMT DEF LeadSays
<1>5. ASSUME NEW j \in (q + 1)..Len(u) PROVE IsTail(u[j])
  <2>1. j \in (q + 1)..(q + n - 1) /\ j \in 1..Len(u)
    BY <1>1, <1>2
  <2>2. w[j] = u[j]
    BY <1>1, <2>1
  <2> QED BY <1>3, <2>1, <2>2, Zenon
<1>6. IsTail(x)
  <2>1. Len(u) + 1 \in (q + 1)..(q + n - 1)
    BY <1>1, <1>2
  <2> QED BY <1>1, <1>3, <2>1, Zenon
<1>7. Begun(u, q)
  <2>1. 6 * (Len(u) - q) < LeadBits(u[q].val)
    BY <1>2, <1>4
  <2> QED BY <1>3, <1>4, <1>5, <2>1, Zenon DEF Begun
<1>8. LeadBits(u[q].val) - 6 * (Len(u) - q) = 6
  BY <1>2, <1>4
<1>9. \A j \in 1..Len(u) : u[j].val \in Int
  <2>1. \A v \in UnitVals : v \in Int
    BY UnitValIsInt
  <2> QED BY <1>1, <2>1, UnitType, Zenon
<1>10. x.val \in Int
  <2>1. x.val \in 128..191
    BY <1>6, Zenon DEF IsTail
  <2>2. \A v \in 128..191 : v \in Int
    BY SMT
  <2> QED BY <2>1, <2>2, Zenon
<1>11. PICK v1, v2, v3, last :
         v1 = u[q].val /\ v2 = u[q + 1].val /\ v3 = u[q + 2].val /\ last = x.val
  OBVIOUS
<1>12. PICK lead, bits : lead = LeadValue(v1) /\ bits = LeadBits(v1)
  OBVIOUS
<1>13. v1 \in Int /\ last \in Int
  BY <1>9, <1>10, <1>11
<1>14. LeadSays(n, v1)
  BY <1>4, <1>11
<1>15. /\ n = 2 => lead = (v1 - 192) * 64 /\ bits = 6
       /\ n = 3 => lead = (v1 - 224) * 4096 /\ bits = 12
       /\ n = 4 => lead = (v1 - 240) * 262144 /\ bits = 18
  BY <1>12, <1>14, SMT DEF LeadSays
<1>16. lead \in Int
  BY <1>13, <1>15, SMT
<1>17. Seen(u, q, n - 1) = Sum(lead, bits, v2 - 128, v3 - 128, n - 1)
  BY <1>11, <1>12, Zenon DEF Seen
<1>18. SumSays(lead, bits, v2 - 128, v3 - 128, n - 1)
  BY <1>16, SumIs, Zenon
<1>19. Len(u) - q + 1 = n - 1
  BY <1>1, <1>2
<1>20. Spelled(w, q, n) = Seen(u, q, n - 1) + (last - 128)
  <2>1. CASE n = 2
    <3>1. w[q + 1] = x
      BY <1>1, <1>2, <2>1
    <3>2. Spelled(w, q, n) = (v1 - 192) * 64 + (last - 128)
      BY <1>2, <1>11, <2>1, <3>1, LeadTable, SMT DEF Spelled
    <3> QED BY <1>13, <1>15, <1>17, <1>18, <2>1, <3>2, SMT DEF SumSays
  <2>2. CASE n = 3
    <3>1. w[q + 1] = u[q + 1] /\ w[q + 2] = x /\ q + 1 \in 1..Len(u)
      <4>1. q + 2 = Len(u) + 1
        BY <1>1, <1>2, <2>2
      <4>2. q + 1 \in 1..Len(u)
        BY <1>1, <4>1
      <4> QED BY <1>1, <4>1, <4>2
    <3>2. v2 \in Int
      BY <1>9, <1>11, <3>1
    <3>3. Spelled(w, q, n) = ((v1 - 224) * 64 + (v2 - 128)) * 64 + (last - 128)
      BY <1>2, <1>11, <2>2, <3>1, LeadTable, SMT DEF Spelled
    <3> QED BY <1>13, <1>15, <1>17, <1>18, <2>2, <3>2, <3>3, SMT DEF SumSays
  <2>3. CASE n = 4
    <3>1. /\ w[q + 1] = u[q + 1] /\ w[q + 2] = u[q + 2] /\ w[q + 3] = x
          /\ q + 1 \in 1..Len(u) /\ q + 2 \in 1..Len(u)
      <4>1. q + 3 = Len(u) + 1
        BY <1>1, <1>2, <2>3
      <4>2. q + 1 \in 1..Len(u) /\ q + 2 \in 1..Len(u)
        BY <1>1, <4>1
      <4> QED BY <1>1, <4>1, <4>2
    <3>2. v2 \in Int /\ v3 \in Int
      BY <1>9, <1>11, <3>1
    <3>3. Spelled(w, q, n) =
            (((v1 - 240) * 64 + (v2 - 128)) * 64 + (v3 - 128)) * 64 + (last - 128)
      BY <1>2, <1>11, <2>3, <3>1, LeadTable, SMT DEF Spelled
    <3> QED BY <1>13, <1>15, <1>17, <1>18, <2>3, <3>2, <3>3, SMT DEF SumSays
  <2> QED BY <2>1, <2>2, <2>3
<1>21. c.char = Seen(u, q, Len(u) - q + 1) + (x.val - 128)
  <2>1. c.char = Spelled(w, q, n)
    BY <1>3
  <2> QED BY <1>11, <1>19, <1>20, <2>1, Zenon
<1> QED BY <1>3, <1>6, <1>7, <1>8, <1>21
\* A high half at the end of u, after what m spells.
HalfAfter(u, m) ==
  /\ Len(u) # 0
  /\ u[Len(u)].esc /\ u[Len(u)].val \in HighHalves
  /\ Spells(u, 1, Len(u), m)

\* The ways in which the unit x completes m: it is a character, the second
\* half of one, or its last byte.
ByOne(u, x, m) ==
  \E start \in Strings :
    /\ Spells(u, 1, Len(u) + 1, start)
    /\ x.esc \/ x.val \in 0..127
    /\ IsCharacter(x.val)
    /\ m = Append(start, x.val)

ByPair(u, x, m) ==
  \E start \in Strings :
    /\ HalfAfter(u, start)
    /\ x.esc /\ x.val \in LowHalves
    /\ m = Append(start, PairChar(u[Len(u)].val, x.val))

Completed(u, q, x) == Seen(u, q, Len(u) - q + 1) + (x.val - 128)

ByBytes(u, x, m) ==
  \E start \in Strings : \E q \in 1..Len(u) :
    /\ Spells(u, 1, q, start)
    /\ Begun(u, q) /\ IsTail(x)
    /\ LeadBits(u[q].val) - 6 * (Len(u) - q) = 6
    /\ IsCharacter(Completed(u, q, x))
    /\ m = Append(start, Completed(u, q, x))

LEMMA Ways ==
  ASSUME NEW u, NEW x, NEW w, Longer(u, x, w),
         NEW m \in Strings, Spells(w, 1, Len(w) + 1, m)
  PROVE  ByOne(u, x, m) \/ ByPair(u, x, m) \/ ByBytes(u, x, m)
<1>1. /\ Len(w) = Len(u) + 1 /\ Len(u) \in Nat /\ u \in TextUnits /\ w \in TextUnits
      /\ \A j \in 1..Len(u) : w[j] = u[j]
      /\ w[Len(u) + 1] = x
  BY DEF Longer
<1>2. PICK p : p = Len(w) + 1
  OBVIOUS
<1>3. p \in 2..(Len(w) + 1)
  BY <1>1, <1>2
<1>4. PICK q \in 1..Len(w) : \E c \in CharsAt(w, q) : \E start \in Strings :
           /\ q + c.length = p
           /\ Spells(w, 1, q, start)
           /\ m = Append(start, c.char)
  BY <1>1, <1>2, <1>3, SpellsLast, Zenon
<1>5. PICK c \in CharsAt(w, q) : \E start \in Strings :
           /\ q + c.length = p
           /\ Spells(w, 1, q, start)
           /\ m = Append(start, c.char)
  BY <1>4, Zenon
<1>6. PICK start \in Strings :
           /\ q + c.length = p
           /\ Spells(w, 1, q, start)
           /\ m = Append(start, c.char)
  BY <1>5, Zenon
<1>7. Spells(u, 1, q, start)
  <2>1. q \in 1..(Len(u) + 1) /\ Len(u) <= Len(w)
    BY <1>1
  <2> QED BY <1>1, <1>6, <2>1, SpellsStays, Zenon
<1>8. ASSUME NEW n \in 1..4, BytesAre(w, q, n, c)
      PROVE  ByOne(u, x, m) \/ ByBytes(u, x, m)
  <2>1. /\ ~ w[q].esc /\ w[q].val \in Lead[n].first..Lead[n].last
        /\ c = [char |-> Spelled(w, q, n), length |-> n]
        /\ IsCharacter(Spelled(w, q, n))
    BY <1>8, Zenon DEF BytesAre
  <2>2. c.length = n /\ c.char = Spelled(w, q, n)
    BY <2>1, Zenon
  <2>3. CASE n = 1
    <3>1. q = Len(u) + 1 /\ w[q] = x
      BY <1>1, <1>2, <1>6, <2>2, <2>3
    <3>2. x.val \in 0..127
      BY <2>1, <2>3, <3>1, LeadTable
    <3>3. Spelled(w, q, n) = x.val
      <4>1. Spelled(w, q, n) = w[q].val - Lead[n].first
        BY <2>3, Zenon DEF Spelled
      <4>2. Spelled(w, q, n) = x.val - 0
        BY <2>3, <3>1, <4>1, LeadTable, Zenon
      <4>3. PICK v : v = x.val
        OBVIOUS
      <4>4. v \in 0..127
        BY <3>2, <4>3, Zenon
      <4>5. v - 0 = v
        BY <4>4
      <4> QED BY <4>2, <4>3, <4>5, Zenon
    <3> QED BY <1>6, <1>7, <2>1, <2>2, <3>1, <3>2, <3>3, Zenon DEF ByOne
  <2>4. CASE n # 1
    <3>1. n \in 2..4 /\ q \in 1..Len(u) /\ q + n = Len(w) + 1
      BY <1>1, <1>2, <1>6, <2>2, <2>4
    <3>2. /\ Begun(u, q) /\ IsTail(x)
          /\ LeadBits(u[q].val) - 6 * (Len(u) - q) = 6
          /\ c.char = Seen(u, q, Len(u) - q + 1) + (x.val - 128)
          /\ IsCharacter(c.char)
      BY <1>8, <3>1, LastByte, Zenon
    <3>3. c.char = Completed(u, q, x)
      BY <3>2, Zenon DEF Completed
    <3> QED BY <1>6, <1>7, <3>1, <3>2, <3>3, Zenon DEF ByBytes
  <2> QED BY <2>3, <2>4, Zenon
<1>9. ASSUME EscapeIs(w, q, c) PROVE ByOne(u, x, m)
  <2>1. c.length = 1 /\ c.char = w[q].val /\ w[q].esc /\ IsCharacter(w[q].val)
    BY <1>9, Zenon DEF EscapeIs
  <2>2. q = Len(u) + 1 /\ w[q] = x
    BY <1>1, <1>2, <1>6, <2>1
  <2> QED BY <1>6, <1>7, <2>1, <2>2, Zenon DEF ByOne
<1>10. ASSUME PairIs(w, q, c) PROVE ByPair(u, x, m)
  <2>1. /\ c.length = 2 /\ c.char = PairChar(w[q].val, w[q + 1].val)
        /\ w[q].esc /\ w[q].val \in HighHalves
        /\ w[q + 1].esc /\ w[q + 1].val \in LowHalves
    BY <1>10, Zenon DEF PairIs, IsPair
  <2>2. q = Len(u) /\ w[q + 1] = x /\ w[q] = u[q] /\ Len(u) # 0
    BY <1>1, <1>2, <1>6, <2>1
  <2> QED BY <1>6, <1>7, <2>1, <2>2, Zenon DEF ByPair, HalfAfter
<1> QED BY <1>8, <1>9, <1>10, CharIs, Zenon
\* One byte of a character more, that is not its last.
ReadsOn(u, x, w, p) ==
  /\ Begun(u, p) /\ IsTail(x)
  /\ LeadBits(w[p].val) = LeadBits(u[p].val)
  /\ LeadBits(u[p].val) - 6 * (Len(w) - p) \in {6, 12}
  /\ Seen(w, p, Len(w) - p + 1) =
       Seen(u, p, Len(u) - p + 1)
         + (x.val - 128) * 2 ^ (LeadBits(u[p].val) - 6 * (Len(w) - p))

LEMMA SeenMore ==
  ASSUME NEW u, NEW x, NEW w, Longer(u, x, w), NEW p \in 1..Len(u), Begun(w, p)
  PROVE  ReadsOn(u, x, w, p)
<1>1. /\ Len(w) = Len(u) + 1 /\ Len(u) \in Nat /\ u \in TextUnits
      /\ \A j \in 1..Len(u) : w[j] = u[j]
      /\ w[Len(u) + 1] = x
  BY DEF Longer
<1>2. w[p] = u[p]
  BY <1>1
<1>3. /\ ~ u[p].esc /\ u[p].val \in 192..247
      /\ 6 * (Len(w) - p) < LeadBits(u[p].val)
      /\ \A j \in (p + 1)..Len(w) : IsTail(w[j])
  BY <1>2, Zenon DEF Begun
<1>4. PICK v, bits, lead : v = u[p].val /\ bits = LeadBits(v) /\ lead = LeadValue(v)
  OBVIOUS
<1>5. v \in 192..247 /\ bits \in {6, 12, 18} /\ lead \in Int
  <2>1. v \in 192..247
    BY <1>3, <1>4, Zenon
  <2>2. bits \in {6, 12, 18} /\ lead \in CodePoints
    BY <1>4, <2>1, LeadRange, Zenon
  <2> QED BY <2>1, <2>2, Powers DEF CodePoints
<1>6. 6 * (Len(w) - p) < bits
  BY <1>3, <1>4, Zenon
<1>7. PICK k : k = Len(u) - p + 1
  OBVIOUS
<1>8. k \in {1, 2} /\ Len(w) - p = k /\ 6 * k < bits /\ p + k = Len(w)
  BY <1>1, <1>5, <1>6, <1>7
<1>9. ASSUME NEW j \in (p + 1)..Len(u) PROVE IsTail(u[j])
  <2>1. j \in (p + 1)..Len(w) /\ j \in 1..Len(u)
    BY <1>1
  <2>2. w[j] = u[j]
    BY <1>1, <2>1
  <2> QED BY <1>3, <2>1, <2>2, Zenon
<1>10. IsTail(x)
  <2>1. Len(u) + 1 \in (p + 1)..Len(w)
    BY <1>1
  <2> QED BY <1>1, <1>3, <2>1, Zenon
<1>11. Begun(u, p)
  <2>1. 6 * (Len(u) - p) < bits
    BY <1>1, <1>5, <1>6
  <2>2. 6 * (Len(u) - p) < LeadBits(u[p].val)
    BY <1>4, <2>1, Zenon
  <2> QED BY <1>3, <1>9, <2>2, Zenon DEF Begun
<1>12. PICK last : last = x.val
  OBVIOUS
<1>13. last \in Int
  <2>1. last \in 128..191
    BY <1>10, <1>12, Zenon DEF IsTail
  <2> QED BY <2>1
<1>14. bits - 6 * (Len(w) - p) \in {6, 12}
  BY <1>1, <1>5, <1>8
<1>15. Seen(w, p, k + 1) = Seen(u, p, k) + (last - 128) * 2 ^ (bits - 6 * k)
  <2> DEFINE a2 == w[p + 1].val - 128
             a3 == w[p + 2].val - 128
             b2 == u[p + 1].val - 128
             b3 == u[p + 2].val - 128
  <2>1. /\ Seen(w, p, k + 1) = Sum(lead, bits, a2, a3, k + 1)
        /\ Seen(u, p, k) = Sum(lead, bits, b2, b3, k)
    BY <1>2, <1>4, Zenon DEF Seen
  <2>2. CASE k = 1
    <3>1. w[p + 1] = x
      BY <1>1, <1>8, <2>2
    <3>2. a2 = last - 128 /\ a2 \in Int
      BY <1>12, <1>13, <3>1
    <3> HIDE DEF a2, a3, b2, b3
    <3>3. SumSays(lead, bits, a2, a3, 2) /\ SumSays(lead, bits, b2, b3, 1)
      BY <1>5, SumIs, Zenon
    <3>4. Sum(lead, bits, b2, b3, 1) = lead
      BY <3>3, SMT DEF SumSays
    <3>5. CASE bits = 12
      <4>1. Sum(lead, bits, a2, a3, 2) = lead + a2 * 64
        BY <3>2, <3>3, <3>5, SMT DEF SumSays
      <4>2. 2 ^ (bits - 6 * k) = 64
        BY <2>2, <3>5, Powers, SMT
      <4>3. k + 1 = 2
        BY <2>2
      <4> QED BY <2>1, <2>2, <3>2, <3>4, <4>1, <4>2, <4>3, Zenon
    <3>6. CASE bits = 18
      <4>1. PICK t : t = 2 ^ (bits - 6 * k)
        OBVIOUS
      <4>2. t = 4096
        BY <2>2, <3>6, <4>1, Powers, SMT
      <4>3. Sum(lead, bits, a2, a3, 2) = lead + a2 * t
        BY <3>2, <3>3, <3>6, <4>2, SMT DEF SumSays
      <4>4. k + 1 = 2
        BY <2>2
      <4> QED BY <2>1, <2>2, <3>2, <3>4, <4>1, <4>3, <4>4, Zenon
    <3> QED BY <1>5, <1>8, <2>2, <3>5, <3>6
  <2>3. CASE k = 2
    <3>1. w[p + 2] = x /\ w[p + 1] = u[p + 1] /\ p + 1 \in 1..Len(u)
      BY <1>1, <1>8, <2>3
    <3>2. a3 = last - 128 /\ a3 \in Int /\ a2 = b2
      BY <1>12, <1>13, <3>1
    <3>3. b2 \in Int
      <4>1. u[p + 1].val \in UnitVals
        BY <1>1, <3>1, UnitType, Zenon
      <4>2. PICK v2 : v2 = u[p + 1].val
        OBVIOUS
      <4>3. v2 \in UnitVals
        BY <4>1, <4>2, Zenon
      <4>4. v2 - 128 \in Int
        BY <4>3, UnitValIsInt
      <4> QED BY <4>2, <4>4, Zenon
    <3> HIDE DEF a2, a3, b2, b3
    <3>4. SumSays(lead, bits, b2, a3, 3) /\ SumSays(lead, bits, b2, b3, 2)
      BY <1>5, SumIs, Zenon
    <3>5. bits = 18
      BY <1>5, <1>8, <2>3
    <3>6. PICK t : t = 2 ^ (bits - 6 * k)
      OBVIOUS
    <3>7. t = 64
      BY <2>3, <3>5, <3>6, Powers, SMT
    <3>8. Sum(lead, bits, b2, a3, 3) = Sum(lead, bits, b2, b3, 2) + a3 * t
      BY <1>5, <3>2, <3>3, <3>4, <3>5, <3>7, SMT DEF SumSays
    <3>9. k + 1 = 3
      BY <2>3
    <3> QED BY <2>1, <2>3, <3>2, <3>6, <3>8, <3>9, Zenon
  <2> QED BY <1>8, <2>2, <2>3
<1>16. k + 1 = Len(w) - p + 1
  BY <1>1, <1>8
<1>17. Seen(w, p, Len(w) - p + 1) =
         Seen(u, p, Len(u) - p + 1) + (x.val - 128) * 2 ^ (LeadBits(u[p].val) - 6 * (Len(w) - p))
  BY <1>4, <1>7, <1>8, <1>12, <1>15, <1>16, Zenon
<1>18. LeadBits(u[p].val) - 6 * (Len(w) - p) \in {6, 12}
  BY <1>4, <1>14, Zenon
<1> QED BY <1>2, <1>10, <1>11, <1>17, <1>18, Zenon DEF ReadsOn
-----------------------------------------------------------------------------
(* What the filter does with the unit. *)

\* s is m, if all the characters of m are below U+20000.
Wide == 131072
Small(m) == \A i \in DOMAIN m : m[i] < Wide
Says(s, m) == Small(m) => s = m

LEMMA SaysMore ==
  ASSUME NEW s, NEW t, NEW m \in Strings, NEW c \in Chars,
         Says(s, m), c < Wide => t = Append(s, c)
  PROVE  Says(t, Append(m, c))
<1>1. SUFFICES ASSUME Small(Append(m, c)) PROVE t = Append(m, c)
  BY Zenon DEF Says
<1>2. Len(m) \in Nat /\ m \in Seq(Chars)
  BY DEF Strings
<1>3. PICK e : e = Append(m, c)
  OBVIOUS
<1>4. /\ DOMAIN m = 1..Len(m) /\ DOMAIN e = 1..(Len(m) + 1)
      /\ e[Len(m) + 1] = c
      /\ \A i \in 1..Len(m) : e[i] = m[i]
  BY <1>2, <1>3
<1>5. \A i \in DOMAIN e : e[i] < Wide
  BY <1>1, <1>3, Zenon DEF Small
<1>6. c < Wide
  <2>1. Len(m) + 1 \in DOMAIN e
    BY <1>2, <1>4
  <2> QED BY <1>4, <1>5, <2>1, SMT
<1>7. Small(m)
  <2>1. ASSUME NEW i \in DOMAIN m PROVE m[i] < Wide
    <3>1. i \in DOMAIN e /\ e[i] = m[i]
      BY <1>2, <1>4
    <3> QED BY <1>5, <3>1, SMT
  <2> QED BY <2>1, SMT DEF Small
<1>8. s = m
  BY <1>7, Zenon DEF Says
<1>9. t = Append(s, c)
  BY <1>6, SMT
<1> QED BY <1>8, <1>9, Zenon

\* Below U+20000 the sum and the bitwise or agree.
LEMMA JoinedIs ==
  ASSUME NEW high \in HighHalves, NEW low \in LowHalves
  PROVE  /\ PairChar(high, low) \in Chars
         /\ PairChar(high, low) < Wide => Joined(high, low) = PairChar(high, low)
<1> DEFINE n == (high - 55296) * 1024 + (low - 56320)
<1>1. n \in Nat /\ n < 1048576
  BY SMT DEF HighHalves, LowHalves
<1>2. PairChar(high, low) = 65536 + n /\ Joined(high, low) = OrPlane1(n)
  BY SMT DEF PairChar, Joined, HighHalves, LowHalves
<1> HIDE DEF n
<1>3. 65536 + n < Wide => OrPlane1(n) = 65536 + n
  BY <1>1, SMT DEF OrPlane1, Wide
<1>4. PairChar(high, low) \in Chars
  <2>1. 65536 + n <= MaxCharacter /\ MaxCharacter \in Nat
    BY <1>1, SMT DEF MaxCharacter
  <2> QED BY <1>1, <1>2, <2>1, SMT DEF Chars
<1> QED BY <1>2, <1>3, <1>4, SMT

LEMMA Guards ==
  ASSUME NEW x, Taken(x), ~ x.esc
  PROVE  /\ PushAscii(x.val) => x.val < 128 /\ state = 0
         /\ PushLead(x.val) => x.val \in 192..247 /\ state = 0
         /\ PushStray(x.val) => (x.val \in 128..191 \/ x.val >= 248) /\ state = 0
         /\ PushContinuation(x.val) => state # 0
         /\ PushAscii(x.val) \/ PushLead(x.val) \/ PushStray(x.val) \/ PushContinuation(x.val)
BY Zenon DEF Taken, PushAscii, PushLead, PushStray, PushContinuation

LEMMA WhichByte ==
  ASSUME NEW x, Taken(x), ~ x.esc, x.val \in Int
  PROVE  /\ state = 0 /\ x.val < 128 => PushAscii(x.val)
         /\ state = 0 /\ x.val \in 192..247 => PushLead(x.val)
         /\ state # 0 => PushContinuation(x.val)
<1>1. CASE PushAscii(x.val)
  BY <1>1, Guards
<1>2. CASE PushLead(x.val)
  BY <1>2, Guards
<1>3. CASE PushStray(x.val)
  BY <1>3, Guards
<1>4. CASE PushContinuation(x.val)
  BY <1>4, Guards
<1> QED BY <1>1, <1>2, <1>3, <1>4, Guards, Zenon

LEMMA EscapeDoes ==
  ASSUME NEW x, Taken(x), x.esc
  PROVE  WriteCodepoint(x.val, state = 0) /\ state' = state
BY Zenon DEF Taken, PushEscape

\* At rest, or after a high half.
Rests(m) == is_valid /\ state = 0 /\ surpair = 0 /\ Says(str, m)
Waits(m, high) == is_valid /\ state = 0 /\ surpair = high /\ Says(str, m)

LEMMA OneMore ==
  ASSUME NEW x, Taken(x), NEW start \in Strings, Rests(start),
         x.esc \/ x.val \in 0..127, IsCharacter(x.val), NEW m, m = Append(start, x.val)
  PROVE  is_valid' /\ state' = 0 /\ surpair' = 0 /\ Says(str', m)
<1>1. x.val \in Chars /\ x.val \notin Surrogates
  BY CharacterIsChar
<1>2. is_valid /\ state = 0 /\ surpair = 0 /\ Says(str, start)
  BY Zenon DEF Rests
<1>3. is_valid' /\ state' = 0 /\ surpair' = 0 /\ str' = Append(str, x.val)
  <2>1. CASE x.esc
    <3>1. WriteCodepoint(x.val, state = 0) /\ state' = state
      BY <2>1, EscapeDoes, Zenon
    <3>2. /\ str' = IF surpair = 0 THEN Append(str, x.val) ELSE str
          /\ is_valid' = (is_valid /\ state = 0 /\ surpair = 0)
          /\ surpair' = surpair
      BY <1>1, <3>1, Zenon DEF WriteCodepoint, Surrogates
    <3> QED BY <1>2, <3>1, <3>2, Zenon
  <2>2. CASE ~ x.esc
    <3>1. x.val \in 0..127
      BY <2>2, Zenon
    <3>2. x.val \in Int /\ x.val < 128
      <4>1. \A v \in 0..127 : v \in Int /\ v < 128
        OBVIOUS
      <4> QED BY <3>1, <4>1, Zenon
    <3>3. PushAscii(x.val)
      BY <1>2, <2>2, <3>2, WhichByte, Zenon
    <3>4. /\ str' = Append(str, x.val) /\ is_valid' = is_valid
          /\ state' = state /\ surpair' = surpair
      BY <3>3, Zenon DEF PushAscii
    <3> QED BY <1>2, <3>4, Zenon
  <2> QED BY <2>1, <2>2, Zenon
<1>4. Says(str', Append(start, x.val))
  BY <1>1, <1>2, <1>3, SaysMore, Zenon
<1> QED BY <1>3, <1>4, Zenon

LEMMA PairMore ==
  ASSUME NEW x, Taken(x), NEW start \in Strings, NEW high \in HighHalves, Waits(start, high),
         x.esc, x.val \in LowHalves, NEW m, m = Append(start, PairChar(high, x.val))
  PROVE  is_valid' /\ state' = 0 /\ surpair' = 0 /\ Says(str', m)
<1>1. is_valid /\ state = 0 /\ surpair = high /\ Says(str, start)
  BY Zenon DEF Waits
<1>2. high # 0
  BY SMT DEF HighHalves
<1>3. x.val \notin HighHalves /\ x.val \in Surrogates
  BY HalvesApart, Zenon
<1>4. WriteCodepoint(x.val, state = 0) /\ state' = state
  BY EscapeDoes, Zenon
<1>5. /\ str' = IF surpair # 0 THEN Append(str, Joined(surpair, x.val)) ELSE str
      /\ surpair' = 0
      /\ is_valid' = (is_valid /\ state = 0 /\ surpair # 0)
  BY <1>3, <1>4, Zenon DEF WriteCodepoint
<1>6. str' = Append(str, Joined(high, x.val)) /\ surpair' = 0 /\ is_valid' /\ state' = 0
  BY <1>1, <1>2, <1>4, <1>5, Zenon
<1>7. PICK c : c = PairChar(high, x.val)
  OBVIOUS
<1>8. c \in Chars /\ (c < Wide => Joined(high, x.val) = c)
  BY <1>7, JoinedIs, SMT
<1>9. c < Wide => str' = Append(str, c)
  BY <1>6, <1>8, SMT
<1>10. Says(str', Append(start, c))
  BY <1>1, <1>8, <1>9, SaysMore, SMT
<1> QED BY <1>6, <1>7, <1>10, Zenon

LEMMA HalfMore ==
  ASSUME NEW x, Taken(x), NEW m \in Strings, Rests(m), x.esc, x.val \in HighHalves
  PROVE  is_valid' /\ state' = 0 /\ surpair' = x.val /\ Says(str', m)
<1>1. is_valid /\ state = 0 /\ surpair = 0 /\ Says(str, m)
  BY Zenon DEF Rests
<1>2. x.val \notin LowHalves /\ x.val \in Surrogates
  BY HalvesApart, Zenon
<1>3. WriteCodepoint(x.val, state = 0) /\ state' = state
  BY EscapeDoes, Zenon
<1>4. /\ surpair' = IF surpair # 0 THEN surpair ELSE x.val
      /\ is_valid' = (is_valid /\ state = 0 /\ surpair = 0)
      /\ str' = str
  BY <1>2, <1>3, Zenon DEF WriteCodepoint
<1> QED BY <1>1, <1>3, <1>4, Zenon
LEMMA TailVal ==
  ASSUME NEW x, IsTail(x)
  PROVE  /\ ~ x.esc /\ x.val \in Int
         /\ x.val \in 128..191
         /\ x.val % 64 = x.val - 128
<1>1. x.val \in 128..191 /\ ~ x.esc
  BY Zenon DEF IsTail
<1>2. \A v \in 128..191 : v \in Int /\ v % 64 = v - 128
  OBVIOUS
<1> QED BY <1>1, <1>2, Zenon

\* A byte of a character that is not its last.
LEMMA TailMore ==
  ASSUME NEW x, Taken(x), IsTail(x), state \in {12, 18}
  PROVE  /\ is_valid => is_valid'
         /\ surpair' = surpair /\ str' = str
         /\ state' = state - 6
         /\ codepoint' = codepoint + (x.val - 128) * 2 ^ (state - 6)
<1>1. ~ x.esc /\ x.val \in Int /\ x.val \in 128..191 /\ x.val % 64 = x.val - 128
  BY TailVal, Zenon
<1>2. state # 0 /\ state - 6 # 0
  OBVIOUS
<1>3. PushContinuation(x.val)
  BY <1>1, <1>2, WhichByte, Zenon
<1>4. /\ state' = state - 6
      /\ codepoint' = codepoint + (x.val % 64) * 2 ^ (state - 6)
      /\ state' # 0 =>
           is_valid' = (is_valid /\ x.val \in 128..191) /\ str' = str /\ surpair' = surpair
  BY <1>3, Zenon DEF PushContinuation
<1>5. is_valid' = (is_valid /\ x.val \in 128..191) /\ str' = str /\ surpair' = surpair
  BY <1>2, <1>4, Zenon
<1>6. is_valid => is_valid'
  BY <1>1, <1>5, Zenon
<1> QED BY <1>1, <1>4, <1>5, <1>6, Zenon

\* The last byte of a character.
LEMMA ByteMore ==
  ASSUME NEW x, Taken(x), IsTail(x), is_valid, state = 6, surpair = 0, codepoint \in Int,
         NEW start \in Strings, Says(str, start), NEW c, c = codepoint + (x.val - 128),
         IsCharacter(c), NEW m, m = Append(start, c)
  PROVE  is_valid' /\ state' = 0 /\ surpair' = 0 /\ Says(str', m)
<1>1. ~ x.esc /\ x.val \in Int /\ x.val \in 128..191 /\ x.val % 64 = x.val - 128
  BY TailVal, Zenon
<1>2. state # 0 /\ state - 6 = 0
  OBVIOUS
<1>3. PushContinuation(x.val)
  BY <1>1, <1>2, WhichByte, Zenon
<1>4. /\ state' = state - 6
      /\ codepoint' = codepoint + (x.val % 64) * 2 ^ (state - 6)
      /\ state' = 0 => WriteCodepoint(codepoint', x.val \in 128..191)
  BY <1>3, Zenon DEF PushContinuation
<1>5. codepoint' = c
  <2>1. PICK v : v = x.val - 128
    OBVIOUS
  <2>2. v \in Int
    BY <1>1, <2>1
  <2>3. v * 2 ^ (state - 6) = v
    BY <1>2, <2>2, Powers, SMT
  <2> QED BY <1>1, <1>4, <2>1, <2>3, Zenon
<1>6. c \in Chars /\ c \notin Surrogates
  BY CharacterIsChar
<1>7. WriteCodepoint(c, x.val \in 128..191)
  BY <1>2, <1>4, <1>5, Zenon
<1>8. /\ str' = IF surpair = 0 THEN Append(str, c) ELSE str
      /\ is_valid' = (is_valid /\ x.val \in 128..191 /\ surpair = 0)
      /\ surpair' = surpair
  BY <1>6, <1>7, Zenon DEF WriteCodepoint, Surrogates
<1>9. is_valid' /\ state' = 0 /\ surpair' = 0 /\ str' = Append(str, c)
  BY <1>1, <1>2, <1>4, <1>8, Zenon
<1>10. Says(str', Append(start, c))
  BY <1>6, <1>9, SaysMore, Zenon
<1> QED BY <1>9, <1>10, Zenon

\* The first byte of a character of several.
LEMMA LeadMore ==
  ASSUME NEW x, Taken(x), ~ x.esc, x.val \in 192..247, state = 0
  PROVE  /\ is_valid' = is_valid /\ surpair' = surpair /\ str' = str
         /\ state' = LeadBits(x.val) /\ codepoint' = LeadValue(x.val)
<1>1. x.val \in Int
  <2>1. \A v \in 192..247 : v \in Int
    OBVIOUS
  <2> QED BY <2>1, Zenon
<1>2. PushLead(x.val)
  BY <1>1, WhichByte, Zenon
<1> QED BY <1>2, Zenon DEF PushLead
-----------------------------------------------------------------------------
(* The filter knows what was spelled.                                      *)

Reads(u, p, m) ==
  /\ is_valid /\ surpair = 0 /\ Says(str, m)
  /\ state = LeadBits(u[p].val) - 6 * (Len(u) - p)
  /\ codepoint = Seen(u, p, Len(u) - p + 1)

\* Its state where a text that means m may end, after a high half that comes
\* after such a text, and within a character that does.
AtRest == \A m \in Strings : Spells(units, 1, Len(units) + 1, m) => Rests(m)

InPair == \A m \in Strings : HalfAfter(units, m) => Waits(m, units[Len(units)].val)

InCharacter ==
  \A p \in 1..Len(units) : \A m \in Strings :
    Begun(units, p) /\ Spells(units, 1, p, m) => Reads(units, p, m)

Tracks == status = "open" => AtRest /\ InPair /\ InCharacter

LEMMA ToRest ==
  ASSUME codepoint \in Int, AtRest, InPair, InCharacter,
         NEW x, Taken(x), Longer(units, x, units')
  PROVE  AtRest'
<1>1. SUFFICES ASSUME NEW m \in Strings, Spells(units', 1, Len(units') + 1, m)
               PROVE  is_valid' /\ state' = 0 /\ surpair' = 0 /\ Says(str', m)
  BY Zenon DEF AtRest, Rests
<1>2. ByOne(units, x, m) \/ ByPair(units, x, m) \/ ByBytes(units, x, m)
  BY <1>1, Ways, Zenon
<1>3. CASE ByOne(units, x, m)
  <2>1. PICK start \in Strings :
           /\ Spells(units, 1, Len(units) + 1, start)
           /\ x.esc \/ x.val \in 0..127
           /\ IsCharacter(x.val)
           /\ m = Append(start, x.val)
    BY <1>3, Zenon DEF ByOne
  <2>2. Rests(start)
    BY <2>1, Zenon DEF AtRest
  <2> QED BY <2>1, <2>2, OneMore, Zenon
<1>4. CASE ByPair(units, x, m)
  <2>1. PICK start \in Strings :
           /\ HalfAfter(units, start)
           /\ x.esc /\ x.val \in LowHalves
           /\ m = Append(start, PairChar(units[Len(units)].val, x.val))
    BY <1>4, Zenon DEF ByPair
  <2>2. Waits(start, units[Len(units)].val) /\ units[Len(units)].val \in HighHalves
    BY <2>1, Zenon DEF InPair, HalfAfter
  <2> QED BY <2>1, <2>2, PairMore, Zenon
<1>5. CASE ByBytes(units, x, m)
  <2>1. PICK start \in Strings : \E q \in 1..Len(units) :
           /\ Spells(units, 1, q, start)
           /\ Begun(units, q) /\ IsTail(x)
           /\ LeadBits(units[q].val) - 6 * (Len(units) - q) = 6
           /\ IsCharacter(Completed(units, q, x))
           /\ m = Append(start, Completed(units, q, x))
    BY <1>5, Zenon DEF ByBytes
  <2>2. PICK q \in 1..Len(units) :
           /\ Spells(units, 1, q, start)
           /\ Begun(units, q) /\ IsTail(x)
           /\ LeadBits(units[q].val) - 6 * (Len(units) - q) = 6
           /\ IsCharacter(Completed(units, q, x))
           /\ m = Append(start, Completed(units, q, x))
    BY <2>1, Zenon
  <2>3. Reads(units, q, start)
    BY <2>2, Zenon DEF InCharacter
  <2>4. is_valid /\ surpair = 0 /\ Says(str, start) /\ state = 6
        /\ Completed(units, q, x) = codepoint + (x.val - 128)
    BY <2>2, <2>3, Zenon DEF Reads, Completed
  <2>5. PICK c : c = Completed(units, q, x)
    OBVIOUS
  <2>6. c = codepoint + (x.val - 128) /\ IsCharacter(c) /\ m = Append(start, c)
    BY <2>2, <2>4, <2>5, Zenon
  <2> QED BY <2>2, <2>4, <2>6, ByteMore, Zenon
<1> QED BY <1>2, <1>3, <1>4, <1>5, Zenon

LEMMA ToPair ==
  ASSUME AtRest, NEW x, Taken(x), Longer(units, x, units')
  PROVE  InPair'
<1>1. SUFFICES ASSUME NEW m \in Strings, HalfAfter(units', m)
               PROVE  /\ is_valid' /\ state' = 0 /\ Says(str', m)
                      /\ surpair' = units'[Len(units')].val
  BY Zenon DEF InPair, Waits
<1>2. /\ Len(units') = Len(units) + 1 /\ Len(units) \in Nat
      /\ units \in TextUnits /\ units' \in TextUnits
      /\ \A j \in 1..Len(units) : units'[j] = units[j]
      /\ units'[Len(units')] = x
  BY Zenon DEF Longer
<1>3. x.esc /\ x.val \in HighHalves /\ Spells(units', 1, Len(units'), m)
  BY <1>1, <1>2, Zenon DEF HalfAfter
<1>4. Spells(units, 1, Len(units) + 1, m)
  <2>1. PICK p : p = Len(units')
    OBVIOUS
  <2>2. p \in 1..(Len(units) + 1) /\ Len(units) <= Len(units') /\ p = Len(units) + 1
    BY <1>2, <2>1
  <2> QED BY <1>2, <1>3, <2>1, <2>2, SpellsStays, Zenon
<1>5. Rests(m)
  BY <1>4, Zenon DEF AtRest
<1> QED BY <1>2, <1>3, <1>5, HalfMore, Zenon

LEMMA ToCharacter ==
  ASSUME AtRest, InCharacter, NEW x, Taken(x), Longer(units, x, units')
  PROVE  InCharacter'
<1>1. SUFFICES ASSUME NEW p \in 1..Len(units'), NEW m \in Strings,
                      Begun(units', p), Spells(units', 1, p, m)
               PROVE  /\ is_valid' /\ surpair' = 0 /\ Says(str', m)
                      /\ state' = LeadBits(units'[p].val) - 6 * (Len(units') - p)
                      /\ codepoint' = Seen(units', p, Len(units') - p + 1)
  BY Zenon DEF InCharacter, Reads
<1>2. /\ Len(units') = Len(units) + 1 /\ Len(units) \in Nat
      /\ units \in TextUnits /\ units' \in TextUnits
      /\ \A j \in 1..Len(units) : units'[j] = units[j]
      /\ units'[Len(units')] = x
  BY Zenon DEF Longer
<1>3. Spells(units, 1, p, m)
  <2>1. p \in 1..(Len(units) + 1) /\ Len(units) <= Len(units')
    BY <1>2
  <2> QED BY <1>1, <1>2, <2>1, SpellsStays, Zenon
<1>4. CASE p = Len(units')
  <2>1. Spells(units, 1, Len(units) + 1, m)
    BY <1>2, <1>3, <1>4, Zenon
  <2>2. Rests(m)
    BY <2>1, Zenon DEF AtRest
  <2>3. is_valid /\ state = 0 /\ surpair = 0 /\ Says(str, m)
    BY <2>2, Zenon DEF Rests
  <2>4. units'[p] = x /\ ~ x.esc /\ x.val \in 192..247
    BY <1>1, <1>2, <1>4, Zenon DEF Begun
  <2>5. /\ is_valid' = is_valid /\ surpair' = surpair /\ str' = str
        /\ state' = LeadBits(x.val) /\ codepoint' = LeadValue(x.val)
    BY <2>3, <2>4, LeadMore, Zenon
  <2>6. PICK bits : bits = LeadBits(x.val)
    OBVIOUS
  <2>7. bits \in {6, 12, 18} /\ LeadValue(x.val) \in CodePoints
    BY <2>4, <2>6, LeadRange, Zenon
  <2>8. bits - 6 * (Len(units') - p) = bits
    BY <1>2, <1>4, <2>7
  <2>9. Seen(units', p, Len(units') - p + 1) = LeadValue(x.val)
    <3>1. PICK lead, second, third : /\ lead = LeadValue(x.val)
                                     /\ second = units'[p + 1].val - 128
                                     /\ third = units'[p + 2].val - 128
      OBVIOUS
    <3>2. lead \in Int
      BY <2>7, <3>1, Powers, SMT DEF CodePoints
    <3>3. Len(units') - p + 1 = 1
      BY <1>2, <1>4
    <3>4. Seen(units', p, 1) = Sum(lead, bits, second, third, 1)
      BY <2>4, <2>6, <3>1, Zenon DEF Seen
    <3>5. SumSays(lead, bits, second, third, 1)
      BY <3>2, SumIs, Zenon
    <3>6. Sum(lead, bits, second, third, 1) = lead
      BY <3>5, SMT DEF SumSays
    <3> QED BY <3>1, <3>3, <3>4, <3>6, Zenon
  <2> QED BY <2>3, <2>4, <2>5, <2>6, <2>8, <2>9, Zenon
<1>5. CASE p # Len(units')
  <2>1. p \in 1..Len(units)
    BY <1>2, <1>5
  <2>2. /\ Begun(units, p) /\ IsTail(x)
        /\ LeadBits(units'[p].val) = LeadBits(units[p].val)
        /\ LeadBits(units[p].val) - 6 * (Len(units') - p) \in {6, 12}
        /\ Seen(units', p, Len(units') - p + 1) =
              Seen(units, p, Len(units) - p + 1)
                + (x.val - 128) * 2 ^ (LeadBits(units[p].val) - 6 * (Len(units') - p))
    <3>1. ReadsOn(units, x, units', p)
      BY <1>1, <2>1, SeenMore, Zenon
    <3> QED BY <3>1, Zenon DEF ReadsOn
  <2>3. Reads(units, p, m)
    BY <1>3, <2>1, <2>2, Zenon DEF InCharacter
  <2>4. /\ is_valid /\ surpair = 0 /\ Says(str, m)
        /\ state = LeadBits(units[p].val) - 6 * (Len(units) - p)
        /\ codepoint = Seen(units, p, Len(units) - p + 1)
    BY <2>3, Zenon DEF Reads
  <2>5. PICK bits : bits = LeadBits(units[p].val)
    OBVIOUS
  <2>6. bits \in {6, 12, 18}
    <3>1. units[p].val \in 192..247
      BY <2>2, Zenon DEF Begun
    <3> QED BY <2>5, <3>1, LeadRange, Zenon
  <2>7. state = bits - 6 * (Len(units) - p) /\ bits - 6 * (Len(units') - p) \in {6, 12}
    BY <2>2, <2>4, <2>5, Zenon
  <2>8. state \in {12, 18} /\ state - 6 = bits - 6 * (Len(units') - p)
    BY <1>2, <2>1, <2>6, <2>7
  <2>9. /\ is_valid => is_valid'
        /\ surpair' = surpair /\ str' = str
        /\ state' = state - 6
        /\ codepoint' = codepoint + (x.val - 128) * 2 ^ (state - 6)
    BY <2>2, <2>8, TailMore, Zenon
  <2> QED BY <2>2, <2>4, <2>5, <2>8, <2>9, Zenon
<1> QED BY <1>4, <1>5, Zenon

\* A string that stops behind the beginning of a character is not accepted.
Unfinished ==
  (status = "open" /\ units # <<>> /\ Begins(units[Len(units)])) =>
    state # 0 \/ surpair # 0 \/ ~ is_valid

EndsWhole == (status = "accepted" /\ units # <<>>) => ~ Begins(units[Len(units)])

TextInv == Tracks /\ Unfinished /\ EndsWhole /\ AcceptsEveryText /\ MeansWhatItSays

\* The inductive invariant of what is stored.
IInvText == IInv /\ TextInv

LEMMA BeginsLeft ==
  ASSUME NEW x \in Units, Taken(x), Begins(x)
  PROVE  state' # 0 \/ surpair' # 0 \/ ~ is_valid'
<1>1. CASE x.esc
  <2>1. x.val \in HighHalves /\ x.val \notin LowHalves /\ x.val \in Surrogates /\ x.val # 0
    BY <1>1, HalvesApart, Zenon DEF Begins
  <2>2. WriteCodepoint(x.val, state = 0)
    BY <1>1, EscapeDoes, Zenon
  <2>3. surpair' = IF surpair # 0 THEN surpair ELSE x.val
    BY <2>1, <2>2, Zenon DEF WriteCodepoint
  <2> QED BY <2>1, <2>3
<1>2. CASE ~ x.esc
  <2>1. x.val \in 0..255 /\ x.val >= 192
    BY <1>2, UnitParts, Zenon DEF Begins
  <2>2. ~ (x.val < 128) /\ x.val \notin 128..191
    BY <2>1
  <2>3. CASE PushAscii(x.val)
    BY <2>2, <2>3, Zenon DEF PushAscii
  <2>4. CASE PushLead(x.val)
    <3>1. x.val \in 192..247 /\ state' = LeadBits(x.val)
      BY <2>4, Zenon DEF PushLead
    <3>2. state' \in {6, 12, 18}
      BY <3>1, LeadRange, Zenon
    <3> QED BY <3>2
  <2>5. CASE PushStray(x.val)
    BY <2>5 DEF PushStray
  <2>6. CASE PushContinuation(x.val)
    <3>1. WriteCodepoint(codepoint', x.val \in 128..191) \/ is_valid' = (is_valid /\ x.val \in 128..191)
      BY <2>6, Zenon DEF PushContinuation
    <3> QED BY <2>2, <3>1, Zenon DEF WriteCodepoint
  <2> QED BY <1>2, <2>3, <2>4, <2>5, <2>6, Zenon DEF Taken
<1> QED BY <1>1, <1>2

LEMMA NothingSpelled ==
  ASSUME NEW u, NEW m \in Strings, Spells(u, 1, 1, m)
  PROVE  m = <<>>
<1>1. PICK cut \in [1..(Len(m) + 1) -> 1..1] : Cuts(u, 1, 1, m, cut)
  BY Zenon DEF Spells
<1>2. Len(m) \in Nat
  BY DEF Strings
<1>3. CASE Len(m) # 0
  <2>1. 1 \in 1..Len(m) /\ 1 \in 1..(Len(m) + 1) /\ 2 \in 1..(Len(m) + 1)
    BY <1>2, <1>3
  <2>2. PICK c \in CharsAt(u, cut[1]) : cut[1 + 1] = cut[1] + c.length
    BY <1>1, <2>1, Zenon DEF Cuts
  <2>3. c.length \in 1..4
    BY <2>2, CharLength, Zenon
  <2>4. cut[1] \in 1..1 /\ cut[2] \in 1..1
    BY <1>1, <2>1, Zenon
  <2> QED BY <2>2, <2>3, <2>4
<1>4. CASE Len(m) = 0
  BY <1>4 DEF Strings
<1> QED BY <1>3, <1>4

LEMMA InitText == Init => IInvText
<1> SUFFICES ASSUME Init PROVE IInvText
  OBVIOUS
<1>1. IInv
  BY InitIInv
<1>2. /\ str = <<>> /\ is_valid /\ state = 0 /\ surpair = 0 /\ status = "open"
      /\ units = <<>> /\ Len(units) = 0 /\ Len(units) + 1 = 1
  BY DEF Init, NewFilter, str, is_valid, state, surpair
<1>3. AtRest
  <2>1. ASSUME NEW m \in Strings, Spells(units, 1, Len(units) + 1, m) PROVE Rests(m)
    <3>1. m = <<>>
      BY <1>2, <2>1, NothingSpelled, Zenon
    <3> QED BY <1>2, <3>1, Zenon DEF Rests, Says
  <2> QED BY <2>1, Zenon DEF AtRest
<1>4. InPair
  BY <1>2, Zenon DEF InPair, HalfAfter
<1>5. InCharacter
  <2>1. 1..Len(units) = {}
    BY <1>2
  <2> QED BY <2>1, Zenon DEF InCharacter
<1>6. status # "refused" /\ status # "accepted"
  BY <1>2
<1>7. MeansWhatItSays
  BY <1>6, SMT DEF MeansWhatItSays
<1>8. AcceptsEveryText
  BY <1>6, Zenon DEF AcceptsEveryText
<1>9. Unfinished /\ EndsWhole
  BY <1>2, Zenon DEF Unfinished, EndsWhole
<1> QED BY <1>1, <1>3, <1>4, <1>5, <1>7, <1>8, <1>9, Zenon DEF IInvText, TextInv, Tracks

LEMMA StepTaken ==
  ASSUME IInvText, NEW x \in Units, Push(x)
  PROVE  TextInv'
<1>1. units' = Append(units, x) /\ status = "open" /\ status' = "open"
  BY DEF Push
<1>2. units \in Seq(Units) /\ codepoint \in CodePoints /\ Taken(x)
  BY Parts, PushLeaves, Zenon DEF IInvText
<1>3. Longer(units, x, units')
  BY <1>1, <1>2, AppendLonger, Zenon DEF TextUnits
<1>4. codepoint \in Int
  BY <1>2, Powers, SMT DEF CodePoints
<1>5. AtRest /\ InPair /\ InCharacter
  BY <1>1, Zenon DEF IInvText, TextInv, Tracks
<1>6. AtRest' /\ InPair' /\ InCharacter'
  BY <1>2, <1>3, <1>4, <1>5, ToRest, ToPair, ToCharacter, Zenon
<1>7. status' # "refused" /\ status' # "accepted"
  BY <1>1
<1>8. MeansWhatItSays'
  BY <1>7, SMT DEF MeansWhatItSays
<1>9. AcceptsEveryText'
  BY <1>7, Zenon DEF AcceptsEveryText
<1>10. Unfinished'
  <2>1. units'[Len(units')] = x
    BY <1>3, Zenon DEF Longer
  <2> QED BY <1>2, <2>1, BeginsLeft, Zenon DEF Unfinished
<1>11. EndsWhole'
  BY <1>7, Zenon DEF EndsWhole
<1> QED BY <1>6, <1>8, <1>9, <1>10, <1>11, Zenon DEF TextInv, Tracks

LEMMA FinalizeText ==
  ASSUME IInvText, Finalize
  PROVE  TextInv'
<1>1. /\ status = "open" /\ str' = str /\ units' = units
      /\ is_valid' = (is_valid /\ state = 0 /\ surpair = 0)
      /\ status' = IF is_valid' THEN "accepted" ELSE "refused"
  BY Finalized, Zenon DEF IInvText
<1>2. status' # "open"
  BY <1>1
<1>3. units \in TextUnits
  BY Parts, Zenon DEF IInvText, TextUnits
<1>4. ASSUME NEW m \in Meanings(units) PROVE Rests(m)
  <2>1. m \in Strings /\ Spells(units, 1, Len(units) + 1, m)
    BY <1>3, <1>4, MeaningSpelled, Zenon
  <2> QED BY <1>1, <2>1, Zenon DEF IInvText, TextInv, Tracks, AtRest
<1>5. AcceptsEveryText'
  <2>1. ASSUME status' = "refused", NEW m \in Meanings(units) PROVE FALSE
    <3>1. ~ is_valid'
      BY <1>1, <2>1
    <3> QED BY <1>1, <1>4, <2>1, <3>1, Zenon DEF Rests
  <2>2. status' = "refused" => Meanings(units) = {}
    BY <2>1, Zenon
  <2> QED BY <1>1, <2>2, Zenon DEF AcceptsEveryText
<1>6. MeansWhatItSays'
  <2>1. SUFFICES ASSUME NEW m \in Meanings(units), \A i \in DOMAIN m : m[i] < 131072
                 PROVE  str = m
    BY <1>1, SMT DEF MeansWhatItSays
  <2>2. Small(m)
    BY <2>1, SMT DEF Small, Wide
  <2>3. Says(str, m)
    BY <1>4, SMT DEF Rests
  <2> QED BY <2>2, <2>3, SMT DEF Says
<1>7. EndsWhole'
  <2>1. CASE is_valid'
    <3>1. is_valid /\ state = 0 /\ surpair = 0
      BY <1>1, <2>1, Zenon
    <3> QED BY <1>1, <3>1, Zenon DEF IInvText, TextInv, Unfinished, EndsWhole
  <2>2. CASE ~ is_valid'
    <3>1. status' # "accepted"
      BY <1>1, <2>2
    <3> QED BY <3>1, Zenon DEF EndsWhole
  <2> QED BY <2>1, <2>2
<1>8. Unfinished'
  BY <1>2, Zenon DEF Unfinished
<1> QED BY <1>2, <1>5, <1>6, <1>7, <1>8, Zenon DEF TextInv, Tracks

LEMMA StutterText ==
  ASSUME IInvText, UNCHANGED vars
  PROVE  TextInv'
<1>1. /\ str' = str /\ is_valid' = is_valid /\ codepoint' = codepoint /\ state' = state
      /\ surpair' = surpair /\ units' = units /\ status' = status
  BY Zenon DEF vars, str, is_valid, codepoint, state, surpair
<1>2. AtRest' = AtRest
  BY <1>1, Zenon DEF AtRest, Rests
<1>3. InPair' = InPair
  BY <1>1, Zenon DEF InPair, Waits
<1>4. InCharacter' = InCharacter
  BY <1>1, Zenon DEF InCharacter, Reads
<1>5. Tracks'
  BY <1>1, <1>2, <1>3, <1>4, Zenon DEF IInvText, TextInv, Tracks
<1>6. AcceptsEveryText'
  BY <1>1, Zenon DEF IInvText, TextInv, AcceptsEveryText
<1>7. MeansWhatItSays'
  BY <1>1, SMT DEF IInvText, TextInv, MeansWhatItSays
<1>8. Unfinished' /\ EndsWhole'
  BY <1>1, Zenon DEF IInvText, TextInv, Unfinished, EndsWhole
<1> QED BY <1>5, <1>6, <1>7, <1>8, Zenon DEF TextInv

LEMMA StepText == IInvText /\ [Next]_vars => IInvText'
<1>1. SUFFICES ASSUME IInvText, [Next]_vars PROVE IInvText'
  OBVIOUS
<1>2. IInv'
  <2>1. IInv
    BY <1>1, Zenon DEF IInvText
  <2> QED BY <1>1, <2>1, StepInv, Zenon
<1>3. TextInv'
  BY <1>1, StepTaken, FinalizeText, StutterText, Zenon DEF Next
<1> QED BY <1>2, <1>3, Zenon DEF IInvText

LEMMA InductiveText == Spec => []IInvText
BY InitText, StepText, PTL DEF Spec

\* No string that means something is refused, of whatever bytes and escapes
\* and however long it is.
THEOREM AcceptsAll == Spec => []AcceptsEveryText
<1>1. IInvText => AcceptsEveryText
  BY DEF IInvText, TextInv
<1> QED BY InductiveText, <1>1, PTL

\* What an accepted string stores is its meaning, if its characters are all
\* below U+20000.
THEOREM StoresTheMeaning == Spec => []MeansWhatItSays
<1>1. IInvText => MeansWhatItSays
  BY DEF IInvText, TextInv
<1> QED BY InductiveText, <1>1, PTL
-----------------------------------------------------------------------------
(* The scanner: bytes and texts.                                           *)

Texts == Seq(0..255)
-----------------------------------------------------------------------------
(* Skip.                                                                   *)

LEMMA AtType ==
  ASSUME NEW s \in Texts, NEW i \in Nat \ {0}
  PROVE  /\ At(s, i) \in 0..255
         /\ i <= Len(s) => At(s, i) = s[i]
         /\ i > Len(s) => At(s, i) = 0
<1>1. Len(s) \in Nat
  BY DEF Texts
<1>2. i <= Len(s) => s[i] \in 0..255
  BY <1>1, ElementOfSeq DEF Texts
<1> QED BY <1>1, <1>2 DEF At, NUL

\* What Skip chooses is there, for the NUL behind the text is in no class.
LEMMA SkipExists ==
  ASSUME NEW s \in Texts, NEW i \in 1..(Len(s) + 1), NEW class, 0 \notin class
  PROVE  \E j \in i..(Len(s) + 1) :
           (\A k \in i..(j - 1) : s[k] \in class) /\ At(s, j) \notin class
<1> DEFINE D == {j \in i..(Len(s) + 1) : At(s, j) \notin class}
<1>1. Len(s) \in Nat
  BY DEF Texts
<1>2. Len(s) + 1 \in D
  BY <1>1, AtType
<1>3. D \subseteq Nat
  BY <1>1
<1>4. PICK j \in D : \A e \in D : j <= e
  <2> HIDE DEF D
  <2> QED BY <1>2, <1>3, Least
<1>5. ASSUME NEW k \in i..(j - 1) PROVE s[k] \in class
  <2>1. k \in i..(Len(s) + 1) /\ k \notin D
    BY <1>1, <1>4
  <2>2. At(s, k) \in class /\ k <= Len(s)
    BY <1>1, <1>4, <2>1
  <2> QED BY <1>1, <2>2, AtType
<1> QED BY <1>4, <1>5

LEMMA SkipFacts ==
  ASSUME NEW s \in Texts, NEW i \in 1..(Len(s) + 1), NEW class, 0 \notin class
  PROVE  /\ Skip(s, i, class) \in i..(Len(s) + 1)
         /\ \A k \in i..(Skip(s, i, class) - 1) : s[k] \in class
         /\ At(s, Skip(s, i, class)) \notin class
BY SkipExists, Zenon DEF Skip

\* ... and there is no other.
LEMMA SkipIs ==
  ASSUME NEW s \in Texts, NEW i \in 1..(Len(s) + 1), NEW class, 0 \notin class,
         NEW j \in i..(Len(s) + 1), \A k \in i..(j - 1) : s[k] \in class,
         At(s, j) \notin class
  PROVE  Skip(s, i, class) = j
<1> DEFINE r == Skip(s, i, class)
<1>1. Len(s) \in Nat
  BY DEF Texts
<1>2. /\ r \in i..(Len(s) + 1)
      /\ \A k \in i..(r - 1) : s[k] \in class
      /\ At(s, r) \notin class
  BY SkipFacts, Zenon
<1> HIDE DEF r
<1>3. ASSUME r < j PROVE FALSE
  <2>1. r \in i..(j - 1) /\ r <= Len(s)
    BY <1>1, <1>2, <1>3
  <2>2. At(s, r) = s[r]
    BY <1>1, <2>1, AtType
  <2> QED BY <1>2, <2>1, <2>2
<1>4. ASSUME j < r PROVE FALSE
  <2>1. j \in i..(r - 1) /\ j <= Len(s)
    BY <1>1, <1>2, <1>4
  <2>2. At(s, j) = s[j]
    BY <1>1, <2>1, AtType
  <2> QED BY <1>2, <2>1, <2>2
<1> QED BY <1>1, <1>2, <1>3, <1>4 DEF r
-----------------------------------------------------------------------------
(* The tables.                                                             *)

LEMMA PunctuationTable ==
  /\ DOMAIN Punctuation = {123, 125, 91, 93, 58, 44}
  /\ \A c \in DOMAIN Punctuation :
       Punctuation[c] \in {"OBJ_OPEN", "OBJ_CLOSE", "ARR_OPEN", "ARR_CLOSE", "COLON", "COMMA"}
BY DEF Punctuation

LEMMA KeywordTable ==
  /\ DOMAIN Keywords = {"KW_NULL", "KW_TRUE", "KW_FALSE"}
  /\ \A k \in DOMAIN Keywords :
       Keywords[k] \in Seq(1..255) /\ Len(Keywords[k]) > 0
<1>1. DOMAIN Keywords = {"KW_NULL", "KW_TRUE", "KW_FALSE"}
  BY DEF Keywords
<1>2. /\ Keywords["KW_NULL"] = <<110, 117, 108, 108>>
      /\ Keywords["KW_TRUE"] = <<116, 114, 117, 101>>
      /\ Keywords["KW_FALSE"] = <<102, 97, 108, 115, 101>>
  BY DEF Keywords
<1>3. \A k \in {"KW_NULL", "KW_TRUE", "KW_FALSE"} :
        Keywords[k] \in Seq(1..255) /\ Len(Keywords[k]) > 0
  <2>1. Keywords["KW_NULL"] \in Seq(1..255) /\ Len(Keywords["KW_NULL"]) > 0
    BY <1>2
  <2>2. Keywords["KW_TRUE"] \in Seq(1..255) /\ Len(Keywords["KW_TRUE"]) > 0
    BY <1>2
  <2>3. Keywords["KW_FALSE"] \in Seq(1..255) /\ Len(Keywords["KW_FALSE"]) > 0
    BY <1>2
  <2> QED BY <2>1, <2>2, <2>3
<1> QED BY <1>1, <1>3

LEMMA EscapeTable == 0 \notin DOMAIN Unescaped /\ 117 \notin DOMAIN Unescaped
<1>1. DOMAIN Unescaped = {Short[b] : b \in DOMAIN Short} \cup {47}
  BY DEF Unescaped
<1>2. \A b \in DOMAIN Short : Short[b] # 0 /\ Short[b] # 117
  BY DEF Short, Quote, Backslash
<1> QED BY <1>1, <1>2
-----------------------------------------------------------------------------
(* The string literal.                                                     *)

\* A turn of the loop moves on, and not past the end of the text.
LEMMA TurnMoves ==
  ASSUME NEW s \in Texts, NEW j \in 1..(Len(s) + 1)
  PROVE  /\ Turn(s, j).kind \in {"unit", "end", "err"}
         /\ Turn(s, j).kind = "unit" => Turn(s, j).next \in (j + 1)..(Len(s) + 1)
         /\ Turn(s, j).kind = "end" => Turn(s, j).next \in 1..(Len(s) + 1)
         /\ Turn(s, j).next \in Nat
<1>1. Len(s) \in Nat
  BY DEF Texts
<1>2. /\ At(s, j) \in 0..255 /\ At(s, j + 1) \in 0..255
      /\ At(s, j) # 0 => j <= Len(s)
      /\ At(s, j + 1) # 0 => j + 1 <= Len(s)
  BY <1>1, AtType
<1> DEFINE c == At(s, j + 1)
           digits == SubSeq(s, j + 2, j + 5)
<1> HIDE DEF c, digits
<1>3. CASE At(s, j) < 32
  <2>1. Turn(s, j) = [kind |-> "err", next |-> j]
    BY <1>2, <1>3 DEF Turn, Quote, Backslash
  <2> QED BY <2>1
<1>4. CASE At(s, j) = Quote
  <2>1. ~ (At(s, j) < 32)
    BY <1>4 DEF Quote
  <2>2. Turn(s, j) = [kind |-> "end", next |-> j + 1]
    BY <1>4, <2>1 DEF Turn, Quote, Backslash
  <2> QED BY <1>1, <1>2, <1>4, <2>2 DEF Quote
<1>5. CASE At(s, j) = Backslash /\ At(s, j + 1) \in DOMAIN Unescaped
  <2>1. Turn(s, j) = [kind |-> "unit", next |-> j + 2, unit |-> Byte(Unescaped[At(s, j + 1)])]
    BY <1>5, EscapeTable DEF Turn, Quote, Backslash
  <2>2. At(s, j + 1) # 0
    BY <1>5, EscapeTable
  <2> QED BY <1>1, <1>2, <2>1, <2>2
<1>6. CASE At(s, j) = Backslash /\ At(s, j + 1) = 117
  <2>1. j + 1 <= Len(s)
    BY <1>2, <1>6
  <2>2. CASE j + 6 <= Len(s) /\ \A i \in DOMAIN digits : digits[i] \in HexDigits
    <3>1. Turn(s, j) = [kind |-> "unit", next |-> j + 6,
                        unit |-> [esc |-> TRUE, val |-> hatoui(digits)]]
      BY <1>6, <2>2 DEF Turn, Quote, Backslash, digits
    <3> QED BY <1>1, <2>2, <3>1
  <2>3. CASE ~ (j + 6 <= Len(s) /\ \A i \in DOMAIN digits : digits[i] \in HexDigits)
    <3>1. Turn(s, j) = [kind |-> "err", next |-> Skip(s, j + 2, HexDigits)]
      BY <1>6, <2>3 DEF Turn, Quote, Backslash, digits
    <3>2. Skip(s, j + 2, HexDigits) \in (j + 2)..(Len(s) + 1)
      <4>1. 0 \notin HexDigits
        BY DEF HexDigits, Digits
      <4>2. j + 2 \in 1..(Len(s) + 1)
        BY <1>1, <2>1
      <4> QED BY <4>1, <4>2, SkipFacts, Zenon
    <3> QED BY <1>1, <3>1, <3>2
  <2> QED BY <2>2, <2>3
<1>7. CASE At(s, j) = Backslash /\ At(s, j + 1) \notin DOMAIN Unescaped \cup {117}
  <2>1. Turn(s, j) = [kind |-> "err", next |-> j + 1]
    BY <1>7 DEF Turn, Quote, Backslash
  <2> QED BY <2>1
<1>8. CASE ~ (At(s, j) < 32) /\ At(s, j) # Quote /\ At(s, j) # Backslash
  <2>1. Turn(s, j) = [kind |-> "unit", next |-> j + 1, unit |-> Byte(s[j])]
    BY <1>8 DEF Turn, Quote, Backslash
  <2> QED BY <1>1, <1>2, <1>8, <2>1
<1> QED BY <1>3, <1>4, <1>5, <1>6, <1>7, <1>8
\* The scan of a literal at j, given what it is behind j.
WalkFrom(s, i, f, j) ==
  IF Turn(s, j).kind = "unit"
  THEN [f[Turn(s, j).next] EXCEPT !.units = <<Turn(s, j).unit>> \o @]
  ELSE [tok |-> IF Turn(s, j).kind = "end" THEN "STRING" ELSE "ERR",
        from |-> i, next |-> Turn(s, j).next, units |-> <<>>]

Scanned(s, i) ==
  LET lists == Seq({Turn(s, j).unit : j \in 1..(Len(s) + 1)})
  IN  [tok : {"STRING"}, from : {i}, next : 0..(Len(s) + 1), units : lists]
        \cup [tok : {"ERR"}, from : {i}, next : Nat, units : lists]

Scans(s, i, f) ==
  /\ ScanString(s, i) = f[i + 1]
  /\ \A j \in (i + 1)..(Len(s) + 1) : f[j] = WalkFrom(s, i, f, j) /\ f[j] \in Scanned(s, i)

\* The scan of a literal is defined at every place.
LEMMA ScanRecursion ==
  ASSUME NEW s \in Texts, NEW i \in 1..Len(s)
  PROVE  (\E f : Scans(s, i, f)) /\ ScanString(s, i) \in Scanned(s, i)
<1> DEFINE n == Len(s) + 1
           U == {Turn(s, j).unit : j \in 1..n}
           T == [tok : {"STRING"}, from : {i}, next : 0..n, units : Seq(U)]
                  \cup [tok : {"ERR"}, from : {i}, next : Nat, units : Seq(U)]
           E(f, j) == WalkFrom(s, i, f, j)
           Walk == CHOOSE f : f = [j \in (i + 1)..(Len(s) + 1) |-> E(f, j)]
<1>1. Len(s) \in Nat
  BY DEF Texts
<1>2. ScanString(s, i) = Walk[i + 1]
  BY Zenon DEF ScanString, WalkFrom
<1>3. n \in Nat /\ \A j \in (i + 1)..n : j \in 1..n
  BY <1>1
<1>4. ASSUME NEW j \in (i + 1)..n, NEW f,
             \A k \in (j + 1)..n : f[k] \in T
      PROVE  E(f, j) \in T
  <2>1. Turn(s, j).unit \in U /\ <<>> \in Seq(U)
    BY <1>3
  <2>2. j \in 1..(Len(s) + 1)
    BY <1>3
  <2>3. CASE Turn(s, j).kind = "unit"
    <3> DEFINE r == f[Turn(s, j).next]
               u == Turn(s, j).unit
    <3>1. r \in T
      BY <1>3, <1>4, <2>2, <2>3, TurnMoves
    <3>2. u \in U
      BY <2>1
    <3> HIDE DEF r, u, U
    <3>3. E(f, j) = [r EXCEPT !.units = <<u>> \o r.units]
      BY <2>3 DEF r, u, WalkFrom
    <3>4. r.units \in Seq(U)
      BY <3>1
    <3>5. <<u>> \o r.units \in Seq(U)
      BY <3>2, <3>4
    <3>6. [r EXCEPT !.units = <<u>> \o r.units] \in T
      BY <3>1, <3>5
    <3> QED BY <3>3, <3>6, Zenon
  <2>4. CASE Turn(s, j).kind = "end"
    <3>1. E(f, j) = [tok |-> "STRING", from |-> i, next |-> Turn(s, j).next, units |-> <<>>]
      BY <2>4 DEF WalkFrom
    <3>2. Turn(s, j).next \in 0..n
      BY <1>1, <2>2, <2>4, TurnMoves
    <3> HIDE DEF U
    <3> QED BY <2>1, <3>1, <3>2
  <2>5. CASE Turn(s, j).kind = "err"
    <3>1. E(f, j) = [tok |-> "ERR", from |-> i, next |-> Turn(s, j).next, units |-> <<>>]
      BY <2>5 DEF WalkFrom
    <3>2. Turn(s, j).next \in Nat
      BY <2>2, TurnMoves
    <3> HIDE DEF U
    <3> QED BY <2>1, <3>1, <3>2
  <2> QED BY <2>2, <2>3, <2>4, <2>5, TurnMoves
<1>5. \E f : f = [j \in (i + 1)..n |-> E(f, j)]
  <2> DEFINE h == [j \in (i + 1)..n |-> [g \in [(j + 1)..n -> T] |-> E(g, j)]]
  <2> HIDE DEF T, E
  <2>1. Steps(h, i + 1, n, T)
    BY <1>4 DEF Steps
  <2>2. i + 1 \in Nat /\ i + 1 <= n + 1
    BY <1>1
  <2> HIDE DEF h
  <2>3. PICK f : Solves(f, h, i + 1, n, T)
    BY <1>3, <2>1, <2>2, Downward
  <2>4. ASSUME NEW j \in (i + 1)..n PROVE f[j] = E(f, j)
    <3> DEFINE g == [k \in (j + 1)..n |-> f[k]]
    <3>1. g \in [(j + 1)..n -> T]
      BY <1>3, <2>3 DEF Solves
    <3>2. f[j] = E(g, j)
      BY <2>3, <3>1 DEF h, Solves
    <3>3. E(g, j) = E(f, j)
      <4>1. j \in 1..(Len(s) + 1)
        BY <1>3
      <4>2. CASE Turn(s, j).kind = "unit"
        <5>1. Turn(s, j).next \in (j + 1)..n
          BY <4>1, <4>2, TurnMoves
        <5>2. g[Turn(s, j).next] = f[Turn(s, j).next]
          BY <5>1
        <5> HIDE DEF g
        <5> QED BY <5>2, Zenon DEF E, WalkFrom
      <4>3. CASE Turn(s, j).kind # "unit"
        BY <4>3, Zenon DEF E, WalkFrom
      <4> QED BY <4>2, <4>3
    <3> QED BY <3>2, <3>3
  <2>5. f = [j \in (i + 1)..n |-> E(f, j)]
    BY <2>3, <2>4 DEF Solves
  <2> QED BY <2>5
<1>6. Walk = [j \in (i + 1)..n |-> E(Walk, j)]
  <2> HIDE DEF E
  <2> QED BY <1>5, Zenon
<1> HIDE DEF Walk
<1>7. \A j \in (i + 1)..n : Walk[j] \in T
  <2> DEFINE G == {j \in (i + 1)..n : Walk[j] \in T}
  <2> HIDE DEF T, E
  <2>1. ASSUME NEW j \in (i + 1)..n, \A k \in (j + 1)..n : k \in G
        PROVE  j \in G
    <3>1. E(Walk, j) \in T
      BY <1>4, <2>1
    <3> QED BY <1>6, <3>1
  <2>2. i + 1 \in Nat
    BY <1>1
  <2> HIDE DEF G
  <2>3. \A j \in (i + 1)..n : j \in G
    BY <1>3, <2>1, <2>2, FromRight
  <2> QED BY <2>3 DEF G
<1>8. Walk[i + 1] \in T
  <2>1. i + 1 \in (i + 1)..n
    BY <1>1
  <2> HIDE DEF T
  <2> QED BY <1>7, <2>1
<1>9. ScanString(s, i) \in Scanned(s, i)
  BY <1>2, <1>8, Zenon DEF Scanned
<1>10. \A j \in (i + 1)..n : Walk[j] = E(Walk, j)
  <2> HIDE DEF E
  <2> QED BY <1>6
<1>11. Scans(s, i, Walk)
  <2>1. \A j \in (i + 1)..(Len(s) + 1) : Walk[j] \in Scanned(s, i)
    BY <1>7, Zenon DEF Scanned
  <2> HIDE DEF T, E
  <2>2. \A j \in (i + 1)..(Len(s) + 1) : Walk[j] = WalkFrom(s, i, Walk, j)
    BY <1>10, Zenon DEF E
  <2> QED BY <1>2, <2>1, <2>2, Zenon DEF Scans
<1> QED BY <1>9, <1>11

\* ... and it ends within the text unless it fails.
LEMMA ScanStringFacts ==
  ASSUME NEW s \in Texts, NEW i \in 1..Len(s)
  PROVE  /\ ScanString(s, i).tok \in {"STRING", "ERR"}
         /\ ScanString(s, i).next \in Nat
         /\ ScanString(s, i).tok = "STRING" => ScanString(s, i).next <= Len(s) + 1
<1> DEFINE lists == Seq({Turn(s, j).unit : j \in 1..(Len(s) + 1)})
           r == ScanString(s, i)
<1>1. Len(s) \in Nat
  BY DEF Texts
<1>2. r \in [tok : {"STRING"}, from : {i}, next : 0..(Len(s) + 1), units : lists]
        \cup [tok : {"ERR"}, from : {i}, next : Nat, units : lists]
  BY ScanRecursion, Zenon DEF Scanned
<1> HIDE DEF lists, r
<1>3. /\ r.tok \in {"STRING", "ERR"}
      /\ r.next \in Nat
      /\ r.tok = "STRING" => r.next <= Len(s) + 1
  BY <1>1, <1>2
<1> QED BY <1>3, Zenon DEF r

\* ... nor does finalize make more of it.
LEMMA StringTokenFacts ==
  ASSUME NEW s \in Texts, NEW i \in 1..Len(s)
  PROVE  /\ StringToken(s, i).tok \in {"STRING", "ERR"}
         /\ StringToken(s, i).next = ScanString(s, i).next
         /\ StringToken(s, i).tok = "STRING" => ScanString(s, i).tok = "STRING"
         /\ StringToken(s, i).tok = "STRING" => StringToken(s, i).next <= Len(s) + 1
<1>1. PICK t, n, a, v : /\ t = ScanString(s, i).tok /\ n = ScanString(s, i).next
                        /\ a = finalize(Filtered(ScanString(s, i).units)).str
                        /\ v = finalize(Filtered(ScanString(s, i).units)).is_valid
  OBVIOUS
<1>2. StringToken(s, i) = [tok |-> IF t = "STRING" /\ v THEN "STRING" ELSE "ERR",
                           from |-> i, next |-> n, str |-> a]
  BY <1>1, Zenon DEF StringToken
<1>3. t = "STRING" => n <= Len(s) + 1
  BY <1>1, ScanStringFacts, Zenon
<1> QED BY <1>1, <1>2, <1>3
-----------------------------------------------------------------------------
(* The number.  The ends of its parts, as ScanNumber finds them.           *)

IntEnd(s, i) == Skip(s, i + 1, Digits)

FracEnd(s, i) ==
  IF At(s, IntEnd(s, i)) = Dot THEN Skip(s, IntEnd(s, i) + 1, Digits) ELSE IntEnd(s, i)

ExpStart(s, i) ==
  IF At(s, FracEnd(s, i) + 1) \in {Plus, Minus} THEN FracEnd(s, i) + 2 ELSE FracEnd(s, i) + 1

FirstDigit(s, i) == IF s[i] \in Digits THEN i ELSE i + 1

\* When ScanNumber accepts.
Accepted(s, i) ==
  /\ ~ (At(s, FirstDigit(s, i)) = 48 /\ At(s, FirstDigit(s, i) + 1) \in Digits)
  /\ s[i] = Minus /\ i < Len(s) => s[i + 1] \in Digits
  /\ At(s, IntEnd(s, i)) = Dot => FracEnd(s, i) # IntEnd(s, i) + 1
  /\ At(s, FracEnd(s, i)) \in ExpMarks => At(s, ExpStart(s, i)) \in Digits

LEMMA ScanNumberIs ==
  ASSUME NEW s, NEW i
  PROVE  /\ ScanNumber(s, i).tok \in {"NUMBER", "ERR"}
         /\ ScanNumber(s, i).tok = "NUMBER" <=> Accepted(s, i)
         /\ ScanNumber(s, i).from = i
         /\ Accepted(s, i) =>
              ScanNumber(s, i).next = IF At(s, FracEnd(s, i)) \in ExpMarks
                                      THEN Skip(s, ExpStart(s, i), Digits)
                                      ELSE FracEnd(s, i)
<1>1. \A tok, from, next : /\ Token(tok, from, next).tok = tok
                           /\ Token(tok, from, next).from = from
                           /\ Token(tok, from, next).next = next
  BY DEF Token
<1>2. ScanNumber(s, i) =
        IF At(s, FirstDigit(s, i)) = 48 /\ At(s, FirstDigit(s, i) + 1) \in Digits
        THEN Token("ERR", i, FirstDigit(s, i) + 1)
        ELSE IF s[i] = Minus /\ i < Len(s) /\ s[i + 1] \notin Digits
        THEN Token("ERR", i, i + 1)
        ELSE IF At(s, IntEnd(s, i)) = Dot /\ FracEnd(s, i) = IntEnd(s, i) + 1
        THEN Token("ERR", i, FracEnd(s, i))
        ELSE IF At(s, FracEnd(s, i)) \notin ExpMarks
        THEN Token("NUMBER", i, FracEnd(s, i))
        ELSE IF At(s, ExpStart(s, i)) \notin Digits
        THEN Token("ERR", i, ExpStart(s, i))
        ELSE Token("NUMBER", i, Skip(s, ExpStart(s, i), Digits))
  BY Zenon DEF ScanNumber, FirstDigit, IntEnd, FracEnd, ExpStart
<1>3. CASE At(s, FirstDigit(s, i)) = 48 /\ At(s, FirstDigit(s, i) + 1) \in Digits
  BY <1>1, <1>2, <1>3 DEF Accepted
<1>4. CASE /\ ~ (At(s, FirstDigit(s, i)) = 48 /\ At(s, FirstDigit(s, i) + 1) \in Digits)
           /\ s[i] = Minus /\ i < Len(s) /\ s[i + 1] \notin Digits
  BY <1>1, <1>2, <1>4 DEF Accepted
<1>5. CASE /\ ~ (At(s, FirstDigit(s, i)) = 48 /\ At(s, FirstDigit(s, i) + 1) \in Digits)
           /\ ~ (s[i] = Minus /\ i < Len(s) /\ s[i + 1] \notin Digits)
           /\ At(s, IntEnd(s, i)) = Dot /\ FracEnd(s, i) = IntEnd(s, i) + 1
  BY <1>1, <1>2, <1>5 DEF Accepted
<1>6. CASE /\ ~ (At(s, FirstDigit(s, i)) = 48 /\ At(s, FirstDigit(s, i) + 1) \in Digits)
           /\ ~ (s[i] = Minus /\ i < Len(s) /\ s[i + 1] \notin Digits)
           /\ ~ (At(s, IntEnd(s, i)) = Dot /\ FracEnd(s, i) = IntEnd(s, i) + 1)
  BY <1>1, <1>2, <1>6 DEF Accepted
<1> QED BY <1>3, <1>4, <1>5, <1>6, Zenon

LEMMA NumberClasses ==
  /\ 0 \notin Digits /\ 0 \notin ExpMarks /\ 0 \notin JsonSpaces /\ 0 \notin Spaces
  /\ Dot \notin Digits /\ Dot # 0 /\ Dot \notin ExpMarks
  /\ Minus \notin Digits /\ Minus # 0 /\ Plus # 0 /\ Plus \notin Digits
  /\ \A c \in ExpMarks : c \notin Digits
BY DEF Digits, ExpMarks, JsonSpaces, Spaces, Dot, Minus, Plus

\* Where the parts lie.
LEMMA NumberParts ==
  ASSUME NEW s \in Texts, NEW i \in 1..Len(s)
  PROVE  /\ IntEnd(s, i) \in (i + 1)..(Len(s) + 1)
         /\ \A k \in (i + 1)..(IntEnd(s, i) - 1) : s[k] \in Digits
         /\ At(s, IntEnd(s, i)) \notin Digits
         /\ FracEnd(s, i) \in IntEnd(s, i)..(Len(s) + 1)
         /\ At(s, FracEnd(s, i)) \notin Digits
         /\ At(s, IntEnd(s, i)) # Dot => FracEnd(s, i) = IntEnd(s, i)
         /\ At(s, IntEnd(s, i)) = Dot =>
              /\ FracEnd(s, i) \in (IntEnd(s, i) + 1)..(Len(s) + 1)
              /\ \A k \in (IntEnd(s, i) + 1)..(FracEnd(s, i) - 1) : s[k] \in Digits
         /\ At(s, FracEnd(s, i)) \in ExpMarks =>
              /\ ExpStart(s, i) \in 1..(Len(s) + 1)
              /\ ExpStart(s, i) \in {FracEnd(s, i) + 1, FracEnd(s, i) + 2}
<1>1. Len(s) \in Nat /\ i + 1 \in 1..(Len(s) + 1)
  BY DEF Texts
<1> DEFINE int == IntEnd(s, i)
           frac == FracEnd(s, i)
<1>2. /\ int \in (i + 1)..(Len(s) + 1)
      /\ \A k \in (i + 1)..(int - 1) : s[k] \in Digits
      /\ At(s, int) \notin Digits
  BY <1>1, SkipFacts, NumberClasses, Zenon DEF IntEnd
<1>3. ASSUME At(s, int) = Dot
      PROVE  /\ int + 1 \in 1..(Len(s) + 1)
             /\ frac \in (int + 1)..(Len(s) + 1)
             /\ \A k \in (int + 1)..(frac - 1) : s[k] \in Digits
             /\ At(s, frac) \notin Digits
  <2> HIDE DEF int
  <2>1. int \in Nat \ {0} /\ int <= Len(s)
    BY <1>1, <1>2, <1>3, AtType, NumberClasses
  <2>2. int + 1 \in 1..(Len(s) + 1)
    BY <1>1, <2>1
  <2>3. frac = Skip(s, int + 1, Digits)
    BY <1>3, Zenon DEF FracEnd, int
  <2> HIDE DEF frac
  <2> QED BY <2>2, <2>3, SkipFacts, NumberClasses, Zenon
<1>4. At(s, int) # Dot => frac = int
  BY Zenon DEF FracEnd
<1>5. frac \in int..(Len(s) + 1) /\ At(s, frac) \notin Digits
  <2> HIDE DEF int, frac
  <2> QED BY <1>1, <1>2, <1>3, <1>4
<1>6. ASSUME At(s, frac) \in ExpMarks
      PROVE  ExpStart(s, i) \in 1..(Len(s) + 1) /\ ExpStart(s, i) \in {frac + 1, frac + 2}
  <2>0. ExpStart(s, i) = IF At(s, frac + 1) \in {Plus, Minus} THEN frac + 2 ELSE frac + 1
    BY Zenon DEF ExpStart
  <2> HIDE DEF int, frac
  <2>1. frac \in Nat \ {0} /\ frac <= Len(s)
    BY <1>1, <1>2, <1>5, <1>6, AtType, NumberClasses
  <2>2. CASE At(s, frac + 1) \in {Plus, Minus}
    <3>1. frac + 1 <= Len(s)
      BY <1>1, <2>1, <2>2, AtType, NumberClasses
    <3> QED BY <1>1, <2>0, <2>1, <2>2, <3>1
  <2>3. CASE At(s, frac + 1) \notin {Plus, Minus}
    BY <1>1, <2>0, <2>1, <2>3
  <2> QED BY <2>2, <2>3
<1> QED BY <1>2, <1>3, <1>4, <1>5, <1>6, Zenon
-----------------------------------------------------------------------------
(* The token.                                                              *)

LEMMA FirstFacts ==
  ASSUME NEW s \in Texts
  PROVE  /\ First(s) \in 1..(Len(s) + 1)
         /\ \A k \in 1..(First(s) - 1) : s[k] \in JsonSpaces
         /\ At(s, First(s)) \notin JsonSpaces
<1>1. Len(s) \in Nat /\ 1 \in 1..(Len(s) + 1)
  BY DEF Texts
<1> QED BY <1>1, SkipFacts, NumberClasses, Zenon DEF First

Words(s, i) == {k \in DOMAIN Keywords : StartsAt(s, i, Keywords[k])}

LEMMA FirstChars ==
  /\ \A c \in Digits \cup {Minus} : c \notin DOMAIN Punctuation /\ c # Quote
  /\ Quote \notin DOMAIN Punctuation
  /\ \A c \in {110, 116, 102} : c \notin DOMAIN Punctuation \cup Digits \cup {Minus, Quote}
BY PunctuationTable DEF Digits, Minus, Quote

LEMMA KeywordStart ==
  ASSUME NEW s \in Texts, NEW i \in Nat, Words(s, i) # {}
  PROVE  At(s, i) \in {110, 116, 102}
<1>1. PICK k \in DOMAIN Keywords : StartsAt(s, i, Keywords[k])
  BY DEF Words
<1>2. 1 \in DOMAIN Keywords[k] /\ Keywords[k][1] \in {110, 116, 102}
  BY DEF Keywords
<1>3. At(s, i + 1 - 1) = Keywords[k][1] /\ i + 1 - 1 = i
  BY <1>1, <1>2 DEF StartsAt
<1> QED BY <1>2, <1>3

\* getJsonToken without its abbreviations.
LEMMA TokenCases ==
  ASSUME NEW s
  PROVE  getJsonToken(s) =
           CASE First(s) > Len(s) -> Token("NONE", First(s), First(s))
             [] At(s, First(s)) \in DOMAIN Punctuation ->
                  Token(Punctuation[s[First(s)]], First(s), First(s) + 1)
             [] At(s, First(s)) \in Digits \cup {Minus} -> ScanNumber(s, First(s))
             [] At(s, First(s)) = Quote -> StringToken(s, First(s))
             [] Words(s, First(s)) # {} ->
                  Token(CHOOSE k \in Words(s, First(s)) : TRUE, First(s),
                        First(s) + Len(Keywords[CHOOSE k \in Words(s, First(s)) : TRUE]))
             [] OTHER -> Token("ERR", First(s), First(s))
BY Zenon DEF getJsonToken, First, Words

\* A number is scanned where a digit or a minus sign stands.
LEMMA NumberToken ==
  ASSUME NEW s \in Texts, First(s) \in 1..Len(s), s[First(s)] \in Digits \cup {Minus}
  PROVE  getJsonToken(s) = ScanNumber(s, First(s))
<1>1. At(s, First(s)) = s[First(s)]
  BY AtType
<1>2. ~ (First(s) > Len(s))
  BY DEF Texts
<1>3. s[First(s)] \notin DOMAIN Punctuation /\ s[First(s)] # Quote
  BY FirstChars
<1>4. Words(s, First(s)) = {}
  <2>1. s[First(s)] \notin {110, 116, 102}
    BY FirstChars
  <2> QED BY <1>1, <2>1, KeywordStart
<1> QED BY <1>1, <1>2, <1>3, <1>4, TokenCases

\* What is no number is another token, and ends within the text.
LEMMA OtherToken ==
  ASSUME NEW s \in Texts,
         ~ (First(s) \in 1..Len(s) /\ s[First(s)] \in Digits \cup {Minus})
  PROVE  /\ getJsonToken(s).tok # "NUMBER"
         /\ getJsonToken(s).tok # "ERR" => getJsonToken(s).next <= Len(s) + 1
<1> DEFINE i == First(s)
           words == Words(s, i)
           word == CHOOSE k \in words : TRUE
<1>1. Len(s) \in Nat /\ i \in 1..(Len(s) + 1)
  BY FirstFacts DEF Texts
<1>2. \A tok, from, next : /\ Token(tok, from, next).tok = tok
                           /\ Token(tok, from, next).next = next
  BY DEF Token
<1>3. CASE i > Len(s)
  <2>1. At(s, i) = 0
    BY <1>1, <1>3, AtType
  <2>3. Words(s, i) = {} /\ 0 \notin DOMAIN Punctuation /\ 0 # Quote
    BY <1>1, <2>1, KeywordStart, PunctuationTable DEF Quote
  <2>2. getJsonToken(s) = Token("NONE", i, i)
    BY <1>3, <2>1, <2>3, NumberClasses, TokenCases
  <2> QED BY <1>1, <1>2, <2>2
<1>4. CASE i <= Len(s)
  <2>1. At(s, i) = s[i] /\ i \in 1..Len(s) /\ s[i] \notin Digits \cup {Minus} /\ ~ (i > Len(s))
    BY <1>1, <1>4, AtType
  <2>6. words # {} => s[i] \in {110, 116, 102}
    BY <1>1, <2>1, KeywordStart
  <2>7. getJsonToken(s) =
          CASE i > Len(s) -> Token("NONE", i, i)
            [] At(s, i) \in DOMAIN Punctuation -> Token(Punctuation[s[i]], i, i + 1)
            [] At(s, i) \in Digits \cup {Minus} -> ScanNumber(s, i)
            [] At(s, i) = Quote -> StringToken(s, i)
            [] words # {} -> Token(word, i, i + Len(Keywords[word]))
            [] OTHER -> Token("ERR", i, i)
    BY TokenCases, Zenon
  <2> HIDE DEF i, words, word
  <2>2. CASE s[i] \in DOMAIN Punctuation
    <3>1. getJsonToken(s) = Token(Punctuation[s[i]], i, i + 1)
      BY <2>1, <2>2, <2>6, <2>7, FirstChars
    <3>2. Punctuation[s[i]] # "NUMBER"
      BY <2>2, PunctuationTable
    <3> QED BY <1>1, <1>2, <2>1, <3>1, <3>2
  <2>3. CASE s[i] = Quote
    <3>1. getJsonToken(s) = StringToken(s, i)
      BY <2>1, <2>3, <2>6, <2>7, FirstChars
    <3> QED BY <2>1, <3>1, StringTokenFacts
  <2>4. CASE s[i] \notin DOMAIN Punctuation /\ s[i] # Quote /\ words # {}
    <3>1. getJsonToken(s) = Token(word, i, i + Len(Keywords[word]))
      BY <2>1, <2>4, <2>7
    <3>2. word \in DOMAIN Keywords /\ StartsAt(s, i, Keywords[word])
      BY <2>4 DEF words, word, Words
    <3> HIDE DEF word
    <3>3. word # "NUMBER"
      BY <3>2, KeywordTable
    <3>4. i + Len(Keywords[word]) <= Len(s) + 1
      <4>7. PICK w : w = Keywords[word]
        OBVIOUS
      <4>1. w \in Seq(1..255) /\ Len(w) > 0
        BY <3>2, <4>7, KeywordTable
      <4>6. Len(w) \in Nat /\ Len(w) > 0
        BY <4>1
      <4>2. Len(w) \in DOMAIN w /\ w[Len(w)] \in 1..255
        <5>1. DOMAIN w = 1..Len(w)
          BY <4>1
        <5>2. Len(w) \in 1..Len(w)
          BY <4>6
        <5> QED BY <4>1, <5>1, <5>2, ElementOfSeq
      <4>5. i + Len(w) - 1 \in Nat \ {0}
        BY <1>1, <4>6
      <4>3. At(s, i + Len(w) - 1) = w[Len(w)]
        BY <3>2, <4>2, <4>7 DEF StartsAt
      <4>4. i + Len(w) - 1 <= Len(s)
        <5> DEFINE j == i + Len(w) - 1
        <5>1. At(s, j) \in 1..255
          BY <4>2, <4>3, Zenon
        <5>2. j \in Nat \ {0}
          BY <4>5
        <5> HIDE DEF j
        <5>3. j <= Len(s)
          <6>1. j > Len(s) => At(s, j) = 0
            BY <5>2, AtType
          <6>2. 0 \notin 1..255
            OBVIOUS
          <6>3. ~ (j > Len(s))
            BY <5>1, <6>1, <6>2, Zenon
          <6> QED BY <1>1, <5>2, <6>3
        <5> QED BY <5>3 DEF j
      <4> QED BY <1>1, <4>4, <4>6, <4>7
    <3> QED BY <1>2, <3>1, <3>3, <3>4
  <2>5. CASE s[i] \notin DOMAIN Punctuation /\ s[i] # Quote /\ words = {}
    <3>1. getJsonToken(s) = Token("ERR", i, i)
      BY <2>1, <2>5, <2>7
    <3> QED BY <1>2, <3>1
  <2> QED BY <2>2, <2>3, <2>4, <2>5
<1> QED BY <1>1, <1>3, <1>4
\* Every token ends within the text.
LEMMA EndsWithin ==
  ASSUME NEW s \in Texts
  PROVE  getJsonToken(s).tok # "ERR" => getJsonToken(s).next <= Len(s) + 1
<1>1. CASE First(s) \in 1..Len(s) /\ s[First(s)] \in Digits \cup {Minus}
  <2> DEFINE i == First(s)
  <2>1. getJsonToken(s) = ScanNumber(s, i)
    BY <1>1, NumberToken, Zenon
  <2>2. i \in 1..Len(s) /\ Len(s) \in Nat
    BY <1>1 DEF Texts
  <2> HIDE DEF i
  <2>3. SUFFICES ASSUME Accepted(s, i) PROVE ScanNumber(s, i).next <= Len(s) + 1
    BY <2>1, ScanNumberIs
  <2>4. CASE At(s, FracEnd(s, i)) \in ExpMarks
    <3>1. ScanNumber(s, i).next = Skip(s, ExpStart(s, i), Digits)
      BY <2>3, <2>4, ScanNumberIs, Zenon
    <3>2. ExpStart(s, i) \in 1..(Len(s) + 1)
      BY <2>2, <2>4, NumberParts, Zenon
    <3>3. Skip(s, ExpStart(s, i), Digits) \in ExpStart(s, i)..(Len(s) + 1)
      BY <3>2, SkipFacts, NumberClasses, Zenon
    <3> QED BY <2>2, <3>1, <3>2, <3>3
  <2>5. CASE At(s, FracEnd(s, i)) \notin ExpMarks
    <3>1. ScanNumber(s, i).next = FracEnd(s, i)
      BY <2>3, <2>5, ScanNumberIs, Zenon
    <3>2. /\ IntEnd(s, i) \in (i + 1)..(Len(s) + 1)
          /\ FracEnd(s, i) \in IntEnd(s, i)..(Len(s) + 1)
      BY <2>2, NumberParts, Zenon
    <3> QED BY <2>2, <3>1, <3>2
  <2> QED BY <2>4, <2>5
<1>2. CASE ~ (First(s) \in 1..Len(s) /\ s[First(s)] \in Digits \cup {Minus})
  BY <1>2, OtherToken, Zenon
<1> QED BY <1>1, <1>2
-----------------------------------------------------------------------------
(* The texts of TokenSpec are bytes.                                       *)

TextOK == text \in Texts

LEMMA TextType == TokenSpec => []TextOK
<1>1. TokenInit => TextOK
  BY EmptySeq DEF TokenInit, Texts, TextOK
<1>2. ASSUME text \in Texts, [TokenNext]_tvars PROVE text' \in Texts
  <2>1. CASE Grow
    <3>1. PICK piece \in Pieces \cup StringPieces : text' = text \o piece
      BY <2>1, Zenon DEF Grow
    <3>2. piece \in Texts
      BY TokenAssumption, Zenon DEF Texts
    <3>3. text \o piece \in Seq(0..255)
      BY <1>2, <3>2, ConcatProperties DEF Texts
    <3> QED BY <3>1, <3>3, Zenon DEF Texts
  <2>2. CASE Begin \/ PushUnit \/ EndString
    BY <1>2, <2>2 DEF Begin, PushUnit, EndString
  <2>3. CASE UNCHANGED tvars
    BY <1>2, <2>3 DEF tvars
  <2> QED BY <1>2, <2>1, <2>2, <2>3 DEF TokenNext
<1>3. TextOK /\ [TokenNext]_tvars => TextOK'
  BY <1>2 DEF TextOK
<1> QED BY <1>1, <1>3, PTL DEF TokenSpec

\* No token reaches behind the text it was found in, whatever bytes it is
\* made of: keywords that are compared, and digits that are looked for, beyond
\* the end fail at the NUL there.
THEOREM NeverBeyondText == TokenSpec => []WithinText
<1>1. TextOK => WithinText
  BY EndsWithin DEF WithinText, TextOK
<1> QED BY TextType, <1>1, PTL
-----------------------------------------------------------------------------
(* The getters.                                                            *)

LEMMA ValueType ==
  ASSUME NEW s \in Seq(Digits)
  PROVE  Value(s) \in Nat
<1> DEFINE n == Len(s)
           E(f, i) == IF i = 0 THEN 0 ELSE 10 * f[i - 1] + (s[i] - 48)
           F == CHOOSE f : f = [i \in 0..Len(s) |-> E(f, i)]
<1>1. n \in Nat
  OBVIOUS
<1>2. Value(s) = F[n]
  BY Zenon DEF Value
<1>3. \A i \in 1..n : s[i] - 48 \in Nat
  BY DEF Digits
<1> HIDE DEF n
<1>4. \E f : f = [i \in 0..n |-> E(f, i)]
  <2> DEFINE h == [i \in 1..n |-> [v \in Nat |-> 10 * v + (s[i] - 48)]]
  <2>1. UpSteps(h, n, Nat)
    BY <1>3 DEF UpSteps
  <2> HIDE DEF h
  <2>2. PICK f : UpSolves(f, h, n, Nat, 0)
    BY <1>1, <2>1, Upward
  <2>3. ASSUME NEW i \in 0..n PROVE f[i] = E(f, i)
    <3>1. CASE i = 0
      BY <2>2, <3>1 DEF UpSolves
    <3>2. CASE i # 0
      <4>1. i \in 1..n /\ i - 1 \in 0..n
        BY <1>1, <3>2
      <4>2. f[i - 1] \in Nat
        BY <2>2, <4>1 DEF UpSolves
      <4>3. f[i] = h[i][f[i - 1]]
        BY <2>2, <4>1 DEF UpSolves
      <4> QED BY <3>2, <4>1, <4>2, <4>3 DEF h
    <3> QED BY <3>1, <3>2
  <2>4. f = [i \in 0..n |-> f[i]]
    BY <2>2 DEF UpSolves
  <2> QED BY <2>3, <2>4
<1>5. F = [i \in 0..n |-> E(F, i)]
  <2> HIDE DEF E
  <2> QED BY <1>4, Zenon DEF n
<1> HIDE DEF F
<1>6. \A i \in 0..n : F[i] \in Nat
  <2> DEFINE G == {i \in 0..n : F[i] \in Nat}
  <2>1. ASSUME NEW i \in 0..n, \A k \in 0..(i - 1) : k \in G
        PROVE  i \in G
    <3>1. CASE i = 0
      BY <1>5, <3>1
    <3>2. CASE i # 0
      <4>1. i \in 1..n /\ i - 1 \in 0..(i - 1)
        BY <1>1, <3>2
      <4>2. F[i - 1] \in Nat
        BY <2>1, <4>1
      <4>3. F[i] = 10 * F[i - 1] + (s[i] - 48)
        BY <1>5, <3>2
      <4> QED BY <1>3, <4>1, <4>2, <4>3
    <3> QED BY <3>1, <3>2
  <2> HIDE DEF G
  <2>2. \A i \in 0..n : i \in G
    BY <1>1, <2>1, FromLeft
  <2> QED BY <2>2 DEF G
<1> QED BY <1>1, <1>2, <1>6
\* Where strtol finds the digits of a text that begins with a digit or a minus
\* sign, and the number they are.
DigitsFrom(s) == IF s[1] = Minus THEN 2 ELSE 1
DigitsEnd(s) == Skip(s, DigitsFrom(s), Digits)
Read(s) ==
  LET size == Value(SubSeq(s, DigitsFrom(s), DigitsEnd(s) - 1))
  IN  IF s[1] = Minus THEN - size ELSE size

LEMMA StrtolIs ==
  ASSUME NEW s \in Texts, 1 \in 1..Len(s), s[1] \in Digits \cup {Minus}, NEW limit
  PROVE  strtol(s, limit) =
           CASE DigitsEnd(s) = DigitsFrom(s) -> [n |-> 0, endp |-> 1, errno |-> FALSE]
             [] Read(s) < - limit -> [n |-> - limit, endp |-> DigitsEnd(s), errno |-> TRUE]
             [] Read(s) > limit - 1 ->
                  [n |-> limit - 1, endp |-> DigitsEnd(s), errno |-> TRUE]
             [] OTHER -> [n |-> Read(s), endp |-> DigitsEnd(s), errno |-> FALSE]
<1>1. Len(s) \in Nat /\ At(s, 1) = s[1]
  BY AtType DEF Texts
<1>2. Skip(s, 1, Spaces) = 1
  <2>1. s[1] \notin Spaces
    BY DEF Digits, Minus, Spaces
  <2>2. 1 \in 1..(Len(s) + 1) /\ \A k \in 1..(1 - 1) : s[k] \in Spaces
    BY <1>1
  <2> QED BY <1>1, <2>1, <2>2, SkipIs, NumberClasses, Zenon
<1>3. At(s, 1) \in {Plus, Minus} <=> s[1] = Minus
  BY <1>1 DEF Plus, Minus, Digits
<1>4. (IF At(s, Skip(s, 1, Spaces)) \in {Plus, Minus}
       THEN Skip(s, 1, Spaces) + 1 ELSE Skip(s, 1, Spaces)) = DigitsFrom(s)
  BY <1>2, <1>3 DEF DigitsFrom
<1>5. At(s, Skip(s, 1, Spaces)) = Minus <=> s[1] = Minus
  BY <1>1, <1>2
<1> DEFINE from == IF At(s, Skip(s, 1, Spaces)) \in {Plus, Minus}
                   THEN Skip(s, 1, Spaces) + 1 ELSE Skip(s, 1, Spaces)
           n == IF At(s, Skip(s, 1, Spaces)) = Minus
                THEN - Value(SubSeq(s, from, Skip(s, from, Digits) - 1))
                ELSE Value(SubSeq(s, from, Skip(s, from, Digits) - 1))
<1>6. strtol(s, limit) =
        CASE Skip(s, from, Digits) = from -> [n |-> 0, endp |-> 1, errno |-> FALSE]
          [] n < - limit -> [n |-> - limit, endp |-> Skip(s, from, Digits), errno |-> TRUE]
          [] n > limit - 1 -> [n |-> limit - 1, endp |-> Skip(s, from, Digits), errno |-> TRUE]
          [] OTHER -> [n |-> n, endp |-> Skip(s, from, Digits), errno |-> FALSE]
  BY Zenon DEF strtol
<1>7. from = DigitsFrom(s)
  BY <1>4
<1>8. n = Read(s)
  <2> HIDE DEF from
  <2> QED BY <1>5, <1>7, Zenon DEF Read, DigitsEnd
<1> HIDE DEF from, n
<1> QED BY <1>6, <1>7, <1>8, Zenon DEF DigitsEnd
\* The digits behind the sign of an integer, if any.
LEMMA IntegerIs ==
  ASSUME NEW s \in Texts, 1 \in 1..Len(s), s[1] \in Digits \cup {Minus}, Accepted(s, 1)
  PROVE  /\ DigitsFrom(s) \in 1..(Len(s) + 1)
         /\ DigitsEnd(s) \in DigitsFrom(s)..(Len(s) + 1)
         /\ \A k \in DigitsFrom(s)..(DigitsEnd(s) - 1) : s[k] \in Digits
         /\ At(s, DigitsEnd(s)) \notin Digits
         /\ IsInteger(s) <=> DigitsEnd(s) = Len(s) + 1 /\ DigitsEnd(s) # DigitsFrom(s)
         /\ IsInteger(s) => Read(s) = IntegerOf(s) /\ Read(s) \in Int
<1> DEFINE from == DigitsFrom(s)
           end == DigitsEnd(s)
           u == Unsigned(s, {Minus})
<1>1. Len(s) \in Nat /\ DOMAIN s = 1..Len(s) /\ s # <<>> /\ Head(s) = s[1] /\ s \in Seq(0..255)
  BY DEF Texts
<1>2. from \in 1..(Len(s) + 1) /\ from \in {1, 2}
  BY <1>1 DEF DigitsFrom
<1>3. /\ end \in from..(Len(s) + 1)
      /\ \A k \in from..(end - 1) : s[k] \in Digits
      /\ At(s, end) \notin Digits
  BY <1>2, SkipFacts, NumberClasses, Zenon DEF DigitsEnd
<1>4. u = SubSeq(s, from, Len(s))
  <2>1. CASE s[1] = Minus
    <3>1. u = Tail(s) /\ from = 2
      BY <1>1, <2>1 DEF Unsigned, DigitsFrom
    <3> QED BY <1>1, <3>1, TailIsSubSeq
  <2>2. CASE s[1] # Minus
    <3>1. u = s /\ from = 1
      BY <1>1, <2>2 DEF Unsigned, DigitsFrom
    <3> QED BY <1>1, <3>1, SubSeqFull
  <2> QED BY <2>1, <2>2
<1>5. FirstDigit(s, 1) = from
  BY NumberClasses DEF FirstDigit, DigitsFrom
<1> HIDE DEF from, end, u
<1>6. /\ u \in Seq(0..255) /\ Len(u) = Len(s) + 1 - from
      /\ \A k \in 1..Len(u) : u[k] = s[from + k - 1]
  <2>1. u = [k \in 1..(Len(s) + 1 - from) |-> s[from + k - 1]]
    BY <1>1, <1>2, <1>4
  <2>2. \A k \in 1..(Len(s) + 1 - from) : s[from + k - 1] \in 0..255
    <3>1. \A k \in 1..(Len(s) + 1 - from) : from + k - 1 \in 1..Len(s)
      BY <1>1, <1>2
    <3>2. \A k \in 1..Len(s) : s[k] \in 0..255
      BY <1>1, ElementOfSeq, Zenon
    <3> QED BY <3>1, <3>2, Zenon
  <2> QED BY <1>1, <1>2, <2>1, <2>2
<1>7. ASSUME AllDigits(u) PROVE end = Len(s) + 1 /\ end # from
  <2>1. from <= Len(s)
    BY <1>1, <1>2, <1>6, <1>7 DEF AllDigits
  <2>2. ASSUME NEW k \in from..Len(s) PROVE s[k] \in Digits
    <3>1. k + 1 - from \in 1..Len(u) /\ from + (k + 1 - from) - 1 = k
      BY <1>1, <1>2, <1>6
    <3> QED BY <1>6, <1>7, <3>1 DEF AllDigits
  <2>5. end # from
    <3>1. from \in Nat \ {0} /\ At(s, from) \in Digits
      BY <1>2, <2>1, <2>2, AtType
    <3> QED BY <1>3, <3>1
  <2>3. SUFFICES ASSUME end <= Len(s) PROVE FALSE
    BY <1>1, <1>2, <1>3, <2>5
  <2>4. end \in from..Len(s) /\ end \in Nat \ {0}
    BY <1>1, <1>2, <1>3, <2>3
  <2> QED BY <1>3, <2>2, <2>3, <2>4, AtType
<1>8. ASSUME end = Len(s) + 1, end # from PROVE IsInteger(s)
  <2>1. from <= Len(s) /\ u # <<>> /\ DOMAIN u = 1..Len(u)
    BY <1>1, <1>2, <1>6, <1>8
  <2>2. \A k \in 1..Len(u) : from + k - 1 \in from..(end - 1)
    BY <1>1, <1>2, <1>6, <1>8
  <2>3. AllDigits(u)
    BY <1>3, <1>6, <2>1, <2>2 DEF AllDigits
  <2>4. ASSUME u[1] = 48 PROVE Len(u) = 1
    <3>1. At(s, from) = 48
      BY <1>1, <1>2, <1>6, <2>1, <2>4, AtType
    <3>2. At(s, from + 1) \notin Digits
      BY <1>5, <3>1 DEF Accepted
    <3>3. SUFFICES ASSUME from + 1 <= Len(s) PROVE FALSE
      BY <1>1, <1>2, <1>6, <2>1
    <3>4. At(s, from + 1) = s[from + 1]
      BY <1>2, <3>3, AtType
    <3>5. from + 1 \in from..(end - 1)
      BY <1>1, <1>2, <1>8, <3>3
    <3> QED BY <1>3, <3>2, <3>4, <3>5
  <2> QED BY <2>3, <2>4 DEF IsInteger, u
<1>9. IsInteger(s) <=> end = Len(s) + 1 /\ end # from
  BY <1>7, <1>8 DEF IsInteger, u
<1>10. ASSUME IsInteger(s) PROVE Read(s) = IntegerOf(s) /\ Read(s) \in Int
  <2>1. AllDigits(u) /\ end = Len(s) + 1
    BY <1>7, <1>10 DEF IsInteger, u
  <2>2. Value(u) \in Nat
    <3>1. u \in Seq(Digits)
      <4>1. \A k \in 1..Len(u) : u[k] \in Digits
        BY <1>6, <2>1 DEF AllDigits
      <4> QED BY <1>6, <4>1
    <3> QED BY <3>1, ValueType
  <2>3. end - 1 = Len(s)
    BY <1>1, <2>1
  <2>4. Read(s) = IF s[1] = Minus THEN - Value(u) ELSE Value(u)
    BY <1>4, <2>3, Zenon DEF Read, from, end
  <2>5. u = IF s[1] = Minus THEN Tail(s) ELSE s
    BY <1>1 DEF u, Unsigned
  <2>6. IntegerOf(s) = IF s[1] = Minus THEN - Value(u) ELSE Value(u)
    BY <1>1, <2>5 DEF IntegerOf
  <2> QED BY <2>2, <2>4, <2>6
<1> QED BY <1>2, <1>3, <1>9, <1>10 DEF from, end
\* The texts that setNumStr accepts.
LEMMA ValidNum ==
  ASSUME NEW s \in Texts, validNumStr(s)
  PROVE  /\ First(s) \in 1..Len(s)
         /\ s[First(s)] \in Digits \cup {Minus}
         /\ getJsonToken(s) = ScanNumber(s, First(s))
         /\ Accepted(s, First(s))
<1>1. First(s) \in 1..Len(s) /\ s[First(s)] \in Digits \cup {Minus}
  BY OtherToken, Zenon DEF validNumStr
<1>2. getJsonToken(s) = ScanNumber(s, First(s))
  BY <1>1, NumberToken, Zenon
<1>3. Accepted(s, First(s))
  BY <1>2, ScanNumberIs, Zenon DEF validNumStr
<1> QED BY <1>1, <1>2, <1>3

\* ParseInt by what strtol returned.
LEMMA ParseIntIs ==
  ASSUME NEW s, NEW int, NEW long, NEW end, end = strtol(s, long)
  PROVE  get_int(s, long) = ParseInt(s, IntLimit, long)
         /\ ParseInt(s, int, long) =
              IF /\ ParsePrechecks(s) /\ At(s, end.endp) = NUL
                 /\ ~ end.errno /\ end.n \in (- int)..(int - 1)
              THEN {end.n} ELSE {}
BY Zenon DEF get_int, ParseInt

LEMMA GetIntExact ==
  ASSUME NEW s \in Texts, validNumStr(s), NEW long \in LongLimits
  PROVE  get_int(s, long) =
           {n \in (- IntLimit)..(IntLimit - 1) : IsInteger(s) /\ n = IntegerOf(s)}
<1> DEFINE end == strtol(s, long)
<1>1. /\ First(s) \in 1..Len(s)
      /\ s[First(s)] \in Digits \cup {Minus}
      /\ Accepted(s, First(s))
  BY ValidNum, Zenon
<1>2. /\ Len(s) \in Nat /\ DOMAIN s = 1..Len(s) /\ s # <<>> /\ Head(s) = s[1]
      /\ IntLimit \in Nat /\ long \in Nat /\ long >= IntLimit
  BY <1>1, TokenAssumption DEF Texts
<1>3. get_int(s, long) =
        IF /\ ParsePrechecks(s) /\ At(s, end.endp) = NUL
           /\ ~ end.errno /\ end.n \in (- IntLimit)..(IntLimit - 1)
        THEN {end.n} ELSE {}
  BY ParseIntIs, Zenon
<1> HIDE DEF end
<1>4. CASE First(s) # 1
  <2>1. 1 \in 1..(First(s) - 1) /\ 1 \in 1..Len(s)
    BY <1>1, <1>2, <1>4
  <2>2. s[1] \in JsonSpaces
    BY <2>1, FirstFacts
  <2>3. ~ ParsePrechecks(s)
    BY <2>2 DEF ParsePrechecks
  <2>4. ~ IsInteger(s)
    <3>1. s[1] \notin Digits /\ s[1] # Minus
      BY <2>2 DEF JsonSpaces, Digits, Minus
    <3>2. Unsigned(s, {Minus}) = s
      BY <1>2, <3>1 DEF Unsigned
    <3> QED BY <1>2, <2>1, <3>1, <3>2 DEF IsInteger, AllDigits
  <2> QED BY <1>3, <2>3, <2>4
<1>5. CASE First(s) = 1
  <2>1. 1 \in 1..Len(s) /\ s[1] \in Digits \cup {Minus} /\ Accepted(s, 1)
    BY <1>1, <1>5
  <2>2. end = CASE DigitsEnd(s) = DigitsFrom(s) -> [n |-> 0, endp |-> 1, errno |-> FALSE]
             [] Read(s) < - long -> [n |-> - long, endp |-> DigitsEnd(s), errno |-> TRUE]
             [] Read(s) > long - 1 ->
                  [n |-> long - 1, endp |-> DigitsEnd(s), errno |-> TRUE]
             [] OTHER -> [n |-> Read(s), endp |-> DigitsEnd(s), errno |-> FALSE]
    BY <2>1, StrtolIs, Zenon DEF end
  <2>3. /\ DigitsFrom(s) \in 1..(Len(s) + 1)
        /\ DigitsEnd(s) \in DigitsFrom(s)..(Len(s) + 1)
        /\ \A k \in DigitsFrom(s)..(DigitsEnd(s) - 1) : s[k] \in Digits
        /\ At(s, DigitsEnd(s)) \notin Digits
        /\ IsInteger(s) <=> DigitsEnd(s) = Len(s) + 1 /\ DigitsEnd(s) # DigitsFrom(s)
        /\ IsInteger(s) => Read(s) = IntegerOf(s) /\ Read(s) \in Int
    BY <2>1, IntegerIs, Zenon
  <2>4. ASSUME ParsePrechecks(s), NEW k \in Nat \ {0}, At(s, k) = NUL PROVE k > Len(s)
    BY <1>2, <2>4, AtType DEF ParsePrechecks
  <2>5. CASE ~ IsInteger(s)
    <3>1. SUFFICES ASSUME ParsePrechecks(s), At(s, end.endp) = NUL, ~ end.errno PROVE FALSE
      BY <1>3, <2>5
    <3>2. CASE DigitsEnd(s) = DigitsFrom(s)
      <4>1. end = [n |-> 0, endp |-> 1, errno |-> FALSE]
        BY <2>2, <3>1, <3>2
      <4>2. end.endp = 1
        BY <4>1
      <4> QED BY <1>2, <2>1, <2>4, <3>1, <4>2
    <3>3. CASE DigitsEnd(s) # DigitsFrom(s)
      <4>1. end.endp = DigitsEnd(s)
        BY <2>2, <3>3
      <4>2. DigitsEnd(s) \in Nat \ {0} /\ DigitsEnd(s) <= Len(s) + 1
        BY <1>2, <2>3
      <4>3. DigitsEnd(s) > Len(s)
        BY <2>4, <3>1, <4>1, <4>2
      <4> QED BY <1>2, <2>3, <2>5, <3>3, <4>2, <4>3
    <3> QED BY <3>2, <3>3
  <2>6. CASE IsInteger(s)
    <3>1. DigitsEnd(s) = Len(s) + 1 /\ DigitsEnd(s) # DigitsFrom(s)
          /\ Read(s) = IntegerOf(s) /\ Read(s) \in Int
      BY <2>3, <2>6
    <3>2. ParsePrechecks(s)
      <4>1. Len(s) \in DigitsFrom(s)..(DigitsEnd(s) - 1)
        BY <1>2, <2>3, <3>1
      <4>2. s[Len(s)] \in Digits
        BY <2>3, <4>1
      <4>3. s[Len(s)] \notin JsonSpaces /\ s[1] \notin JsonSpaces
        BY <2>1, <4>2 DEF Digits, JsonSpaces, Minus
      <4>4. ASSUME NEW k \in DOMAIN s PROVE s[k] # NUL
        <5>1. CASE k = 1
          BY <2>1, <5>1 DEF Digits, Minus, NUL
        <5>2. CASE k # 1
          <6>1. DigitsFrom(s) \in {1, 2}
            BY DEF DigitsFrom
          <6>2. k \in DigitsFrom(s)..(DigitsEnd(s) - 1)
            BY <1>2, <2>3, <3>1, <5>2, <6>1
          <6>3. s[k] \in Digits
            BY <2>3, <6>2
          <6> QED BY <6>3 DEF Digits, NUL
        <5> QED BY <5>1, <5>2
      <4> QED BY <1>2, <4>3, <4>4 DEF ParsePrechecks
    <3>3. At(s, DigitsEnd(s)) = NUL
      BY <1>2, <3>1, AtType DEF NUL
    <3>4. CASE Read(s) < - long
      <4>1. end = [n |-> - long, endp |-> DigitsEnd(s), errno |-> TRUE]
        BY <1>2, <2>2, <3>1, <3>4
      <4>2. Read(s) \notin (- IntLimit)..(IntLimit - 1)
        BY <1>2, <3>1, <3>4
      <4> QED BY <1>3, <3>1, <4>1, <4>2
    <3>5. CASE Read(s) > long - 1
      <4>1. end = [n |-> long - 1, endp |-> DigitsEnd(s), errno |-> TRUE]
        BY <1>2, <2>2, <3>1, <3>5
      <4>2. Read(s) \notin (- IntLimit)..(IntLimit - 1)
        BY <1>2, <3>1, <3>5
      <4> QED BY <1>3, <3>1, <4>1, <4>2
    <3>6. CASE ~ (Read(s) < - long) /\ ~ (Read(s) > long - 1)
      <4>1. end = [n |-> Read(s), endp |-> DigitsEnd(s), errno |-> FALSE]
        BY <2>2, <3>1, <3>6
      <4>2. get_int(s, long) = IF Read(s) \in (- IntLimit)..(IntLimit - 1)
                               THEN {Read(s)} ELSE {}
        BY <1>3, <3>2, <3>3, <4>1
      <4> QED BY <2>6, <3>1, <4>2
    <3> QED BY <3>4, <3>5, <3>6
  <2> QED BY <2>5, <2>6
<1> QED BY <1>4, <1>5

\* get_int is exact: of a value that setNumStr accepted it returns the integer
\* the text says if it is one in the range of int, and throws otherwise, for
\* any widths of int and long.
THEOREM GettersExact == TokenSpec => []IntegersExact
<1>1. TextOK => IntegersExact
  BY GetIntExact DEF TextOK, IntegersExact
<1> QED BY TextType, <1>1, PTL
-----------------------------------------------------------------------------
(* The grammar of numbers, in terms of places of a text.                   *)

LEMMA Part ==
  ASSUME NEW s \in Texts, NEW a \in 1..(Len(s) + 1), NEW b \in (a - 1)..Len(s)
  PROVE  /\ SubSeq(s, a, b) \in Texts
         /\ Len(SubSeq(s, a, b)) = b + 1 - a
         /\ \A k \in 1..(b + 1 - a) : SubSeq(s, a, b)[k] = s[a + k - 1]
<1>1. Len(s) \in Nat /\ s \in Seq(0..255)
  BY DEF Texts
<1>2. \A k \in 1..Len(s) : s[k] \in 0..255
  BY <1>1, ElementOfSeq, Zenon
<1>3. \A k \in a..b : s[k] \in 0..255
  <2>1. \A k \in a..b : k \in 1..Len(s)
    BY <1>1
  <2> QED BY <1>2, <2>1, Zenon
<1>4. a \in Int /\ b \in Int
  BY <1>1
<1>5. /\ SubSeq(s, a, b) \in Seq(0..255)
      /\ Len(SubSeq(s, a, b)) = IF a <= b THEN b - a + 1 ELSE 0
      /\ \A k \in 1..(b - a + 1) : SubSeq(s, a, b)[k] = s[a + k - 1]
  BY <1>3, <1>4, SubSeqProperties
<1>6. b - a + 1 = b + 1 - a
  BY <1>4
<1> QED BY <1>1, <1>4, <1>5, <1>6 DEF Texts

LEMMA PartHeadTail ==
  ASSUME NEW s \in Texts, NEW a \in 1..(Len(s) + 1), NEW b \in (a - 1)..Len(s)
  PROVE  /\ SubSeq(s, a, b) = <<>> <=> b < a
         /\ a <= b => /\ Head(SubSeq(s, a, b)) = s[a]
                      /\ Tail(SubSeq(s, a, b)) = SubSeq(s, a + 1, b)
                      /\ a + 1 \in 1..(Len(s) + 1) /\ b \in (a + 1 - 1)..Len(s)
<1>1. Len(s) \in Nat /\ s \in Seq(0..255)
  BY DEF Texts
<1>2. Len(SubSeq(s, a, b)) = b + 1 - a /\ SubSeq(s, a, b) \in Seq(0..255)
  BY Part DEF Texts
<1>3. ASSUME a <= b
      PROVE  /\ Head(SubSeq(s, a, b)) = s[a]
             /\ Tail(SubSeq(s, a, b)) = SubSeq(s, a + 1, b)
  <2>1. a \in 1..Len(s) /\ b \in a..Len(s)
    BY <1>1, <1>3
  <2> QED BY <1>1, <2>1, HeadTailOfSubSeq, Zenon
<1>4. SubSeq(s, a, b) = <<>> <=> b < a
  <2>1. SubSeq(s, a, b) = <<>> <=> Len(SubSeq(s, a, b)) = 0
    BY <1>2, EmptySeq
  <2>2. a \in Nat /\ b \in Int
    BY <1>1
  <2>3. b + 1 - a = 0 <=> b < a
    BY <1>1
  <2> QED BY <1>2, <2>1, <2>3, Zenon
<1>5. a <= b => a + 1 \in 1..(Len(s) + 1) /\ b \in (a + 1 - 1)..Len(s)
  BY <1>1
<1> QED BY <1>3, <1>4, <1>5

LEMMA PartOfPart ==
  ASSUME NEW s \in Texts, NEW a \in 1..(Len(s) + 1), NEW b \in (a - 1)..Len(s),
         NEW p \in a..(b + 1), NEW q \in (p - 1)..b
  PROVE  SubSeq(SubSeq(s, a, b), p - a + 1, q - a + 1) = SubSeq(s, p, q)
<1> DEFINE t == SubSeq(s, a, b)
<1>1. Len(s) \in Nat
  BY DEF Texts
<1>2. t \in Texts /\ Len(t) = b + 1 - a /\ \A k \in 1..(b + 1 - a) : t[k] = s[a + k - 1]
  BY Part, Zenon
<1> HIDE DEF t
<1>3. /\ p - a + 1 \in 1..(Len(t) + 1) /\ q - a + 1 \in (p - a + 1 - 1)..Len(t)
      /\ p \in 1..(Len(s) + 1) /\ q \in (p - 1)..Len(s)
      /\ q - a + 1 + 1 - (p - a + 1) = q + 1 - p
  BY <1>1, <1>2
<1>4. /\ SubSeq(t, p - a + 1, q - a + 1) \in Texts
      /\ Len(SubSeq(t, p - a + 1, q - a + 1)) = q + 1 - p
      /\ \A k \in 1..(q + 1 - p) : SubSeq(t, p - a + 1, q - a + 1)[k] = t[p - a + 1 + k - 1]
  <2> DEFINE c == p - a + 1
             d == q - a + 1
  <2>1. /\ c \in 1..(Len(t) + 1) /\ d \in (c - 1)..Len(t)
        /\ d + 1 - c = q + 1 - p
    BY <1>3
  <2>2. t \in Texts
    BY <1>2
  <2> HIDE DEF c, d
  <2>3. /\ SubSeq(t, c, d) \in Texts
        /\ Len(SubSeq(t, c, d)) = d + 1 - c
        /\ \A k \in 1..(d + 1 - c) : SubSeq(t, c, d)[k] = t[c + k - 1]
    BY <2>1, <2>2, Part, Zenon
  <2> QED BY <2>1, <2>3, Zenon DEF c, d
<1>5. /\ SubSeq(s, p, q) \in Texts
      /\ Len(SubSeq(s, p, q)) = q + 1 - p
      /\ \A k \in 1..(q + 1 - p) : SubSeq(s, p, q)[k] = s[p + k - 1]
  BY <1>3, Part, Zenon
<1>6. ASSUME NEW k \in 1..(q + 1 - p) PROVE t[p - a + 1 + k - 1] = s[p + k - 1]
  <2>1. p - a + 1 + k - 1 \in 1..(b + 1 - a) /\ a + (p - a + 1 + k - 1) - 1 = p + k - 1
    BY <1>1
  <2> QED BY <1>2, <2>1
<1> DEFINE x == SubSeq(t, p - a + 1, q - a + 1)
           y == SubSeq(s, p, q)
<1>7. x \in Seq(0..255) /\ y \in Seq(0..255) /\ Len(x) = Len(y)
  BY <1>4, <1>5 DEF Texts
<1>8. \A k \in 1..Len(x) : x[k] = y[k]
  BY <1>4, <1>5, <1>6
<1> HIDE DEF x, y
<1>9. x = y
  BY <1>7, <1>8, SeqEqual
<1> QED BY <1>9 DEF x, y, t

AllDigitsFrom(s, a, b) == a <= b /\ \A k \in a..b : s[k] \in Digits

LEMMA AllDigitsAt ==
  ASSUME NEW s \in Texts, NEW a \in 1..(Len(s) + 1), NEW b \in (a - 1)..Len(s)
  PROVE  AllDigits(SubSeq(s, a, b)) <=> AllDigitsFrom(s, a, b)
<1> DEFINE t == SubSeq(s, a, b)
<1>1. Len(s) \in Nat
  BY DEF Texts
<1>2. t \in Texts /\ Len(t) = b + 1 - a /\ \A k \in 1..(b + 1 - a) : t[k] = s[a + k - 1]
  BY Part, Zenon
<1>3. t = <<>> <=> b < a
  BY PartHeadTail, Zenon
<1> HIDE DEF t
<1>4. DOMAIN t = 1..(b + 1 - a)
  BY <1>2 DEF Texts
<1>5. ASSUME AllDigits(t) PROVE AllDigitsFrom(s, a, b)
  <2>1. ASSUME NEW k \in a..b PROVE s[k] \in Digits
    <3>1. k - a + 1 \in 1..(b + 1 - a) /\ a + (k - a + 1) - 1 = k
      BY <1>1
    <3> QED BY <1>2, <1>4, <1>5, <3>1 DEF AllDigits
  <2> QED BY <1>1, <1>3, <1>5, <2>1 DEF AllDigits, AllDigitsFrom
<1>6. ASSUME AllDigitsFrom(s, a, b) PROVE AllDigits(t)
  <2>1. \A k \in 1..(b + 1 - a) : a + k - 1 \in a..b
    BY <1>1
  <2> QED BY <1>1, <1>2, <1>3, <1>4, <1>6, <2>1 DEF AllDigits, AllDigitsFrom
<1> QED BY <1>5, <1>6 DEF t
Behind(s, a, b, signs) == IF a <= b /\ s[a] \in signs THEN a + 1 ELSE a

LEMMA UnsignedAt ==
  ASSUME NEW s \in Texts, NEW a \in 1..(Len(s) + 1), NEW b \in (a - 1)..Len(s), NEW signs
  PROVE  /\ Unsigned(SubSeq(s, a, b), signs) = SubSeq(s, Behind(s, a, b, signs), b)
         /\ Behind(s, a, b, signs) \in 1..(Len(s) + 1)
         /\ b \in (Behind(s, a, b, signs) - 1)..Len(s)
<1>1. Len(s) \in Nat
  BY DEF Texts
<1>2. CASE a <= b /\ s[a] \in signs
  <2>1. Behind(s, a, b, signs) = a + 1
    BY <1>2 DEF Behind
  <2>2. SubSeq(s, a, b) # <<>>
    <3>1. ~ (b < a)
      BY <1>1, <1>2
    <3> QED BY <3>1, PartHeadTail, Zenon
  <2>3. /\ Head(SubSeq(s, a, b)) = s[a]
        /\ Tail(SubSeq(s, a, b)) = SubSeq(s, a + 1, b)
        /\ a + 1 \in 1..(Len(s) + 1) /\ b \in (a + 1 - 1)..Len(s)
    BY <1>2, PartHeadTail, Zenon
  <2>4. Unsigned(SubSeq(s, a, b), signs) = Tail(SubSeq(s, a, b))
    BY <1>2, <2>2, <2>3, Zenon DEF Unsigned
  <2> QED BY <2>1, <2>3, <2>4
<1>3. CASE ~ (a <= b /\ s[a] \in signs)
  <2>1. Behind(s, a, b, signs) = a
    BY <1>3 DEF Behind
  <2>2. ~ (SubSeq(s, a, b) # <<>> /\ Head(SubSeq(s, a, b)) \in signs)
    <3>1. CASE a <= b
      BY <1>3, <3>1, PartHeadTail, Zenon
    <3>2. CASE ~ (a <= b)
      <4>1. b < a
        BY <1>1, <3>2
      <4> QED BY <4>1, PartHeadTail, Zenon
    <3> QED BY <3>1, <3>2
  <2> QED BY <2>1, <2>2, Zenon DEF Unsigned
<1> QED BY <1>2, <1>3

LEMMA IsIntegerAt ==
  ASSUME NEW s \in Texts, NEW a \in 1..(Len(s) + 1), NEW b \in (a - 1)..Len(s),
         NEW d, d = Behind(s, a, b, {Minus})
  PROVE  IsInteger(SubSeq(s, a, b)) <=> AllDigitsFrom(s, d, b) /\ (s[d] = 48 => d = b)
<1>1. /\ Unsigned(SubSeq(s, a, b), {Minus}) = SubSeq(s, d, b)
      /\ d \in 1..(Len(s) + 1)
      /\ b \in (d - 1)..Len(s)
  BY UnsignedAt, Zenon
<1>2. Len(s) \in Nat
  BY DEF Texts
<1>3. AllDigits(SubSeq(s, d, b)) <=> AllDigitsFrom(s, d, b)
  BY <1>1, AllDigitsAt, Zenon
<1>4. ASSUME d <= b PROVE SubSeq(s, d, b)[1] = s[d] /\ (Len(SubSeq(s, d, b)) = 1 <=> d = b)
  <2>1. /\ Len(SubSeq(s, d, b)) = b + 1 - d
        /\ \A k \in 1..(b + 1 - d) : SubSeq(s, d, b)[k] = s[d + k - 1]
    BY <1>1, Part, Zenon
  <2>2. 1 \in 1..(b + 1 - d) /\ d + 1 - 1 = d /\ (b + 1 - d = 1 <=> d = b)
    BY <1>1, <1>2, <1>4
  <2>3. SubSeq(s, d, b)[1] = s[d + 1 - 1]
    BY <2>1, <2>2, Zenon
  <2> QED BY <2>1, <2>2, <2>3, Zenon
<1>5. IsInteger(SubSeq(s, a, b)) <=>
        /\ AllDigits(SubSeq(s, d, b))
        /\ SubSeq(s, d, b)[1] = 48 => Len(SubSeq(s, d, b)) = 1
  BY <1>1, Zenon DEF IsInteger
<1> QED BY <1>3, <1>4, <1>5, Zenon DEF AllDigitsFrom

LEMMA IntegerAt ==
  ASSUME NEW s \in Texts, NEW a \in 1..(Len(s) + 1), NEW b \in (a - 1)..Len(s),
         IsInteger(SubSeq(s, a, b))
  PROVE  /\ AllDigitsFrom(s, Behind(s, a, b, {Minus}), b)
         /\ s[Behind(s, a, b, {Minus})] = 48 => Behind(s, a, b, {Minus}) = b
<1>1. PICK d : d = Behind(s, a, b, {Minus})
  OBVIOUS
<1>2. AllDigitsFrom(s, d, b) /\ (s[d] = 48 => d = b)
  BY <1>1, IsIntegerAt
<1> QED BY <1>1, <1>2, Zenon

LEMMA IsFracAt ==
  ASSUME NEW s \in Texts, NEW a \in 1..(Len(s) + 1), NEW b \in (a - 1)..Len(s)
  PROVE  IsFrac(SubSeq(s, a, b)) <=>
           b < a \/ (a <= b /\ s[a] = Dot /\ AllDigitsFrom(s, a + 1, b))
<1>1. Len(s) \in Nat
  BY DEF Texts
<1>2. CASE b < a
  <2>1. SubSeq(s, a, b) = <<>>
    BY <1>2, PartHeadTail, Zenon
  <2> QED BY <1>2, <2>1, Zenon DEF IsFrac
<1>3. CASE ~ (b < a)
  <2>1. a <= b
    BY <1>1, <1>3
  <2>2. /\ SubSeq(s, a, b) # <<>>
        /\ Head(SubSeq(s, a, b)) = s[a]
        /\ Tail(SubSeq(s, a, b)) = SubSeq(s, a + 1, b)
        /\ a + 1 \in 1..(Len(s) + 1) /\ b \in (a + 1 - 1)..Len(s)
    BY <1>3, <2>1, PartHeadTail, Zenon
  <2>3. AllDigits(SubSeq(s, a + 1, b)) <=> AllDigitsFrom(s, a + 1, b)
    <3>1. PICK e : e = a + 1
      OBVIOUS
    <3>2. e \in 1..(Len(s) + 1) /\ b \in (e - 1)..Len(s)
      BY <1>1, <2>1, <3>1
    <3>3. AllDigits(SubSeq(s, e, b)) <=> AllDigitsFrom(s, e, b)
      BY <3>2, AllDigitsAt, Zenon
    <3> QED BY <3>1, <3>3, Zenon
  <2> QED BY <1>3, <2>1, <2>2, <2>3, Zenon DEF IsFrac
<1> QED BY <1>2, <1>3

LEMMA IsExpAt ==
  ASSUME NEW s \in Texts, NEW a \in 1..(Len(s) + 1), NEW b \in (a - 1)..Len(s),
         NEW d, d = Behind(s, a + 1, b, {Plus, Minus})
  PROVE  IsExp(SubSeq(s, a, b)) <=>
           b < a \/ (a <= b /\ s[a] \in ExpMarks /\ AllDigitsFrom(s, d, b))
<1>1. Len(s) \in Nat
  BY DEF Texts
<1>2. CASE b < a
  <2>1. SubSeq(s, a, b) = <<>>
    BY <1>2, PartHeadTail, Zenon
  <2> QED BY <1>2, <2>1, Zenon DEF IsExp
<1>3. CASE ~ (b < a)
  <2>1. a <= b
    BY <1>1, <1>3
  <2>2. /\ SubSeq(s, a, b) # <<>>
        /\ Head(SubSeq(s, a, b)) = s[a]
        /\ Tail(SubSeq(s, a, b)) = SubSeq(s, a + 1, b)
        /\ a + 1 \in 1..(Len(s) + 1) /\ b \in (a + 1 - 1)..Len(s)
    BY <1>3, <2>1, PartHeadTail, Zenon
  <2>3. /\ Unsigned(SubSeq(s, a + 1, b), {Plus, Minus}) = SubSeq(s, d, b)
        /\ d \in 1..(Len(s) + 1)
        /\ b \in (d - 1)..Len(s)
    <3>1. PICK e : e = a + 1
      OBVIOUS
    <3>2. /\ e \in 1..(Len(s) + 1) /\ b \in (e - 1)..Len(s)
          /\ d = Behind(s, e, b, {Plus, Minus})
      BY <1>1, <2>1, <3>1
    <3> DEFINE r == Behind(s, e, b, {Plus, Minus})
    <3>4. /\ Unsigned(SubSeq(s, e, b), {Plus, Minus}) = SubSeq(s, r, b)
          /\ r \in 1..(Len(s) + 1)
          /\ b \in (r - 1)..Len(s)
      BY <3>2, UnsignedAt, Zenon
    <3> HIDE DEF r
    <3>3. /\ Unsigned(SubSeq(s, e, b), {Plus, Minus}) = SubSeq(s, d, b)
          /\ d \in 1..(Len(s) + 1)
          /\ b \in (d - 1)..Len(s)
      BY <3>2, <3>4, Zenon DEF r
    <3> QED BY <3>1, <3>3, Zenon
  <2>4. AllDigits(SubSeq(s, d, b)) <=> AllDigitsFrom(s, d, b)
    BY <2>3, AllDigitsAt, Zenon
  <2> QED BY <1>3, <2>1, <2>2, <2>3, <2>4, Zenon DEF IsExp
<1> QED BY <1>2, <1>3

\* A number from a to b: an integer up to p, a fraction up to q.
Parts3(s, a, b, p, q) ==
  /\ IsInteger(SubSeq(s, a, p - 1))
  /\ IsFrac(SubSeq(s, p, q - 1))
  /\ IsExp(SubSeq(s, q, b))

LEMMA IsNumberAt ==
  ASSUME NEW s \in Texts, NEW a \in 1..(Len(s) + 1), NEW b \in (a - 1)..Len(s)
  PROVE  IsNumber(SubSeq(s, a, b)) <=>
           \E p \in a..(b + 1) : \E q \in p..(b + 1) : Parts3(s, a, b, p, q)
<1> DEFINE t == SubSeq(s, a, b)
<1>1. Len(s) \in Nat
  BY DEF Texts
<1>2. Len(t) = b + 1 - a
  BY Part, Zenon
<1>3. ASSUME NEW p \in a..(b + 1), NEW q \in p..(b + 1)
      PROVE  /\ SubSeq(t, 1, p - a) = SubSeq(s, a, p - 1)
             /\ SubSeq(t, p - a + 1, q - a) = SubSeq(s, p, q - 1)
             /\ SubSeq(t, q - a + 1, Len(t)) = SubSeq(s, q, b)
  <2>1. /\ a \in a..(b + 1) /\ p - 1 \in (a - 1)..b
        /\ p \in a..(b + 1) /\ q - 1 \in (p - 1)..b
        /\ q \in a..(b + 1) /\ b \in (q - 1)..b
        /\ a - a + 1 = 1 /\ p - 1 - a + 1 = p - a /\ q - 1 - a + 1 = q - a
        /\ b - a + 1 = b + 1 - a
    BY <1>1
  <2>2. /\ SubSeq(t, a - a + 1, p - 1 - a + 1) = SubSeq(s, a, p - 1)
        /\ SubSeq(t, p - a + 1, q - 1 - a + 1) = SubSeq(s, p, q - 1)
        /\ SubSeq(t, q - a + 1, b - a + 1) = SubSeq(s, q, b)
    BY <2>1, PartOfPart, Zenon
  <2> QED BY <1>2, <2>1, <2>2, Zenon
<1>4. ASSUME NEW p \in a..(b + 1), NEW q \in p..(b + 1), Parts3(s, a, b, p, q)
      PROVE  IsNumber(t)
  <2>1. /\ IsInteger(SubSeq(t, 1, p - a))
        /\ IsFrac(SubSeq(t, p - a + 1, q - a))
        /\ IsExp(SubSeq(t, q - a + 1, Len(t)))
    BY <1>3, <1>4, Zenon DEF Parts3
  <2>2. p - a \in 0..Len(t) /\ q - a \in 0..Len(t) /\ p - a <= q - a
    BY <1>1, <1>2
  <2> QED BY <2>1, <2>2, Zenon DEF IsNumber
<1>5. ASSUME IsNumber(t)
      PROVE  \E p \in a..(b + 1) : \E q \in p..(b + 1) : Parts3(s, a, b, p, q)
  <2>1. PICK i \in 0..Len(t), j \in 0..Len(t) :
          /\ i <= j
          /\ IsInteger(SubSeq(t, 1, i))
          /\ IsFrac(SubSeq(t, i + 1, j))
          /\ IsExp(SubSeq(t, j + 1, Len(t)))
    BY <1>5, Zenon DEF IsNumber
  <2> DEFINE p == a + i
             q == a + j
  <2>2. p \in a..(b + 1) /\ q \in p..(b + 1) /\ i = p - a /\ j = q - a
    BY <1>1, <1>2, <2>1
  <2> HIDE DEF p, q
  <2>3. Parts3(s, a, b, p, q)
    BY <1>3, <2>1, <2>2, Zenon DEF Parts3
  <2> QED BY <2>2, <2>3, Zenon
<1> HIDE DEF t
<1> QED BY <1>4, <1>5, Zenon DEF t
-----------------------------------------------------------------------------
(* The number branch against the grammar.                                  *)

\* The end of an accepted number.
NumberEnd(s, i) ==
  IF At(s, FracEnd(s, i)) \in ExpMarks THEN Skip(s, ExpStart(s, i), Digits) ELSE FracEnd(s, i)

\* What ScanNumber takes is a number, if it is more than a sign.
LEMMA TakenIsNumber ==
  ASSUME NEW s \in Texts, NEW i \in 1..Len(s), s[i] \in Digits \cup {Minus}, Accepted(s, i),
         ~ (s[i] = Minus /\ i = Len(s))
  PROVE  /\ NumberEnd(s, i) \in (i + 1)..(Len(s) + 1)
         /\ IsNumber(SubSeq(s, i, NumberEnd(s, i) - 1))
<1> DEFINE int == IntEnd(s, i)
           frac == FracEnd(s, i)
           exp == ExpStart(s, i)
           end == NumberEnd(s, i)
           d == FirstDigit(s, i)
<1>1. Len(s) \in Nat
  BY DEF Texts
<1>2. /\ int \in (i + 1)..(Len(s) + 1)
      /\ \A k \in (i + 1)..(int - 1) : s[k] \in Digits
      /\ At(s, int) \notin Digits
      /\ frac \in int..(Len(s) + 1)
      /\ At(s, int) # Dot => frac = int
      /\ At(s, int) = Dot =>
           /\ frac \in (int + 1)..(Len(s) + 1)
           /\ \A k \in (int + 1)..(frac - 1) : s[k] \in Digits
      /\ At(s, frac) \in ExpMarks =>
           /\ exp \in 1..(Len(s) + 1)
           /\ exp \in {frac + 1, frac + 2}
  BY NumberParts, Zenon
<1>3. exp = IF At(s, frac + 1) \in {Plus, Minus} THEN frac + 2 ELSE frac + 1
  BY Zenon DEF ExpStart
<1>4. end = IF At(s, frac) \in ExpMarks THEN Skip(s, exp, Digits) ELSE frac
  BY Zenon DEF NumberEnd
<1>5. /\ ~ (At(s, d) = 48 /\ At(s, d + 1) \in Digits)
      /\ s[i] = Minus /\ i < Len(s) => s[i + 1] \in Digits
      /\ At(s, int) = Dot => frac # int + 1
      /\ At(s, frac) \in ExpMarks => At(s, exp) \in Digits
  BY Zenon DEF Accepted
<1>6. d = IF s[i] \in Digits THEN i ELSE i + 1
  BY DEF FirstDigit
<1> HIDE DEF int, frac, exp, end, d
<1>7. /\ AllDigitsFrom(s, d, int - 1)
      /\ s[d] = 48 => d = int - 1
      /\ d = Behind(s, i, int - 1, {Minus})
  <2>1. d = Behind(s, i, int - 1, {Minus})
    <3>1. i <= int - 1
      BY <1>1, <1>2
    <3> QED BY <1>6, <3>1, NumberClasses DEF Behind
  <2>2. d \in 1..Len(s) /\ s[d] \in Digits
    <3>1. CASE s[i] \in Digits
      BY <1>1, <1>6, <3>1
    <3>2. CASE s[i] \notin Digits
      <4>1. s[i] = Minus /\ i < Len(s) /\ d = i + 1
        BY <1>1, <1>6, <3>2
      <4> QED BY <1>1, <1>5, <4>1
    <3> QED BY <3>1, <3>2
  <2>3. d <= int - 1
    <3>1. d # int
      BY <1>1, <1>2, <2>2, AtType
    <3> QED BY <1>1, <1>2, <1>6, <3>1
  <2>4. \A k \in d..(int - 1) : s[k] \in Digits
    <3>1. \A k \in d..(int - 1) : k = d \/ k \in (i + 1)..(int - 1)
      BY <1>1, <1>2, <1>6
    <3> QED BY <1>2, <2>2, <3>1, Zenon
  <2>5. ASSUME s[d] = 48 PROVE d = int - 1
    <3>1. At(s, d) = 48
      BY <2>2, <2>5, AtType
    <3>2. At(s, d + 1) \notin Digits
      BY <1>5, <3>1
    <3>3. SUFFICES ASSUME d + 1 <= int - 1 PROVE FALSE
      BY <1>1, <1>2, <2>2, <2>3
    <3>4. d + 1 \in d..(int - 1) /\ d + 1 \in Nat \ {0} /\ d + 1 <= Len(s)
      BY <1>1, <1>2, <2>2, <3>3
    <3>5. At(s, d + 1) = s[d + 1]
      BY <3>4, AtType
    <3> QED BY <2>4, <3>2, <3>4, <3>5
  <2> QED BY <2>1, <2>3, <2>4, <2>5 DEF AllDigitsFrom
<1>8. IsInteger(SubSeq(s, i, int - 1))
  <2>1. i \in 1..(Len(s) + 1) /\ int - 1 \in (i - 1)..Len(s)
    BY <1>1, <1>2
  <2>2. PICK b : b = int - 1
    OBVIOUS
  <2>3. /\ b \in (i - 1)..Len(s) /\ d = Behind(s, i, b, {Minus})
        /\ AllDigitsFrom(s, d, b) /\ (s[d] = 48 => d = b)
    BY <1>7, <2>1, <2>2, Zenon
  <2>4. IsInteger(SubSeq(s, i, b))
    BY <2>1, <2>3, IsIntegerAt
  <2> QED BY <2>2, <2>4, Zenon
<1>9. IsFrac(SubSeq(s, int, frac - 1))
  <2>1. int \in 1..(Len(s) + 1) /\ frac - 1 \in (int - 1)..Len(s)
    BY <1>1, <1>2
  <2>2. CASE At(s, int) # Dot
    <3>1. frac - 1 < int
      BY <1>1, <1>2, <2>2
    <3> QED BY <2>1, <3>1, IsFracAt, Zenon
  <2>3. CASE At(s, int) = Dot
    <3>1. int \in Nat \ {0} /\ int <= Len(s)
      BY <1>1, <1>2, <2>1, <2>3, AtType, NumberClasses
    <3>2. s[int] = Dot
      BY <2>3, <3>1, AtType
    <3>3. int <= frac - 1 /\ AllDigitsFrom(s, int + 1, frac - 1)
      BY <1>1, <1>2, <1>5, <2>3 DEF AllDigitsFrom
    <3> QED BY <2>1, <3>2, <3>3, IsFracAt, Zenon
  <2> QED BY <2>2, <2>3
<1>10. end \in frac..(Len(s) + 1) /\ IsExp(SubSeq(s, frac, end - 1))
  <2>1. CASE At(s, frac) \notin ExpMarks
    <3>1. end = frac /\ end - 1 < frac
      BY <1>1, <1>2, <1>4, <2>1
    <3>2. frac \in 1..(Len(s) + 1) /\ end - 1 \in (frac - 1)..Len(s)
      BY <1>1, <1>2, <3>1
    <3>3. IsExp(SubSeq(s, frac, end - 1))
      BY <3>1, <3>2, IsExpAt, Zenon
    <3> QED BY <1>2, <3>1, <3>3
  <2>2. CASE At(s, frac) \in ExpMarks
    <3>1. frac \in Nat \ {0} /\ frac <= Len(s)
      BY <1>1, <1>2, <2>2, AtType, NumberClasses
    <3>2. exp \in 1..(Len(s) + 1) /\ exp \in {frac + 1, frac + 2} /\ At(s, exp) \in Digits
      BY <1>2, <1>5, <2>2
    <3>3. end = Skip(s, exp, Digits)
      BY <1>4, <2>2
    <3>4. /\ end \in exp..(Len(s) + 1)
          /\ \A k \in exp..(end - 1) : s[k] \in Digits
          /\ At(s, end) \notin Digits
      BY <3>2, <3>3, SkipFacts, NumberClasses, Zenon
    <3>5. end # exp
      BY <3>2, <3>4
    <3>6. AllDigitsFrom(s, exp, end - 1)
      BY <1>1, <3>1, <3>2, <3>4, <3>5 DEF AllDigitsFrom
    <3>7. exp = Behind(s, frac + 1, end - 1, {Plus, Minus})
      <4>1. frac + 1 <= end - 1 /\ frac + 1 \in Nat \ {0} /\ frac + 1 <= Len(s)
        BY <1>1, <3>1, <3>2, <3>4, <3>5
      <4>2. At(s, frac + 1) = s[frac + 1]
        BY <4>1, AtType
      <4>3. frac + 1 + 1 = frac + 2
        BY <3>1
      <4> QED BY <1>3, <4>1, <4>2, <4>3 DEF Behind
    <3>8. frac \in 1..(Len(s) + 1) /\ end - 1 \in (frac - 1)..Len(s) /\ frac <= end - 1
          /\ end \in frac..(Len(s) + 1)
      BY <1>1, <3>1, <3>2, <3>4, <3>5
    <3>9. s[frac] \in ExpMarks
      BY <2>2, <3>1, AtType
    <3>10. IsExp(SubSeq(s, frac, end - 1))
      BY <3>6, <3>7, <3>8, <3>9, IsExpAt, Zenon
    <3> QED BY <3>8, <3>10
  <2> QED BY <2>1, <2>2
<1>11. end \in (i + 1)..(Len(s) + 1)
  BY <1>1, <1>2, <1>10
<1>12. IsNumber(SubSeq(s, i, end - 1))
  <2>1. /\ i \in 1..(Len(s) + 1) /\ end - 1 \in (i - 1)..Len(s)
        /\ int \in i..(end - 1 + 1) /\ frac \in int..(end - 1 + 1)
    BY <1>1, <1>2, <1>10
  <2>2. Parts3(s, i, end - 1, int, frac)
    BY <1>8, <1>9, <1>10, Zenon DEF Parts3
  <2> QED BY <2>1, <2>2, IsNumberAt, Zenon
<1> QED BY <1>11, <1>12 DEF end
\* A number of the grammar is taken whole, if what follows cannot continue it.
LEMMA NumberIsTaken ==
  ASSUME NEW s \in Texts, NEW i \in 1..Len(s), NEW to \in i..Len(s),
         IsNumber(SubSeq(s, i, to)), At(s, to + 1) \notin Digits \cup ExpMarks \cup {Dot}
  PROVE  /\ s[i] \in Digits \cup {Minus}
         /\ Accepted(s, i)
         /\ NumberEnd(s, i) = to + 1
<1> DEFINE int == IntEnd(s, i)
           frac == FracEnd(s, i)
           exp == ExpStart(s, i)
           d == FirstDigit(s, i)
<1>1. Len(s) \in Nat /\ i \in 1..(Len(s) + 1) /\ to \in (i - 1)..Len(s)
  BY DEF Texts
<1>2. PICK p \in i..(to + 1) : \E q \in p..(to + 1) : Parts3(s, i, to, p, q)
  BY <1>1, IsNumberAt, Zenon
<1>21. PICK q \in p..(to + 1) : Parts3(s, i, to, p, q)
  BY <1>2
<1>3. p - 1 \in (i - 1)..Len(s) /\ p \in 1..(Len(s) + 1) /\ q - 1 \in (p - 1)..Len(s)
      /\ q \in 1..(Len(s) + 1) /\ to \in (q - 1)..Len(s)
  BY <1>1
<1>4. PICK e : e = Behind(s, i, p - 1, {Minus})
  OBVIOUS
<1>5. AllDigitsFrom(s, e, p - 1) /\ (s[e] = 48 => e = p - 1)
  <2>1. PICK b : b = p - 1
    OBVIOUS
  <2>2. b \in (i - 1)..Len(s) /\ IsInteger(SubSeq(s, i, b)) /\ e = Behind(s, i, b, {Minus})
    BY <1>21, <1>3, <1>4, <2>1, Zenon DEF Parts3
  <2>3. AllDigitsFrom(s, e, b) /\ (s[e] = 48 => e = b)
    <3>1. b \in (i - 1)..Len(s) /\ IsInteger(SubSeq(s, i, b)) /\ i \in 1..(Len(s) + 1)
      BY <1>1, <2>2
    <3>2. /\ AllDigitsFrom(s, Behind(s, i, b, {Minus}), b)
          /\ s[Behind(s, i, b, {Minus})] = 48 => Behind(s, i, b, {Minus}) = b
      BY <3>1, IntegerAt, Zenon
    <3> QED BY <2>2, <3>2
  <2> QED BY <2>1, <2>3, Zenon
<1>6. q - 1 < p \/ (p <= q - 1 /\ s[p] = Dot /\ AllDigitsFrom(s, p + 1, q - 1))
  BY <1>21, <1>3, IsFracAt, Zenon DEF Parts3
<1>7. PICK x : x = Behind(s, q + 1, to, {Plus, Minus})
  OBVIOUS
<1>8. to < q \/ (q <= to /\ s[q] \in ExpMarks /\ AllDigitsFrom(s, x, to))
  BY <1>21, <1>3, <1>7, IsExpAt DEF Parts3
<1>9. i <= p - 1 /\ e \in {i, i + 1} /\ (e = i + 1 <=> s[i] = Minus) /\ e <= p - 1
  <2>1. e <= p - 1
    BY <1>5 DEF AllDigitsFrom
  <2>2. e \in {i, i + 1} /\ (e = i + 1 => s[i] = Minus)
    BY <1>4 DEF Behind
  <2>3. i <= p - 1
    BY <1>1, <1>3, <2>1, <2>2
  <2>4. s[i] = Minus => e = i + 1
    BY <1>4, <2>3 DEF Behind
  <2> QED BY <1>1, <2>1, <2>2, <2>3, <2>4
<1>10. s[e] \in Digits /\ e \in 1..Len(s) /\ \A k \in e..(p - 1) : s[k] \in Digits
  BY <1>1, <1>3, <1>5, <1>9 DEF AllDigitsFrom
<1>11. s[i] \in Digits \cup {Minus} /\ d = e
  <2>1. CASE s[i] = Minus
    BY <1>9, <2>1, NumberClasses DEF FirstDigit
  <2>2. CASE s[i] # Minus
    <3>1. e = i
      BY <1>9, <2>2
    <3> QED BY <1>10, <3>1 DEF FirstDigit
  <2> QED BY <2>1, <2>2
<1>12. p < q => s[p] = Dot /\ p + 1 <= q - 1 /\ \A k \in (p + 1)..(q - 1) : s[k] \in Digits
  BY <1>1, <1>3, <1>6 DEF AllDigitsFrom
<1>13. q <= to => s[q] \in ExpMarks /\ x <= to /\ \A k \in x..to : s[k] \in Digits
  BY <1>1, <1>3, <1>8 DEF AllDigitsFrom
\* What stands at the ends of the parts.
<1>14. At(s, q) \notin Digits \cup {Dot} /\ (At(s, q) \in ExpMarks <=> q <= to)
  <2>1. CASE q <= to
    <3>1. At(s, q) = s[q]
      BY <1>1, <1>3, <2>1, AtType
    <3> QED BY <1>13, <2>1, <3>1, NumberClasses
  <2>2. CASE ~ (q <= to)
    <3>1. q = to + 1
      BY <1>1, <1>3, <2>2
    <3> QED BY <2>2, <3>1
  <2> QED BY <2>1, <2>2
<1>15. At(s, p) \notin Digits /\ (At(s, p) = Dot <=> p < q)
  <2>1. CASE p < q
    <3>1. At(s, p) = s[p]
      BY <1>1, <1>3, <2>1, AtType
    <3> QED BY <1>12, <2>1, <3>1, NumberClasses
  <2>2. CASE ~ (p < q)
    <3>1. p = q
      BY <1>1, <1>3, <2>2
    <3> QED BY <1>14, <2>2, <3>1
  <2> QED BY <2>1, <2>2
<1>16. int = p
  <2>1. i + 1 \in 1..(Len(s) + 1) /\ p \in (i + 1)..(Len(s) + 1)
    BY <1>1, <1>3, <1>9
  <2>2. \A k \in (i + 1)..(p - 1) : s[k] \in Digits
    <3>1. \A k \in (i + 1)..(p - 1) : k \in e..(p - 1)
      BY <1>1, <1>3, <1>9
    <3> QED BY <1>10, <3>1
  <2>3. PICK j : j = i + 1
    OBVIOUS
  <2>4. Skip(s, j, Digits) = p
    BY <1>15, <2>1, <2>2, <2>3, SkipIs, NumberClasses
  <2> QED BY <2>3, <2>4 DEF IntEnd
<1>17. frac = q
  <2>1. frac = IF At(s, int) = Dot THEN Skip(s, int + 1, Digits) ELSE int
    BY Zenon DEF FracEnd
  <2> HIDE DEF frac, int
  <2>2. CASE p < q
    <3>1. PICK j : j = p + 1
      OBVIOUS
    <3>2. /\ j \in 1..(Len(s) + 1) /\ q \in j..(Len(s) + 1)
          /\ \A k \in j..(q - 1) : s[k] \in Digits
      BY <1>1, <1>3, <1>12, <2>2, <3>1
    <3>3. Skip(s, j, Digits) = q
      BY <1>14, <3>2, SkipIs, NumberClasses
    <3> QED BY <1>15, <1>16, <2>1, <2>2, <3>1, <3>3
  <2>3. CASE ~ (p < q)
    <3>1. p = q
      BY <1>1, <1>3, <2>3
    <3> QED BY <1>15, <1>16, <2>1, <2>3, <3>1
  <2> QED BY <2>2, <2>3
<1>18. ASSUME q <= to
       PROVE  exp = x /\ exp \in 1..Len(s) /\ At(s, exp) \in Digits /\ exp <= to
  <2>1. q + 1 <= to /\ x \in {q + 1, q + 2}
    <3>1. x \in {q + 1, q + 1 + 1}
      BY <1>7 DEF Behind
    <3>2. x <= to
      BY <1>13, <1>18
    <3> QED BY <1>1, <1>3, <3>1, <3>2
  <2>2. At(s, q + 1) = s[q + 1]
    <3>1. q + 1 \in Nat \ {0} /\ q + 1 <= Len(s)
      BY <1>1, <1>3, <2>1
    <3> QED BY <3>1, AtType
  <2>3. exp = IF At(s, q + 1) \in {Plus, Minus} THEN q + 2 ELSE q + 1
    BY <1>17, Zenon DEF ExpStart
  <2>4. q + 1 + 1 = q + 2
    BY <1>3
  <2>5. exp = x
    BY <1>7, <2>1, <2>2, <2>3, <2>4 DEF Behind
  <2>6. x <= to /\ x \in x..to /\ x \in 1..Len(s)
    BY <1>1, <1>3, <1>13, <1>18, <2>1
  <2>7. At(s, x) = s[x] /\ s[x] \in Digits
    BY <1>1, <1>13, <1>18, <2>6, AtType
  <2> QED BY <2>5, <2>6, <2>7, Zenon
<1>19. Accepted(s, i)
  <2>1. ~ (At(s, d) = 48 /\ At(s, d + 1) \in Digits)
    <3>1. SUFFICES ASSUME At(s, e) = 48 PROVE At(s, e + 1) \notin Digits
      BY <1>11
    <3>2. s[e] = 48
      BY <1>10, <3>1, AtType
    <3>3. e + 1 = p
      BY <1>1, <1>3, <1>5, <1>9, <3>2
    <3> QED BY <1>15, <3>3
  <2>2. s[i] = Minus /\ i < Len(s) => s[i + 1] \in Digits
    BY <1>9, <1>10
  <2>3. At(s, int) = Dot => frac # int + 1
    <3>1. p < q => q # p + 1
      BY <1>1, <1>3, <1>12
    <3> QED BY <1>15, <1>16, <1>17, <3>1, Zenon
  <2>4. At(s, frac) \in ExpMarks => At(s, exp) \in Digits
    BY <1>14, <1>17, <1>18, Zenon
  <2> QED BY <2>1, <2>2, <2>3, <2>4, Zenon DEF Accepted
<1>20. NumberEnd(s, i) = to + 1
  <2>1. NumberEnd(s, i) = IF At(s, frac) \in ExpMarks THEN Skip(s, exp, Digits) ELSE frac
    BY Zenon DEF NumberEnd
  <2>2. CASE q <= to
    <3>1. PICK j, t : j = exp /\ t = to + 1
      OBVIOUS
    <3>2. /\ j \in 1..(Len(s) + 1) /\ t \in j..(Len(s) + 1)
          /\ \A k \in j..(t - 1) : s[k] \in Digits
          /\ At(s, t) \notin Digits
      <4> HIDE DEF exp
      <4> QED BY <1>1, <1>3, <1>13, <1>18, <2>2, <3>1
    <3>3. Skip(s, j, Digits) = t
      BY <3>2, SkipIs, NumberClasses
    <3> QED BY <1>14, <1>17, <2>1, <2>2, <3>1, <3>3, Zenon
  <2>3. CASE ~ (q <= to)
    <3>1. q = to + 1
      BY <1>1, <1>3, <2>3
    <3> QED BY <1>14, <1>17, <2>1, <2>3, <3>1, Zenon
  <2> QED BY <2>2, <2>3
<1> QED BY <1>11, <1>19, <1>20
\* What a number token is made of, and which numbers become one.
LEMMA TokenIsNumber ==
  ASSUME NEW s \in Texts, validNumStr(s)
  PROVE  IsNumber(TokenVal(s)) \/ (TokenVal(s) = <<Minus>> /\ Last(s) = Minus)
<1>1. PICK i : i = First(s)
  OBVIOUS
<1>2. /\ i \in 1..Len(s) /\ s[i] \in Digits \cup {Minus}
      /\ getJsonToken(s) = ScanNumber(s, i) /\ Accepted(s, i)
  BY <1>1, ValidNum, Zenon
<1>3. ScanNumber(s, i).from = i /\ ScanNumber(s, i).next = NumberEnd(s, i)
  BY <1>2, ScanNumberIs, Zenon DEF NumberEnd
<1>4. TokenVal(s) = SubSeq(s, i, NumberEnd(s, i) - 1)
  BY <1>2, <1>3, Zenon DEF TokenVal
<1>5. CASE ~ (s[i] = Minus /\ i = Len(s))
  BY <1>2, <1>4, <1>5, TakenIsNumber, Zenon
<1>6. CASE s[i] = Minus /\ i = Len(s)
  <2>1. Len(s) \in Nat /\ s \in Seq(0..255)
    BY DEF Texts
  <2>2. /\ IntEnd(s, i) \in (i + 1)..(Len(s) + 1)
        /\ FracEnd(s, i) \in IntEnd(s, i)..(Len(s) + 1)
    BY <1>2, NumberParts, Zenon
  <2>3. FracEnd(s, i) = i + 1 /\ i + 1 = Len(s) + 1 /\ i + 1 > Len(s)
    BY <1>6, <2>1, <2>2
  <2>4. At(s, i + 1) = NUL
    BY <2>1, <2>3 DEF At
  <2>5. NumberEnd(s, i) = i + 1
    BY <2>3, <2>4, NumberClasses, Zenon DEF NumberEnd, NUL
  <2>6. TokenVal(s) = SubSeq(s, i, i)
    <3>1. PICK e : e = NumberEnd(s, i) - 1
      OBVIOUS
    <3>2. e = i
      BY <1>2, <2>1, <2>5, <3>1
    <3>3. TokenVal(s) = SubSeq(s, i, e)
      BY <1>4, <3>1, Zenon
    <3> QED BY <3>2, <3>3, Zenon
  <2>7. SubSeq(s, i, i) = <<s[i]>>
    <3>1. i \in 1..(Len(s) + 1) /\ i \in (i - 1)..Len(s)
      BY <1>2, <2>1
    <3>2. /\ SubSeq(s, i, i) \in Texts /\ Len(SubSeq(s, i, i)) = i + 1 - i
          /\ \A k \in 1..(i + 1 - i) : SubSeq(s, i, i)[k] = s[i + k - 1]
      BY <3>1, Part, Zenon
    <3>3. i + 1 - i = 1 /\ 1 \in 1..1 /\ i + 1 - 1 = i
      BY <1>2, <2>1
    <3>4. Len(SubSeq(s, i, i)) = 1 /\ SubSeq(s, i, i)[1] = s[i]
      BY <3>2, <3>3, Zenon
    <3>5. PICK t : t = SubSeq(s, i, i)
      OBVIOUS
    <3>6. t \in Seq(0..255) /\ Len(t) = 1 /\ t[1] = s[i]
      BY <3>2, <3>4, <3>5 DEF Texts
    <3>7. PICK u : u = <<s[i]>>
      OBVIOUS
    <3>8. u \in Seq(0..255) /\ Len(u) = 1 /\ u[1] = s[i]
      <4>1. s[i] \in 0..255
        BY <1>2, <2>1, ElementOfSeq, Zenon
      <4> QED BY <3>7, <4>1
    <3>9. \A k \in 1..Len(t) : t[k] = u[k]
      BY <3>6, <3>8
    <3>10. Len(t) = Len(u)
      BY <3>6, <3>8
    <3>11. t = u
      BY <3>6, <3>8, <3>9, <3>10, SeqEqual, Zenon
    <3> QED BY <3>5, <3>7, <3>11, Zenon
  <2>8. Last(s) = s[Len(s)]
    BY DEF Last
  <2> QED BY <1>6, <2>6, <2>7, <2>8
<1> QED BY <1>5, <1>6

LEMMA NumberIsToken ==
  ASSUME NEW s \in Texts, NEW to \in First(s)..Len(s),
         IsNumber(SubSeq(s, First(s), to)),
         At(s, to + 1) \notin Digits \cup ExpMarks \cup {Dot}
  PROVE  validNumStr(s) /\ getJsonToken(s).next = to + 1
<1>1. PICK i : i = First(s)
  OBVIOUS
<1>2. i \in 1..Len(s) /\ to \in i..Len(s)
  BY <1>1, FirstFacts DEF Texts
<1>3. /\ s[i] \in Digits \cup {Minus}
      /\ Accepted(s, i)
      /\ NumberEnd(s, i) = to + 1
  BY <1>1, <1>2, NumberIsTaken, Zenon
<1>4. getJsonToken(s) = ScanNumber(s, i)
  BY <1>1, <1>2, <1>3, NumberToken, Zenon
<1>5. ScanNumber(s, i).tok = "NUMBER" /\ ScanNumber(s, i).next = NumberEnd(s, i)
  BY <1>3, ScanNumberIs, Zenon DEF NumberEnd
<1> QED BY <1>3, <1>4, <1>5, Zenon DEF validNumStr

\* Of a text of any length, the number branch of getJsonToken takes a JSON
\* number and nothing else, but for a minus sign that ends the text; and a
\* JSON number in front of a character that cannot continue it is taken whole.
THEOREM NumbersByGrammar == TokenSpec => []NumbersAreJson
<1>1. ASSUME text \in Texts PROVE NumbersAreJson
  <2>1. validNumStr(text) =>
          IsNumber(TokenVal(text)) \/ (TokenVal(text) = <<Minus>> /\ Last(text) = Minus)
    BY <1>1, TokenIsNumber, Zenon
  <2>2. \A to \in First(text)..Len(text) :
           /\ IsNumber(SubSeq(text, First(text), to))
           /\ At(text, to + 1) \notin Digits \cup ExpMarks \cup {Dot}
           => validNumStr(text) /\ getJsonToken(text).next = to + 1
    BY <1>1, NumberIsToken, Zenon
  <2> QED BY <2>1, <2>2, Zenon DEF NumbersAreJson
<1>2. TextOK => NumbersAreJson
  BY <1>1 DEF TextOK
<1> QED BY TextType, <1>2, PTL
-----------------------------------------------------------------------------
(* What the filter was fed.                                                *)

Feeding(us, n, f) ==
  f = [k \in 0..n |-> IF k = 0 THEN NewFilter ELSE Feed(f[k - 1], us[k])]

LEMMA FeedingIs ==
  ASSUME NEW us, NEW n \in Nat, NEW f, Feeding(us, n, f)
  PROVE  f[0] = NewFilter /\ \A k \in 1..n : f[k] = Feed(f[k - 1], us[k])
<1>1. f[0] = NewFilter
  BY DEF Feeding
<1>2. ASSUME NEW k \in 1..n PROVE f[k] = Feed(f[k - 1], us[k])
  <2>1. k \in 0..n /\ k # 0
    OBVIOUS
  <2> QED BY <2>1, Zenon DEF Feeding
<1> QED BY <1>1, <1>2

LEMMA FeedingExists ==
  ASSUME NEW us, NEW n \in Nat
  PROVE  \E f : Feeding(us, n, f)
<1> DEFINE D == {m \in Nat : ~ \E f : Feeding(us, m, f)}
<1>1. ASSUME D # {} PROVE FALSE
  <2>1. D \subseteq Nat
    OBVIOUS
  <2>2. PICK m \in D : \A e \in D : m <= e
    <3> HIDE DEF D
    <3> QED BY <1>1, <2>1, Least
  <2>3. m \in Nat /\ ~ \E f : Feeding(us, m, f)
    BY <2>2
  <2>4. m # 0
    <3>1. Feeding(us, 0, [k \in 0..0 |-> NewFilter])
      BY DEF Feeding
    <3> QED BY <2>3, <3>1, Zenon
  <2>5. m - 1 \in Nat /\ m - 1 \notin D
    <3> HIDE DEF D
    <3> QED BY <2>2, <2>3, <2>4
  <2>6. PICK f : Feeding(us, m - 1, f)
    BY <2>5, Zenon
  <2>7. f[0] = NewFilter /\ \A k \in 1..(m - 1) : f[k] = Feed(f[k - 1], us[k])
    BY <2>5, <2>6, FeedingIs, Zenon
  <2> DEFINE last == Feed(f[m - 1], us[m])
  <2> HIDE DEF last
  <2> DEFINE g == [k \in 0..m |-> IF k = m THEN last ELSE f[k]]
  <2>8. ASSUME NEW k \in 0..m
        PROVE  g[k] = IF k = 0 THEN NewFilter ELSE Feed(g[k - 1], us[k])
    <3>1. CASE k = 0
      BY <2>3, <2>4, <2>7, <3>1
    <3>2. CASE k = m
      <4>1. g[k] = last /\ g[k - 1] = f[m - 1]
        BY <2>3, <2>4, <3>2
      <4> HIDE DEF g
      <4> QED BY <2>4, <3>2, <4>1, Zenon DEF last
    <3>3. CASE k # 0 /\ k # m
      <4>1. k \in 1..(m - 1) /\ g[k] = f[k] /\ g[k - 1] = f[k - 1]
        BY <2>3, <3>3
      <4> HIDE DEF g
      <4> QED BY <2>7, <3>3, <4>1, Zenon
    <3> QED BY <3>1, <3>2, <3>3
  <2>9. g = [k \in 0..m |-> g[k]]
    BY Zenon
  <2> HIDE DEF g
  <2>10. Feeding(us, m, g)
    BY <2>8, <2>9, Zenon DEF Feeding
  <2> QED BY <2>3, <2>10, Zenon
<1> QED BY <1>1, Zenon

LEMMA FeedingSame ==
  ASSUME NEW us, NEW n \in Nat, NEW f, Feeding(us, n, f),
         NEW ws, NEW m \in Nat, NEW g, Feeding(ws, m, g),
         n <= m, \A k \in 1..n : ws[k] = us[k]
  PROVE  \A k \in 0..n : g[k] = f[k]
<1> DEFINE G == {k \in 0..n : g[k] = f[k]}
<1>1. /\ f[0] = NewFilter /\ \A k \in 1..n : f[k] = Feed(f[k - 1], us[k])
      /\ g[0] = NewFilter /\ \A k \in 1..m : g[k] = Feed(g[k - 1], ws[k])
  BY FeedingIs, Zenon
<1>2. ASSUME NEW k \in 0..n, \A l \in 0..(k - 1) : l \in G PROVE k \in G
  <2>1. CASE k = 0
    BY <1>1, <2>1
  <2>2. CASE k # 0
    <3>1. k \in 1..n /\ k \in 1..m /\ k - 1 \in 0..(k - 1)
      BY <2>2
    <3>2. g[k - 1] = f[k - 1]
      BY <1>2, <3>1
    <3>3. g[k] = f[k]
      BY <1>1, <3>1, <3>2, Zenon
    <3> QED BY <3>3
  <2> QED BY <2>1, <2>2
<1> HIDE DEF G
<1>3. \A k \in 0..n : k \in G
  BY <1>2, FromLeft
<1> QED BY <1>3 DEF G

LEMMA FilteredIs ==
  ASSUME NEW us, NEW n \in Nat, Len(us) = n
  PROVE  \E f : Feeding(us, n, f) /\ Filtered(us) = f[n]
<1> DEFINE f == CHOOSE f : Feeding(us, n, f)
<1>1. Filtered(us) = f[n]
  BY Zenon DEF Filtered, Feeding
<1>2. Feeding(us, n, f)
  BY FeedingExists, Zenon
<1> QED BY <1>1, <1>2

LEMMA FilteredNothing == Filtered(<<>>) = NewFilter
<1>1. PICK us : us = <<>>
  OBVIOUS
<1>2. Len(us) = 0 /\ 0 \in Nat
  BY <1>1
<1>3. PICK f : Feeding(us, 0, f) /\ Filtered(us) = f[0]
  BY <1>2, FilteredIs, Zenon
<1>4. f[0] = NewFilter
  BY <1>2, <1>3, FeedingIs, Zenon
<1> QED BY <1>1, <1>3, <1>4

LEMMA FilteredMore ==
  ASSUME NEW us \in Seq(Units), NEW x \in Units
  PROVE  Filtered(Append(us, x)) = Feed(Filtered(us), x)
<1>1. PICK ws, n, m : ws = Append(us, x) /\ n = Len(us) /\ m = n + 1
  OBVIOUS
<1>2. n \in Nat /\ m \in Nat /\ Len(ws) = m /\ ws[m] = x /\ \A k \in 1..n : ws[k] = us[k]
  BY <1>1
<1>3. PICK f : Feeding(us, n, f) /\ Filtered(us) = f[n]
  BY <1>1, <1>2, FilteredIs, Zenon
<1>4. PICK g : Feeding(ws, m, g) /\ Filtered(ws) = g[m]
  BY <1>2, FilteredIs, Zenon
<1>5. n <= m /\ n \in 0..n /\ m \in 1..m /\ m - 1 = n
  BY <1>1, <1>2
<1>6. g[n] = f[n]
  <2>1. \A k \in 0..n : g[k] = f[k]
    BY <1>2, <1>3, <1>4, <1>5, FeedingSame
  <2> QED BY <1>5, <2>1, Zenon
<1>7. g[m] = Feed(g[m - 1], ws[m])
  BY <1>2, <1>4, <1>5, FeedingIs, Zenon
<1>8. g[m] = Feed(g[n], x)
  BY <1>2, <1>5, <1>7, Zenon
<1> QED BY <1>1, <1>3, <1>4, <1>6, <1>8, Zenon
-----------------------------------------------------------------------------
(* What the string loop pushes.                                            *)

LEMMA HatouiIs ==
  ASSUME NEW ds, Len(ds) = 4,
         NEW a \in Nat, Hex(ds[1]) = a, NEW b \in Nat, Hex(ds[2]) = b,
         NEW high \in Nat, Hex(ds[3]) = high, NEW low \in Nat, Hex(ds[4]) = low
  PROVE  hatoui(ds) = 4096 * a + 256 * b + 16 * high + low
<1> DEFINE E(f, i) == IF i = 0 THEN 0 ELSE 16 * f[i - 1] + Hex(ds[i])
           F == CHOOSE f : f = [i \in 0..Len(ds) |-> E(f, i)]
<1>1. hatoui(ds) = F[Len(ds)]
  BY Zenon DEF hatoui
<1>2. PICK x : x = [k \in 1..4 |-> Hex(ds[k])]
  OBVIOUS
<1>3. /\ x[1] = a /\ x[2] = b /\ x[3] = high /\ x[4] = low
      /\ \A k \in 1..4 : Hex(ds[k]) = x[k] /\ x[k] \in Nat
  BY <1>2
<1>4. \E f : f = [i \in 0..4 |-> E(f, i)]
  <2> DEFINE h == [i \in 1..4 |-> [v \in Nat |-> 16 * v + x[i]]]
  <2>1. UpSteps(h, 4, Nat)
    <3>1. ASSUME NEW i \in 1..4, NEW v \in Nat PROVE h[i][v] \in Nat
      <4>1. h[i][v] = 16 * v + x[i] /\ x[i] \in Nat
        BY <1>3, Zenon
      <4> QED BY <4>1
    <3> HIDE DEF h
    <3> QED BY <3>1, Zenon DEF UpSteps
  <2>2. PICK f : UpSolves(f, h, 4, Nat, 0)
    <3> HIDE DEF h
    <3> QED BY <2>1, Upward
  <2>3. ASSUME NEW i \in 0..4 PROVE f[i] = E(f, i)
    <3>1. CASE i = 0
      BY <2>2, <3>1 DEF UpSolves
    <3>2. CASE i # 0
      <4>1. i \in 1..4 /\ i - 1 \in 0..4
        BY <3>2
      <4>2. f[i - 1] \in Nat /\ f[i] = h[i][f[i - 1]]
        BY <2>2, <4>1 DEF UpSolves
      <4>3. Hex(ds[i]) = x[i]
        BY <1>3, <4>1
      <4> QED BY <3>2, <4>1, <4>2, <4>3
    <3> QED BY <3>1, <3>2
  <2>4. f = [i \in 0..4 |-> f[i]]
    BY <2>2 DEF UpSolves
  <2> QED BY <2>3, <2>4
<1>5. F = [i \in 0..4 |-> E(F, i)]
  <2> HIDE DEF E
  <2> QED BY <1>4, Zenon
<1> HIDE DEF F
<1>6. F[1] = a
  <2>1. F[0] = 0
    BY <1>5
  <2>2. F[1] = 16 * F[0] + x[1]
    BY <1>3, <1>5
  <2> QED BY <1>3, <2>1, <2>2
<1>7. F[2] = 16 * a + b
  <2>1. F[2] = 16 * F[1] + x[2]
    BY <1>3, <1>5
  <2> QED BY <1>3, <1>6, <2>1
<1>8. F[3] = 256 * a + 16 * b + high
  <2>1. F[3] = 16 * F[2] + x[3]
    BY <1>3, <1>5
  <2> QED BY <1>3, <1>7, <2>1
<1>9. F[4] = 4096 * a + 256 * b + 16 * high + low
  <2>1. F[4] = 16 * F[3] + x[4]
    BY <1>3, <1>5
  <2> QED BY <1>3, <1>8, <2>1
<1> QED BY <1>1, <1>9

LEMMA HexRange == \A c \in HexDigits : Hex(c) \in 0..15
BY DEF HexDigits, Digits, Hex

LEMMA HatouiRange ==
  ASSUME NEW ds, Len(ds) = 4, \A k \in 1..4 : ds[k] \in HexDigits
  PROVE  hatoui(ds) \in UnitVals
<1>1. PICK a, b, high, low :
        a = Hex(ds[1]) /\ b = Hex(ds[2]) /\ high = Hex(ds[3]) /\ low = Hex(ds[4])
  OBVIOUS
<1>2. a \in 0..15 /\ b \in 0..15 /\ high \in 0..15 /\ low \in 0..15
  <2>1. ds[1] \in HexDigits /\ ds[2] \in HexDigits /\ ds[3] \in HexDigits /\ ds[4] \in HexDigits
    OBVIOUS
  <2> QED BY <1>1, <2>1, HexRange, Zenon
<1>3. a \in Nat /\ b \in Nat /\ high \in Nat /\ low \in Nat
  BY <1>2
<1>4. hatoui(ds) = 4096 * a + 256 * b + 16 * high + low
  BY <1>1, <1>3, HatouiIs
<1>5. PICK v : v = hatoui(ds)
  OBVIOUS
<1>6. v \in Nat /\ v <= 65535
  <2>1. a <= 15 /\ b <= 15 /\ high <= 15 /\ low <= 15
    BY <1>2
  <2> QED BY <1>3, <1>4, <1>5, <2>1
<1>7. v \in UnitVals
  <2>1. PICK n \in Nat : n = 65535
    OBVIOUS
  <2>2. UnitVals = 0..n
    BY <2>1, SMT DEF UnitVals
  <2>3. v \in Nat /\ n \in Nat /\ v <= n
    BY <1>6, <2>1
  <2>4. v \in 0..n
    BY <2>3
  <2> QED BY <2>2, <2>4, Zenon
<1> QED BY <1>5, <1>7, Zenon

LEMMA UnescapedRange == \A c \in DOMAIN Unescaped : Unescaped[c] \in 0..255
<1>1. ASSUME NEW c \in DOMAIN Unescaped, c # 47 PROVE Unescaped[c] \in 0..255
  <2>1. c \in {Short[b] : b \in DOMAIN Short}
    BY <1>1 DEF Unescaped
  <2>2. PICK b \in DOMAIN Short : Short[b] = c
    BY <2>1
  <2>3. (CHOOSE d \in DOMAIN Short : Short[d] = c) \in DOMAIN Short
    BY <2>2, Zenon
  <2>4. Unescaped[c] = CHOOSE d \in DOMAIN Short : Short[d] = c
    BY <1>1 DEF Unescaped
  <2>5. DOMAIN Short \subseteq 0..255
    BY DEF Short, Quote, Backslash
  <2> QED BY <2>3, <2>4, <2>5, Zenon
<1>2. ASSUME 47 \in DOMAIN Unescaped PROVE Unescaped[47] \in 0..255
  <2>1. Unescaped[47] = 47
    BY DEF Unescaped
  <2> QED BY <2>1
<1> QED BY <1>1, <1>2

\* A turn that pushes pushes a unit.
LEMMA UnitRead ==
  ASSUME NEW s \in Texts, NEW j \in 1..(Len(s) + 1), Turn(s, j).kind = "unit"
  PROVE  Turn(s, j).unit \in Units
<1>1. Len(s) \in Nat
  BY DEF Texts
<1>2. /\ At(s, j) \in 0..255
      /\ At(s, j) # 0 => j <= Len(s) /\ At(s, j) = s[j]
  BY <1>1, AtType
<1> DEFINE digits == SubSeq(s, j + 2, j + 5)
<1> HIDE DEF digits
<1>3. CASE At(s, j) < 32
  <2>1. Turn(s, j) = [kind |-> "err", next |-> j]
    BY <1>2, <1>3 DEF Turn, Quote, Backslash
  <2> QED BY <2>1
<1>4. CASE At(s, j) = Quote
  <2>1. ~ (At(s, j) < 32)
    BY <1>4 DEF Quote
  <2>2. Turn(s, j) = [kind |-> "end", next |-> j + 1]
    BY <1>4, <2>1 DEF Turn, Quote, Backslash
  <2> QED BY <2>2
<1>5. CASE At(s, j) = Backslash /\ At(s, j + 1) \in DOMAIN Unescaped
  <2>1. Turn(s, j) = [kind |-> "unit", next |-> j + 2, unit |-> Byte(Unescaped[At(s, j + 1)])]
    BY <1>5, EscapeTable DEF Turn, Quote, Backslash
  <2>2. Turn(s, j).unit = Byte(Unescaped[At(s, j + 1)])
    BY <2>1
  <2>3. Unescaped[At(s, j + 1)] \in 0..255
    BY <1>5, UnescapedRange, Zenon
  <2> QED BY <2>2, <2>3, ByteIsUnit, Zenon
<1>6. CASE At(s, j) = Backslash /\ At(s, j + 1) = 117
  <2>2. CASE j + 6 <= Len(s) /\ \A i \in DOMAIN digits : digits[i] \in HexDigits
    <3>1. Turn(s, j) = [kind |-> "unit", next |-> j + 6,
                        unit |-> [esc |-> TRUE, val |-> hatoui(digits)]]
      BY <1>6, <2>2 DEF Turn, Quote, Backslash, digits
    <3>2. Len(digits) = 4 /\ DOMAIN digits = 1..4
      BY <1>1, <2>2 DEF digits, Texts
    <3>3. hatoui(digits) \in UnitVals
      BY <2>2, <3>2, HatouiRange, Zenon
    <3>4. [esc |-> TRUE, val |-> hatoui(digits)] \in Units
      BY <3>3, EscapeIsUnit, Zenon
    <3>5. Turn(s, j).unit = [esc |-> TRUE, val |-> hatoui(digits)]
      BY <3>1
    <3> QED BY <3>4, <3>5, Zenon
  <2>3. CASE ~ (j + 6 <= Len(s) /\ \A i \in DOMAIN digits : digits[i] \in HexDigits)
    <3>1. Turn(s, j) = [kind |-> "err", next |-> Skip(s, j + 2, HexDigits)]
      BY <1>6, <2>3 DEF Turn, Quote, Backslash, digits
    <3> QED BY <3>1
  <2> QED BY <2>2, <2>3
<1>7. CASE At(s, j) = Backslash /\ At(s, j + 1) \notin DOMAIN Unescaped \cup {117}
  <2>1. Turn(s, j) = [kind |-> "err", next |-> j + 1]
    BY <1>7 DEF Turn, Quote, Backslash
  <2> QED BY <2>1
<1>8. CASE ~ (At(s, j) < 32) /\ At(s, j) # Quote /\ At(s, j) # Backslash
  <2>1. Turn(s, j) = [kind |-> "unit", next |-> j + 1, unit |-> Byte(s[j])]
    BY <1>8 DEF Turn, Quote, Backslash
  <2>2. Turn(s, j).unit = Byte(s[j])
    BY <2>1
  <2>3. s[j] \in 0..255
    BY <1>2, <1>8
  <2> QED BY <2>2, <2>3, ByteIsUnit, Zenon
<1> QED BY <1>3, <1>4, <1>5, <1>6, <1>7, <1>8
-----------------------------------------------------------------------------
(* The string loop reads what ScanString says, and the filter was fed what *)
(* the loop read.                                                          *)

\* Of the literal at i, what lies behind raw is left to read.
ToRead(i, f) ==
  /\ Scans(text, i, f) /\ raw \in (i + 1)..(Len(text) + 1)
  /\ ScanString(text, i).tok = f[raw].tok
  /\ ScanString(text, i).units = units \o f[raw].units

AllRead(i) == ScanString(text, i).tok = "STRING" /\ ScanString(text, i).units = units

AtQuote(s, i) == i \in 1..Len(s) /\ At(s, i) = Quote

Reading ==
  /\ raw = 0 => units = <<>> /\ status = "open"
  /\ raw # 0 => /\ AtQuote(text, First(text))
                /\ status = "open" => \E f : ToRead(First(text), f)
                /\ status # "open" => AllRead(First(text))
  /\ status = "open" => filter = Filtered(units)
  /\ status # "open" => /\ filter = finalize(Filtered(units))
                        /\ status = "accepted" <=> is_valid

LEMMA ScannedUnits ==
  ASSUME NEW s \in Texts, NEW i, NEW r \in Scanned(s, i)
  PROVE  /\ \E S : r.units \in Seq(S)
         /\ r.next \in Nat /\ r = [tok |-> r.tok, from |-> r.from, next |-> r.next, units |-> r.units]
<1> DEFINE lists == Seq({Turn(s, j).unit : j \in 1..(Len(s) + 1)})
<1>1. Len(s) \in Nat
  BY DEF Texts
<1>2. r \in [tok : {"STRING"}, from : {i}, next : 0..(Len(s) + 1), units : lists]
        \cup [tok : {"ERR"}, from : {i}, next : Nat, units : lists]
  BY Zenon DEF Scanned
<1> HIDE DEF lists
<1>3. r.units \in lists
  BY <1>2
<1>4. r.next \in Nat /\ r = [tok |-> r.tok, from |-> r.from, next |-> r.next, units |-> r.units]
  BY <1>1, <1>2
<1> QED BY <1>3, <1>4, Zenon DEF lists

LEMMA QuoteInText ==
  ASSUME NEW s \in Texts, InString(s)
  PROVE  AtQuote(s, First(s))
<1>1. First(s) \in 1..(Len(s) + 1) /\ Len(s) \in Nat
  BY FirstFacts DEF Texts
<1>2. At(s, First(s)) = Quote /\ Quote # 0
  BY DEF InString, Quote
<1>3. ~ (First(s) > Len(s))
  BY <1>1, <1>2, AtType
<1> QED BY <1>1, <1>2, <1>3 DEF AtQuote

LEMMA ReadingInit == TokenInit => Reading
<1> SUFFICES ASSUME TokenInit PROVE Reading
  OBVIOUS
<1>1. raw = 0 /\ units = <<>> /\ status = "open" /\ filter = NewFilter
  BY DEF TokenInit, Init
<1>2. status = "open" /\ raw = 0 /\ units = <<>> /\ filter = Filtered(units)
  BY <1>1, FilteredNothing, Zenon
<1> QED BY <1>2, Zenon DEF Reading

LEMMA ReadingBegin == ASSUME TextOK, Reading, Begin PROVE Reading'
<1>1. /\ raw = 0 /\ raw' = First(text) + 1 /\ InString(text)
      /\ text' = text /\ filter' = filter /\ units' = units /\ status' = status
  BY DEF Begin, vars
<1>2. units = <<>> /\ status = "open" /\ filter = Filtered(units)
  BY <1>1, Zenon DEF Reading
<1>3. PICK i, s : i = First(text) /\ s = text
  OBVIOUS
<1>4. AtQuote(s, i) /\ s \in Texts
  BY <1>1, <1>3, QuoteInText, Zenon DEF TextOK
<1>5. i \in 1..Len(s) /\ Len(s) \in Nat
  BY <1>4 DEF AtQuote, Texts
<1>6. PICK f : Scans(s, i, f)
  BY <1>4, <1>5, ScanRecursion, Zenon
<1>7. ScanString(s, i) = f[i + 1] /\ i + 1 \in (i + 1)..(Len(s) + 1)
  <2>1. i + 1 \in (i + 1)..(Len(s) + 1)
    BY <1>5
  <2> QED BY <1>6, <2>1, Zenon DEF Scans
<1>8. f[i + 1] \in Scanned(s, i)
  BY <1>6, <1>7, Zenon DEF Scans
<1>9. PICK us : us = f[i + 1].units
  OBVIOUS
<1>10. <<>> \o us = us
  <2>1. PICK S : us \in Seq(S)
    BY <1>4, <1>8, <1>9, ScannedUnits, Zenon
  <2> QED BY <2>1, NothingBehind, Zenon
<1>11. ToRead(i, f)'
  BY <1>1, <1>2, <1>3, <1>6, <1>7, <1>9, <1>10, Zenon DEF ToRead
<1>12. raw' # 0
  BY <1>1, <1>3, <1>5
<1> QED BY <1>1, <1>2, <1>3, <1>4, <1>11, <1>12, Zenon DEF Reading

LEMMA ReadingEnd ==
  ASSUME TextOK, units \in Seq(Units), Reading, EndString PROVE Reading'
<1>1. /\ raw # 0 /\ Turn(text, raw).kind = "end" /\ raw' = Turn(text, raw).next
      /\ text' = text /\ units' = units /\ status = "open"
      /\ filter' = finalize(filter)
      /\ status' = IF finalize(filter).is_valid THEN "accepted" ELSE "refused"
  BY DEF EndString, Finalize
<1>2. AtQuote(text, First(text)) /\ filter = Filtered(units)
  BY <1>1, Zenon DEF Reading
<1>3. PICK i, s, j : i = First(text) /\ s = text /\ j = raw
  OBVIOUS
<1>4. PICK f : ToRead(i, f)
  BY <1>1, <1>3, Zenon DEF Reading
<1>5. /\ Scans(s, i, f) /\ j \in (i + 1)..(Len(s) + 1)
      /\ ScanString(s, i).tok = f[j].tok
      /\ ScanString(s, i).units = units \o f[j].units
  BY <1>3, <1>4, Zenon DEF ToRead
<1>6. f[j] = WalkFrom(s, i, f, j) /\ Turn(s, j).kind = "end"
  BY <1>1, <1>3, <1>5, Zenon DEF Scans
<1>7. f[j] = [tok |-> "STRING", from |-> i, next |-> Turn(s, j).next, units |-> <<>>]
  BY <1>6 DEF WalkFrom
<1>8. f[j].tok = "STRING" /\ f[j].units = <<>>
  BY <1>7
<1>9. ScanString(s, i).tok = "STRING" /\ ScanString(s, i).units = units
  <2>1. units \o <<>> = units
    BY NothingBehind, Zenon
  <2> QED BY <1>5, <1>8, <2>1, Zenon
<1>10. AllRead(i)'
  BY <1>1, <1>3, <1>9, Zenon DEF AllRead
<1>11. status' # "open" /\ (status' = "accepted" <=> is_valid')
  <2>1. is_valid' = finalize(filter).is_valid
    BY <1>1, Zenon DEF is_valid
  <2> QED BY <1>1, <2>1
<1>12. raw' # 0
  <2>1. i \in 1..Len(s) /\ s \in Texts /\ Len(s) \in Nat
    BY <1>2, <1>3 DEF AtQuote, TextOK, Texts
  <2>2. j \in 1..(Len(s) + 1)
    BY <1>5, <2>1
  <2>3. Turn(s, j).next \in 1..(Len(s) + 1)
    BY <1>6, <2>1, <2>2, TurnMoves, Zenon
  <2> QED BY <1>1, <1>3, <2>3
<1>13. filter' = finalize(Filtered(units'))
  BY <1>1, <1>2, Zenon
<1> QED BY <1>1, <1>2, <1>3, <1>10, <1>11, <1>12, <1>13, Zenon DEF Reading

LEMMA ReadingStays ==
  ASSUME Reading, UNCHANGED vars, raw' = raw,
         text' = text \/ raw = 0
  PROVE  Reading'
<1>1. filter' = filter /\ units' = units /\ status' = status /\ is_valid' = is_valid
  BY Zenon DEF vars, is_valid
<1>2. CASE raw = 0
  BY <1>1, <1>2, Zenon DEF Reading
<1>3. CASE raw # 0
  <2>1. text' = text
    BY <1>3
  <2> QED BY <1>1, <1>3, <2>1, Zenon DEF Reading, ToRead, AllRead
<1> QED BY <1>2, <1>3

Moves(us, x, rest) == us \o (<<x>> \o rest) = Append(us, x) \o rest

LEMMA AppendBefore ==
  ASSUME NEW S, NEW T, NEW us \in Seq(S), NEW rest \in Seq(T), NEW x
  PROVE  Moves(us, x, rest)
<1>1. PICK a : a = <<x>> \o rest
  OBVIOUS
<1>2. PICK b : b = Append(us, x)
  OBVIOUS
<1>3. PICK n \in Nat, m \in Nat : n = Len(us) /\ m = Len(rest)
  OBVIOUS
<1>11. PICK V : V = S \cup T \cup {x}
  OBVIOUS
<1>12. us \in Seq(V) /\ rest \in Seq(V) /\ x \in V
  <2>1. us \in [1..n -> V] /\ rest \in [1..m -> V]
    BY <1>3, <1>11
  <2> QED BY <1>3, <1>11, <2>1, FunctionIsSeq, SMT
<1>4. /\ Len(a) = m + 1 /\ a[1] = x /\ \A k \in 1..m : a[k + 1] = rest[k]
      /\ a \in Seq(V)
  BY <1>1, <1>3, <1>12, OneElementMore
<1>5. /\ Len(b) = n + 1 /\ b[n + 1] = x /\ \A k \in 1..n : b[k] = us[k]
      /\ b \in Seq(V)
  BY <1>2, <1>3, <1>12
<1>6. PICK c, d : c = us \o a /\ d = b \o rest
  OBVIOUS
<1>7. /\ c \in Seq(V) /\ Len(c) = n + m + 1
      /\ \A k \in 1..n : c[k] = us[k]
      /\ \A k \in 1..(m + 1) : c[n + k] = a[k]
  <2>1. Joins(us, a, c, V)
    BY <1>4, <1>6, <1>12, JoinedPlaces, Zenon
  <2>2. /\ c \in Seq(V) /\ Len(c) = Len(us) + Len(a)
        /\ \A k \in 1..Len(us) : c[k] = us[k]
        /\ \A k \in 1..Len(a) : c[Len(us) + k] = a[k]
    BY <2>1, Zenon DEF Joins
  <2>3. Len(us) = n /\ Len(a) = m + 1
    BY <1>3, <1>4
  <2> QED BY <2>2, <2>3
<1>8. /\ d \in Seq(V) /\ Len(d) = n + m + 1
      /\ \A k \in 1..(n + 1) : d[k] = b[k]
      /\ \A k \in 1..m : d[n + 1 + k] = rest[k]
  <2>1. Joins(b, rest, d, V)
    BY <1>5, <1>6, <1>12, JoinedPlaces, Zenon
  <2>2. /\ d \in Seq(V) /\ Len(d) = Len(b) + Len(rest)
        /\ \A k \in 1..Len(b) : d[k] = b[k]
        /\ \A k \in 1..Len(rest) : d[Len(b) + k] = rest[k]
    BY <2>1, Zenon DEF Joins
  <2>3. Len(b) = n + 1 /\ Len(rest) = m
    BY <1>3, <1>5
  <2> QED BY <2>2, <2>3
<1>9. \A k \in 1..(n + m + 1) : c[k] = d[k]
  <2> SUFFICES ASSUME NEW k \in 1..(n + m + 1) PROVE c[k] = d[k]
    OBVIOUS
  <2>1. CASE k <= n
    BY <1>5, <1>7, <1>8, <2>1
  <2>2. CASE k = n + 1
    BY <1>4, <1>5, <1>7, <1>8, <2>2
  <2>3. CASE k > n + 1
    <3>1. PICK l \in 1..m : k = n + 1 + l
      BY <2>3
    <3>2. c[n + (l + 1)] = rest[l]
      BY <1>4, <1>7, <3>1
    <3> QED BY <1>8, <3>1, <3>2
  <2> QED BY <2>1, <2>2, <2>3
<1>10. c = d
  BY <1>7, <1>8, <1>9
<1> QED BY <1>1, <1>2, <1>6, <1>10 DEF Moves

\* What WalkFrom puts before the units.
LEMMA UnitsPut ==
  ASSUME NEW r, NEW x, NEW w, r = [tok |-> r.tok, from |-> r.from, next |-> r.next, units |-> r.units],
         w = [r EXCEPT !.units = <<x>> \o @]
  PROVE  w.tok = r.tok /\ w.units = <<x>> \o r.units /\ w.next = r.next
<1>1. PICK t, f, n, us, ws : /\ r = [tok |-> t, from |-> f, next |-> n, units |-> us]
                             /\ ws = <<x>> \o us
  OBVIOUS
<1>2. w = [r EXCEPT !.units = ws]
  BY <1>1
<1>3. w = [tok |-> t, from |-> f, next |-> n, units |-> ws]
  BY <1>1, <1>2
<1> QED BY <1>1, <1>3

LEMMA ReadingPush ==
  ASSUME TextOK, units \in Seq(Units), Reading, PushUnit
  PROVE  Reading' /\ Turn(text, raw).unit \in Units
<1>1. /\ raw # 0 /\ Turn(text, raw).kind = "unit" /\ raw' = Turn(text, raw).next
      /\ text' = text /\ units' = Append(units, Turn(text, raw).unit)
      /\ status = "open" /\ status' = "open"
      /\ filter' = Feed(filter, Turn(text, raw).unit)
  BY DEF PushUnit, Push
<1>2. AtQuote(text, First(text)) /\ filter = Filtered(units)
  BY <1>1, Zenon DEF Reading
<1>3. PICK i, s, j, x, n : /\ i = First(text) /\ s = text /\ j = raw
                           /\ x = Turn(text, raw).unit /\ n = Turn(text, raw).next
  OBVIOUS
<1>4. PICK f : ToRead(i, f)
  BY <1>1, <1>3, Zenon DEF Reading
<1>5. /\ Scans(s, i, f) /\ j \in (i + 1)..(Len(s) + 1)
      /\ ScanString(s, i).tok = f[j].tok
      /\ ScanString(s, i).units = units \o f[j].units
  BY <1>3, <1>4, Zenon DEF ToRead
<1>6. i \in 1..Len(s) /\ s \in Texts /\ Len(s) \in Nat /\ j \in 1..(Len(s) + 1)
  <2>1. i \in 1..Len(s) /\ s \in Texts /\ Len(s) \in Nat
    BY <1>2, <1>3 DEF AtQuote, TextOK, Texts
  <2> QED BY <1>5, <2>1
<1>7. n \in (j + 1)..(Len(s) + 1) /\ x \in Units
  BY <1>1, <1>3, <1>6, TurnMoves, UnitRead, Zenon
<1>8. n \in (i + 1)..(Len(s) + 1) /\ n # 0
  BY <1>5, <1>6, <1>7
<1>9. f[j] = WalkFrom(s, i, f, j) /\ f[n] \in Scanned(s, i)
  BY <1>5, <1>8, Zenon DEF Scans
<1>10. f[j] = [f[n] EXCEPT !.units = <<x>> \o @]
  BY <1>1, <1>3, <1>9, Zenon DEF WalkFrom
<1>11. f[n] = [tok |-> f[n].tok, from |-> f[n].from, next |-> f[n].next, units |-> f[n].units]
  BY <1>6, <1>9, ScannedUnits, Zenon
<1>12. f[j].tok = f[n].tok /\ f[j].units = <<x>> \o f[n].units
  BY <1>10, <1>11, UnitsPut, Zenon
<1>13. units \o f[j].units = units' \o f[n].units
  <2>1. PICK us, rest, S : us = units /\ rest = f[n].units /\ rest \in Seq(S)
    BY <1>6, <1>9, ScannedUnits, Zenon
  <2>2. us \in Seq(Units) /\ rest \in Seq(S)
    BY <2>1
  <2>3. Moves(us, x, rest)
    BY <2>2, AppendBefore, Zenon
  <2> QED BY <1>1, <1>3, <1>12, <2>1, <2>3, Zenon DEF Moves
<1>14. ToRead(i, f)'
  BY <1>1, <1>3, <1>5, <1>8, <1>12, <1>13, Zenon DEF ToRead
<1>15. filter' = Filtered(units')
  BY <1>1, <1>2, <1>3, <1>7, FilteredMore, Zenon
<1>16. raw' # 0
  BY <1>1, <1>3, <1>8
<1> QED BY <1>1, <1>2, <1>3, <1>7, <1>14, <1>15, <1>16, Zenon DEF Reading

LEMMA LastUnit ==
  ASSUME NEW us \in Seq(Units)
  PROVE  Last(us) = us[Len(us)]
BY DEF Last

\* The inductive invariant of getJsonToken on a string.
TokenInv == TextOK /\ IInvText /\ Reading

LEMMA TokenMoves ==
  ASSUME TokenInv, [TokenNext]_tvars
  PROVE  [Next]_vars /\ Reading'
<1>1. TextOK /\ Reading /\ units \in Seq(Units)
  <2>1. IInv
    BY Zenon DEF TokenInv, IInvText
  <2> QED BY <2>1, Parts, Zenon DEF TokenInv
<1>2. CASE Grow
  <2>1. UNCHANGED vars /\ raw' = raw /\ raw = 0
    BY <1>2 DEF Grow
  <2> QED BY <1>1, <2>1, ReadingStays, Zenon
<1>3. CASE Begin
  <2>1. UNCHANGED vars
    BY <1>3 DEF Begin
  <2> QED BY <1>1, <1>3, <2>1, ReadingBegin, Zenon
<1>4. CASE PushUnit
  <2>1. Reading' /\ Turn(text, raw).unit \in Units
    BY <1>1, <1>4, ReadingPush, Zenon
  <2>2. Push(Turn(text, raw).unit)
    BY <1>4, Zenon DEF PushUnit
  <2> QED BY <2>1, <2>2, Zenon DEF Next
<1>5. CASE EndString
  <2>1. Finalize
    BY <1>5, Zenon DEF EndString
  <2> QED BY <1>1, <1>5, <2>1, ReadingEnd, Zenon DEF Next
<1>6. CASE UNCHANGED tvars
  <2>1. UNCHANGED vars /\ raw' = raw /\ text' = text
    BY <1>6 DEF tvars
  <2> QED BY <1>1, <2>1, ReadingStays, Zenon
<1> QED BY <1>2, <1>3, <1>4, <1>5, <1>6, Zenon DEF TokenNext

LEMMA TokenInductive == TokenSpec => []TokenInv
<1>1. TokenInit => TokenInv
  <2>1. TokenInit => Init
    BY DEF TokenInit
  <2>2. TokenInit => TextOK
    BY EmptySeq DEF TokenInit, Texts, TextOK
  <2> QED BY <2>1, <2>2, InitText, ReadingInit, Zenon DEF TokenInv
<1>2. TokenInv /\ TextOK' /\ [TokenNext]_tvars => TokenInv'
  <2> SUFFICES ASSUME TokenInv, TextOK', [TokenNext]_tvars PROVE TokenInv'
    OBVIOUS
  <2>1. [Next]_vars /\ Reading' /\ IInvText
    BY TokenMoves, Zenon DEF TokenInv
  <2>2. IInvText'
    BY <2>1, StepText, Zenon
  <2> QED BY <2>1, <2>2, Zenon DEF TokenInv
<1> QED BY <1>1, <1>2, TextType, PTL DEF TokenSpec

\* What getJsonToken returns for a literal that the loop has read.
LEMMA StringReturned ==
  ASSUME TokenInv, status # "open"
  PROVE  /\ ScanString(text, First(text)).units = units
         /\ getJsonToken(text).tok = "STRING" <=> status = "accepted"
         /\ getJsonToken(text).tok = "STRING" => getJsonToken(text).str = str
<1>1. PICK i, s : i = First(text) /\ s = text
  OBVIOUS
<1>2. /\ AtQuote(s, i) /\ s \in Texts
      /\ ScanString(s, i).tok = "STRING" /\ ScanString(s, i).units = units
      /\ filter = finalize(Filtered(units))
      /\ status = "accepted" <=> is_valid
  <2>1. raw # 0
    BY Zenon DEF TokenInv, Reading
  <2> QED BY <1>1, <2>1, Zenon DEF TokenInv, Reading, AllRead, TextOK
<1>3. i \in 1..Len(s) /\ At(s, i) = Quote /\ ~ (i > Len(s))
  BY <1>2 DEF AtQuote, Texts
<1>4. /\ Quote \notin DOMAIN Punctuation /\ Quote \notin Digits \cup {Minus}
  BY FirstChars, Zenon
<1>5. getJsonToken(s) = StringToken(s, i)
  <2>1. PICK words : words = Words(s, i)
    OBVIOUS
  <2>2. words = {}
    <3>1. At(s, i) \notin {110, 116, 102}
      BY <1>3 DEF Quote
    <3> QED BY <1>2, <1>3, <2>1, <3>1, KeywordStart
  <2>3. getJsonToken(s) =
          CASE i > Len(s) -> Token("NONE", i, i)
            [] At(s, i) \in DOMAIN Punctuation -> Token(Punctuation[s[i]], i, i + 1)
            [] At(s, i) \in Digits \cup {Minus} -> ScanNumber(s, i)
            [] At(s, i) = Quote -> StringToken(s, i)
            [] words # {} -> Token(CHOOSE k \in words : TRUE, i,
                                   i + Len(Keywords[CHOOSE k \in words : TRUE]))
            [] OTHER -> Token("ERR", i, i)
    BY <1>1, <2>1, TokenCases, Zenon
  <2> QED BY <1>3, <1>4, <2>2, <2>3
<1>6. PICK t, n : t = ScanString(s, i).tok /\ n = ScanString(s, i).next
  OBVIOUS
<1>7. StringToken(s, i) = [tok |-> IF t = "STRING" /\ filter.is_valid THEN "STRING" ELSE "ERR",
                           from |-> i, next |-> n, str |-> filter.str]
  BY <1>2, <1>6, Zenon DEF StringToken
<1>8. /\ StringToken(s, i).tok = IF filter.is_valid THEN "STRING" ELSE "ERR"
      /\ StringToken(s, i).str = filter.str
  BY <1>2, <1>6, <1>7
<1> QED BY <1>1, <1>2, <1>5, <1>8 DEF is_valid, str

\* Every literal that means something is returned as a string, and nothing
\* that ends within a character is, of whatever bytes and escapes and however
\* long: what ScanString finds in the text is what the filter was fed, and
\* finalize has the last word.
THEOREM StringsAreRead == TokenSpec => []StringsRead
<1>1. ASSUME TokenInv PROVE StringsRead
  <2>1. SUFFICES ASSUME raw # 0, status # "open" PROVE StringsRead
    BY SMT DEF StringsRead
  <2>2. /\ ScanString(text, First(text)).units = units
        /\ getJsonToken(text).tok = "STRING" <=> status = "accepted"
        /\ getJsonToken(text).tok = "STRING" => getJsonToken(text).str = str
    BY <1>1, <2>1, StringReturned, Zenon
  <2>3. /\ AcceptsEveryText /\ MeansWhatItSays /\ EndsWhole
        /\ units \in Seq(Units) /\ status \in {"open", "accepted", "refused"}
    <3>1. IInv /\ TextInv
      BY <1>1, Zenon DEF TokenInv, IInvText
    <3> QED BY <3>1, Parts, Zenon DEF TextInv
  <2>4. CASE getJsonToken(text).tok = "STRING"
    <3>1. status = "accepted"
      BY <2>2, <2>4, Zenon
    <3>2. \A meaning \in Meanings(units) :
            (\A i \in DOMAIN meaning : meaning[i] < 131072) => getJsonToken(text).str = meaning
      BY <2>2, <2>3, <2>4, <3>1, SMT DEF MeansWhatItSays
    <3>3. units # <<>> => ~ Begins(Last(units))
      BY <2>3, <3>1, LastUnit, Zenon DEF EndsWhole
    <3> QED BY <2>2, <2>4, <3>2, <3>3, SMT DEF StringsRead
  <2>5. CASE getJsonToken(text).tok # "STRING"
    <3>1. status = "refused"
      BY <2>1, <2>2, <2>3, <2>5, Zenon
    <3>2. Meanings(units) = {}
      BY <2>3, <3>1, Zenon DEF AcceptsEveryText
    <3> QED BY <2>2, <2>5, <3>2, SMT DEF StringsRead
  <2> QED BY <2>4, <2>5
<1>2. TokenInv => StringsRead
  BY <1>1
<1> QED BY TokenInductive, <1>2, PTL
-----------------------------------------------------------------------------
(* A byte that json_escape wrote, read by the string loop.                 *)

LEMMA HexOf ==
  ASSUME NEW d \in 0..15
  PROVE  HexDigit(d) \in HexDigits /\ HexDigit(d) \in 0..255 /\ Hex(HexDigit(d)) = d
<1>1. CASE d < 10
  BY <1>1 DEF HexDigit, HexDigits, Digits, Hex
<1>2. CASE ~ d < 10
  BY <1>2 DEF HexDigit, HexDigits, Digits, Hex
<1> QED BY <1>1, <1>2

\* The table of escapes and the one of the scanner are inverse.
LEMMA ShortTable ==
  /\ DOMAIN Short = {8, 9, 10, 12, 13, 34, 92}
  /\ \A b \in DOMAIN Short :
       /\ Short[b] \in DOMAIN Unescaped /\ Short[b] \in 0..255
       /\ Unescaped[Short[b]] = b
<1>1. DOMAIN Short = {8, 9, 10, 12, 13, 34, 92}
  BY DEF Short, Quote, Backslash
<1>2. /\ Short[8] = 98 /\ Short[9] = 116 /\ Short[10] = 110 /\ Short[12] = 102
      /\ Short[13] = 114 /\ Short[34] = 34 /\ Short[92] = 92
  BY DEF Short, Quote, Backslash
<1>3. ASSUME NEW b \in DOMAIN Short, NEW d \in DOMAIN Short, Short[b] = Short[d] PROVE b = d
  BY <1>1, <1>2, <1>3
<1>4. ASSUME NEW b \in DOMAIN Short
      PROVE  /\ Short[b] \in DOMAIN Unescaped /\ Short[b] \in 0..255
             /\ Unescaped[Short[b]] = b
  <2>1. Short[b] # 47 /\ Short[b] \in 0..255
    BY <1>1, <1>2
  <2>2. Short[b] \in {Short[d] : d \in DOMAIN Short} \cup {47}
    BY Zenon
  <2>3. (CHOOSE d \in DOMAIN Short : Short[d] = Short[b]) = b
    <3>1. PICK d : d = CHOOSE e \in DOMAIN Short : Short[e] = Short[b]
      OBVIOUS
    <3>2. d \in DOMAIN Short /\ Short[d] = Short[b]
      BY <3>1, Zenon
    <3> QED BY <1>3, <3>1, <3>2, Zenon
  <2>4. Unescaped[Short[b]] = IF Short[b] = 47 THEN 47
                              ELSE CHOOSE d \in DOMAIN Short : Short[d] = Short[b]
    BY <2>2, Zenon DEF Unescaped
  <2>5. DOMAIN Unescaped = {Short[d] : d \in DOMAIN Short} \cup {47}
    BY DEF Unescaped
  <2> QED BY <2>1, <2>2, <2>3, <2>4, <2>5, Zenon
<1> QED BY <1>1, <1>4

\* The unit that comes back for a byte.
Spelt(b) == IF b \notin DOMAIN Short /\ (b < 32 \/ b = 127)
            THEN [esc |-> TRUE, val |-> b] ELSE Byte(b)

\* The characters that json_escape writes for b.
AsLetter(b, e) == b \in DOMAIN Short /\ Len(e) = 2 /\ e[1] = 92 /\ e[2] = Short[b]

AsDigits(b, e) ==
  /\ b \notin DOMAIN Short /\ (b < 32 \/ b = 127)
  /\ Len(e) = 6
  /\ e[1] = 92 /\ e[2] = 117 /\ e[3] = 48 /\ e[4] = 48
  /\ e[5] = HexDigit(b \div 16) /\ e[6] = HexDigit(b % 16)

AsItIs(b, e) == b \notin DOMAIN Short /\ ~ (b < 32 \/ b = 127) /\ Len(e) = 1 /\ e[1] = b

LEMMA EscapeWritten ==
  ASSUME NEW b \in 0..255
  PROVE  /\ Escape(b) \in Seq(0..255)
         /\ AsLetter(b, Escape(b)) \/ AsDigits(b, Escape(b)) \/ AsItIs(b, Escape(b))
<1> USE DEF AsLetter, AsDigits, AsItIs
<1>1. CASE b \in DOMAIN Short
  <2>1. Escape(b) = <<92, Short[b]>>
    BY <1>1 DEF Escape, Backslash
  <2>2. Short[b] \in 0..255
    BY <1>1, ShortTable
  <2> QED BY <1>1, <2>1, <2>2
<1>2. CASE b \notin DOMAIN Short /\ (b < 32 \/ b = 127)
  <2>1. Escape(b) = <<92, 117, 48, 48, HexDigit(b \div 16), HexDigit(b % 16)>>
    BY <1>2 DEF Escape, Backslash
  <2>2. b \div 16 \in 0..15 /\ b % 16 \in 0..15
    OBVIOUS
  <2>3. HexDigit(b \div 16) \in 0..255 /\ HexDigit(b % 16) \in 0..255
    BY <2>2, HexOf
  <2> QED BY <1>2, <2>1, <2>3
<1>3. CASE b \notin DOMAIN Short /\ ~ (b < 32 \/ b = 127)
  <2>1. Escape(b) = <<b>>
    BY <1>3 DEF Escape
  <2> QED BY <1>3, <2>1
<1> QED BY <1>1, <1>2, <1>3

LEMMA Sixteenths ==
  ASSUME NEW b \in 0..255
  PROVE  b \div 16 \in 0..15 /\ b % 16 \in 0..15 /\ 16 * (b \div 16) + (b % 16) = b
OBVIOUS

LEMMA TurnOnEscape ==
  ASSUME NEW s \in Texts, NEW b \in 0..255, NEW j \in 1..Len(s),
         NEW e, e = Escape(b), j + Len(e) <= Len(s),
         \A k \in 1..Len(e) : s[j + k - 1] = e[k]
  PROVE  /\ Turn(s, j).kind = "unit" /\ Turn(s, j).next = j + Len(e)
         /\ Turn(s, j).unit = Spelt(b)
<1>1. Len(s) \in Nat
  BY DEF Texts
<1>2. \A i \in 1..Len(s) : At(s, i) = s[i]
  BY <1>1, AtType
<1>3. CASE AsLetter(b, e)
  <2>1. b \in DOMAIN Short /\ Len(e) = 2 /\ e[1] = 92 /\ e[2] = Short[b]
    BY <1>3, Zenon DEF AsLetter
  <2>2. s[j] = 92 /\ s[j + 1] = Short[b] /\ j + 1 <= Len(s)
    <3>1. s[j + 1 - 1] = 92 /\ s[j + 2 - 1] = Short[b]
      BY <2>1
    <3> QED BY <1>1, <2>1, <3>1
  <2>3. At(s, j) = 92 /\ At(s, j + 1) = Short[b]
    BY <1>1, <1>2, <2>2
  <2>4. Short[b] \in DOMAIN Unescaped /\ Unescaped[Short[b]] = b
    BY <2>1, ShortTable
  <2>5. Turn(s, j) = [kind |-> "unit", next |-> j + 2, unit |-> Byte(Unescaped[At(s, j + 1)])]
    BY <2>3, <2>4, EscapeTable DEF Turn, Quote, Backslash
  <2>6. Spelt(b) = Byte(b)
    BY <2>1 DEF Spelt
  <2> QED BY <2>1, <2>3, <2>4, <2>5, <2>6
<1>4. CASE AsDigits(b, e)
  <2>1. /\ b \notin DOMAIN Short /\ (b < 32 \/ b = 127)
        /\ Len(e) = 6 /\ e[1] = 92 /\ e[2] = 117 /\ e[3] = 48 /\ e[4] = 48
        /\ e[5] = HexDigit(b \div 16) /\ e[6] = HexDigit(b % 16)
    BY <1>4, Zenon DEF AsDigits
  <2>2. PICK high, low : high = b \div 16 /\ low = b % 16
    OBVIOUS
  <2>3. high \in 0..15 /\ low \in 0..15 /\ 16 * high + low = b
    BY <2>2, Sixteenths
  <2>4. e[5] = HexDigit(high) /\ e[6] = HexDigit(low)
    BY <2>1, <2>2, Zenon
  <2>5. /\ s[j] = 92 /\ s[j + 1] = 117 /\ s[j + 2] = 48 /\ s[j + 3] = 48
        /\ s[j + 4] = e[5] /\ s[j + 5] = e[6]
    <3>1. Len(e) = 6
      BY <2>1
    <3>2. /\ s[j + 1 - 1] = e[1] /\ s[j + 2 - 1] = e[2] /\ s[j + 3 - 1] = e[3]
          /\ s[j + 4 - 1] = e[4] /\ s[j + 5 - 1] = e[5] /\ s[j + 6 - 1] = e[6]
      BY <3>1
    <3>3. e[1] = 92 /\ e[2] = 117 /\ e[3] = 48 /\ e[4] = 48
      BY <2>1
    <3> QED BY <3>2, <3>3
  <2>6. At(s, j) = 92 /\ At(s, j + 1) = 117 /\ j + 6 <= Len(s)
    <3>1. Len(e) = 6
      BY <2>1
    <3>2. s[j] = 92 /\ s[j + 1] = 117
      BY <2>5
    <3> QED BY <1>1, <1>2, <3>1, <3>2
  <2> DEFINE ds == SubSeq(s, j + 2, j + 5)
  <2>7. Len(ds) = 4 /\ ds \in Seq(0..255) /\ \A k \in 1..4 : ds[k] = s[j + 2 + k - 1]
    <3>1. PICK x, y : x = j + 2 /\ y = j + 5
      OBVIOUS
    <3>2. x \in 1..(Len(s) + 1) /\ y \in (x - 1)..Len(s) /\ y + 1 - x = 4
      BY <1>1, <2>6, <3>1
    <3>3. /\ SubSeq(s, x, y) \in Seq(0..255)
          /\ Len(SubSeq(s, x, y)) = y + 1 - x
          /\ \A k \in 1..(y + 1 - x) : SubSeq(s, x, y)[k] = s[x + k - 1]
      BY <3>2, Part, Zenon DEF Texts
    <3> QED BY <3>1, <3>2, <3>3, Zenon
  <2> HIDE DEF ds
  <2>8. DOMAIN ds = 1..4
    BY <2>7
  <2>9. ds[1] = 48 /\ ds[2] = 48 /\ ds[3] = HexDigit(high) /\ ds[4] = HexDigit(low)
    <3>1. /\ ds[1] = s[j + 2 + 1 - 1] /\ ds[2] = s[j + 2 + 2 - 1]
          /\ ds[3] = s[j + 2 + 3 - 1] /\ ds[4] = s[j + 2 + 4 - 1]
      BY <2>7
    <3>2. /\ ds[1] = s[j + 2] /\ ds[2] = s[j + 3] /\ ds[3] = s[j + 4] /\ ds[4] = s[j + 5]
      BY <3>1
    <3> QED BY <2>4, <2>5, <3>2
  <2>10. Hex(ds[1]) = 0 /\ Hex(ds[2]) = 0 /\ Hex(ds[3]) = high /\ Hex(ds[4]) = low
    <3>1. Hex(48) = 0
      BY DEF Hex, Digits
    <3> QED BY <2>3, <2>9, <3>1, HexOf
  <2>11. \A i \in DOMAIN ds : ds[i] \in HexDigits
    <3>1. 48 \in HexDigits
      BY DEF HexDigits, Digits
    <3>2. ds[3] \in HexDigits /\ ds[4] \in HexDigits
      BY <2>3, <2>9, HexOf
    <3> QED BY <2>8, <2>9, <3>1, <3>2
  <2>12. hatoui(ds) = b
    <3>1. high \in Nat /\ low \in Nat
      <4>1. \A n \in 0..15 : n \in Nat
        OBVIOUS
      <4> QED BY <2>3, <4>1, Zenon
    <3>2. PICK zero \in Nat : zero = 0
      OBVIOUS
    <3>3. /\ Len(ds) = 4 /\ Hex(ds[1]) = zero /\ Hex(ds[2]) = zero
          /\ Hex(ds[3]) = high /\ Hex(ds[4]) = low
      BY <2>7, <2>10, <3>2
    <3>4. hatoui(ds) = 4096 * zero + 256 * zero + 16 * high + low
      BY <3>1, <3>2, <3>3, HatouiIs
    <3> QED BY <2>3, <3>2, <3>4
  <2>13. Turn(s, j) = [kind |-> "unit", next |-> j + 6,
                       unit |-> [esc |-> TRUE, val |-> hatoui(ds)]]
    BY <2>6, <2>11, EscapeTable DEF Turn, Quote, Backslash, ds
  <2>14. Spelt(b) = [esc |-> TRUE, val |-> b] /\ Len(e) = 6
    BY <2>1, Zenon DEF Spelt
  <2> QED BY <2>12, <2>13, <2>14
<1>5. CASE AsItIs(b, e)
  <2>1. b \notin DOMAIN Short /\ ~ (b < 32 \/ b = 127) /\ Len(e) = 1 /\ e[1] = b
    BY <1>5, Zenon DEF AsItIs
  <2>2. s[j] = b /\ At(s, j) = b
    <3>1. s[j + 1 - 1] = b
      BY <2>1
    <3> QED BY <1>1, <1>2, <3>1
  <2>3. b # 34 /\ b # 92 /\ ~ (b < 32)
    BY <2>1, ShortTable
  <2>4. Turn(s, j) = [kind |-> "unit", next |-> j + 1, unit |-> Byte(s[j])]
    BY <2>2, <2>3 DEF Turn, Quote, Backslash
  <2>5. Spelt(b) = Byte(b)
    BY <2>1 DEF Spelt
  <2> QED BY <2>1, <2>2, <2>4, <2>5
<1> QED BY <1>3, <1>4, <1>5, EscapeWritten, Zenon

-----------------------------------------------------------------------------
(* The text between the quotes, byte by byte.                              *)

\* The units that come back for a sequence of bytes.
SpeltAll(bytes) == [l \in 1..Len(bytes) |-> Spelt(bytes[l])]

Literally(w) == <<Quote>> \o w \o <<Quote>>

LEMMA SpeltIsUnit ==
  ASSUME NEW b \in 0..255
  PROVE  Spelt(b) \in Units /\ Spelt(b).val = b
         /\ (Spelt(b).esc => b < 128) /\ Spelt(b).esc \in BOOLEAN
<1>1. b \in UnitVals
  BY SMT DEF UnitVals
<1>2. [esc |-> TRUE, val |-> b] \in Units /\ [esc |-> FALSE, val |-> b] \in Units
  BY <1>1, ByteIsUnit, EscapeIsUnit, Zenon DEF Byte
<1>3. Spelt(b) \in Units
  BY <1>2, Zenon DEF Spelt, Byte
<1>4. CASE b \notin DOMAIN Short /\ (b < 32 \/ b = 127)
  <2>1. Spelt(b) = [esc |-> TRUE, val |-> b]
    BY <1>4, Zenon DEF Spelt
  <2>2. b < 128
    BY <1>4
  <2> QED BY <1>3, <2>1, <2>2
<1>5. CASE ~ (b \notin DOMAIN Short /\ (b < 32 \/ b = 127))
  <2>1. Spelt(b) = [esc |-> FALSE, val |-> b]
    BY <1>5, Zenon DEF Spelt, Byte
  <2> QED BY <1>3, <2>1
<1> QED BY <1>4, <1>5

LEMMA SpeltAllUnits ==
  ASSUME NEW bytes \in Texts
  PROVE  /\ SpeltAll(bytes) \in TextUnits /\ Len(SpeltAll(bytes)) = Len(bytes)
         /\ \A k \in 1..Len(bytes) : SpeltAll(bytes)[k] = Spelt(bytes[k])
<1> DEFINE u == SpeltAll(bytes)
<1>1. Len(bytes) \in Nat
  BY DEF Texts
<1>2. \A j \in 1..Len(bytes) : Spelt(bytes[j]) \in Units
  <2>1. \A j \in 1..Len(bytes) : bytes[j] \in 0..255
    BY ElementOfSeq, Zenon DEF Texts
  <2> QED BY <2>1, SpeltIsUnit, Zenon
<1>3. u \in [1..Len(bytes) -> Units] /\ \A k \in 1..Len(bytes) : u[k] = Spelt(bytes[k])
  BY <1>2 DEF SpeltAll
<1> HIDE DEF u
<1>4. u \in Seq(Units) /\ Len(u) = Len(bytes)
  BY <1>1, <1>3, FunctionIsSeq
<1> QED BY <1>3, <1>4, Zenon DEF u, TextUnits

LEMMA LiteralText ==
  ASSUME NEW w \in Texts
  PROVE  /\ Literally(w) \in Texts /\ Len(Literally(w)) = Len(w) + 2
         /\ Literally(w)[1] = 34 /\ Literally(w)[Len(w) + 2] = 34
         /\ \A k \in 1..Len(w) : Literally(w)[k + 1] = w[k]
<1>1. Len(w) \in Nat /\ w \in Seq(0..255)
  BY DEF Texts
<1>2. Quote \in 0..255 /\ Quote = 34
  BY DEF Quote
<1>3. PICK v : v = <<Quote>> \o w
  OBVIOUS
<1>4. v \in Seq(0..255) /\ Len(v) = Len(w) + 1 /\ v[1] = Quote
      /\ \A k \in 1..Len(w) : v[k + 1] = w[k]
  BY <1>1, <1>2, <1>3, OneElementMore
<1>5. PICK x : x = v \o <<Quote>>
  OBVIOUS
<1>6. x \in Seq(0..255) /\ Len(x) = Len(v) + 1 /\ x[Len(v) + 1] = Quote
      /\ \A k \in 1..Len(v) : x[k] = v[k]
  BY <1>2, <1>4, <1>5, OneElementMore
<1>7. x = Literally(w)
  <2>1. PICK q : q = <<Quote>>
    OBVIOUS
  <2>2. q \in Seq(0..255)
    BY <1>2, <2>1
  <2>3. (q \o w) \o q = q \o (w \o q)
    BY <1>1, <2>2, ConcatAssociative
  <2> QED BY <1>3, <1>5, <2>1, <2>3, Zenon DEF Literally
<1>8. Len(v) + 1 = Len(w) + 2 /\ x[1] = 34 /\ \A k \in 1..Len(w) : x[k + 1] = w[k]
  BY <1>1, <1>2, <1>4, <1>6
<1> QED BY <1>2, <1>6, <1>7, <1>8, Zenon DEF Texts

-----------------------------------------------------------------------------
(* What the string loop reads back, from the last byte to the first.       *)

\* What the scan of a written literal finds at the byte k.
Rest(bytes, k, to) ==
  [tok |-> "STRING", from |-> 1, next |-> to, units |-> From(SpeltAll(bytes), k)]

LEMMA ScanMore ==
  ASSUME NEW bytes \in Texts, NEW k \in 1..Len(bytes), NEW to,
         NEW s, NEW f, NEW p, Turn(s, p).kind = "unit", Turn(s, p).unit = Spelt(bytes[k]),
         f[Turn(s, p).next] = Rest(bytes, k + 1, to)
  PROVE  WalkFrom(s, 1, f, p) = Rest(bytes, k, to)
<1>1. WalkFrom(s, 1, f, p) = [Rest(bytes, k + 1, to) EXCEPT !.units = <<Spelt(bytes[k])>> \o @]
  BY Zenon DEF WalkFrom
<1>2. PICK r : r = From(SpeltAll(bytes), k + 1)
  OBVIOUS
<1>3. [[tok |-> "STRING", from |-> 1, next |-> to, units |-> r]
          EXCEPT !.units = <<Spelt(bytes[k])>> \o @]
      = [tok |-> "STRING", from |-> 1, next |-> to, units |-> <<Spelt(bytes[k])>> \o r]
  <2> DEFINE R == [tok |-> "STRING", from |-> 1, next |-> to, units |-> r]
  <2>1. PICK x : x = <<Spelt(bytes[k])>> \o r
    OBVIOUS
  <2>2. R.units = r
    OBVIOUS
  <2>3. [R EXCEPT !.units = x] = [tok |-> "STRING", from |-> 1, next |-> to, units |-> x]
    OBVIOUS
  <2> QED BY <2>1, <2>2, <2>3, Zenon
<1>4. <<Spelt(bytes[k])>> \o r = From(SpeltAll(bytes), k)
  <2>1. SpeltAll(bytes) \in Seq(Units) /\ k \in 1..Len(SpeltAll(bytes))
        /\ SpeltAll(bytes)[k] = Spelt(bytes[k])
    BY SpeltAllUnits, Zenon DEF TextUnits
  <2>2. PICK u \in Seq(Units) : u = SpeltAll(bytes)
    BY <2>1
  <2>3. <<u[k]>> \o From(u, k + 1) = From(u, k)
    BY <2>1, <2>2, FromMore
  <2> QED BY <1>2, <2>1, <2>2, <2>3, Zenon
<1>5. Rest(bytes, k + 1, to) = [tok |-> "STRING", from |-> 1, next |-> to, units |-> r]
  BY <1>2, Zenon DEF Rest
<1>6. Rest(bytes, k, to)
      = [tok |-> "STRING", from |-> 1, next |-> to, units |-> <<Spelt(bytes[k])>> \o r]
  BY <1>4, Zenon DEF Rest
<1> QED BY <1>1, <1>3, <1>5, <1>6, Zenon

LEMMA EscapesPieced ==
  ASSUME NEW bytes \in Texts
  PROVE  /\ json_escape(bytes) \in Texts
         /\ \E off :
              /\ off \in [1..(Len(bytes) + 1) -> 1..(Len(json_escape(bytes)) + 1)]
              /\ off[1] = 1
              /\ off[Len(bytes) + 1] = Len(json_escape(bytes)) + 1
              /\ \A k \in 1..Len(bytes) :
                   /\ off[k + 1] = off[k] + Len(Escape(bytes[k]))
                   /\ \A j \in 1..Len(Escape(bytes[k])) :
                        json_escape(bytes)[off[k] + j - 1] = Escape(bytes[k])[j]
<1> DEFINE n == Len(bytes)
           ss == [i \in 1..n |-> Escape(bytes[i])]
<1>1. n \in Nat /\ DOMAIN bytes = 1..n /\ bytes \in Seq(0..255)
  BY DEF Texts
<1>2. \A i \in 1..n : Escape(bytes[i]) \in Seq(0..255)
  <2>1. \A i \in 1..n : bytes[i] \in 0..255
    BY <1>1, ElementOfSeq, Zenon
  <2> QED BY <2>1, EscapeWritten, Zenon
<1>3. ss \in [1..n -> Seq(0..255)]
  BY <1>2
<1>4. ss \in Seq(Seq(0..255)) /\ Len(ss) = n /\ \A i \in 1..n : ss[i] = Escape(bytes[i])
  <2>1. \A i \in 1..n : ss[i] = Escape(bytes[i])
    OBVIOUS
  <2> HIDE DEF ss, n
  <2> QED BY <1>1, <1>3, <2>1, FunctionIsSeq
<1>5. json_escape(bytes) = FlattenSeq(ss)
  BY <1>1 DEF json_escape
<1> HIDE DEF ss, n
<1>6. /\ FlattenSeq(ss) \in Seq(0..255)
      /\ \E off : Pieced(ss, off, FlattenSeq(ss))
  BY <1>4, FlattenPieces
<1>7. PICK off : Pieced(ss, off, FlattenSeq(ss))
  BY <1>6
<1>8. /\ off \in [1..(n + 1) -> 1..(Len(json_escape(bytes)) + 1)]
      /\ off[1] = 1
      /\ off[n + 1] = Len(json_escape(bytes)) + 1
      /\ \A k \in 1..n :
           /\ off[k + 1] = off[k] + Len(Escape(bytes[k]))
           /\ \A j \in 1..Len(Escape(bytes[k])) :
                json_escape(bytes)[off[k] + j - 1] = Escape(bytes[k])[j]
  BY <1>4, <1>5, <1>7, Zenon DEF Pieced
<1> QED BY <1>5, <1>6, <1>8, Zenon DEF Texts, n

\* The string loop reads back what json_escape wrote.
LEMMA ScanWritten ==
  ASSUME NEW bytes \in Texts
  PROVE  ScanString(Literally(json_escape(bytes)), 1)
         = Rest(bytes, 1, Len(json_escape(bytes)) + 3)
<1> DEFINE n == Len(bytes)
           w == json_escape(bytes)
           s == Literally(w)
           to == Len(w) + 3
<1>1. w \in Texts
  BY EscapesPieced, Zenon
<1>2. PICK off :
        /\ off \in [1..(n + 1) -> 1..(Len(w) + 1)]
        /\ off[1] = 1
        /\ off[n + 1] = Len(w) + 1
        /\ \A k \in 1..n :
             /\ off[k + 1] = off[k] + Len(Escape(bytes[k]))
             /\ \A j \in 1..Len(Escape(bytes[k])) :
                  w[off[k] + j - 1] = Escape(bytes[k])[j]
  BY EscapesPieced, Zenon
<1> HIDE DEF w
<1>3. /\ s \in Texts /\ Len(s) = Len(w) + 2
      /\ s[1] = 34 /\ s[Len(w) + 2] = 34
      /\ \A k \in 1..Len(w) : s[k + 1] = w[k]
  BY <1>1, LiteralText, Zenon
<1> HIDE DEF s
<1>4. Len(w) \in Nat /\ n \in Nat
  BY <1>1 DEF Texts
<1>5. PICK f : Scans(s, 1, f)
  <2>1. 1 \in 1..Len(s)
    BY <1>3, <1>4
  <2> QED BY <1>3, <2>1, ScanRecursion, Zenon
<1>6. ScanString(s, 1) = f[2] /\ \A j \in 2..(Len(s) + 1) : f[j] = WalkFrom(s, 1, f, j)
  BY <1>5 DEF Scans
<1> DEFINE G == {k \in 1..(n + 1) : f[off[k] + 1] = Rest(bytes, k, to)}
<1>7. n + 1 \in G
  <2>1. off[n + 1] + 1 = Len(s) /\ Len(s) \in 1..Len(s) /\ Len(s) \in 2..(Len(s) + 1)
    BY <1>2, <1>3, <1>4
  <2>2. At(s, Len(s)) = 34
    <3>1. Len(s) \in Nat \ {0} /\ Len(s) <= Len(s) /\ s[Len(s)] = 34
      BY <1>3, <1>4
    <3> QED BY <1>3, <3>1, AtType, Zenon
  <2>3. Turn(s, Len(s)) = [kind |-> "end", next |-> Len(s) + 1]
    BY <2>2 DEF Turn, Quote, Backslash
  <2>4. WalkFrom(s, 1, f, Len(s)) = [tok |-> "STRING", from |-> 1, next |-> Len(s) + 1, units |-> <<>>]
    BY <2>3 DEF WalkFrom
  <2>5. From(SpeltAll(bytes), n + 1) = <<>>
    <3>1. SpeltAll(bytes) \in Seq(Units) /\ Len(SpeltAll(bytes)) = Len(bytes)
      BY SpeltAllUnits, Zenon DEF TextUnits
    <3>2. From(SpeltAll(bytes), Len(SpeltAll(bytes)) + 1) = <<>>
      BY <3>1, FromEnds
    <3> QED BY <3>1, <3>2
  <2>6. Len(s) + 1 = to
    BY <1>3, <1>4
  <2>7. f[off[n + 1] + 1] = Rest(bytes, n + 1, to)
    <3> HIDE DEF to, n
    <3> QED BY <1>6, <2>1, <2>4, <2>5, <2>6, Zenon DEF Rest
  <2>8. n + 1 \in 1..(n + 1)
    BY <1>4
  <2> QED BY <2>7, <2>8
<1>8. ASSUME NEW k \in 1..n, k + 1 \in G PROVE k \in G
  <2>1. PICK e : e = Escape(bytes[k])
    OBVIOUS
  <2>2. bytes[k] \in 0..255
    BY ElementOfSeq, Zenon DEF Texts
  <2>3. e \in Seq(0..255) /\ Len(e) \in Nat
    <3>1. e \in Seq(0..255)
      BY <2>1, <2>2, EscapeWritten, Zenon
    <3> QED BY <3>1
  <2>4. /\ off[k] \in 1..(Len(w) + 1) /\ off[k + 1] \in 1..(Len(w) + 1)
        /\ off[k + 1] = off[k] + Len(e)
        /\ \A j \in 1..Len(e) : w[off[k] + j - 1] = e[j]
    <3>1. k \in 1..(n + 1) /\ k + 1 \in 1..(n + 1)
      BY <1>4
    <3> QED BY <1>2, <2>1, <3>1, Zenon
  <2>5. PICK o, p : o = off[k] /\ p = o + 1
    OBVIOUS
  <2>6. /\ o \in Nat \ {0} /\ p \in 1..Len(s) /\ p + Len(e) <= Len(s)
        /\ p + Len(e) = off[k + 1] + 1
        /\ p \in 2..(Len(s) + 1)
    <3>1. /\ o \in Nat /\ 1 <= o /\ p = o + 1 /\ o + Len(e) = off[k + 1]
          /\ off[k + 1] \in Nat /\ off[k + 1] <= Len(w) + 1
          /\ Len(e) \in Nat /\ Len(w) \in Nat
      BY <1>4, <2>3, <2>4, <2>5
    <3>2. Len(s) = Len(w) + 2
      BY <1>3, Zenon
    <3> QED BY <3>1, <3>2
  <2>7. ASSUME NEW j \in 1..Len(e) PROVE s[p + j - 1] = e[j]
    <3>1. o + j - 1 \in 1..Len(w) /\ p + j - 1 = o + j - 1 + 1
      <4>1. /\ o \in Nat \ {0} /\ p = o + 1 /\ p + Len(e) <= Len(s)
            /\ Len(s) = Len(w) + 2 /\ Len(e) \in Nat /\ Len(w) \in Nat
        BY <1>3, <1>4, <2>3, <2>5, <2>6, Zenon
      <4> QED BY <4>1
    <3>2. s[o + j - 1 + 1] = w[o + j - 1]
      BY <1>3, <3>1
    <3> QED BY <2>4, <2>5, <3>1, <3>2
  <2>8. /\ Turn(s, p).kind = "unit" /\ Turn(s, p).next = p + Len(e)
        /\ Turn(s, p).unit = Spelt(bytes[k])
    <3>1. PICK b \in 0..255 : b = bytes[k]
      BY <2>2
    <3>2. /\ s \in Texts /\ p \in 1..Len(s) /\ e = Escape(b) /\ p + Len(e) <= Len(s)
          /\ \A j \in 1..Len(e) : s[p + j - 1] = e[j]
      BY <1>3, <2>1, <2>6, <2>7, <3>1, Zenon
    <3>3. /\ Turn(s, p).kind = "unit" /\ Turn(s, p).next = p + Len(e)
          /\ Turn(s, p).unit = Spelt(b)
      BY <3>2, TurnOnEscape, Zenon
    <3> QED BY <3>1, <3>3, Zenon
  <2>9. f[Turn(s, p).next] = Rest(bytes, k + 1, to)
    BY <1>8, <2>6, <2>8
  <2>10. WalkFrom(s, 1, f, p) = Rest(bytes, k, to)
    <3> HIDE DEF to
    <3>1. k \in 1..Len(bytes)
      OBVIOUS
    <3> QED BY <2>8, <2>9, <3>1, ScanMore
  <2>11. f[off[k] + 1] = Rest(bytes, k, to)
    BY <1>6, <2>5, <2>6, <2>10
  <2>12. k \in 1..(n + 1)
    BY <1>4
  <2> QED BY <2>11, <2>12
<1>9. \A k \in 1..(n + 1) : k \in G
  <2>1. ASSUME NEW k \in 1..(n + 1), \A j \in (k + 1)..(n + 1) : j \in G PROVE k \in G
    <3>1. CASE k = n + 1
      BY <1>7, <3>1
    <3>2. CASE k # n + 1
      <4>1. k \in 1..n /\ k + 1 \in (k + 1)..(n + 1)
        BY <1>4, <3>2
      <4> QED BY <1>8, <2>1, <4>1
    <3> QED BY <3>1, <3>2
  <2> HIDE DEF G
  <2>2. PICK a, m : a = 1 /\ m = n + 1
    OBVIOUS
  <2>3. a \in Nat /\ m \in Nat
    BY <1>4, <2>2
  <2>4. \A i \in a..m : (\A k \in (i + 1)..m : k \in G) => i \in G
    BY <2>1, <2>2
  <2>5. \A i \in a..m : i \in G
    BY <2>3, <2>4, FromRight, Zenon
  <2> QED BY <2>2, <2>5
<1>10. f[2] = Rest(bytes, 1, to)
  <2>1. 1 \in 1..(n + 1)
    BY <1>4
  <2>2. f[off[1] + 1] = Rest(bytes, 1, to)
    BY <1>9, <2>1
  <2>3. off[1] + 1 = 2
    BY <1>2
  <2> QED BY <2>2, <2>3
<1> QED BY <1>6, <1>10, Zenon DEF s, w, to

-----------------------------------------------------------------------------
(* The bytes of one character, among the units of a text.                  *)

\* A number of bytes by its leading byte.
LEMMA LeadOf ==
  ASSUME NEW v, NEW n \in 1..4, NEW m \in 1..4,
         v \in Lead[n].first..Lead[n].last, v \in Lead[m].first..Lead[m].last
  PROVE  n = m
<1>1. n \in {1, 2, 3, 4} /\ m \in {1, 2, 3, 4}
  OBVIOUS
<1> QED BY <1>1, LeadTable, SMT

\* Bytes that spell a character spell no other.
LEMMA OneInBytes ==
  ASSUME NEW u, NEW i, NEW n \in 1..4, ~ u[i].esc,
         u[i].val \in Lead[n].first..Lead[n].last,
         i + n - 1 <= Len(u), \A j \in (i + 1)..(i + n - 1) : IsTail(u[j]),
         NEW c, Spelled(u, i, n) = c, c >= Lead[n].least, IsCharacter(c)
  PROVE  CharsAt(u, i) = {[char |-> c, length |-> n]}
<1>1. BytesAre(u, i, n, [char |-> c, length |-> n])
  BY Zenon DEF BytesAre
<1>2. ASSUME NEW x \in CharsAt(u, i) PROVE x = [char |-> c, length |-> n]
  <2>1. ~ EscapeIs(u, i, x) /\ ~ PairIs(u, i, x)
    BY Zenon DEF EscapeIs, PairIs, IsPair
  <2>2. PICK m \in 1..4 : BytesAre(u, i, m, x)
    BY <2>1, CharIs, Zenon
  <2>3. m = n
    BY <2>2, LeadOf, Zenon DEF BytesAre
  <2> QED BY <2>2, <2>3, Zenon DEF BytesAre
<1>3. [char |-> c, length |-> n] \in CharsAt(u, i)
  BY <1>1, CharIs, Zenon
<1> QED BY <1>2, <1>3, Zenon

LEMMA OneInEscape ==
  ASSUME NEW u, NEW i, u[i].esc, NEW c, u[i].val = c, c \in 0..255, c < 128, IsCharacter(c)
  PROVE  CharsAt(u, i) = {[char |-> c, length |-> 1]}
<1>1. EscapeIs(u, i, [char |-> c, length |-> 1])
  BY Zenon DEF EscapeIs
<1>2. ASSUME NEW x \in CharsAt(u, i) PROVE x = [char |-> c, length |-> 1]
  <2>1. \A m \in 1..4 : ~ BytesAre(u, i, m, x)
    BY Zenon DEF BytesAre
  <2>2. ~ PairIs(u, i, x)
    <3>1. c \notin HighHalves
      BY AsciiRange, Zenon DEF Surrogates
    <3> QED BY <3>1, Zenon DEF PairIs, IsPair
  <2>3. EscapeIs(u, i, x)
    BY <2>1, <2>2, CharIs, Zenon
  <2> QED BY <2>3, Zenon DEF EscapeIs
<1>3. [char |-> c, length |-> 1] \in CharsAt(u, i)
  BY <1>1, CharIs, Zenon
<1> QED BY <1>2, <1>3, Zenon

\* The bytes of a character, by how many it has.
OneByte(c, e) == c < 128 /\ Len(e) = 1 /\ e[1] = c

TwoBytes(c, e) ==
  /\ 128 <= c /\ c < 2048
  /\ Len(e) = 2 /\ e[1] = 192 + (c \div 64) /\ e[2] = 128 + (c % 64)

ThreeBytes(c, e) ==
  /\ 2048 <= c /\ c < 65536
  /\ Len(e) = 3 /\ e[1] = 224 + (c \div 4096) /\ e[2] = 128 + ((c \div 64) % 64)
  /\ e[3] = 128 + (c % 64)

FourBytes(c, e) ==
  /\ c >= 65536
  /\ Len(e) = 4 /\ e[1] = 240 + (c \div 262144) /\ e[2] = 128 + ((c \div 4096) % 64)
  /\ e[3] = 128 + ((c \div 64) % 64) /\ e[4] = 128 + (c % 64)

LEMMA CharRange ==
  ASSUME NEW c, IsCharacter(c)
  PROVE  c \in Nat /\ c < 1114112
<1>1. c \in 0..MaxCharacter
  BY Zenon DEF IsCharacter
<1>2. MaxCharacter \in Nat
  BY SMT DEF MaxCharacter
<1>3. c \in Nat /\ c <= MaxCharacter
  BY <1>1, <1>2, SMT
<1> QED BY <1>3, SMT DEF MaxCharacter

\* The divisions, and what they were made of.
LEMMA Divided2 ==
  ASSUME NEW c \in Nat, c >= 128, c < 2048
  PROVE  /\ c \div 64 \in 2..31 /\ c % 64 \in 0..63
         /\ (c \div 64) * 64 + (c % 64) = c
BY SMT

LEMMA Divided3 ==
  ASSUME NEW c \in Nat, c >= 2048, c < 65536
  PROVE  /\ c \div 4096 \in 0..15 /\ (c \div 64) % 64 \in 0..63 /\ c % 64 \in 0..63
         /\ ((c \div 4096) * 64 + ((c \div 64) % 64)) * 64 + (c % 64) = c
<1>1. PICK d, r : d = c \div 64 /\ r = c % 64
  BY SMT
<1>2. d \in Nat /\ r \in 0..63 /\ d * 64 + r = c /\ d < 1024
  BY <1>1, SMT
<1>3. c \div 4096 = d \div 64
  BY <1>1, SMT
<1>4. d \div 64 \in 0..15 /\ d % 64 \in 0..63 /\ (d \div 64) * 64 + (d % 64) = d
  BY <1>2, SMT
<1> QED BY <1>1, <1>2, <1>3, <1>4, SMT

LEMMA Divided4 ==
  ASSUME NEW c \in Nat, c >= 65536, c < 1114112
  PROVE  /\ c \div 262144 \in 0..4 /\ (c \div 4096) % 64 \in 0..63
         /\ (c \div 64) % 64 \in 0..63 /\ c % 64 \in 0..63
         /\ (((c \div 262144) * 64 + ((c \div 4096) % 64)) * 64 + ((c \div 64) % 64)) * 64
              + (c % 64) = c
<1>1. PICK d, r : d = c \div 64 /\ r = c % 64
  BY SMT
<1>2. d \in Nat /\ r \in 0..63 /\ d * 64 + r = c /\ d < 17408
  BY <1>1, SMT
<1>3. PICK h, q : h = d \div 64 /\ q = d % 64
  BY SMT
<1>4. h \in Nat /\ q \in 0..63 /\ h * 64 + q = d /\ h < 272
  BY <1>2, <1>3, SMT
<1>5. h \div 64 \in 0..4 /\ h % 64 \in 0..63 /\ (h \div 64) * 64 + (h % 64) = h
  BY <1>4, SMT
<1>6. c \div 4096 = h /\ c \div 262144 = h \div 64
  BY <1>2, <1>4, SMT
<1> QED BY <1>1, <1>2, <1>3, <1>4, <1>5, <1>6, SMT

LEMMA Utf8Written ==
  ASSUME NEW c, IsCharacter(c)
  PROVE  /\ Utf8(c) \in Texts
         /\ \/ OneByte(c, Utf8(c)) \/ TwoBytes(c, Utf8(c))
            \/ ThreeBytes(c, Utf8(c)) \/ FourBytes(c, Utf8(c))
<1>0. c \in Nat /\ c < 1114112
  BY CharRange, SMT
<1>1. CASE c < 128
  <2>1. Utf8(c) = <<c>>
    BY <1>0, <1>1, SMT DEF Utf8
  <2>2. c \in 0..255
    BY <1>0, <1>1, SMT
  <2>3. <<c>> \in Seq(0..255) /\ Len(<<c>>) = 1 /\ <<c>>[1] = c
    BY <2>2, SMT
  <2> QED BY <1>1, <2>1, <2>3, SMT DEF Texts, OneByte
<1>2. CASE c >= 128 /\ c < 2048
  <2>1. PICK x, y : x = 192 + (c \div 64) /\ y = 128 + (c % 64)
    BY SMT
  <2>2. Utf8(c) = <<x, y>>
    BY <1>0, <1>2, <2>1, SMT DEF Utf8
  <2>3. x \in 0..255 /\ y \in 0..255
    BY <1>0, <1>2, <2>1, Divided2, SMT
  <2>4. <<x, y>> \in Seq(0..255)
    BY <2>3, SMT
  <2> QED BY <2>1, <2>2, <2>4, <1>2, SMT DEF Texts, TwoBytes
<1>3. CASE c >= 2048 /\ c < 65536
  <2>1. PICK x, y, z : x = 224 + (c \div 4096) /\ y = 128 + ((c \div 64) % 64)
                       /\ z = 128 + (c % 64)
    BY SMT
  <2>2. Utf8(c) = <<x, y, z>>
    BY <1>0, <1>3, <2>1, SMT DEF Utf8
  <2>3. x \in 0..255 /\ y \in 0..255 /\ z \in 0..255
    BY <1>0, <1>3, <2>1, Divided3, SMT
  <2>4. <<x, y, z>> \in Seq(0..255)
    BY <2>3, SMT
  <2> QED BY <2>1, <2>2, <2>4, <1>3, SMT DEF Texts, ThreeBytes
<1>4. CASE c >= 65536
  <2>1. PICK x, y, z, w : x = 240 + (c \div 262144) /\ y = 128 + ((c \div 4096) % 64)
                          /\ z = 128 + ((c \div 64) % 64) /\ w = 128 + (c % 64)
    BY SMT
  <2>2. Utf8(c) = <<x, y, z, w>>
    BY <1>0, <1>4, <2>1, SMT DEF Utf8
  <2>3. x \in 0..255 /\ y \in 0..255 /\ z \in 0..255 /\ w \in 0..255
    BY <1>0, <1>4, <2>1, Divided4, SMT
  <2>4. <<x, y, z, w>> \in Seq(0..255)
    BY <2>3, SMT
  <2> QED BY <2>1, <2>2, <2>4, <1>4, SMT DEF Texts, FourBytes
<1> QED BY <1>0, <1>1, <1>2, <1>3, <1>4, SMT

LEMMA SpeltHigh ==
  ASSUME NEW b \in 128..255
  PROVE  Spelt(b) = Byte(b)
<1>1. b \notin DOMAIN Short /\ ~ (b < 32 \/ b = 127)
  BY ShortTable
<1> QED BY <1>1, Zenon DEF Spelt

LEMMA SpeltTail ==
  ASSUME NEW x, NEW r \in 0..63, x = Spelt(128 + r)
  PROVE  IsTail(x) /\ x.val - 128 = r /\ x.val \in Int
<1>1. PICK b : b = 128 + r
  OBVIOUS
<1>2. b \in 128..255 /\ b \in 128..191 /\ b - 128 = r /\ b \in Int
  BY <1>1
<1>3. x = [esc |-> FALSE, val |-> b]
  BY <1>1, <1>2, SpeltHigh, Zenon DEF Byte
<1>4. x.esc = FALSE /\ x.val = b
  BY <1>3
<1>5. ~ x.esc /\ x.val \in 128..191
  BY <1>2, <1>4
<1>6. x.val - 128 = r /\ x.val \in Int
  BY <1>2, <1>4, SMT
<1> QED BY <1>5, <1>6, Zenon DEF IsTail

\* The number that n bytes spell.
Decoded(e, n) ==
  LET v1 == e[1] - Lead[n].first
      v2 == v1 * 64 + (e[2] - 128)
      v3 == v2 * 64 + (e[3] - 128)
      v4 == v3 * 64 + (e[4] - 128)
  IN  IF n = 2 THEN v2 ELSE IF n = 3 THEN v3 ELSE v4

\* The units from i on are what comes back for the bytes e.
SpeltFrom(u, i, e) == \A k \in 1..Len(e) : u[i + k - 1] = Spelt(e[k])

OneChar(u, i, c, n) == CharsAt(u, i) = {[char |-> c, length |-> n]}

\* The units of a character that json_escape wrote spell it, and no other.
LEMMA CharWritten ==
  ASSUME NEW u, NEW i \in Nat, NEW c, IsCharacter(c), NEW e, e = Utf8(c),
         Len(u) \in Nat, i + Len(e) - 1 <= Len(u), SpeltFrom(u, i, e)
  PROVE  OneChar(u, i, c, Len(e))
<1> USE DEF SpeltFrom, OneChar
<1>0. c \in Nat /\ c < 1114112
  BY CharRange, SMT
<1>1. /\ Lead[1].least = 0 /\ Lead[2].least = 128 /\ Lead[3].least = 2048
      /\ Lead[4].least = 65536
  BY SMT DEF Lead
<1>2. CASE OneByte(c, e)
  <2>1. c < 128 /\ Len(e) = 1 /\ e[1] = c /\ u[i] = Spelt(c) /\ c \in 0..255
    <3>1. c < 128 /\ Len(e) = 1 /\ e[1] = c
      BY <1>2, SMT DEF OneByte
    <3>2. 1 \in 1..1 /\ i + 1 - 1 = i /\ c \in 0..255
      BY <1>0, <3>1, SMT
    <3>3. u[i + 1 - 1] = Spelt(e[1])
      BY <3>1, <3>2, Zenon
    <3> QED BY <3>1, <3>2, <3>3, Zenon
  <2>2. u[i].val = c /\ u[i].esc \in BOOLEAN
    BY <2>1, SpeltIsUnit, Zenon
  <2>3. CASE u[i].esc
    <3>1. CharsAt(u, i) = {[char |-> c, length |-> 1]}
      <4>1. /\ u[i].esc /\ u[i].val = c /\ c \in 0..255 /\ c < 128 /\ IsCharacter(c)
        BY <2>1, <2>2, <2>3, Zenon
      <4> QED BY <4>1, OneInEscape
    <3> QED BY <2>1, <3>1, Zenon
  <2>4. CASE ~ u[i].esc
    <3>1. PICK n : n = 1
      OBVIOUS
    <3>2. /\ n \in 1..4 /\ i + n - 1 <= Len(u)
          /\ \A j \in (i + 1)..(i + n - 1) : IsTail(u[j])
          /\ u[i].val \in Lead[n].first..Lead[n].last
          /\ c >= Lead[n].least
      <4>1. (i + 1)..(i + 1 - 1) = {} /\ i + 1 - 1 <= Len(u)
        BY <2>1, SMT
      <4>2. u[i].val \in Lead[1].first..Lead[1].last
        BY <1>0, <2>1, <2>2, LeadTable, SMT
      <4>3. c >= Lead[1].least
        BY <1>0, <1>1, SMT
      <4>4. 1 \in 1..4
        BY SMT
      <4> QED BY <3>1, <4>1, <4>2, <4>3, <4>4, Zenon
    <3>3. Spelled(u, i, n) = c
      <4>1. u[i].val - Lead[1].first = c
        BY <1>0, <2>2, LeadTable, SMT
      <4> QED BY <3>1, <4>1, Zenon DEF Spelled
    <3>4. CharsAt(u, i) = {[char |-> c, length |-> n]}
      BY <2>4, <3>2, <3>3, OneInBytes, Zenon
    <3> QED BY <2>1, <3>1, <3>4, Zenon
  <2> QED BY <2>3, <2>4
<1>3. ASSUME NEW n \in 2..4, Len(e) = n, e[1] \in Lead[n].first..Lead[n].last,
             e[1] \in 128..255,
             \A k \in 2..n : e[k] \in 128..191,
             Decoded(e, n) = c, c >= Lead[n].least
      PROVE  CharsAt(u, i) = {[char |-> c, length |-> Len(e)]}
  <2>1. n \in 1..4 /\ i + n - 1 <= Len(u) /\ 1 \in 1..Len(e) /\ i + 1 - 1 = i
    BY <1>3, SMT
  <2>2. u[i] = Spelt(e[1])
    BY <2>1, Zenon
  <2>3. u[i] = Byte(e[1])
    BY <1>3, <2>2, SpeltHigh, Zenon
  <2>4. ~ u[i].esc /\ u[i].val = e[1]
    BY <2>3 DEF Byte
  <2>5. ASSUME NEW k \in 2..n
        PROVE  IsTail(u[i + k - 1]) /\ u[i + k - 1].val - 128 = e[k] - 128
    <3>0. PICK r : r = e[k] - 128
      OBVIOUS
    <3>1. r \in 0..63 /\ e[k] = 128 + r
      <4>1. e[k] \in 128..191
        <5>1. \A l \in 2..n : e[l] \in 128..191
          BY <1>3
        <5> QED BY <5>1
      <4>2. PICK v \in 128..191 : v = e[k]
        BY <4>1
      <4>3. v - 128 \in 0..63 /\ v = 128 + (v - 128)
        OBVIOUS
      <4> QED BY <3>0, <4>2, <4>3, Zenon
    <3>2. k \in 1..Len(e)
      BY <1>3, SMT
    <3>3. PICK x : x = u[i + k - 1]
      OBVIOUS
    <3>4. x = Spelt(128 + r)
      BY <3>1, <3>2, <3>3, Zenon
    <3>5. IsTail(x) /\ x.val - 128 = r
      BY <3>1, <3>4, SpeltTail, Zenon
    <3>6. e[k] - 128 = r
      BY <3>1, SMT
    <3> QED BY <3>3, <3>5, <3>6, Zenon
  <2>6. ASSUME NEW j \in (i + 1)..(i + n - 1) PROVE IsTail(u[j])
    <3>1. PICK k : k = j + 1 - i
      OBVIOUS
    <3>2. k \in 2..n /\ i + k - 1 = j
      BY <3>1, SMT
    <3> QED BY <2>5, <3>2, Zenon
  <2>7. Spelled(u, i, n) = Decoded(e, n)
    <3>1. /\ u[i + 1].val - 128 = e[2] - 128
          /\ n > 2 => u[i + 2].val - 128 = e[3] - 128
          /\ n > 3 => u[i + 3].val - 128 = e[4] - 128
      <4>1. 2 \in 2..n /\ i + 2 - 1 = i + 1 /\ i + 3 - 1 = i + 2 /\ i + 4 - 1 = i + 3
            /\ (n > 2 => 3 \in 2..n) /\ (n > 3 => 4 \in 2..n)
        BY SMT
      <4>2. u[i + 2 - 1].val - 128 = e[2] - 128
        BY <2>5, <4>1, Zenon
      <4>3. n > 2 => u[i + 3 - 1].val - 128 = e[3] - 128
        BY <2>5, <4>1, Zenon
      <4>4. n > 3 => u[i + 4 - 1].val - 128 = e[4] - 128
        BY <2>5, <4>1, Zenon
      <4> QED BY <4>1, <4>2, <4>3, <4>4, Zenon
    <3>2. u[i].val - Lead[n].first = e[1] - Lead[n].first
      BY <2>4, Zenon
    <3>3. n = 2 \/ n = 3 \/ n = 4
      BY SMT
    <3>4. CASE n = 2
      BY <3>1, <3>2, <3>4 DEF Spelled, Decoded
    <3>5. CASE n = 3
      <4>1. n > 2
        BY <3>5, SMT
      <4> QED BY <3>1, <3>2, <3>5, <4>1 DEF Spelled, Decoded
    <3>6. CASE n = 4
      <4>1. n > 2 /\ n > 3
        BY <3>6, SMT
      <4> QED BY <3>1, <3>2, <3>6, <4>1 DEF Spelled, Decoded
    <3> QED BY <3>3, <3>4, <3>5, <3>6
  <2>8. u[i].val \in Lead[n].first..Lead[n].last /\ Spelled(u, i, n) = c
    BY <1>3, <2>4, <2>7, Zenon
  <2>9. CharsAt(u, i) = {[char |-> c, length |-> n]}
    <3>1. /\ ~ u[i].esc /\ u[i].val \in Lead[n].first..Lead[n].last
          /\ i + n - 1 <= Len(u) /\ \A j \in (i + 1)..(i + n - 1) : IsTail(u[j])
          /\ Spelled(u, i, n) = c /\ c >= Lead[n].least /\ n \in 1..4
      BY <1>3, <2>1, <2>4, <2>6, <2>8, Zenon
    <3> QED BY <3>1, OneInBytes, Zenon
  <2> QED BY <1>3, <2>9, Zenon
<1>4. CASE TwoBytes(c, e)
  <2>1. PICK a, b : a = c \div 64 /\ b = c % 64
    OBVIOUS
  <2>2. /\ Len(e) = 2 /\ e[1] = 192 + a /\ e[2] = 128 + b
        /\ 128 <= c /\ c < 2048
    BY <1>4, <2>1, SMT DEF TwoBytes
  <2>3. /\ a \in 2..31 /\ b \in 0..63
        /\ a * 64 + b = c
    <3>1. c \in Nat /\ c >= 128 /\ c < 2048
      BY <1>0, <2>2, SMT
    <3> QED BY <2>1, <3>1, Divided2, SMT
  <2>4. Decoded(e, 2) = c
    <3>1. e[1] - Lead[2].first = a /\ e[2] - 128 = b
      BY <2>2, <2>3, LeadTable, SMT
    <3>2. Decoded(e, 2) = a * 64 + b
      BY <3>1, SMT DEF Decoded
    <3> QED BY <2>3, <3>2, Zenon
  <2>5. e[1] \in Lead[2].first..Lead[2].last /\ e[1] \in 128..255 /\ c >= Lead[2].least
    BY <1>0, <1>1, <2>2, <2>3, LeadTable, SMT
  <2>6. ASSUME NEW k \in 2..2 PROVE e[k] \in 128..191
    <3>1. k = 2
      BY SMT
    <3>2. e[2] \in 128..191
      BY <2>2, <2>3, SMT
    <3> QED BY <3>1, <3>2, Zenon
  <2>7. 2 \in 2..4
    BY SMT
  <2> QED BY <1>3, <2>2, <2>4, <2>5, <2>6, <2>7
<1>5. CASE ThreeBytes(c, e)
  <2>1. PICK a, b, d : a = c \div 4096 /\ b = (c \div 64) % 64 /\ d = c % 64
    OBVIOUS
  <2>2. /\ Len(e) = 3 /\ e[1] = 224 + a /\ e[2] = 128 + b /\ e[3] = 128 + d
        /\ 2048 <= c /\ c < 65536
    BY <1>5, <2>1, SMT DEF ThreeBytes
  <2>3. /\ a \in 0..15 /\ b \in 0..63 /\ d \in 0..63
        /\ (a * 64 + b) * 64 + d = c
    <3>1. c \in Nat /\ c >= 2048 /\ c < 65536
      BY <1>0, <2>2, SMT
    <3> QED BY <2>1, <3>1, Divided3, SMT
  <2>4. Decoded(e, 3) = c
    <3>1. e[1] - Lead[3].first = a /\ e[2] - 128 = b /\ e[3] - 128 = d
      BY <2>2, <2>3, LeadTable, SMT
    <3>2. Decoded(e, 3) = (a * 64 + b) * 64 + d
      BY <3>1, SMT DEF Decoded
    <3> QED BY <2>3, <3>2, Zenon
  <2>5. e[1] \in Lead[3].first..Lead[3].last /\ e[1] \in 128..255 /\ c >= Lead[3].least
    BY <1>0, <1>1, <2>2, <2>3, LeadTable, SMT
  <2>6. ASSUME NEW k \in 2..3 PROVE e[k] \in 128..191
    <3>1. k = 2 \/ k = 3
      BY SMT
    <3>2. e[2] \in 128..191 /\ e[3] \in 128..191
      BY <2>2, <2>3, SMT
    <3> QED BY <3>1, <3>2, Zenon
  <2>7. 3 \in 2..4
    BY SMT
  <2> QED BY <1>3, <2>2, <2>4, <2>5, <2>6, <2>7
<1>6. CASE FourBytes(c, e)
  <2>1. PICK a, b, d, f : a = c \div 262144 /\ b = (c \div 4096) % 64 /\ d = (c \div 64) % 64 /\ f = c % 64
    OBVIOUS
  <2>2. /\ Len(e) = 4 /\ e[1] = 240 + a /\ e[2] = 128 + b /\ e[3] = 128 + d /\ e[4] = 128 + f
        /\ 65536 <= c
    BY <1>6, <2>1, SMT DEF FourBytes
  <2>3. /\ a \in 0..4 /\ b \in 0..63 /\ d \in 0..63 /\ f \in 0..63
        /\ ((a * 64 + b) * 64 + d) * 64 + f = c
    <3>1. c \in Nat /\ c >= 65536 /\ c < 1114112
      BY <1>0, <2>2, SMT
    <3> QED BY <2>1, <3>1, Divided4, SMT
  <2>4. Decoded(e, 4) = c
    <3>0. /\ e[1] = 240 + a /\ e[2] = 128 + b /\ e[3] = 128 + d /\ e[4] = 128 + f
          /\ a \in Int /\ b \in Int /\ d \in Int /\ f \in Int /\ Lead[4].first = 240
      BY <2>2, <2>3, LeadTable, SMT
    <3>1. e[1] - Lead[4].first = a /\ e[2] - 128 = b /\ e[3] - 128 = d /\ e[4] - 128 = f
      <4>1. e[1] - Lead[4].first = a
        BY <3>0, SMT
      <4>2. e[2] - 128 = b /\ e[3] - 128 = d
        BY <3>0, SMT
      <4>3. e[4] - 128 = f
        BY <3>0, SMT
      <4> QED BY <4>1, <4>2, <4>3
    <3>2. Decoded(e, 4) = ((a * 64 + b) * 64 + d) * 64 + f
      BY <3>1, SMT DEF Decoded
    <3> QED BY <2>3, <3>2, Zenon
  <2>5. e[1] \in Lead[4].first..Lead[4].last /\ e[1] \in 128..255 /\ c >= Lead[4].least
    <3>0. e[1] = 240 + a /\ a \in 0..4 /\ c >= 65536
      <4>1. c >= 65536
        BY <1>0, <2>2, SMT
      <4> QED BY <2>2, <2>3, <4>1
    <3>1. Lead[4].first = 240 /\ Lead[4].last = 247
      BY LeadTable, SMT
    <3>2. e[1] \in Lead[4].first..Lead[4].last
      BY <3>0, <3>1, SMT
    <3>3. e[1] \in 128..255
      BY <3>0, SMT
    <3>4. c >= Lead[4].least
      BY <1>1, <3>0, SMT
    <3> QED BY <3>2, <3>3, <3>4
  <2>6. ASSUME NEW k \in 2..4 PROVE e[k] \in 128..191
    <3>1. k = 2 \/ k = 3 \/ k = 4
      BY SMT
    <3>2. e[2] \in 128..191 /\ e[3] \in 128..191 /\ e[4] \in 128..191
      BY <2>2, <2>3, SMT
    <3> QED BY <3>1, <3>2, Zenon
  <2>7. 4 \in 2..4
    BY SMT
  <2> QED BY <1>3, <2>2, <2>4, <2>5, <2>6, <2>7
<1> QED BY <1>2, <1>4, <1>5, <1>6, Utf8Written, Zenon

-----------------------------------------------------------------------------
(* A string, written and read again.                                       *)

Characters == {c \in Chars : IsCharacter(c)}

Utf8All(m) == FlattenSeq([i \in DOMAIN m |-> Utf8(m[i])])

LEMMA Utf8Pieced ==
  ASSUME NEW m \in Seq(Characters)
  PROVE  /\ Utf8All(m) \in Texts
         /\ \E off :
              /\ off \in [1..(Len(m) + 1) -> 1..(Len(Utf8All(m)) + 1)]
              /\ off[1] = 1
              /\ off[Len(m) + 1] = Len(Utf8All(m)) + 1
              /\ \A k \in 1..Len(m) :
                   /\ off[k + 1] = off[k] + Len(Utf8(m[k]))
                   /\ \A j \in 1..Len(Utf8(m[k])) :
                        Utf8All(m)[off[k] + j - 1] = Utf8(m[k])[j]
<1> DEFINE n == Len(m)
           ss == [i \in 1..n |-> Utf8(m[i])]
<1>1. n \in Nat /\ DOMAIN m = 1..n
  OBVIOUS
<1>2. \A i \in 1..n : Utf8(m[i]) \in Seq(0..255)
  <2>1. \A i \in 1..n : m[i] \in Characters
    BY <1>1, ElementOfSeq, Zenon
  <2>2. \A i \in 1..n : IsCharacter(m[i])
    BY <2>1, Zenon DEF Characters
  <2> QED BY <2>2, Utf8Written, Zenon DEF Texts
<1>3. ss \in [1..n -> Seq(0..255)]
  BY <1>2
<1>4. ss \in Seq(Seq(0..255)) /\ Len(ss) = n /\ \A i \in 1..n : ss[i] = Utf8(m[i])
  <2>1. \A i \in 1..n : ss[i] = Utf8(m[i])
    OBVIOUS
  <2> HIDE DEF ss, n
  <2> QED BY <1>1, <1>3, <2>1, FunctionIsSeq
<1>5. Utf8All(m) = FlattenSeq(ss)
  BY <1>1 DEF Utf8All
<1> HIDE DEF ss, n
<1>6. /\ FlattenSeq(ss) \in Seq(0..255)
      /\ \E off : Pieced(ss, off, FlattenSeq(ss))
  BY <1>4, FlattenPieces
<1>7. PICK off : Pieced(ss, off, FlattenSeq(ss))
  BY <1>6
<1>8. /\ off \in [1..(n + 1) -> 1..(Len(Utf8All(m)) + 1)]
      /\ off[1] = 1
      /\ off[n + 1] = Len(Utf8All(m)) + 1
      /\ \A k \in 1..n :
           /\ off[k + 1] = off[k] + Len(Utf8(m[k]))
           /\ \A j \in 1..Len(Utf8(m[k])) :
                Utf8All(m)[off[k] + j - 1] = Utf8(m[k])[j]
  BY <1>4, <1>5, <1>7, Zenon DEF Pieced
<1> QED BY <1>5, <1>6, <1>8, Zenon DEF Texts, n

\* The units from the i-th on mean y and nothing else.
Only(u, f, i, y) == FromHere(u, f, i) = {y}

\* One step of Meanings at a place where there is one character.
LEMMA FromHereOne ==
  ASSUME NEW u, NEW f, NEW i, i # Len(u) + 1, NEW c, NEW n, NEW r,
         OneChar(u, i, c, n), f[i + n] = {r}
  PROVE  Only(u, f, i, <<c>> \o r)
<1> USE DEF Only
<1> DEFINE d == [char |-> c, length |-> n]
<1>1. d.char = c /\ d.length = n
  OBVIOUS
<1> HIDE DEF d
<1>2. CharsAt(u, i) = {d}
  BY Zenon DEF d, OneChar
<1>3. ASSUME NEW x PROVE Prepends(u, f, i, x) <=> x = <<c>> \o r
  <2>1. ASSUME Prepends(u, f, i, x) PROVE x = <<c>> \o r
    <3>0. PICK e \in CharsAt(u, i) : \E rest \in f[i + e.length] : x = <<e.char>> \o rest
      BY <2>1, Zenon DEF Prepends
    <3>1. PICK rest \in f[i + e.length] : x = <<e.char>> \o rest
      BY <3>0
    <3>2. e = d
      BY <1>2, Zenon
    <3>3. rest \in f[i + n]
      BY <1>1, <3>2, Zenon
    <3>4. rest = r
      BY <3>3, Zenon
    <3> QED BY <1>1, <3>1, <3>2, <3>4, Zenon
  <2>2. ASSUME x = <<c>> \o r PROVE Prepends(u, f, i, x)
    <3>1. d \in CharsAt(u, i)
      BY <1>2, Zenon
    <3>2. r \in f[i + d.length]
      BY <1>1, Zenon
    <3>3. x = <<d.char>> \o r
      BY <1>1, <2>2, Zenon
    <3> QED BY <3>1, <3>2, <3>3, Zenon DEF Prepends
  <2> QED BY <2>1, <2>2
<1>4. \A x : x \in FromHere(u, f, i) <=> x = <<c>> \o r
  BY <1>3, InFromHere, Zenon
<1>5. PICK s, y : s = FromHere(u, f, i) /\ y = <<c>> \o r
  OBVIOUS
<1>6. \A x : x \in s <=> x = y
  BY <1>4, <1>5, Zenon
<1>7. s = {y}
  <2>1. \A x : x \in s <=> x \in {y}
    BY <1>6, Zenon
  <2> QED BY <2>1
<1> QED BY <1>5, <1>7, Zenon

\* The units of a string that json_escape wrote mean that string.
LEMMA MeaningsWritten ==
  ASSUME NEW m \in Seq(Characters)
  PROVE  Meanings(SpeltAll(Utf8All(m))) = {m}
<1> DEFINE n == Len(m)
           bytes == Utf8All(m)
           u == SpeltAll(bytes)
<1>1. n \in Nat
  OBVIOUS
<1>2. bytes \in Texts
  BY Utf8Pieced, Zenon
<1>3. PICK off :
        /\ off \in [1..(n + 1) -> 1..(Len(bytes) + 1)]
        /\ off[1] = 1
        /\ off[n + 1] = Len(bytes) + 1
        /\ \A k \in 1..n :
             /\ off[k + 1] = off[k] + Len(Utf8(m[k]))
             /\ \A j \in 1..Len(Utf8(m[k])) : bytes[off[k] + j - 1] = Utf8(m[k])[j]
  BY Utf8Pieced, Zenon
<1> HIDE DEF bytes
<1>4. /\ u \in TextUnits /\ Len(u) = Len(bytes)
      /\ \A k \in 1..Len(bytes) : u[k] = Spelt(bytes[k])
  BY <1>2, SpeltAllUnits, Zenon
<1> HIDE DEF u
<1>5. Len(bytes) \in Nat
  BY <1>2 DEF Texts
<1>6. PICK f : MeaningsFrom(u, f)
  BY <1>4, MeaningsRecursion
<1>7. Meanings(u) = f[1] /\ \A i \in 1..(Len(u) + 1) : f[i] = FromHere(u, f, i)
  BY <1>6, Zenon DEF MeaningsFrom
<1> DEFINE G == {k \in 1..(n + 1) : f[off[k]] = {From(m, k)}}
<1>8. n + 1 \in G
  <2>1. off[n + 1] = Len(u) + 1 /\ Len(u) + 1 \in 1..(Len(u) + 1) /\ n + 1 \in 1..(n + 1)
    BY <1>1, <1>3, <1>4, <1>5
  <2>2. FromHere(u, f, Len(u) + 1) = {<<>>}
    BY Zenon DEF FromHere
  <2>3. From(m, n + 1) = <<>>
    BY FromEnds
  <2>4. f[Len(u) + 1] = {<<>>}
    BY <1>7, <2>1, <2>2, Zenon
  <2> QED BY <2>1, <2>3, <2>4
<1>9. ASSUME NEW k \in 1..n, k + 1 \in G PROVE k \in G
  <2>1. PICK c, e, i : c = m[k] /\ e = Utf8(c) /\ i = off[k]
    OBVIOUS
  <2>2. c \in Characters /\ IsCharacter(c)
    <3>1. c \in Characters
      BY <2>1, ElementOfSeq, Zenon
    <3> QED BY <3>1, Zenon DEF Characters
  <2>3. e \in Texts /\ Len(e) \in Nat /\ Len(e) # 0
    <3>1. /\ e \in Texts
          /\ OneByte(c, e) \/ TwoBytes(c, e) \/ ThreeBytes(c, e) \/ FourBytes(c, e)
      BY <2>1, <2>2, Utf8Written, Zenon
    <3>2. Len(e) \in Nat
      BY <3>1 DEF Texts
    <3>3. Len(e) = 1 \/ Len(e) = 2 \/ Len(e) = 3 \/ Len(e) = 4
      BY <3>1, SMT DEF OneByte, TwoBytes, ThreeBytes, FourBytes
    <3>4. Len(e) # 0
      BY <3>3, SMT
    <3> QED BY <3>1, <3>2, <3>4, Zenon
  <2>4. k \in 1..(n + 1) /\ k + 1 \in 1..(n + 1)
    BY <1>1
  <2>5. /\ i \in 1..(Len(bytes) + 1) /\ off[k + 1] \in 1..(Len(bytes) + 1)
        /\ off[k + 1] = i + Len(e)
        /\ \A j \in 1..Len(e) : bytes[i + j - 1] = e[j]
    BY <1>3, <2>1, <2>4, Zenon
  <2>6. /\ i \in Nat /\ i \in 1..(Len(u) + 1) /\ i # Len(u) + 1
        /\ i + Len(e) - 1 <= Len(u) /\ Len(u) \in Nat
    <3>1. Len(u) = Len(bytes)
      BY <1>4, Zenon
    <3> QED BY <1>5, <2>3, <2>5, <3>1
  <2>7. ASSUME NEW j \in 1..Len(e) PROVE u[i + j - 1] = Spelt(e[j])
    <3>1. i + j - 1 \in 1..Len(bytes)
      BY <1>5, <2>3, <2>5
    <3> QED BY <1>4, <2>5, <3>1, Zenon
  <2>8. OneChar(u, i, c, Len(e))
    <3>1. /\ i \in Nat /\ IsCharacter(c) /\ e = Utf8(c)
          /\ Len(u) \in Nat /\ i + Len(e) - 1 <= Len(u)
          /\ SpeltFrom(u, i, e)
      BY <2>1, <2>2, <2>6, <2>7, Zenon DEF SpeltFrom
    <3> QED BY <3>1, CharWritten, Zenon
  <2>9. f[i + Len(e)] = {From(m, k + 1)}
    BY <1>9, <2>5
  <2>10. FromHere(u, f, i) = {<<c>> \o From(m, k + 1)}
    <3>1. PICK l, r : l = Len(e) /\ r = From(m, k + 1)
      OBVIOUS
    <3>2. /\ i # Len(u) + 1 /\ OneChar(u, i, c, l)
          /\ f[i + l] = {r}
      BY <2>6, <2>8, <2>9, <3>1, Zenon
    <3>3. Only(u, f, i, <<c>> \o r)
      BY <3>2, FromHereOne, Zenon
    <3> QED BY <3>1, <3>3, Zenon DEF Only
  <2>11. <<c>> \o From(m, k + 1) = From(m, k)
    BY <2>1, FromMore
  <2>12. f[off[k]] = {From(m, k)}
    BY <1>7, <2>1, <2>6, <2>10, <2>11, Zenon
  <2> QED BY <2>4, <2>12
<1>10. \A k \in 1..(n + 1) : k \in G
  <2>1. ASSUME NEW k \in 1..(n + 1), \A j \in (k + 1)..(n + 1) : j \in G PROVE k \in G
    <3>1. CASE k = n + 1
      BY <1>8, <3>1
    <3>2. CASE k # n + 1
      <4>1. k \in 1..n /\ k + 1 \in (k + 1)..(n + 1)
        BY <1>1, <3>2
      <4> QED BY <1>9, <2>1, <4>1
    <3> QED BY <3>1, <3>2
  <2> HIDE DEF G
  <2>2. PICK a, w : a = 1 /\ w = n + 1
    OBVIOUS
  <2>3. a \in Nat /\ w \in Nat
    BY <1>1, <2>2
  <2>4. \A i \in a..w : (\A k \in (i + 1)..w : k \in G) => i \in G
    BY <2>1, <2>2
  <2>5. \A i \in a..w : i \in G
    BY <2>3, <2>4, FromRight, Zenon
  <2> QED BY <2>2, <2>5
<1>11. f[1] = {m}
  <2>1. 1 \in G
    BY <1>1, <1>10
  <2>2. From(m, 1) = m
    BY FromEnds
  <2> QED BY <1>3, <2>1, <2>2
<1> QED BY <1>7, <1>11, Zenon DEF u, bytes

LEMMA Rereads ==
  ASSUME Stored(str), \A i \in DOMAIN str : str[i] <= MaxCharacter
  PROVE  LET utf8  == FlattenSeq([i \in DOMAIN str |-> Utf8(str[i])])
             again == ScanString(<<Quote>> \o json_escape(utf8) \o <<Quote>>, 1)
         IN  again.tok = "STRING" /\ Meanings(again.units) = {str}
<1>1. str \in Seq(CodePoints) /\ \A i \in DOMAIN str : str[i] \notin Surrogates
  BY Zenon DEF Stored
<1>2. Len(str) \in Nat /\ DOMAIN str = 1..Len(str)
  BY <1>1
<1>3. \A i \in 1..Len(str) : str[i] \in Characters
  <2>1. ASSUME NEW i \in 1..Len(str) PROVE str[i] \in Characters
    <3>1. str[i] \in CodePoints
      BY <1>1, ElementOfSeq, Zenon
    <3>2. str[i] \in Nat
      BY <3>1, Powers, SMT DEF CodePoints
    <3>3. MaxCharacter \in Nat
      BY SMT DEF MaxCharacter
    <3>4. str[i] <= MaxCharacter /\ str[i] \notin Surrogates
      BY <1>1, <1>2, Zenon
    <3>5. str[i] \in 0..MaxCharacter
      BY <3>2, <3>3, <3>4
    <3> QED BY <3>4, <3>5, Zenon DEF Characters, Chars, IsCharacter
  <2> QED BY <2>1
<1>4. str \in Seq(Characters)
  <2>1. str \in [1..Len(str) -> Characters]
    <3>1. str \in [1..Len(str) -> CodePoints]
      BY <1>1
    <3> QED BY <1>3, <3>1
  <2> QED BY <1>2, <2>1, FunctionIsSeq
<1> DEFINE again == ScanString(<<Quote>> \o json_escape(Utf8All(str)) \o <<Quote>>, 1)
<1>5. again = Rest(Utf8All(str), 1, Len(json_escape(Utf8All(str))) + 3)
  BY <1>4, Utf8Pieced, ScanWritten, Zenon DEF Literally
<1>6. again.tok = "STRING" /\ again.units = From(SpeltAll(Utf8All(str)), 1)
  BY <1>5 DEF Rest
<1>7. From(SpeltAll(Utf8All(str)), 1) = SpeltAll(Utf8All(str))
  <2>1. SpeltAll(Utf8All(str)) \in Seq(Units)
    BY <1>4, Utf8Pieced, SpeltAllUnits, Zenon DEF TextUnits
  <2> QED BY <2>1, FromEnds
<1>8. Meanings(again.units) = {str}
  BY <1>4, <1>6, <1>7, MeaningsWritten, Zenon
<1> HIDE DEF again
<1>9. again.tok = "STRING" /\ Meanings(again.units) = {str}
  BY <1>6, <1>8, Zenon
<1> QED BY <1>9, Zenon DEF again, Utf8All

\* A string of any length that was read is written by json_escape as one
\* literal that is read as the same string.
THEOREM RereadsWhatWasStored == TokenSpec => []RereadsAsStored
<1>1. ASSUME TokenInv PROVE RereadsAsStored
  <2>1. Stored(str)
    <3>1. IInv
      BY <1>1, Zenon DEF TokenInv, IInvText
    <3> QED BY <3>1, Parts, Zenon
  <2> QED BY <2>1, Rereads, Zenon DEF RereadsAsStored
<1>2. TokenInv => RereadsAsStored
  BY <1>1
<1> QED BY TokenInductive, <1>2, PTL
=============================================================================
