----------------------------- MODULE Utf8Filter -----------------------------
(***************************************************************************)
(* JSONUTF8StringFilter (univalue/univalue_utffilter.h): its methods as    *)
(* operators on its members, and the life of one filter as getJsonToken    *)
(* leads it.  Raw bytes and one-character escapes go to push_back, \u      *)
(* escapes to push_back_u, and finalize is called at the closing quote.    *)
(*                                                                         *)
(* str is the sequence of code points written: append_codepoint writes the *)
(* UTF-8 bytes of any number below 2^21, and the fast path those below     *)
(* 128, which are their own UTF-8.                                         *)
(***************************************************************************)
EXTENDS Utf8Text

\* What four hexadecimal digits can say, and what is pushed: a byte, or what
\* a \u escape says.
UnitVals == 0..65535

Units == [esc : {FALSE}, val : 0..255] \cup [esc : {TRUE}, val : UnitVals]

Byte(b) == [esc |-> FALSE, val |-> b]

NewFilter == [str |-> <<>>, is_valid |-> TRUE, codepoint |-> 0, state |-> 0, surpair |-> 0]

\* Mutant of OrPlane1: the plane is left out.
OrNothing(n) == n

\* 0x10000 | n, for n below 2^20.
OrPlane1(n) == IF (n \div 65536) % 2 = 1 THEN n ELSE n + 65536

\* The character of two halves.
Joined(high, low) == OrPlane1((high - 55296) * 1024 + (low - 56320))

\* Assignments to the members: is_valid only ever loses its truth.
Valid(f, condition) == [f EXCEPT !.is_valid = @ /\ condition]

SetPair(f, half) == [f EXCEPT !.surpair = half]

SetSequence(f, bits, left) == [[f EXCEPT !.codepoint = bits] EXCEPT !.state = left]

append_codepoint(f, c) == [f EXCEPT !.str = Append(@, c)]

\* Mutant of push_back_u: a second half is taken for a character.
WriteHalves(f, c) ==
  LET g == Valid(f, f.state = 0)
  IN  CASE f.surpair # 0 -> Valid(g, FALSE)
        [] f.surpair = 0 /\ c \in HighHalves -> SetPair(g, c)
        [] f.surpair = 0 /\ c \notin HighHalves -> append_codepoint(g, c)

\* A character, or a half of one, that is complete.
push_back_u(f, c) ==
  LET g == Valid(f, f.state = 0)
  IN  CASE ~ (c \in LowHalves <=> f.surpair # 0) -> Valid(g, FALSE)
        [] c \in LowHalves /\ f.surpair # 0 ->
             SetPair(append_codepoint(g, Joined(f.surpair, c)), 0)
        [] c \in HighHalves /\ f.surpair = 0 -> SetPair(g, c)
        [] c \notin Surrogates /\ f.surpair = 0 -> append_codepoint(g, c)

\* Mutant of LeadBits: three-byte sequences are taken for four-byte ones.
LeadBitsWide(b) == IF b < 224 THEN 6 ELSE 18

\* The number of bits behind a leading byte, and those it brings.
LeadBits(b) == IF b < 224 THEN 6 ELSE IF b < 240 THEN 12 ELSE 18

LeadValue(b) == (b - (IF b < 224 THEN 192 ELSE IF b < 240 THEN 224 ELSE 240)) * 2 ^ LeadBits(b)

\* In an open sequence: any byte is taken for a continuation.  The bits below
\* `state' are clear, so that |= is an addition.
Continue(f, b) ==
  LET left == f.state - 6
      g    == SetSequence(Valid(f, b \in 128..191), f.codepoint + (b % 64) * 2 ^ left, left)
  IN  IF left = 0 THEN push_back_u(g, g.codepoint) ELSE g

\* Bytes that cannot start a character make it invalid.  The fast path for bytes below 128 does not look at surpair.
push_back(f, b) ==
  IF f.state # 0 THEN Continue(f, b)
  ELSE IF b < 128 THEN append_codepoint(f, b)
  ELSE IF b \in 192..247 THEN SetSequence(f, LeadValue(b), LeadBits(b))
  ELSE Valid(f, FALSE)

\* What the string loop does with a unit it has read.
Feed(f, unit) == IF unit.esc THEN push_back_u(f, unit.val) ELSE push_back(f, unit.val)

\* Mutant of finalize: the sequence is taken for open while it left bits.
FinalizeByBits(f) == Valid(f, f.codepoint = 0 /\ f.surpair = 0)

\* No sequence and no pair is open.
finalize(f) == Valid(f, f.state = 0 /\ f.surpair = 0)

\* A filter that was fed the units of a string.
Filtered(us) ==
  LET fed[k \in 0..Len(us)] == IF k = 0 THEN NewFilter ELSE Feed(fed[k - 1], us[k])
  IN  fed[Len(us)]
-----------------------------------------------------------------------------
VARIABLES
  filter,     \* the members of the filter
  units,      \* what was pushed
  status      \* "open", "accepted" or "refused"

vars == <<filter, units, status>>

Init ==
  /\ filter = NewFilter
  /\ units = <<>>
  /\ status = "open"

Push(unit) ==
  /\ status = "open"
  /\ filter' = Feed(filter, unit)
  /\ units' = Append(units, unit)
  /\ UNCHANGED status

Finalize ==
  /\ status = "open"
  /\ filter' = finalize(filter)
  /\ status' = IF finalize(filter).is_valid THEN "accepted" ELSE "refused"
  /\ UNCHANGED units

Next == (\E unit \in Units : Push(unit)) \/ Finalize

Spec == Init /\ [][Next]_vars
-----------------------------------------------------------------------------
str       == filter.str
is_valid  == filter.is_valid
codepoint == filter.codepoint
state     == filter.state
surpair   == filter.surpair

\* What append_codepoint can write.
CodePoints == 0..(2 ^ 21 - 1)

\* Types, and what makes |= an addition: the bits below `state' are clear.
TypeOK ==
  /\ filter \in [str : Seq(CodePoints), is_valid : BOOLEAN, codepoint : CodePoints,
                 state : {0, 6, 12, 18}, surpair : HighHalves \cup {0}]
  /\ codepoint % (2 ^ state) = 0
  /\ units \in Seq(Units)
  /\ status \in {"open", "accepted", "refused"}

\* No string that means something is refused, however its characters are
\* spelled (the is_valid assignments of push_back, push_back_u, finalize).
AcceptsEveryText == status = "refused" => Meanings(units) = {}

\* What is stored is the meaning, if all its characters are below U+20000.
MeansWhatItSays ==
  status = "accepted" =>
    \A meaning \in Meanings(units) :
      (\A i \in DOMAIN meaning : meaning[i] < 131072) => str = meaning

\* Nothing written is half of a character: surrogates never reach the
\* string, whether they come as escapes or as bytes, and valid or not.
NoHalves == \A i \in DOMAIN str : str[i] \notin Surrogates

\* "collates UTF-16 surrogate pairs as specified in RFC4627"
\* (univalue/univalue_utffilter.h): pairs above U+1FFFF included.
CollatesPairs ==
  status = "accepted" => \A meaning \in Meanings(units) : str = meaning

\* "First half of surrogate pair not followed by second - fail"
\* (univalue/univalue_utffilter.h), of strings without bytes above 7F.
HalvesAdjacent ==
  (status = "accepted" /\ \A i \in DOMAIN units : units[i].esc \/ units[i].val < 128) =>
    \A i \in DOMAIN units :
      (units[i].esc /\ units[i].val \in HighHalves) => IsPair(units, i)
=============================================================================
