------------------------------ MODULE Utf8Text ------------------------------
(***************************************************************************)
(* What a JSON string means: the characters spelled by a sequence of raw   *)
(* bytes and \u escapes, after RFC 3629 and RFC 4627, which                *)
(* univalue/univalue_utffilter.h names.  Declarative: a text has a meaning *)
(* when it can be cut into spellings of characters.                        *)
(*                                                                         *)
(* A unit of a text is a record [esc, val]: a byte, or with esc a four     *)
(* digit \u escape.                                                        *)
(***************************************************************************)
EXTENDS Integers, Sequences

HighHalves == 55296..56319     \* D800..DBFF
LowHalves  == 56320..57343     \* DC00..DFFF
Surrogates == HighHalves \cup LowHalves

MaxCharacter == 1114111        \* 10FFFF

IsCharacter(c) == c \in 0..MaxCharacter /\ c \notin Surrogates

\* The bytes of a character that has n of them: the first and last value of
\* the leading byte, and the least character that needs that many.
Lead == << [first |-> 0,   last |-> 127, least |-> 0],
           [first |-> 192, last |-> 223, least |-> 128],
           [first |-> 224, last |-> 239, least |-> 2048],
           [first |-> 240, last |-> 247, least |-> 65536] >>

IsTail(unit) == ~ unit.esc /\ unit.val \in 128..191

\* The number spelled by n bytes from position i.
Number(units, i, n) ==
  LET f[k \in 0..(n - 1)] ==
        IF k = 0 THEN units[i].val - Lead[n].first
                 ELSE f[k - 1] * 64 + (units[i + k].val - 128)
  IN  f[n - 1]

\* The characters that start at position i, with the units they take.
InBytes(units, i) ==
  {[char |-> Number(units, i, n), length |-> n] :
     n \in {n \in 1..4 :
              /\ ~ units[i].esc
              /\ units[i].val \in Lead[n].first..Lead[n].last
              /\ i + n - 1 <= Len(units)
              /\ \A j \in (i + 1)..(i + n - 1) : IsTail(units[j])
              /\ Number(units, i, n) >= Lead[n].least
              /\ IsCharacter(Number(units, i, n))}}

Escaped(units, i) ==
  IF units[i].esc /\ IsCharacter(units[i].val)
  THEN {[char |-> units[i].val, length |-> 1]}
  ELSE {}

IsPair(units, i) ==
  /\ i < Len(units)
  /\ units[i].esc /\ units[i].val \in HighHalves
  /\ units[i + 1].esc /\ units[i + 1].val \in LowHalves

Paired(units, i) ==
  IF IsPair(units, i)
  THEN {[char |-> 65536 + (units[i].val - 55296) * 1024 + (units[i + 1].val - 56320),
         length |-> 2]}
  ELSE {}

CharsAt(units, i) == InBytes(units, i) \cup Escaped(units, i) \cup Paired(units, i)

\* The meanings of a text: one, or none when it is not well formed.
Meanings(units) ==
  LET from[i \in 1..(Len(units) + 1)] ==
        IF i = Len(units) + 1
        THEN {<<>>}
        ELSE UNION {{<<c.char>> \o rest : rest \in from[i + c.length]} :
                      c \in CharsAt(units, i)}
  IN  from[1]
=============================================================================
