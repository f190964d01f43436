------------------------------ MODULE JsonNumber ------------------------------
(***************************************************************************)
(* Numbers as text: the number branch of getJsonToken                      *)
(* (univalue/univalue_read.cpp), ParseInt32 and ParseInt64                 *)
(* (univalue/univalue_get.cpp), and the grammar of RFC 4627 beside them.   *)
(* A character is its byte.  Behind a text lies a NUL, as behind           *)
(* std::string::data: the code may look at it.                             *)
(***************************************************************************)
EXTENDS Integers, Sequences

NUL == 0
Plus == 43
Minus == 45
Dot == 46
Digits == 48..57
ExpMarks == {69, 101}
JsonSpaces == {9, 10, 13, 32}     \* json_isspace
Spaces == {9, 10, 11, 12, 13, 32} \* isspace of the C library

At(s, i) == IF i <= Len(s) THEN s[i] ELSE NUL

\* The first position from i on that is not in the class: the copying loops.
Skip(s, i, class) ==
  CHOOSE j \in i..(Len(s) + 1) :
    (\A k \in i..(j - 1) : s[k] \in class) /\ At(s, j) \notin class

\* What getJsonToken returns: the token, where it begins, and where raw stands
\* behind it, or at the character it refuses.
Token(tok, from, next) == [tok |-> tok, from |-> from, next |-> next]

\* Mutant of ScanNumber: an exponent needs no digits.
ScanNumberLax(s, i) ==
  LET int  == Skip(s, i + 1, Digits)
      frac == IF At(s, int) = Dot THEN Skip(s, int + 1, Digits) ELSE int
  IN  IF At(s, frac) \in ExpMarks
      THEN Token("NUMBER", i, Skip(s, frac + 1, Digits \cup {Plus, Minus}))
      ELSE Token("NUMBER", i, frac)

\* A number that begins at i, with a digit or a minus sign.
ScanNumber(s, i) ==
  LET firstDigit == IF s[i] \in Digits THEN i ELSE i + 1
      int  == Skip(s, i + 1, Digits)
      frac == IF At(s, int) = Dot THEN Skip(s, int + 1, Digits) ELSE int
      exp  == IF At(s, frac + 1) \in {Plus, Minus} THEN frac + 2 ELSE frac + 1
  IN  IF At(s, firstDigit) = 48 /\ At(s, firstDigit + 1) \in Digits
      THEN Token("ERR", i, firstDigit + 1)
      ELSE IF s[i] = Minus /\ i < Len(s) /\ s[i + 1] \notin Digits
      THEN Token("ERR", i, i + 1)
      ELSE IF At(s, int) = Dot /\ frac = int + 1
      THEN Token("ERR", i, frac)
      ELSE IF At(s, frac) \notin ExpMarks
      THEN Token("NUMBER", i, frac)
      ELSE IF At(s, exp) \notin Digits
      THEN Token("ERR", i, exp)
      ELSE Token("NUMBER", i, Skip(s, exp, Digits))

(* The C library's strtol and strtoll for a type that holds -limit .. limit-1. *)
Value(s) ==
  LET f[i \in 0..Len(s)] == IF i = 0 THEN 0 ELSE 10 * f[i - 1] + (s[i] - 48)
  IN  f[Len(s)]

strtol(s, limit) ==
  LET sign == Skip(s, 1, Spaces)
      from == IF At(s, sign) \in {Plus, Minus} THEN sign + 1 ELSE sign
      endp == Skip(s, from, Digits)
      size == Value(SubSeq(s, from, endp - 1))
      n    == IF At(s, sign) = Minus THEN - size ELSE size
  IN  CASE endp = from   -> [n |-> 0, endp |-> 1, errno |-> FALSE]
        [] n < - limit   -> [n |-> - limit, endp |-> endp, errno |-> TRUE]
        [] n > limit - 1 -> [n |-> limit - 1, endp |-> endp, errno |-> TRUE]
        [] OTHER         -> [n |-> n, endp |-> endp, errno |-> FALSE]

ParsePrechecks(s) ==
  /\ s # <<>>
  /\ s[1] \notin JsonSpaces /\ s[Len(s)] \notin JsonSpaces
  /\ \A i \in DOMAIN s : s[i] # NUL

\* Mutant of ParseInt: errno is not looked at.
ParseIntClamped(s, int, long) ==
  LET end == strtol(s, long)
  IN  IF ParsePrechecks(s) /\ At(s, end.endp) = NUL /\ end.n \in (- int)..(int - 1)
      THEN {end.n} ELSE {}

\* ParseInt32 and ParseInt64, for a result of limit int and a long, or long
\* long, of limit long: the number read, if any.
ParseInt(s, int, long) ==
  LET end == strtol(s, long)
  IN  IF /\ ParsePrechecks(s)
         /\ At(s, end.endp) = NUL
         /\ ~ end.errno
         /\ end.n \in (- int)..(int - 1)
      THEN {end.n} ELSE {}
-----------------------------------------------------------------------------
(* RFC 4627: number = [ minus ] int [ frac ] [ exp ].                      *)

AllDigits(t) == t # <<>> /\ \A i \in DOMAIN t : t[i] \in Digits

Unsigned(t, signs) == IF t # <<>> /\ Head(t) \in signs THEN Tail(t) ELSE t

IsInteger(t) ==
  LET n == Unsigned(t, {Minus}) IN AllDigits(n) /\ (n[1] = 48 => Len(n) = 1)

IsFrac(t) == t = <<>> \/ (Head(t) = Dot /\ AllDigits(Tail(t)))

IsExp(t) ==
  t = <<>> \/ (Head(t) \in ExpMarks /\ AllDigits(Unsigned(Tail(t), {Plus, Minus})))

IsNumber(t) ==
  \E i, j \in 0..Len(t) :
    /\ i <= j
    /\ IsInteger(SubSeq(t, 1, i))
    /\ IsFrac(SubSeq(t, i + 1, j))
    /\ IsExp(SubSeq(t, j + 1, Len(t)))

IntegerOf(t) == IF Head(t) = Minus THEN - Value(Tail(t)) ELSE Value(t)
=============================================================================
