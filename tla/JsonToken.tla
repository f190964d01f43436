------------------------------ MODULE JsonToken ------------------------------
(***************************************************************************)
(* getJsonToken (univalue/univalue_read.cpp), as an operator on texts, and *)
(* the turns of its string loop with the filter that they feed; json_escape*)
(* and its table (univalue/univalue_write.cpp, univalue_escapes.h), which  *)
(* write the string back.  Texts are put together piece by piece while the *)
(* scan reaches their end.                                                 *)
(***************************************************************************)
EXTENDS Utf8Filter, JsonNumber, SequencesExt

CONSTANTS
  Pieces,        \* what a text outside of strings is put together from
  StringPieces,  \* and within a string
  MaxText,       \* bounds on their length,
  MaxString,
  MaxUnits,      \* and on the units of a string with the spaces before it
  IntLimit,      \* the result of get_int is in -IntLimit .. IntLimit-1
  LongLimits     \* the same of long, which may be as wide as int or wider

ASSUME TokenAssumption ==
  /\ \A p \in Pieces \cup StringPieces : p # <<>> /\ p \in Seq(0..255)
  /\ {MaxText, MaxString, MaxUnits, IntLimit} \subseteq Nat
  /\ \A long \in LongLimits : long \in Nat /\ long >= IntLimit

VARIABLES
  text,    \* what getJsonToken is called with
  raw      \* where the string loop stands in it, 0 before the opening quote

tvars == <<vars, text, raw>>
-----------------------------------------------------------------------------
Quote == 34
Backslash == 92

Punctuation ==
  [c \in {123, 125, 91, 93, 58, 44} |->
     CASE c = 123 -> "OBJ_OPEN"  [] c = 91 -> "ARR_OPEN"  [] c = 58 -> "COLON"
       [] c = 125 -> "OBJ_CLOSE" [] c = 93 -> "ARR_CLOSE" [] c = 44 -> "COMMA"]

Keywords ==
  [KW_NULL  |-> <<110, 117, 108, 108>>,
   KW_TRUE  |-> <<116, 114, 117, 101>>,
   KW_FALSE |-> <<102, 97, 108, 115, 101>>]

\* Mutant of StartsAt: what is left of the text is compared.
StartsAtCut(s, i, word) ==
  i <= Len(s) /\ \A k \in DOMAIN word : i + k - 1 <= Len(s) => s[i + k - 1] = word[k]

\* strncmp(raw, word, strlen(word)) == 0
StartsAt(s, i, word) == \A k \in DOMAIN word : At(s, i + k - 1) = word[k]

\* \b \t \n \f \r \" \\ by the byte they stand for.
Short ==
  [b \in {8, 9, 10, 12, 13, Quote, Backslash} |->
     CASE b = 8 -> 98 [] b = 9 -> 116 [] b = 10 -> 110 [] b = 12 -> 102 [] b = 13 -> 114
       [] b \in {Quote, Backslash} -> b]

\* The characters behind a backslash, by the byte that is pushed.
Unescaped == [c \in {Short[b] : b \in DOMAIN Short} \cup {47} |->
                IF c = 47 THEN 47 ELSE CHOOSE b \in DOMAIN Short : Short[b] = c]

HexDigits == Digits \cup (65..70) \cup (97..102)

Hex(c) == IF c \in Digits THEN c - 48 ELSE IF c > 70 THEN c - 87 ELSE c - 55

hatoui(ds) ==
  LET f[i \in 0..Len(ds)] == IF i = 0 THEN 0 ELSE 16 * f[i - 1] + Hex(ds[i])
  IN  f[Len(ds)]

\* A turn of the string loop at j: "unit", "end" or "err", and where raw is next.
Turn(s, j) ==
  LET c == At(s, j + 1)
  IN  CASE At(s, j) < 32 -> [kind |-> "err", next |-> j]
        [] At(s, j) = Quote -> [kind |-> "end", next |-> j + 1]
        [] At(s, j) = Backslash /\ c \in DOMAIN Unescaped ->
             [kind |-> "unit", next |-> j + 2, unit |-> Byte(Unescaped[c])]
        [] At(s, j) = Backslash /\ c = 117 ->
             LET digits == SubSeq(s, j + 2, j + 5)
             IN  IF j + 6 <= Len(s) /\ \A i \in DOMAIN digits : digits[i] \in HexDigits
                 THEN [kind |-> "unit", next |-> j + 6,
                       unit |-> [esc |-> TRUE, val |-> hatoui(digits)]]
                 ELSE [kind |-> "err", next |-> Skip(s, j + 2, HexDigits)]
        [] At(s, j) = Backslash /\ c \notin DOMAIN Unescaped \cup {117} ->
             [kind |-> "err", next |-> j + 1]
        [] OTHER -> [kind |-> "unit", next |-> j + 1, unit |-> Byte(s[j])]

\* The turns of the loop behind the quote at i: the units they push, and where
\* and how they end.
ScanString(s, i) ==
  LET walk[j \in (i + 1)..(Len(s) + 1)] ==
        LET turn == Turn(s, j)
        IN  IF turn.kind = "unit"
            THEN [walk[turn.next] EXCEPT !.units = <<turn.unit>> \o @]
            ELSE [tok |-> IF turn.kind = "end" THEN "STRING" ELSE "ERR",
                  from |-> i, next |-> turn.next, units |-> <<>>]
  IN  walk[i + 1]

\* Mutant of StringToken: finalize is not asked.
StringUnchecked(s, i) ==
  LET scan   == ScanString(s, i)
      writer == Filtered(scan.units)
  IN  [tok |-> IF scan.tok = "STRING" /\ writer.is_valid THEN "STRING" ELSE "ERR",
       from |-> i, next |-> scan.next, str |-> writer.str]

\* A string that begins at i: finalize has the last word on it.
StringToken(s, i) ==
  LET scan   == ScanString(s, i)
      writer == finalize(Filtered(scan.units))
  IN  [tok |-> IF scan.tok = "STRING" /\ writer.is_valid THEN "STRING" ELSE "ERR",
       from |-> i, next |-> scan.next, str |-> writer.str]

First(s) == Skip(s, 1, JsonSpaces)

getJsonToken(s) ==
  LET i == First(s)
      words == {k \in DOMAIN Keywords : StartsAt(s, i, Keywords[k])}
  IN  CASE i > Len(s) -> Token("NONE", i, i)
        [] At(s, i) \in DOMAIN Punctuation -> Token(Punctuation[s[i]], i, i + 1)
        [] At(s, i) \in Digits \cup {Minus} -> ScanNumber(s, i)
        [] At(s, i) = Quote -> StringToken(s, i)
        [] words # {} -> LET k == CHOOSE k \in words : TRUE
                         IN  Token(k, i, i + Len(Keywords[k]))
        [] OTHER -> Token("ERR", i, i)

\* validNumStr: the first token of s is a number, whatever follows it.
validNumStr(s) == getJsonToken(s).tok = "NUMBER"

\* get_int of a value that setNumStr(s) set.
get_int(s, long) == ParseInt(s, IntLimit, long)

\* append_codepoint
Utf8(c) ==
  CASE c < 128    -> <<c>>
    [] 128 <= c /\ c < 2048 -> <<192 + (c \div 64), 128 + (c % 64)>>
    [] 2048 <= c /\ c < 65536 ->
         <<224 + (c \div 4096), 128 + ((c \div 64) % 64), 128 + (c % 64)>>
    [] c >= 65536 ->
         <<240 + (c \div 262144), 128 + ((c \div 4096) % 64),
           128 + ((c \div 64) % 64), 128 + (c % 64)>>

\* Mutant of Escape: control characters are written as they are.
EscapeShort(b) == IF b \in DOMAIN Short THEN <<Backslash, Short[b]>> ELSE <<b>>

HexDigit(d) == IF d < 10 THEN 48 + d ELSE 87 + d

\* The table `escapes'.
Escape(b) ==
  CASE b \in DOMAIN Short -> <<Backslash, Short[b]>>
    [] b \notin DOMAIN Short /\ (b < 32 \/ b = 127) ->
         <<Backslash, 117, 48, 48, HexDigit(b \div 16), HexDigit(b % 16)>>
    [] OTHER -> <<b>>

json_escape(bytes) == FlattenSeq([i \in DOMAIN bytes |-> Escape(bytes[i])])
-----------------------------------------------------------------------------
TokenInit == Init /\ text = <<>> /\ raw = 0

InString(s) == At(s, First(s)) = Quote

Closed(s) == InString(s) /\ ScanString(s, First(s)).tok = "STRING"

\* The text grows while the scan reaches its end.
Grow ==
  /\ raw = 0
  /\ getJsonToken(text).next > Len(text)
  /\ ~ Closed(text)
  /\ \E piece \in IF InString(text) THEN StringPieces ELSE Pieces :
       text' = text \o piece
  /\ IF InString(text')
     THEN /\ Len(text') <= MaxString
          /\ First(text') + Len(ScanString(text', First(text')).units) <= MaxUnits + 1
     ELSE Len(text') <= MaxText
  /\ UNCHANGED <<vars, raw>>

\* The opening quote.
Begin ==
  /\ raw = 0
  /\ InString(text)
  /\ raw' = First(text) + 1
  /\ UNCHANGED <<vars, text>>

\* A turn of the string loop that pushes a unit, and the one at the closing
\* quote.  A turn that returns JTOK_ERR ends the call.
PushUnit ==
  /\ raw # 0
  /\ Turn(text, raw).kind = "unit"
  /\ Push(Turn(text, raw).unit)
  /\ raw' = Turn(text, raw).next
  /\ UNCHANGED text

EndString ==
  /\ raw # 0
  /\ Turn(text, raw).kind = "end"
  /\ Finalize
  /\ raw' = Turn(text, raw).next
  /\ UNCHANGED text

TokenNext == Grow \/ Begin \/ PushUnit \/ EndString

TokenSpec == TokenInit /\ [][TokenNext]_tvars
-----------------------------------------------------------------------------
TokenVal(s) == SubSeq(s, getJsonToken(s).from, getJsonToken(s).next - 1)

\* A number token is a JSON number, but for a minus sign alone at the end of
\* the text; and a JSON number in front of a character that cannot continue
\* it is read whole (the number branch of getJsonToken, which the reader and
\* setNumStr rely on).
NumbersAreJson ==
  LET from == First(text)
  IN  /\ validNumStr(text) =>
           IsNumber(TokenVal(text)) \/ (TokenVal(text) = <<Minus>> /\ Last(text) = Minus)
      /\ \A to \in from..Len(text) :
           /\ IsNumber(SubSeq(text, from, to))
           /\ At(text, to + 1) \notin Digits \cup ExpMarks \cup {Dot}
           => validNumStr(text) /\ getJsonToken(text).next = to + 1

\* No token reaches past the end of the text, where read would go on behind
\* it (keywords are compared, and digits looked for, beyond `end').
WithinText ==
  getJsonToken(text).tok # "ERR" => getJsonToken(text).next <= Len(text) + 1

\* Of a value that setNumStr accepted get_int returns the number exactly when
\* the text is an integer in the range of int, whatever the width of long,
\* and throws otherwise: nothing is clamped, cut off or padded.
IntegersExact ==
  validNumStr(text) =>
    \A long \in LongLimits :
      get_int(text, long) =
        {n \in (- IntLimit)..(IntLimit - 1) : IsInteger(text) /\ n = IntegerOf(text)}

\* A unit that begins a character of several.
Begins(unit) == IF unit.esc THEN unit.val \in HighHalves ELSE unit.val >= 192

\* Once the loop is done, getJsonToken returns a string for every literal that
\* means something, and what it returns is the meaning, if all its characters
\* are below U+20000; it returns none for a literal that ends within a
\* character (the string branch, its calls of the filter, and finalize).
StringsRead ==
  (raw # 0 /\ status # "open") =>
    LET us    == ScanString(text, First(text)).units
        token == getJsonToken(text)
    IN  IF token.tok = "STRING"
        THEN /\ \A meaning \in Meanings(us) :
                  (\A i \in DOMAIN meaning : meaning[i] < 131072) => token.str = meaning
             /\ us # <<>> => ~ Begins(Last(us))
        ELSE Meanings(us) = {}

\* A string that was read and is written by json_escape is read as the same
\* string: the text is one literal, and means what was stored (code points
\* above 10FFFF, which the filter lets pass, excepted).
RereadsAsStored ==
  (status = "accepted" /\ \A i \in DOMAIN str : str[i] <= MaxCharacter) =>
    LET utf8  == FlattenSeq([i \in DOMAIN str |-> Utf8(str[i])])
        again == ScanString(<<Quote>> \o json_escape(utf8) \o <<Quote>>, 1)
    IN  again.tok = "STRING" /\ Meanings(again.units) = {str}
=============================================================================
