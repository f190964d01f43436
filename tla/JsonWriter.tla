----------------------------- MODULE JsonWriter -----------------------------
(***************************************************************************)
(* UniValue::write, writeArray, writeObject and indentStr of               *)
(* univalue/univalue_write.cpp, as the tokens, spaces and line ends they   *)
(* produce for the tree JsonReader built.                                  *)
(***************************************************************************)
EXTENDS JsonReader, SequencesExt

\* indentStr, and what follows where prettyIndent is not 0.
Indent(n) == [i \in 1..n |-> "space"]
IfPretty(pretty, ws) == IF pretty = 0 THEN <<>> ELSE <<ws>>

\* Mutants of Members: a comma behind the last value too; the members of
\* every object are indented alike.
MembersTrailing(node, texts, pretty, level) ==
  FlattenSeq([i \in DOMAIN node.values |->
    Indent(pretty * level)
      \o (IF node.typ = "{" THEN <<"string", ":">> \o IfPretty(pretty, "space") ELSE <<>>)
      \o texts[i] \o <<",">> \o IfPretty(pretty, "newline")])

MembersFlat(node, texts, pretty, level) ==
  FlattenSeq([i \in DOMAIN node.values |->
    Indent(pretty)
      \o (IF node.typ = "{" THEN <<"string", ":">> \o IfPretty(pretty, "space") ELSE <<>>)
      \o texts[i]
      \o (IF i # Len(node.values) THEN <<",">> ELSE <<>>)
      \o IfPretty(pretty, "newline")])

\* The loop of writeArray and writeObject: a comma behind every value but
\* the last, a name and a colon before every value of an object.  writeObject
\* counts keys and takes values.at(i): the same by KeysMatchValues.
Members(node, texts, pretty, level) ==
  FlattenSeq([i \in DOMAIN node.values |->
    Indent(pretty * level)
      \o (IF node.typ = "{" THEN <<"string", ":">> \o IfPretty(pretty, "space") ELSE <<>>)
      \o texts[i]
      \o (IF i # Len(node.values) THEN <<",">> ELSE <<>>)
      \o IfPretty(pretty, "newline")])

Container(node, texts, pretty, level) ==
  <<node.typ>> \o IfPretty(pretty, "newline")
    \o Members(node, texts, pretty, level)
    \o Indent(pretty * (level - 1))
    \o <<IF node.typ = "{" THEN "}" ELSE "]">>

\* The text of the node n, a recursive function of the nodes and the levels.
Write(n, pretty, indentLevel) ==
  LET write[m \in DOMAIN tree] ==
        [given \in Nat |->
           LET node  == tree[m]
               level == IF given = 0 THEN 1 ELSE given
               texts == [i \in DOMAIN node.values |-> write[node.values[i]][level + 1]]
           IN  IF node.typ \in Scalars THEN <<node.typ>>
               ELSE Container(node, texts, pretty, level)]
  IN  write[n][indentLevel]

\* A text without its spaces and line ends.
OnlyTokens(text) ==
  FlattenSeq([i \in DOMAIN text |->
    IF text[i] \in Tokens THEN <<text[i]>> ELSE <<>>])

\* Reading loses nothing and makes nothing up: writing the value that was
\* read, compact or indented, gives the tokens it was read from
\* (UniValue::read, UniValue::write).
RoundTrip ==
  status = "true" =>
    /\ Write(1, 0, 0) = scanned
    /\ OnlyTokens(Write(1, 2, 0)) = scanned

\* In indented text a line begins with prettyIndent spaces for each container
\* that is open there, a closer counting as closed (the levels that write,
\* writeArray and writeObject pass each other).
LinesIndented ==
  status = "true" =>
    LET text == Write(1, 2, 0)
        next(i) == CHOOSE j \in i..Len(text) :
                     text[j] # "space" /\ \A k \in i..(j - 1) : text[k] = "space"
        open(j) == Cardinality({k \in 1..(j - 1) : text[k] \in Openers})
                     - Cardinality({k \in 1..j : text[k] \in Closers})
    IN  \A i \in DOMAIN text :
          text[i] = "newline" => next(i + 1) - (i + 1) = 2 * open(next(i + 1))
=============================================================================
