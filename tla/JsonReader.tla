----------------------------- MODULE JsonReader -----------------------------
(***************************************************************************)
(* UniValue::read (univalue/univalue_read.cpp): the loop over the tokens   *)
(* of getJsonToken, the bits of expectMask that say what may come next,    *)
(* and the stack of pointers to the containers still being filled.  One    *)
(* action is one turn of the loop.                                         *)
(*                                                                         *)
(* UniValues are nodes of `tree', a pointer is the index of a node and     *)
(* node 1 is *this.  A string, number or keyword is its token: the reader  *)
(* treats all of one kind alike.                                           *)
(***************************************************************************)
EXTENDS Naturals, Sequences

CONSTANT MaxTokens   \* bound on the tokens of a text

ASSUME MaxTokensAssumption == MaxTokens \in Nat

Scalars == {"keyword", "number", "string"}
Openers == {"{", "["}
Closers == {"}", "]"}
Tokens == Scalars \cup Openers \cup Closers \cup {":", ","}
ExpectBits == {"OBJ_NAME", "COLON", "ARR_VALUE", "VALUE", "NOT_VALUE"}

VARIABLES
  expectMask,  \* the bits set
  tok,         \* the last token: one of Tokens, "err", or "none" for JTOK_NONE
  stack,       \* pointers to the open containers, outermost first
  tree,        \* the UniValues: type, number of keys, pointers to the values
  scanned,     \* the tokens accepted, for the properties
  status       \* "scanning", "ending" (behind the loop), "true" or "false"

vars == <<expectMask, tok, stack, tree, scanned, status>>

Node(typ) == [typ |-> typ, keys |-> 0, values |-> <<>>]

\* clear() and the state before the loop.
Init ==
  /\ expectMask = {}
  /\ tok = "none"
  /\ stack = <<>>
  /\ tree = <<Node("keyword")>>
  /\ scanned = <<>>
  /\ status = "scanning"
-----------------------------------------------------------------------------
IsValueOpen(t) == t \in Scalars \cup Openers

\* The if chain on expectMask and the NOT_VALUE test behind it: does the
\* token pass, and which bits does the chain clear?
Expected(t) ==
  /\ IF "VALUE" \in expectMask THEN IsValueOpen(t)
     ELSE IF "ARR_VALUE" \in expectMask THEN IsValueOpen(t) \/ t = "]"
     ELSE IF "OBJ_NAME" \in expectMask THEN t \in {"}", "string"}
     ELSE IF "COLON" \in expectMask THEN t = ":"
     ELSE t # ":"
  /\ "NOT_VALUE" \in expectMask => ~ IsValueOpen(t)

Cleared ==
  (expectMask \
    (IF "VALUE" \in expectMask THEN {"VALUE"}
     ELSE IF "ARR_VALUE" \in expectMask THEN {"ARR_VALUE"}
     ELSE IF "OBJ_NAME" \in expectMask THEN {}
     ELSE {"COLON"}))
  \ {"NOT_VALUE"}

Top == stack[Len(stack)]
TopType == tree[Top].typ

\* Mutant of CaseAccepts: a container may close behind a comma.
CaseAcceptsTrailing(t) ==
  /\ t \in Closers => stack # <<>> /\ TopType = IF t = "}" THEN "{" ELSE "["
  /\ t = ":" => stack # <<>> /\ TopType = "{"
  /\ t = "," => stack # <<>> /\ tok \notin {",", "["}

\* What the cases of the switch refuse themselves.
CaseAccepts(t) ==
  /\ t \in Closers =>
       /\ stack # <<>>
       /\ tok # ","
       /\ TopType = IF t = "}" THEN "{" ELSE "["
  /\ t = ":" => stack # <<>> /\ TopType = "{"
  /\ t = "," => stack # <<>> /\ tok \notin {",", "["}

\* getJsonToken returned t, and t gets as far as its case.
Scan(t) ==
  /\ status = "scanning"
  /\ Len(scanned) < MaxTokens
  /\ Expected(t)
  /\ CaseAccepts(t)
  /\ tok' = t
  /\ scanned' = Append(scanned, t)

\* while (!stack.empty())
LoopTest == status' = IF stack' = <<>> THEN "ending" ELSE "scanning"

\* A new value of the given type: *this at the top level, else values.back()
\* of the innermost container.
PushValue(typ) ==
  tree' = IF stack = <<>>
          THEN [tree EXCEPT ![1] = Node(typ)]
          ELSE Append([tree EXCEPT ![Top].values = Append(@, Len(tree) + 1)], Node(typ))

\* Mutant of OpenContainer: the pointer pushed is that of tmpVal, which is
\* not in the tree.
OpenTemporary(t) ==
  /\ t \in Openers
  /\ Scan(t)
  /\ PushValue(t)
  /\ stack' = Append(stack, IF stack = <<>> THEN 1 ELSE Len(tree) + 2)
  /\ expectMask' = Cleared \cup {IF t = "{" THEN "OBJ_NAME" ELSE "ARR_VALUE"}
  /\ LoopTest

OpenContainer(t) ==
  /\ t \in Openers
  /\ Scan(t)
  /\ PushValue(t)
  /\ stack' = Append(stack, IF stack = <<>> THEN 1 ELSE Len(tree) + 1)
  /\ expectMask' = Cleared \cup {IF t = "{" THEN "OBJ_NAME" ELSE "ARR_VALUE"}
  /\ LoopTest

CloseContainer(t) ==
  /\ t \in Closers
  /\ Scan(t)
  /\ stack' = SubSeq(stack, 1, Len(stack) - 1)
  /\ expectMask' = (Cleared \ {"OBJ_NAME"}) \cup {"NOT_VALUE"}
  /\ LoopTest
  /\ UNCHANGED tree

\* Mutant of Colon: setExpect(VALUE) is forgotten.
ColonAlone ==
  /\ Scan(":")
  /\ expectMask' = Cleared
  /\ UNCHANGED <<stack, tree>>
  /\ LoopTest

Colon ==
  /\ Scan(":")
  /\ expectMask' = Cleared \cup {"VALUE"}
  /\ UNCHANGED <<stack, tree>>
  /\ LoopTest

\* Mutant of Comma: the type of the container is set as if it were a bit.
CommaSetsType ==
  /\ Scan(",")
  /\ expectMask' = Cleared \cup {TopType}
  /\ UNCHANGED <<stack, tree>>
  /\ LoopTest

Comma ==
  /\ Scan(",")
  /\ expectMask' = Cleared \cup {IF TopType = "{" THEN "OBJ_NAME" ELSE "ARR_VALUE"}
  /\ UNCHANGED <<stack, tree>>
  /\ LoopTest

\* A string where a name is expected.
KeyString ==
  /\ Scan("string")
  /\ "OBJ_NAME" \in Cleared
  /\ tree' = [tree EXCEPT ![Top].keys = @ + 1]
  /\ expectMask' = (Cleared \ {"OBJ_NAME"}) \cup {"COLON", "NOT_VALUE"}
  /\ UNCHANGED stack
  /\ LoopTest

\* The scalar cases; at the top level they break before NOT_VALUE is set.
ScalarValue(t) ==
  /\ t \in Scalars
  /\ Scan(t)
  /\ ~ (t = "string" /\ "OBJ_NAME" \in Cleared)
  /\ PushValue(t)
  /\ expectMask' = Cleared \cup (IF stack = <<>> THEN {} ELSE {"NOT_VALUE"})
  /\ UNCHANGED stack
  /\ LoopTest

\* return false inside the loop.
Fail(t) ==
  /\ status = "scanning"
  /\ \/ t \in {"none", "err"}
     \/ t \in Tokens /\ ~ (Expected(t) /\ CaseAccepts(t))
  /\ tok' = t
  /\ status' = "false"
  /\ UNCHANGED <<expectMask, stack, tree, scanned>>

\* Nothing may follow the outermost value.
CheckEnd(t) ==
  /\ status = "ending"
  /\ tok' = t
  /\ status' = IF t = "none" THEN "true" ELSE "false"
  /\ UNCHANGED <<expectMask, stack, tree, scanned>>

Next ==
  \/ \E t \in Tokens : OpenContainer(t) \/ CloseContainer(t) \/ ScalarValue(t)
  \/ Colon \/ Comma \/ KeyString
  \/ \E t \in Tokens \cup {"none", "err"} : Fail(t) \/ CheckEnd(t)

Spec == Init /\ [][Next]_vars
-----------------------------------------------------------------------------
NodeType == [typ : Scalars \cup Openers, keys : Nat, values : Seq(Nat)]

TypeOK ==
  /\ expectMask \subseteq ExpectBits
  /\ tok \in Tokens \cup {"none", "err"}
  /\ stack \in Seq(Nat)
  /\ tree \in Seq(NodeType)
  /\ scanned \in Seq(Tokens)
  /\ status \in {"scanning", "ending", "true", "false"}

\* No pointer of the stack dangles: each open container is the last value of
\* the one around it, so that no push_back moves it (UniValue::read keeps
\* raw pointers into vectors it appends to).
OpenPathLive ==
  /\ \A i \in DOMAIN stack : stack[i] \in DOMAIN tree /\ tree[stack[i]].typ \in Openers
  /\ stack # <<>> => stack[1] = 1
  /\ \A i \in 1..(Len(stack) - 1) :
       LET values == tree[stack[i]].values
       IN  values # <<>> /\ values[Len(values)] = stack[i + 1]

\* In a value that was read every object has a key for each of its values,
\* so that values.at(i) of find_value, write and transformNamedArguments
\* cannot throw; scalars and arrays have no keys.
KeysMatchValues ==
  status \in {"ending", "true"} =>
    \A n \in DOMAIN tree :
      tree[n].keys = IF tree[n].typ = "{" THEN Len(tree[n].values) ELSE 0

\* The reader accepts the texts of JsonGrammar and refuses all others at the
\* first token that may not follow.
OpenTypes == [i \in DOMAIN stack |-> tree[stack[i]].typ]

Place ==
  IF status = "false" THEN "refused"
  ELSE IF status = "true" THEN "accepted"
  ELSE IF status = "ending" THEN "end"
  ELSE IF stack = <<>> THEN "start"
  ELSE IF "VALUE" \in expectMask THEN "value"
  ELSE IF "COLON" \in expectMask THEN "colon"
  ELSE IF "OBJ_NAME" \in expectMask THEN IF tok = "," THEN "name" ELSE "firstName"
  ELSE IF "ARR_VALUE" \in expectMask THEN IF tok = "," THEN "element" ELSE "firstElement"
  ELSE "more"

Grammar == INSTANCE JsonGrammar WITH open <- OpenTypes, place <- Place

ReadsTheGrammar == Grammar!Spec
=============================================================================
