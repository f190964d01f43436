-------------------------- MODULE JsonReaderProofs --------------------------
(***************************************************************************)
(* Proofs about UniValue::read, for texts of any length: its pointers stay *)
(* valid, what it reads has a key for every value, and the texts it        *)
(* accepts are those of JsonGrammar; and about UniValue::write: it gives   *)
(* back the tokens that were read, and indents each line by its depth.     *)
(***************************************************************************)
EXTENDS JsonWriter, SequenceFacts, FiniteSetTheorems

\* Pointers are pushed in the order of their nodes, so that no container is
\* open twice.
StackRises == \A i, j \in DOMAIN stack : i < j => stack[i] < stack[j]

\* The bits that may be set, by the innermost container.
MaskFits ==
  /\ status = "scanning" =>
       \/ stack = <<>> /\ expectMask = {} /\ tree = <<Node("keyword")>>
       \/ stack # <<>> /\ TopType = "{" /\
            (expectMask = {"OBJ_NAME"} \/ expectMask = {"COLON", "NOT_VALUE"}
              \/ expectMask = {"VALUE"} \/ expectMask = {"NOT_VALUE"})
       \/ stack # <<>> /\ TopType = "[" /\
            (expectMask = {"ARR_VALUE"} \/ expectMask = {"NOT_VALUE"})
  /\ status \in {"ending", "true"} => stack = <<>>

\* The innermost object has read a name and not yet its value.
Owes(n) ==
  stack # <<>> /\ n = Top /\ ("COLON" \in expectMask \/ "VALUE" \in expectMask)

Balanced(node, owes) ==
  node.keys =
    IF node.typ # "{" THEN 0 ELSE IF owes THEN Len(node.values) + 1 ELSE Len(node.values)

KeysSoFar == status # "false" => \A n \in DOMAIN tree : Balanced(tree[n], Owes(n))

\* OpenPathLive and KeysMatchValues hold because of the bits.
IInv == TypeOK /\ OpenPathLive /\ StackRises /\ MaskFits /\ KeysSoFar
-----------------------------------------------------------------------------
(* Sequences.                                                              *)

LEMMA Appended ==
  ASSUME NEW S, NEW s \in Seq(S), NEW e \in S
  PROVE  /\ Append(s, e) \in Seq(S)
         /\ Len(Append(s, e)) = Len(s) + 1
         /\ Append(s, e)[Len(s) + 1] = e
         /\ \A i \in DOMAIN s : Append(s, e)[i] = s[i]
         /\ DOMAIN Append(s, e) = DOMAIN s \cup {Len(s) + 1}
OBVIOUS

LEMMA LastAppended ==
  ASSUME NEW S, NEW s \in Seq(S), NEW e \in S
  PROVE  /\ Append(s, e) # <<>>
         /\ Len(Append(s, e)) = Len(s) + 1 /\ Len(s) \in Nat
         /\ Append(s, e)[Len(Append(s, e))] = e
<1>1. /\ Append(s, e) \in Seq(S) /\ Len(Append(s, e)) = Len(s) + 1
      /\ Append(s, e)[Len(s) + 1] = e /\ Len(s) \in Nat
  BY Appended
<1> QED BY <1>1

LEMMA Singleton ==
  ASSUME NEW S, NEW e \in S
  PROVE  <<e>> \in Seq(S) /\ DOMAIN <<e>> = {1} /\ <<e>>[1] = e
OBVIOUS

LEMMA Shortened ==
  ASSUME NEW S, NEW s \in Seq(S), s # <<>>
  PROVE  /\ SubSeq(s, 1, Len(s) - 1) \in Seq(S)
         /\ Len(SubSeq(s, 1, Len(s) - 1)) = Len(s) - 1
         /\ \A i \in 1..(Len(s) - 1) : i \in DOMAIN s /\ SubSeq(s, 1, Len(s) - 1)[i] = s[i]
<1>1. Len(s) \in Nat /\ Len(s) > 0 /\ DOMAIN s = 1..Len(s)
  OBVIOUS
<1>2. Len(SubSeq(s, 1, Len(s) - 1)) = Len(s) - 1
  BY <1>1
<1>3. SubSeq(s, 1, Len(s) - 1) \in Seq(S)
  BY <1>1
<1>4. ASSUME NEW i \in 1..(Len(s) - 1)
      PROVE  i \in DOMAIN s /\ SubSeq(s, 1, Len(s) - 1)[i] = s[i]
  BY <1>1
<1> QED BY <1>2, <1>3, <1>4

LEMMA NodeIsNode ==
  ASSUME NEW t \in Scalars \cup Openers
  PROVE  /\ Node(t) \in NodeType
         /\ Node(t).typ = t /\ Node(t).keys = 0 /\ Node(t).values = <<>>
         /\ Balanced(Node(t), FALSE)
BY DEF Node, NodeType, Balanced

\* The innermost container is a node, and no other container is it.
LEMMA TopIsOpen ==
  ASSUME TypeOK, OpenPathLive, StackRises, stack # <<>>
  PROVE  /\ Len(stack) \in Nat \ {0} /\ Top \in DOMAIN tree /\ TopType \in Openers
         /\ tree[Top] \in NodeType
         /\ tree[Top].values \in Seq(Nat) /\ Len(tree) + 1 \in Nat
         /\ \A i \in DOMAIN stack : i # Len(stack) => stack[i] # Top
<1>1. stack \in Seq(Nat) /\ tree \in Seq(NodeType)
  BY DEF TypeOK
<1>2. Len(stack) \in DOMAIN stack /\ Len(stack) \in Nat \ {0}
  BY <1>1
<1>3. Top \in DOMAIN tree /\ TopType \in Openers
  BY <1>2 DEF OpenPathLive, Top, TopType
<1>4. ASSUME NEW i \in DOMAIN stack, i # Len(stack) PROVE stack[i] # Top
  <2>1. i < Len(stack) /\ stack[i] \in Nat /\ Top \in Nat
    BY <1>1, <1>2, <1>4 DEF Top
  <2>2. stack[i] < Top
    BY <1>2, <2>1 DEF StackRises, Top
  <2> QED BY <2>1, <2>2
<1>5. tree[Top] \in NodeType
  BY <1>1, <1>3
<1>6. tree[Top].values \in Seq(Nat) /\ Len(tree) + 1 \in Nat
  BY <1>1, <1>5 DEF NodeType
<1> QED BY <1>2, <1>3, <1>4, <1>5, <1>6

\* tmpVal at the end of the innermost container.
LEMMA Pushed ==
  ASSUME TypeOK, OpenPathLive, StackRises, stack # <<>>,
         NEW t \in Scalars \cup Openers, PushValue(t)
  PROVE  /\ tree' \in Seq(NodeType)
         /\ Len(tree') = Len(tree) + 1
         /\ DOMAIN tree' = DOMAIN tree \cup {Len(tree) + 1}
         /\ tree'[Len(tree) + 1] = Node(t)
         /\ \A n \in DOMAIN tree \ {Top} : tree'[n] = tree[n]
         /\ tree'[Top].typ = tree[Top].typ
         /\ tree'[Top].keys = tree[Top].keys
         /\ tree'[Top].values = Append(tree[Top].values, Len(tree) + 1)
<1> DEFINE new == [tree[Top] EXCEPT !.values = Append(@, Len(tree) + 1)]
           grown == [tree EXCEPT ![Top] = new]
<1>1. tree \in Seq(NodeType) /\ Len(tree) \in Nat
  BY DEF TypeOK
<1>2. Top \in DOMAIN tree /\ tree[Top] \in NodeType
  BY TopIsOpen
<1>3. Append(tree[Top].values, Len(tree) + 1) \in Seq(Nat)
  BY <1>1, <1>2 DEF NodeType
<1>4. /\ new \in NodeType /\ new.typ = tree[Top].typ /\ new.keys = tree[Top].keys
      /\ new.values = Append(tree[Top].values, Len(tree) + 1)
  BY <1>2, <1>3 DEF NodeType
<1>5. tree' = Append(grown, Node(t))
  BY DEF PushValue
<1> HIDE DEF new
<1>6. /\ grown \in Seq(NodeType) /\ Len(grown) = Len(tree) /\ DOMAIN grown = DOMAIN tree
      /\ grown[Top] = new /\ \A n \in DOMAIN tree \ {Top} : grown[n] = tree[n]
  BY <1>1, <1>2, <1>4
<1>7. /\ tree' \in Seq(NodeType) /\ Len(tree') = Len(grown) + 1
      /\ tree'[Len(grown) + 1] = Node(t)
      /\ \A n \in DOMAIN grown : tree'[n] = grown[n]
      /\ DOMAIN tree' = DOMAIN grown \cup {Len(grown) + 1}
  <2>1. Node(t) \in NodeType /\ grown \in Seq(NodeType)
    BY <1>6, NodeIsNode, Zenon
  <2> HIDE DEF grown
  <2>2. /\ Append(grown, Node(t)) \in Seq(NodeType)
        /\ Len(Append(grown, Node(t))) = Len(grown) + 1
        /\ Append(grown, Node(t))[Len(grown) + 1] = Node(t)
        /\ \A n \in DOMAIN grown : Append(grown, Node(t))[n] = grown[n]
        /\ DOMAIN Append(grown, Node(t)) = DOMAIN grown \cup {Len(grown) + 1}
    BY <2>1, Appended, Zenon
  <2> QED BY <1>5, <2>2, Zenon
<1>8. tree'[Top] = new
  BY <1>2, <1>6, <1>7, Zenon
<1>9. \A n \in DOMAIN tree \ {Top} : tree'[n] = tree[n]
  BY <1>6, <1>7, Zenon
<1> QED BY <1>4, <1>6, <1>7, <1>8, <1>9, Zenon

\* Where a value may stand, and what is left of the mask.
LEMMA ValueTurn ==
  ASSUME TypeOK, OpenPathLive, MaskFits, status = "scanning",
         NEW t \in Scalars \cup Openers, Expected(t),
         ~ (t = "string" /\ "OBJ_NAME" \in Cleared)
  PROVE  /\ Cleared = {}
         /\ \/ stack = <<>> /\ tree = <<Node("keyword")>>
            \/ stack # <<>> /\ TopType = "{" /\ expectMask = {"VALUE"}
            \/ stack # <<>> /\ TopType = "[" /\ expectMask = {"ARR_VALUE"}
<1>1. t \notin {"}", "]", ":"} /\ IsValueOpen(t)
  BY DEF Scalars, Openers, IsValueOpen
<1>2. CASE stack = <<>> /\ expectMask = {} /\ tree = <<Node("keyword")>>
  BY <1>2 DEF Cleared
<1>3. CASE expectMask = {"OBJ_NAME"}
  <2>1. t = "string" /\ Cleared = {"OBJ_NAME"}
    BY <1>1, <1>3 DEF Expected, Cleared
  <2> QED BY <2>1
<1>4. CASE expectMask = {"COLON", "NOT_VALUE"}
  BY <1>1, <1>4 DEF Expected
<1>5. CASE expectMask = {"NOT_VALUE"}
  BY <1>1, <1>5 DEF Expected
<1>6. CASE stack # <<>> /\ TopType = "{" /\ expectMask = {"VALUE"}
  BY <1>6 DEF Cleared
<1>7. CASE stack # <<>> /\ TopType = "[" /\ expectMask = {"ARR_VALUE"}
  BY <1>7 DEF Cleared
<1> QED BY <1>2, <1>3, <1>4, <1>5, <1>6, <1>7 DEF MaskFits

\* The other tokens the chain and the cases let through.
LEMMA CloseTurn ==
  ASSUME MaskFits, status = "scanning", NEW t \in Closers, Expected(t), CaseAccepts(t)
  PROVE  /\ stack # <<>>
         /\ "COLON" \notin expectMask /\ "VALUE" \notin expectMask
         /\ (Cleared \ {"OBJ_NAME"}) \cup {"NOT_VALUE"} = {"NOT_VALUE"}
<1>1. t \in {"}", "]"} /\ ~ IsValueOpen(t) /\ t # ":" /\ stack # <<>>
  BY DEF Closers, CaseAccepts, IsValueOpen, Scalars, Openers
<1>2. CASE expectMask = {"OBJ_NAME"} \/ expectMask = {"NOT_VALUE"} \/ expectMask = {"ARR_VALUE"}
  BY <1>1, <1>2 DEF Cleared
<1>3. CASE expectMask = {"COLON", "NOT_VALUE"} \/ expectMask = {"VALUE"}
  BY <1>1, <1>3 DEF Expected
<1> QED BY <1>1, <1>2, <1>3 DEF MaskFits

LEMMA ColonTurn ==
  ASSUME MaskFits, status = "scanning", Expected(":"), CaseAccepts(":")
  PROVE  stack # <<>> /\ TopType = "{" /\ "COLON" \in expectMask /\ Cleared = {}
<1>1. ~ IsValueOpen(":") /\ stack # <<>> /\ TopType = "{"
  BY DEF CaseAccepts, IsValueOpen, Scalars, Openers
<1>2. CASE expectMask = {"COLON", "NOT_VALUE"}
  BY <1>1, <1>2 DEF Cleared
<1>3. CASE expectMask = {"OBJ_NAME"} \/ expectMask = {"NOT_VALUE"} \/ expectMask = {"VALUE"}
  BY <1>1, <1>3 DEF Expected
<1> QED BY <1>1, <1>2, <1>3 DEF MaskFits

LEMMA CommaTurn ==
  ASSUME MaskFits, status = "scanning", Expected(","), CaseAccepts(",")
  PROVE  stack # <<>> /\ expectMask = {"NOT_VALUE"} /\ Cleared = {}
<1>1. ~ IsValueOpen(",") /\ stack # <<>>
  BY DEF CaseAccepts, IsValueOpen, Scalars, Openers, Closers
<1>2. CASE expectMask = {"NOT_VALUE"}
  BY <1>1, <1>2 DEF Cleared
<1>3. CASE \/ expectMask = {"OBJ_NAME"} \/ expectMask = {"COLON", "NOT_VALUE"}
           \/ expectMask = {"VALUE"} \/ expectMask = {"ARR_VALUE"}
  BY <1>1, <1>3 DEF Expected
<1> QED BY <1>1, <1>2, <1>3 DEF MaskFits

LEMMA KeyTurn ==
  ASSUME MaskFits, status = "scanning", Expected("string"), "OBJ_NAME" \in Cleared
  PROVE  /\ stack # <<>> /\ TopType = "{" /\ expectMask = {"OBJ_NAME"}
         /\ (Cleared \ {"OBJ_NAME"}) \cup {"COLON", "NOT_VALUE"} = {"COLON", "NOT_VALUE"}
<1>1. CASE expectMask = {"OBJ_NAME"}
  <2>1. Cleared = {"OBJ_NAME"}
    BY <1>1 DEF Cleared
  <2>2. stack # <<>> /\ TopType = "{"
    BY <1>1 DEF MaskFits
  <2> QED BY <1>1, <2>1, <2>2
<1>2. CASE expectMask # {"OBJ_NAME"}
  BY <1>2 DEF MaskFits, Cleared
<1> QED BY <1>1, <1>2

LEMMA Scanned ==
  ASSUME TypeOK, NEW t \in Tokens, Scan(t)
  PROVE  /\ scanned' \in Seq(Tokens) /\ tok' \in Tokens
         /\ status = "scanning" /\ Expected(t) /\ CaseAccepts(t)
BY DEF Scan, TypeOK
-----------------------------------------------------------------------------
(* What a value added to the innermost container leaves as it was.         *)

LEMMA PathKept ==
  ASSUME TypeOK, OpenPathLive, StackRises, stack # <<>>,
         NEW t \in Scalars \cup Openers, PushValue(t)
  PROVE  /\ \A i \in DOMAIN stack : stack[i] \in DOMAIN tree' /\ tree'[stack[i]].typ \in Openers
         /\ tree'[Top].typ = TopType
         /\ \A i \in 1..(Len(stack) - 1) :
              LET values == tree'[stack[i]].values
              IN  values # <<>> /\ values[Len(values)] = stack[i + 1]
         /\ LET values == tree'[Top].values
            IN  values # <<>> /\ values[Len(values)] = Len(tree) + 1
<1>1. ASSUME NEW i \in DOMAIN stack
      PROVE  stack[i] \in DOMAIN tree' /\ tree'[stack[i]].typ \in Openers
  <2>1. stack[i] \in DOMAIN tree /\ tree[stack[i]].typ \in Openers
    BY DEF OpenPathLive
  <2>2. tree'[stack[i]].typ = tree[stack[i]].typ /\ stack[i] \in DOMAIN tree'
    BY <2>1, Pushed, Zenon
  <2> QED BY <2>1, <2>2
<1>2. ASSUME NEW i \in 1..(Len(stack) - 1)
      PROVE  tree'[stack[i]].values # <<>>
             /\ tree'[stack[i]].values[Len(tree'[stack[i]].values)] = stack[i + 1]
  <2>1. i \in DOMAIN stack /\ i # Len(stack)
    BY DEF TypeOK
  <2>2. stack[i] # Top /\ stack[i] \in DOMAIN tree
    BY <2>1, TopIsOpen DEF OpenPathLive
  <2>3. tree'[stack[i]] = tree[stack[i]]
    BY <2>2, Pushed, Zenon
  <2> QED BY <2>3 DEF OpenPathLive
<1>3. tree'[Top].values # <<>> /\ tree'[Top].values[Len(tree'[Top].values)] = Len(tree) + 1
  <2> DEFINE before == tree[Top].values
             index == Len(tree) + 1
             after == Append(before, index)
  <2>1. before \in Seq(Nat) /\ index \in Nat
    BY TopIsOpen, Zenon
  <2>2. tree'[Top].values = after
    BY Pushed, Zenon
  <2> HIDE DEF before, index
  <2>3. after # <<>> /\ after[Len(after)] = index
    BY <2>1, LastAppended, Zenon
  <2> QED BY <2>2, <2>3, Zenon DEF index
<1>4. tree'[Top].typ = TopType
  BY Pushed, Zenon DEF TopType
<1> QED BY <1>1, <1>2, <1>3, <1>4

LEMMA DebtPaid ==
  ASSUME TypeOK, OpenPathLive, StackRises, MaskFits, KeysSoFar, status = "scanning",
         stack # <<>>, (TopType = "{" /\ expectMask = {"VALUE"})
                         \/ (TopType = "[" /\ expectMask = {"ARR_VALUE"}),
         NEW t \in Scalars \cup Openers, PushValue(t)
  PROVE  \A n \in DOMAIN tree' : Balanced(tree'[n], FALSE)
<1>1. ASSUME NEW n \in DOMAIN tree, n # Top PROVE Balanced(tree'[n], FALSE)
  <2>1. tree'[n] = tree[n]
    BY <1>1, Pushed, Zenon
  <2>2. Balanced(tree[n], FALSE)
    BY <1>1 DEF KeysSoFar, Owes
  <2> QED BY <2>1, <2>2
<1>2. Balanced(tree'[Top], FALSE)
  <2>1. tree[Top] \in NodeType /\ Top \in DOMAIN tree
    BY TopIsOpen
  <2>2. Balanced(tree[Top], TopType = "{")
    <3>1. Balanced(tree[Top], Owes(Top))
      BY <2>1 DEF KeysSoFar
    <3>2. CASE TopType = "{"
      BY <3>1, <3>2 DEF Owes, Balanced
    <3>3. CASE TopType # "{"
      BY <3>1, <3>3 DEF Owes, Balanced, TopType
    <3> QED BY <3>2, <3>3
  <2>3. /\ tree'[Top].typ = tree[Top].typ /\ tree'[Top].keys = tree[Top].keys
        /\ tree'[Top].values = Append(tree[Top].values, Len(tree) + 1)
    BY Pushed, Zenon
  <2> DEFINE before == tree[Top].values
             index == Len(tree) + 1
             after == Append(before, index)
  <2>4. before \in Seq(Nat) /\ index \in Nat
    BY TopIsOpen, Zenon
  <2>5. before = tree[Top].values /\ tree'[Top].values = after
    BY <2>3, Zenon
  <2> HIDE DEF before, index
  <2>6. Len(after) = Len(before) + 1 /\ Len(before) \in Nat
    BY <2>4, LastAppended, Zenon
  <2> HIDE DEF after
  <2>7. tree[Top].keys = IF tree[Top].typ = "{" THEN Len(before) + 1 ELSE 0
    <3>1. CASE TopType = "{"
      BY <2>2, <2>5, <3>1 DEF Balanced, TopType
    <3>2. CASE TopType # "{"
      BY <2>2, <2>5, <3>2 DEF Balanced, TopType
    <3> QED BY <3>1, <3>2
  <2>8. tree'[Top].keys = IF tree'[Top].typ = "{" THEN Len(after) ELSE 0
    BY <2>3, <2>6, <2>7, Zenon
  <2> QED BY <2>5, <2>8, Zenon DEF Balanced
<1>3. Balanced(tree'[Len(tree) + 1], FALSE)
  BY Pushed, NodeIsNode, Zenon
<1> QED BY <1>1, <1>2, <1>3, Pushed, Zenon

\* The first value takes the place of the null that *this was.
LEMMA First ==
  ASSUME stack = <<>>, tree = <<Node("keyword")>>, NEW t \in Scalars \cup Openers, PushValue(t)
  PROVE  /\ tree' \in Seq(NodeType) /\ DOMAIN tree' = {1} /\ tree'[1] = Node(t)
<1>1. tree' = <<Node(t)>>
  BY DEF PushValue
<1>2. Node(t) \in NodeType
  BY NodeIsNode, Zenon
<1> QED BY <1>1, <1>2, Singleton, Zenon
-----------------------------------------------------------------------------
(* The steps.                                                              *)

LEMMA InitIInv == Init => IInv
<1> SUFFICES ASSUME Init PROVE IInv
  OBVIOUS
<1>1. Node("keyword") \in NodeType /\ Balanced(Node("keyword"), FALSE)
  BY NodeIsNode, Zenon DEF Scalars
<1>2. tree \in Seq(NodeType) /\ DOMAIN tree = {1} /\ tree[1] = Node("keyword")
  BY <1>1, Singleton, Zenon DEF Init
<1>3. stack = <<>> /\ DOMAIN stack = {} /\ 1..(Len(stack) - 1) = {}
  BY DEF Init
<1>4. TypeOK
  BY <1>2 DEF Init, TypeOK
<1>5. OpenPathLive /\ StackRises
  BY <1>3, Zenon DEF OpenPathLive, StackRises
<1>6. MaskFits
  BY DEF Init, MaskFits
<1>7. KeysSoFar
  BY <1>1, <1>2, <1>3, Zenon DEF KeysSoFar, Owes
<1> QED BY <1>4, <1>5, <1>6, <1>7 DEF IInv

\* A pointer pushed onto the stack.
LEMMA StackPushed ==
  ASSUME stack \in Seq(Nat), NEW e \in Nat, stack' = Append(stack, e)
  PROVE  /\ stack' \in Seq(Nat) /\ stack' # <<>> /\ Len(stack') = Len(stack) + 1
         /\ Len(stack) \in Nat /\ stack'[Len(stack')] = e
         /\ \A i \in DOMAIN stack : stack'[i] = stack[i]
         /\ DOMAIN stack = 1..Len(stack) /\ DOMAIN stack' = 1..(Len(stack) + 1)
BY DEF Top

LEMMA OpenFirstStep ==
  ASSUME IInv, stack = <<>>, NEW t \in Openers, OpenContainer(t)
  PROVE  IInv'
<1>1. t \in Scalars \cup Openers /\ t # "string" /\ t \in Tokens
  BY DEF Openers, Tokens
<1>2. PushValue(t) /\ stack' = Append(stack, 1) /\ Scan(t) /\ LoopTest
  BY DEF OpenContainer
<1>3. /\ scanned' \in Seq(Tokens) /\ tok' \in Tokens
      /\ status = "scanning" /\ Expected(t) /\ CaseAccepts(t)
  BY <1>1, <1>2, Scanned, Zenon DEF IInv
<1>4. Cleared = {} /\ tree = <<Node("keyword")>>
  BY <1>1, <1>3, ValueTurn, Zenon DEF IInv
<1>5. tree' \in Seq(NodeType) /\ DOMAIN tree' = {1} /\ tree'[1] = Node(t)
  BY <1>1, <1>2, <1>4, First, Zenon
<1>6. Node(t).typ = t /\ Balanced(Node(t), FALSE)
  BY <1>1, NodeIsNode, Zenon
<1>7. stack' \in Seq(Nat) /\ stack' # <<>> /\ Len(stack') = 1 /\ DOMAIN stack' = {1} /\ stack'[1] = 1
  BY <1>2
<1>8. /\ expectMask' = {IF t = "{" THEN "OBJ_NAME" ELSE "ARR_VALUE"}
      /\ status' = "scanning"
  BY <1>2, <1>4, <1>7 DEF OpenContainer, LoopTest
<1>9. TypeOK'
  BY <1>3, <1>5, <1>7, <1>8 DEF TypeOK, ExpectBits
<1>10. OpenPathLive'
  <2>1. 1..(Len(stack') - 1) = {}
    BY <1>7
  <2> QED BY <1>5, <1>6, <1>7, <2>1, Zenon DEF OpenPathLive
<1>11. StackRises'
  BY <1>7 DEF StackRises
<1>12. MaskFits'
  <2>1. TopType' = t
    BY <1>5, <1>6, <1>7, Zenon DEF TopType, Top
  <2> QED BY <1>7, <1>8, <2>1 DEF MaskFits, Openers
<1>13. KeysSoFar'
  <2>1. \A n \in DOMAIN tree' : Balanced(tree'[n], FALSE)
    BY <1>5, <1>6, Zenon
  <2>2. "COLON" \notin expectMask' /\ "VALUE" \notin expectMask'
    BY <1>8
  <2> QED BY <2>1, <2>2, Zenon DEF KeysSoFar, Owes
<1> QED BY <1>9, <1>10, <1>11, <1>12, <1>13, Zenon DEF IInv

LEMMA OpenInnerStep ==
  ASSUME IInv, stack # <<>>, NEW t \in Openers, OpenContainer(t)
  PROVE  IInv'
<1> DEFINE e == Len(tree) + 1
<1>1. t \in Scalars \cup Openers /\ t # "string" /\ t \in Tokens
  BY DEF Openers, Tokens
<1>2. PushValue(t) /\ stack' = Append(stack, e) /\ Scan(t) /\ LoopTest
  BY DEF OpenContainer
<1>3. /\ scanned' \in Seq(Tokens) /\ tok' \in Tokens
      /\ status = "scanning" /\ Expected(t) /\ CaseAccepts(t)
  BY <1>1, <1>2, Scanned, Zenon DEF IInv
<1>4. /\ Cleared = {}
      /\ (TopType = "{" /\ expectMask = {"VALUE"}) \/ (TopType = "[" /\ expectMask = {"ARR_VALUE"})
  BY <1>1, <1>3, ValueTurn, Zenon DEF IInv
<1>5. /\ tree' \in Seq(NodeType) /\ DOMAIN tree' = DOMAIN tree \cup {e}
      /\ tree'[e] = Node(t)
  BY <1>1, <1>2, Pushed, Zenon DEF IInv
<1>6. Node(t).typ = t
  BY <1>1, NodeIsNode, Zenon
<1>7. /\ stack \in Seq(Nat) /\ e \in Nat /\ e = Len(tree) + 1
      /\ DOMAIN tree = 1..Len(tree) /\ Len(tree) \in Nat
  BY DEF IInv, TypeOK
<1> HIDE DEF e
<1>8. /\ stack' \in Seq(Nat) /\ stack' # <<>> /\ Len(stack') = Len(stack) + 1
      /\ Len(stack) \in Nat /\ stack'[Len(stack')] = e
      /\ \A i \in DOMAIN stack : stack'[i] = stack[i]
      /\ DOMAIN stack = 1..Len(stack) /\ DOMAIN stack' = 1..(Len(stack) + 1)
  BY <1>2, <1>7, StackPushed, Zenon
<1>9. Len(stack) \in DOMAIN stack /\ 1 \in DOMAIN stack
  BY <1>7
<1>10. /\ expectMask' = {IF t = "{" THEN "OBJ_NAME" ELSE "ARR_VALUE"}
       /\ status' = "scanning"
  BY <1>2, <1>4, <1>8 DEF OpenContainer, LoopTest
<1>11. TypeOK'
  BY <1>3, <1>5, <1>8, <1>10 DEF TypeOK, ExpectBits
<1>12. OpenPathLive'
  <2>1. ASSUME NEW i \in DOMAIN stack'
        PROVE  stack'[i] \in DOMAIN tree' /\ tree'[stack'[i]].typ \in Openers
    <3>1. CASE i \in DOMAIN stack
      BY <1>1, <1>2, <1>8, <3>1, PathKept, Zenon DEF IInv
    <3>2. CASE i = Len(stack')
      BY <1>5, <1>6, <1>8, <3>2, Zenon
    <3>3. i \in DOMAIN stack \/ i = Len(stack')
      BY <1>8
    <3> QED BY <3>1, <3>2, <3>3
  <2>2. stack'[1] = 1
    BY <1>8, <1>9, Zenon DEF IInv, OpenPathLive
  <2>3. ASSUME NEW i \in 1..(Len(stack') - 1)
        PROVE  /\ tree'[stack'[i]].values # <<>>
               /\ tree'[stack'[i]].values[Len(tree'[stack'[i]].values)] = stack'[i + 1]
    <3>1. CASE i = Len(stack)
      <4>1. stack'[i] = Top /\ stack'[i + 1] = e
        BY <1>8, <1>9, <3>1, Zenon DEF Top
      <4> QED BY <1>1, <1>2, <4>1, PathKept, Zenon DEF IInv, e
    <3>2. CASE i \in 1..(Len(stack) - 1)
      <4>1. i \in DOMAIN stack /\ i + 1 \in DOMAIN stack
        BY <1>8, <3>2
      <4>2. stack'[i] = stack[i] /\ stack'[i + 1] = stack[i + 1]
        BY <1>8, <4>1, Zenon
      <4> QED BY <1>1, <1>2, <3>2, <4>2, PathKept, Zenon DEF IInv
    <3>3. i = Len(stack) \/ i \in 1..(Len(stack) - 1)
      <4>1. Len(stack') = Len(stack) + 1 /\ Len(stack) \in Nat
        BY <1>8, Zenon
      <4> QED BY <4>1
    <3> QED BY <3>1, <3>2, <3>3
  <2> QED BY <2>1, <2>2, <2>3, Zenon DEF OpenPathLive
<1>13. StackRises'
  <2>1. ASSUME NEW i \in DOMAIN stack', NEW j \in DOMAIN stack', i < j
        PROVE  stack'[i] < stack'[j]
    <3>1. i \in DOMAIN stack /\ stack'[i] = stack[i]
      BY <1>8, <2>1
    <3>2. CASE j \in DOMAIN stack
      BY <1>8, <2>1, <3>1, <3>2 DEF IInv, StackRises
    <3>3. CASE j = Len(stack')
      <4>1. stack[i] \in 1..Len(tree)
        BY <1>7, <3>1, Zenon DEF IInv, OpenPathLive
      <4>2. stack[i] < e
        BY <1>7, <4>1
      <4> QED BY <1>8, <3>1, <3>3, <4>2, Zenon
    <3>4. j \in DOMAIN stack \/ j = Len(stack')
      BY <1>8
    <3> QED BY <3>2, <3>3, <3>4
  <2> QED BY <2>1 DEF StackRises
<1>14. MaskFits'
  <2>1. TopType' = t
    BY <1>5, <1>6, <1>8, Zenon DEF TopType, Top
  <2> QED BY <1>8, <1>10, <2>1 DEF MaskFits, Openers
<1>15. KeysSoFar'
  <2>1. \A n \in DOMAIN tree' : Balanced(tree'[n], FALSE)
    BY <1>1, <1>2, <1>3, <1>4, DebtPaid, Zenon DEF IInv
  <2>2. "COLON" \notin expectMask' /\ "VALUE" \notin expectMask'
    BY <1>10
  <2> QED BY <2>1, <2>2, Zenon DEF KeysSoFar, Owes
<1> QED BY <1>11, <1>12, <1>13, <1>14, <1>15, Zenon DEF IInv

LEMMA ScalarFirstStep ==
  ASSUME IInv, stack = <<>>, NEW t \in Scalars, ScalarValue(t)
  PROVE  IInv'
<1>1. t \in Scalars \cup Openers /\ t \in Tokens
  BY DEF Tokens
<1>2. /\ PushValue(t) /\ stack' = stack /\ Scan(t) /\ LoopTest
      /\ ~ (t = "string" /\ "OBJ_NAME" \in Cleared)
  BY DEF ScalarValue
<1>3. /\ scanned' \in Seq(Tokens) /\ tok' \in Tokens
      /\ status = "scanning" /\ Expected(t) /\ CaseAccepts(t)
  BY <1>1, <1>2, Scanned, Zenon DEF IInv
<1>4. Cleared = {} /\ tree = <<Node("keyword")>>
  BY <1>1, <1>2, <1>3, ValueTurn, Zenon DEF IInv
<1>5. tree' \in Seq(NodeType) /\ DOMAIN tree' = {1} /\ tree'[1] = Node(t)
  BY <1>1, <1>2, <1>4, First, Zenon
<1>6. Balanced(Node(t), FALSE)
  BY <1>1, NodeIsNode, Zenon
<1>7. stack' = <<>> /\ DOMAIN stack' = {} /\ 1..(Len(stack') - 1) = {}
  BY <1>2
<1>8. expectMask' = {} /\ status' = "ending"
  BY <1>2, <1>4, <1>7 DEF ScalarValue, LoopTest
<1>9. TypeOK'
  BY <1>3, <1>5, <1>7, <1>8 DEF TypeOK
<1>10. OpenPathLive' /\ StackRises'
  BY <1>7, Zenon DEF OpenPathLive, StackRises
<1>11. MaskFits'
  BY <1>7, <1>8 DEF MaskFits
<1>12. KeysSoFar'
  BY <1>5, <1>6, <1>7, Zenon DEF KeysSoFar, Owes
<1> QED BY <1>9, <1>10, <1>11, <1>12, Zenon DEF IInv

LEMMA ScalarInnerStep ==
  ASSUME IInv, stack # <<>>, NEW t \in Scalars, ScalarValue(t)
  PROVE  IInv'
<1>1. t \in Scalars \cup Openers /\ t \in Tokens
  BY DEF Tokens
<1>2. /\ PushValue(t) /\ stack' = stack /\ Scan(t) /\ LoopTest
      /\ ~ (t = "string" /\ "OBJ_NAME" \in Cleared)
  BY DEF ScalarValue
<1>3. /\ scanned' \in Seq(Tokens) /\ tok' \in Tokens
      /\ status = "scanning" /\ Expected(t) /\ CaseAccepts(t)
  BY <1>1, <1>2, Scanned, Zenon DEF IInv
<1>4. /\ Cleared = {}
      /\ (TopType = "{" /\ expectMask = {"VALUE"}) \/ (TopType = "[" /\ expectMask = {"ARR_VALUE"})
  BY <1>1, <1>2, <1>3, ValueTurn, Zenon DEF IInv
<1>5. tree' \in Seq(NodeType)
  BY <1>1, <1>2, Pushed, Zenon DEF IInv
<1>6. expectMask' = {"NOT_VALUE"} /\ status' = "scanning"
  BY <1>2, <1>4 DEF ScalarValue, LoopTest
<1>7. TypeOK'
  BY <1>2, <1>3, <1>5, <1>6 DEF IInv, TypeOK, ExpectBits
<1>8. /\ \A i \in DOMAIN stack : stack[i] \in DOMAIN tree' /\ tree'[stack[i]].typ \in Openers
      /\ tree'[Top].typ = TopType
      /\ \A i \in 1..(Len(stack) - 1) :
           LET values == tree'[stack[i]].values
           IN  values # <<>> /\ values[Len(values)] = stack[i + 1]
  BY <1>1, <1>2, PathKept, Zenon DEF IInv
<1>9. OpenPathLive'
  <2>1. stack'[1] = 1
    BY <1>2, Zenon DEF IInv, OpenPathLive
  <2> QED BY <1>2, <1>8, <2>1, Zenon DEF OpenPathLive
<1>10. StackRises'
  BY <1>2, Zenon DEF IInv, StackRises
<1>11. MaskFits'
  <2>1. TopType' = TopType
    BY <1>2, <1>8, Zenon DEF TopType, Top
  <2> QED BY <1>2, <1>4, <1>6, <2>1 DEF MaskFits
<1>12. KeysSoFar'
  <2>1. \A n \in DOMAIN tree' : Balanced(tree'[n], FALSE)
    BY <1>1, <1>2, <1>3, <1>4, DebtPaid, Zenon DEF IInv
  <2>2. "COLON" \notin expectMask' /\ "VALUE" \notin expectMask'
    BY <1>6
  <2> QED BY <2>1, <2>2, Zenon DEF KeysSoFar, Owes
<1> QED BY <1>7, <1>9, <1>10, <1>11, <1>12, Zenon DEF IInv

LEMMA CloseStep ==
  ASSUME IInv, NEW t \in Closers, CloseContainer(t)
  PROVE  IInv'
<1>1. t \in Tokens
  BY DEF Tokens
<1>2. /\ stack' = SubSeq(stack, 1, Len(stack) - 1) /\ tree' = tree /\ Scan(t) /\ LoopTest
      /\ expectMask' = (Cleared \ {"OBJ_NAME"}) \cup {"NOT_VALUE"}
  BY DEF CloseContainer
<1>3. /\ scanned' \in Seq(Tokens) /\ tok' \in Tokens
      /\ status = "scanning" /\ Expected(t) /\ CaseAccepts(t)
  BY <1>1, <1>2, Scanned, Zenon DEF IInv
<1>4. /\ stack # <<>> /\ expectMask' = {"NOT_VALUE"}
      /\ "COLON" \notin expectMask /\ "VALUE" \notin expectMask
  BY <1>2, <1>3, CloseTurn, Zenon DEF IInv
<1>5. stack \in Seq(Nat)
  BY DEF IInv, TypeOK
<1>6. /\ stack' \in Seq(Nat) /\ Len(stack') = Len(stack) - 1
      /\ \A i \in 1..(Len(stack) - 1) : i \in DOMAIN stack /\ stack'[i] = stack[i]
  BY <1>2, <1>4, <1>5, Shortened, Zenon
<1>7. Len(stack) \in Nat /\ DOMAIN stack' = 1..(Len(stack) - 1)
  BY <1>5, <1>6
<1>8. TypeOK'
  BY <1>2, <1>3, <1>4, <1>6 DEF IInv, TypeOK, ExpectBits, LoopTest
<1>9. OpenPathLive'
  <2>1. \A i \in DOMAIN stack' : stack'[i] \in DOMAIN tree' /\ tree'[stack'[i]].typ \in Openers
    BY <1>2, <1>6, <1>7, Zenon DEF IInv, OpenPathLive
  <2>2. stack' # <<>> => stack'[1] = 1
    <3>1. stack' # <<>> => 1 \in 1..(Len(stack) - 1)
      BY <1>6, <1>7
    <3> QED BY <1>4, <1>6, <3>1, Zenon DEF IInv, OpenPathLive
  <2>3. ASSUME NEW i \in 1..(Len(stack') - 1)
        PROVE  /\ tree'[stack'[i]].values # <<>>
               /\ tree'[stack'[i]].values[Len(tree'[stack'[i]].values)] = stack'[i + 1]
    <3>1. i \in 1..(Len(stack) - 1) /\ i + 1 \in 1..(Len(stack) - 1)
      BY <1>6, <1>7
    <3> QED BY <1>2, <1>6, <3>1, Zenon DEF IInv, OpenPathLive
  <2> QED BY <2>1, <2>2, <2>3, Zenon DEF OpenPathLive
<1>10. StackRises'
  <2>1. ASSUME NEW i \in DOMAIN stack', NEW j \in DOMAIN stack', i < j
        PROVE  stack'[i] < stack'[j]
    <3>1. /\ i \in DOMAIN stack /\ stack'[i] = stack[i]
          /\ j \in DOMAIN stack /\ stack'[j] = stack[j]
      BY <1>6, <1>7, Zenon
    <3>2. stack[i] < stack[j]
      BY <2>1, <3>1 DEF IInv, StackRises
    <3> QED BY <3>1, <3>2, Zenon
  <2> QED BY <2>1 DEF StackRises
<1>11. MaskFits'
  <2>1. CASE stack' = <<>>
    BY <1>2, <2>1 DEF MaskFits, LoopTest
  <2>2. CASE stack' # <<>>
    <3>1. Len(stack') \in DOMAIN stack'
      BY <1>6, <2>2
    <3>2. TopType' \in Openers
      BY <1>9, <3>1, Zenon DEF OpenPathLive, TopType, Top
    <3> QED BY <1>2, <1>4, <2>2, <3>2 DEF MaskFits, LoopTest, Openers
  <2> QED BY <2>1, <2>2
<1>12. KeysSoFar'
  <2>1. \A n \in DOMAIN tree : Balanced(tree[n], FALSE)
    BY <1>3, <1>4 DEF IInv, KeysSoFar, Owes
  <2>2. "COLON" \notin expectMask' /\ "VALUE" \notin expectMask'
    BY <1>4
  <2> QED BY <1>2, <2>1, <2>2, Zenon DEF KeysSoFar, Owes
<1> QED BY <1>8, <1>9, <1>10, <1>11, <1>12, Zenon DEF IInv

\* A colon and a comma leave the values and the pointers alone.
LEMMA ColonStep == ASSUME IInv, Colon PROVE IInv'
<1>1. Scan(":") /\ stack' = stack /\ tree' = tree /\ LoopTest /\ ":" \in Tokens
  BY DEF Colon, Tokens
<1>2. /\ scanned' \in Seq(Tokens) /\ tok' \in Tokens
      /\ status = "scanning" /\ Expected(":") /\ CaseAccepts(":")
  BY <1>1, Scanned, Zenon DEF IInv
<1>3. stack # <<>> /\ TopType = "{" /\ "COLON" \in expectMask /\ Cleared = {}
  BY <1>2, ColonTurn, Zenon DEF IInv
<1>4. expectMask' = {"VALUE"} /\ status' = "scanning"
  BY <1>1, <1>3 DEF Colon, LoopTest
<1>5. TypeOK'
  BY <1>1, <1>2, <1>4 DEF IInv, TypeOK, ExpectBits
<1>6. OpenPathLive' /\ StackRises' /\ TopType' = TopType
  BY <1>1, Zenon DEF IInv, OpenPathLive, StackRises, TopType, Top
<1>7. MaskFits'
  BY <1>1, <1>3, <1>4, <1>6 DEF MaskFits
<1>8. KeysSoFar'
  BY <1>1, <1>2, <1>3, <1>4 DEF IInv, KeysSoFar, Owes, Top
<1> QED BY <1>5, <1>6, <1>7, <1>8, Zenon DEF IInv

LEMMA CommaStep == ASSUME IInv, Comma PROVE IInv'
<1>1. Scan(",") /\ stack' = stack /\ tree' = tree /\ LoopTest /\ "," \in Tokens
  BY DEF Comma, Tokens
<1>2. /\ scanned' \in Seq(Tokens) /\ tok' \in Tokens
      /\ status = "scanning" /\ Expected(",") /\ CaseAccepts(",")
  BY <1>1, Scanned, Zenon DEF IInv
<1>3. stack # <<>> /\ expectMask = {"NOT_VALUE"} /\ Cleared = {}
  BY <1>2, CommaTurn, Zenon DEF IInv
<1>4. /\ expectMask' = {IF TopType = "{" THEN "OBJ_NAME" ELSE "ARR_VALUE"}
      /\ status' = "scanning"
  BY <1>1, <1>3 DEF Comma, LoopTest
<1>5. TypeOK'
  BY <1>1, <1>2, <1>4 DEF IInv, TypeOK, ExpectBits
<1>6. OpenPathLive' /\ StackRises' /\ TopType' = TopType
  BY <1>1, Zenon DEF IInv, OpenPathLive, StackRises, TopType, Top
<1>7. MaskFits'
  BY <1>1, <1>2, <1>3, <1>4, <1>6 DEF IInv, MaskFits
<1>8. KeysSoFar'
  <2>1. \A n \in DOMAIN tree : Balanced(tree[n], FALSE)
    BY <1>2, <1>3 DEF IInv, KeysSoFar, Owes
  <2>2. "COLON" \notin expectMask' /\ "VALUE" \notin expectMask'
    BY <1>4
  <2> QED BY <1>1, <2>1, <2>2, Zenon DEF KeysSoFar, Owes
<1> QED BY <1>5, <1>6, <1>7, <1>8, Zenon DEF IInv

\* A name puts the innermost object one value into debt.
LEMMA KeyStep == ASSUME IInv, KeyString PROVE IInv'
<1> DEFINE named == [tree[Top] EXCEPT !.keys = @ + 1]
<1>1. /\ Scan("string") /\ "OBJ_NAME" \in Cleared /\ stack' = stack /\ LoopTest
      /\ tree' = [tree EXCEPT ![Top] = named] /\ "string" \in Tokens
      /\ expectMask' = (Cleared \ {"OBJ_NAME"}) \cup {"COLON", "NOT_VALUE"}
  BY DEF KeyString, Tokens, Scalars
<1>2. /\ scanned' \in Seq(Tokens) /\ tok' \in Tokens
      /\ status = "scanning" /\ Expected("string") /\ CaseAccepts("string")
  BY <1>1, Scanned, Zenon DEF IInv
<1>3. /\ stack # <<>> /\ TopType = "{" /\ expectMask = {"OBJ_NAME"}
      /\ expectMask' = {"COLON", "NOT_VALUE"}
  BY <1>1, <1>2, KeyTurn, Zenon DEF IInv
<1>4. Top \in DOMAIN tree /\ tree[Top] \in NodeType
  BY <1>3, TopIsOpen, Zenon DEF IInv
<1>5. /\ named \in NodeType /\ named.typ = tree[Top].typ /\ named.values = tree[Top].values
      /\ named.keys = tree[Top].keys + 1
  BY <1>4 DEF NodeType
<1> HIDE DEF named
<1>6. /\ tree' \in Seq(NodeType) /\ DOMAIN tree' = DOMAIN tree /\ tree'[Top] = named
      /\ \A n \in DOMAIN tree : n # Top => tree'[n] = tree[n]
  BY <1>1, <1>4, <1>5 DEF IInv, TypeOK
<1>7. status' = "scanning"
  BY <1>1, <1>3 DEF LoopTest
<1>8. \A n \in DOMAIN tree : tree'[n].typ = tree[n].typ /\ tree'[n].values = tree[n].values
  BY <1>5, <1>6, Zenon
<1>9. TypeOK'
  BY <1>1, <1>2, <1>3, <1>6, <1>7 DEF IInv, TypeOK, ExpectBits
<1>10. OpenPathLive'
  <2>1. ASSUME NEW i \in 1..(Len(stack) - 1)
        PROVE  /\ tree'[stack[i]].values # <<>>
               /\ tree'[stack[i]].values[Len(tree'[stack[i]].values)] = stack[i + 1]
    <3>1. i \in DOMAIN stack
      BY DEF IInv, TypeOK
    <3>2. stack[i] \in DOMAIN tree
      BY <3>1 DEF IInv, OpenPathLive
    <3>3. tree'[stack[i]].values = tree[stack[i]].values
      BY <1>8, <3>2, Zenon
    <3> QED BY <3>3, Zenon DEF IInv, OpenPathLive
  <2>2. \A i \in DOMAIN stack : stack[i] \in DOMAIN tree' /\ tree'[stack[i]].typ \in Openers
    BY <1>6, <1>8, Zenon DEF IInv, OpenPathLive
  <2>3. stack[1] = 1
    BY <1>3, Zenon DEF IInv, OpenPathLive
  <2> QED BY <1>1, <2>1, <2>2, <2>3, Zenon DEF OpenPathLive
<1>11. StackRises'
  BY <1>1, Zenon DEF IInv, StackRises
<1>12. MaskFits'
  <2>1. TopType' = TopType
    BY <1>1, <1>4, <1>8, Zenon DEF TopType, Top
  <2> QED BY <1>1, <1>3, <1>7, <2>1 DEF MaskFits
<1>13. KeysSoFar'
  <2>1. \A n \in DOMAIN tree : Balanced(tree[n], FALSE)
    BY <1>2, <1>3 DEF IInv, KeysSoFar, Owes
  <2>2. ASSUME NEW n \in DOMAIN tree', n # Top PROVE Balanced(tree'[n], FALSE)
    BY <1>6, <2>1, <2>2, Zenon
  <2>3. Balanced(tree'[Top], TRUE)
    BY <1>3, <1>4, <1>5, <1>6, <2>1 DEF Balanced, TopType
  <2>4. \A n : Owes(n)' <=> n = Top
    BY <1>1, <1>3 DEF Owes, Top
  <2>5. ASSUME NEW n \in DOMAIN tree' PROVE Balanced(tree'[n], Owes(n)')
    <3>1. CASE n = Top
      BY <2>3, <2>4, <3>1 DEF Balanced
    <3>2. CASE n # Top
      BY <2>2, <2>4, <3>2 DEF Balanced
    <3> QED BY <3>1, <3>2
  <2> QED BY <2>5, Zenon DEF KeysSoFar
<1> QED BY <1>9, <1>10, <1>11, <1>12, <1>13, Zenon DEF IInv

LEMMA LastSteps ==
  ASSUME IInv, NEW t \in Tokens \cup {"none", "err"}, Fail(t) \/ CheckEnd(t)
  PROVE  IInv'
<1>1. /\ expectMask' = expectMask /\ stack' = stack /\ tree' = tree /\ scanned' = scanned
      /\ tok' = t
      /\ status' = "false" \/ (status = "ending" /\ status' = "true")
  BY DEF Fail, CheckEnd
<1>2. TypeOK'
  BY <1>1 DEF IInv, TypeOK
<1>3. OpenPathLive' /\ StackRises'
  BY <1>1, Zenon DEF IInv, OpenPathLive, StackRises
<1>4. MaskFits'
  BY <1>1 DEF IInv, MaskFits
<1>5. KeysSoFar'
  BY <1>1 DEF IInv, KeysSoFar, Owes, Top
<1> QED BY <1>2, <1>3, <1>4, <1>5, Zenon DEF IInv

LEMMA Inductive == IInv /\ [Next]_vars => IInv'
<1> SUFFICES ASSUME IInv, [Next]_vars PROVE IInv'
  OBVIOUS
<1>1. ASSUME NEW t \in Tokens, OpenContainer(t) PROVE IInv'
  <2>1. t \in Openers
    BY <1>1 DEF OpenContainer
  <2> QED BY <1>1, <2>1, OpenFirstStep, OpenInnerStep, Zenon
<1>2. ASSUME NEW t \in Tokens, CloseContainer(t) PROVE IInv'
  <2>1. t \in Closers
    BY <1>2 DEF CloseContainer
  <2> QED BY <1>2, <2>1, CloseStep, Zenon
<1>3. ASSUME NEW t \in Tokens, ScalarValue(t) PROVE IInv'
  <2>1. t \in Scalars
    BY <1>3 DEF ScalarValue
  <2> QED BY <1>3, <2>1, ScalarFirstStep, ScalarInnerStep, Zenon
<1>4. CASE UNCHANGED vars
  <2>1. /\ expectMask' = expectMask /\ tok' = tok /\ stack' = stack /\ tree' = tree
        /\ scanned' = scanned /\ status' = status
    BY <1>4 DEF vars
  <2>2. TypeOK'
    BY <2>1 DEF IInv, TypeOK
  <2>3. OpenPathLive' /\ StackRises'
    BY <2>1, Zenon DEF IInv, OpenPathLive, StackRises
  <2>4. MaskFits'
    BY <2>1 DEF IInv, MaskFits, TopType, Top
  <2>5. KeysSoFar'
    BY <2>1 DEF IInv, KeysSoFar, Owes, Top
  <2> QED BY <2>2, <2>3, <2>4, <2>5, Zenon DEF IInv
<1> QED BY <1>1, <1>2, <1>3, <1>4, ColonStep, CommaStep, KeyStep, LastSteps, Zenon DEF Next

THEOREM InvariantHolds == Spec => []IInv
BY InitIInv, Inductive, PTL DEF Spec

\* The reader's variables have their types, whatever the text.
THEOREM TypeCorrect == Spec => []TypeOK
<1>1. IInv => TypeOK
  BY DEF IInv
<1> QED BY <1>1, InvariantHolds, PTL

\* No pointer on the reader's stack dangles, however deep the nesting and
\* however many values are pushed.
THEOREM PointersLive == Spec => []OpenPathLive
<1>1. IInv => OpenPathLive
  BY DEF IInv
<1> QED BY <1>1, InvariantHolds, PTL

\* Whatever text was read, every object has a key for each of its values.
THEOREM KeysMatch == Spec => []KeysMatchValues
<1>1. ASSUME IInv PROVE KeysMatchValues
  <2> SUFFICES ASSUME status \in {"ending", "true"}, NEW n \in DOMAIN tree
      PROVE  tree[n].keys = IF tree[n].typ = "{" THEN Len(tree[n].values) ELSE 0
    BY Zenon DEF KeysMatchValues
  <2>1. stack = <<>> /\ status # "false"
    BY <1>1 DEF IInv, MaskFits
  <2>2. Balanced(tree[n], FALSE)
    BY <1>1, <2>1 DEF IInv, KeysSoFar, Owes
  <2> QED BY <2>2, Zenon DEF Balanced
<1> QED BY <1>1, InvariantHolds, PTL
-----------------------------------------------------------------------------
(* UniValue::read implements JsonGrammar: each turn of its loop is a step  *)
(* of the grammar.                                                         *)

\* Behind a complete value the last token was neither a comma nor "[", which
\* is why those two tests before a comma and a closer refuse no JSON text.
LastToken ==
  status = "scanning" /\ expectMask = {"NOT_VALUE"} => tok \notin {",", "["}

\* The place that goes with each mask.
PlaceFits ==
  /\ status = "false" => Place = "refused"
  /\ status = "true" => Place = "accepted"
  /\ status = "ending" => Place = "end"
  /\ status = "scanning" /\ stack = <<>> => Place = "start"
  /\ status = "scanning" /\ stack # <<>> =>
       /\ expectMask = {"VALUE"} => Place = "value"
       /\ expectMask = {"COLON", "NOT_VALUE"} => Place = "colon"
       /\ expectMask = {"OBJ_NAME"} => Place = IF tok = "," THEN "name" ELSE "firstName"
       /\ expectMask = {"ARR_VALUE"} => Place = IF tok = "," THEN "element" ELSE "firstElement"
       /\ expectMask = {"NOT_VALUE"} => Place = "more"

LEMMA PlaceNow == PlaceFits
BY DEF PlaceFits, Place

LEMMA PlaceThen == PlaceFits'
BY DEF PlaceFits, Place

LEMMA OpenNow ==
  ASSUME IInv
  PROVE  /\ OpenTypes \in Seq(Openers) /\ Len(OpenTypes) = Len(stack) /\ Len(stack) \in Nat
         /\ DOMAIN OpenTypes = DOMAIN stack /\ DOMAIN stack = 1..Len(stack)
         /\ \A i \in DOMAIN stack : OpenTypes[i] = tree[stack[i]].typ
         /\ OpenTypes = <<>> <=> stack = <<>>
         /\ stack # <<>> => OpenTypes[Len(OpenTypes)] = TopType
<1>1. stack \in Seq(Nat) /\ Len(stack) \in Nat /\ DOMAIN stack = 1..Len(stack)
  BY DEF IInv, TypeOK
<1>2. \A i \in DOMAIN stack : tree[stack[i]].typ \in Openers
  BY DEF IInv, OpenPathLive
<1>3. OpenTypes \in Seq(Openers) /\ Len(OpenTypes) = Len(stack) /\ DOMAIN OpenTypes = DOMAIN stack
  BY <1>1, <1>2 DEF OpenTypes
<1>4. \A i \in DOMAIN stack : OpenTypes[i] = tree[stack[i]].typ
  BY Zenon DEF OpenTypes
<1>5. OpenTypes = <<>> <=> stack = <<>>
  BY <1>1, <1>3
<1>6. stack # <<>> => OpenTypes[Len(OpenTypes)] = TopType
  <2>1. stack # <<>> => Len(stack) \in DOMAIN stack
    BY <1>1
  <2> QED BY <1>3, <1>4, <2>1, Zenon DEF TopType, Top
<1> QED BY <1>1, <1>3, <1>4, <1>5, <1>6, Zenon

LEMMA OpenThen ==
  ASSUME IInv'
  PROVE  /\ OpenTypes' \in Seq(Openers) /\ Len(OpenTypes') = Len(stack') /\ Len(stack') \in Nat
         /\ DOMAIN OpenTypes' = DOMAIN stack' /\ DOMAIN stack' = 1..Len(stack')
         /\ \A i \in DOMAIN stack' : OpenTypes'[i] = tree'[stack'[i]].typ
         /\ OpenTypes' = <<>> <=> stack' = <<>>
<1>1. stack' \in Seq(Nat) /\ Len(stack') \in Nat /\ DOMAIN stack' = 1..Len(stack')
  BY DEF IInv, TypeOK
<1>2. \A i \in DOMAIN stack' : tree'[stack'[i]].typ \in Openers
  BY DEF IInv, OpenPathLive
<1>3. OpenTypes' \in Seq(Openers) /\ Len(OpenTypes') = Len(stack') /\ DOMAIN OpenTypes' = DOMAIN stack'
  BY <1>1, <1>2 DEF OpenTypes
<1>4. \A i \in DOMAIN stack' : OpenTypes'[i] = tree'[stack'[i]].typ
  BY Zenon DEF OpenTypes
<1>5. OpenTypes' = <<>> <=> stack' = <<>>
  BY <1>1, <1>3
<1> QED BY <1>1, <1>3, <1>4, <1>5, Zenon

\* Sequences with the same elements are the same.
LEMMA SameElements ==
  ASSUME NEW S, NEW r \in Seq(S), NEW s \in Seq(S), Len(r) = Len(s),
         \A i \in 1..Len(r) : r[i] = s[i]
  PROVE  r = s
OBVIOUS

LEMMA InitRefines == Init => Grammar!Init
<1> SUFFICES ASSUME Init PROVE Grammar!Init
  OBVIOUS
<1>1. OpenTypes = <<>>
  BY InitIInv, OpenNow, Zenon DEF Init
<1>2. Place = "start"
  BY PlaceNow DEF PlaceFits, Init
<1> QED BY <1>1, <1>2 DEF Init, Grammar!Init

\* The types of the open containers, after a step that pushes none, one that
\* pushes one, and one that pops one.
LEMMA OpenKept ==
  ASSUME IInv, IInv', stack' = stack,
         \A i \in DOMAIN stack : tree'[stack[i]].typ = tree[stack[i]].typ
  PROVE  OpenTypes' = OpenTypes
<1>1. /\ OpenTypes \in Seq(Openers) /\ Len(OpenTypes) = Len(stack)
      /\ DOMAIN stack = 1..Len(stack)
      /\ \A i \in DOMAIN stack : OpenTypes[i] = tree[stack[i]].typ
  BY OpenNow, Zenon
<1>2. /\ OpenTypes' \in Seq(Openers) /\ Len(OpenTypes') = Len(stack)
      /\ \A i \in DOMAIN stack : OpenTypes'[i] = tree'[stack[i]].typ
  BY OpenThen, Zenon
<1>3. \A i \in 1..Len(OpenTypes') : OpenTypes'[i] = OpenTypes[i]
  BY <1>1, <1>2, Zenon
<1> QED BY <1>1, <1>2, <1>3, SameElements, Zenon

LEMMA OpenPushed ==
  ASSUME IInv, IInv', NEW e \in Nat, NEW t \in Openers, stack' = Append(stack, e),
         \A i \in DOMAIN stack : tree'[stack[i]].typ = tree[stack[i]].typ,
         tree'[e].typ = t
  PROVE  OpenTypes' = Append(OpenTypes, t)
<1>1. /\ OpenTypes \in Seq(Openers) /\ Len(OpenTypes) = Len(stack) /\ Len(stack) \in Nat
      /\ DOMAIN stack = 1..Len(stack) /\ DOMAIN OpenTypes = DOMAIN stack
      /\ \A i \in DOMAIN stack : OpenTypes[i] = tree[stack[i]].typ
  BY OpenNow, Zenon
<1>2. /\ OpenTypes' \in Seq(Openers) /\ Len(OpenTypes') = Len(stack')
      /\ \A i \in DOMAIN stack' : OpenTypes'[i] = tree'[stack'[i]].typ
  BY OpenThen, Zenon
<1>3. /\ Len(stack') = Len(stack) + 1 /\ stack'[Len(stack')] = e
      /\ \A i \in DOMAIN stack : stack'[i] = stack[i]
      /\ DOMAIN stack' = 1..(Len(stack) + 1)
  <2>1. stack \in Seq(Nat)
    BY DEF IInv, TypeOK
  <2> QED BY <2>1, StackPushed, Zenon
<1> DEFINE longer == Append(OpenTypes, t)
<1>4. /\ longer \in Seq(Openers) /\ Len(longer) = Len(OpenTypes) + 1
      /\ longer[Len(OpenTypes) + 1] = t
      /\ \A i \in DOMAIN OpenTypes : longer[i] = OpenTypes[i]
      /\ DOMAIN longer = DOMAIN OpenTypes \cup {Len(OpenTypes) + 1}
  <2>1. OpenTypes \in Seq(Openers) /\ t \in Openers
    BY <1>1
  <2> QED BY <2>1, Appended
<1> HIDE DEF longer
<1>5. ASSUME NEW i \in 1..Len(OpenTypes') PROVE OpenTypes'[i] = longer[i]
  <2>1. i \in DOMAIN stack' /\ (i \in DOMAIN stack \/ i = Len(stack) + 1)
    BY <1>1, <1>2, <1>3
  <2>2. CASE i \in DOMAIN stack
    BY <1>1, <1>2, <1>3, <1>4, <2>1, <2>2, Zenon
  <2>3. CASE i = Len(stack) + 1
    <3>1. OpenTypes'[i] = tree'[stack'[i]].typ /\ stack'[i] = e
      BY <1>2, <1>3, <2>1, <2>3, Zenon
    <3>2. longer[i] = t
      BY <1>1, <1>4, <2>3, Zenon
    <3> QED BY <3>1, <3>2, Zenon
  <2> QED BY <2>1, <2>2, <2>3
<1>6. Len(OpenTypes') = Len(longer)
  BY <1>1, <1>2, <1>3, <1>4, Zenon
<1>7. OpenTypes' = longer
  BY <1>2, <1>4, <1>5, <1>6, SameElements, Zenon
<1> QED BY <1>7 DEF longer

LEMMA OpenPopped ==
  ASSUME IInv, IInv', stack # <<>>, tree' = tree,
         stack' = SubSeq(stack, 1, Len(stack) - 1)
  PROVE  OpenTypes' = SubSeq(OpenTypes, 1, Len(OpenTypes) - 1)
<1>1. /\ OpenTypes \in Seq(Openers) /\ Len(OpenTypes) = Len(stack) /\ OpenTypes # <<>>
      /\ \A i \in DOMAIN stack : OpenTypes[i] = tree[stack[i]].typ
  BY OpenNow, Zenon
<1>2. /\ OpenTypes' \in Seq(Openers) /\ Len(OpenTypes') = Len(stack')
      /\ DOMAIN stack' = 1..Len(stack')
      /\ \A i \in DOMAIN stack' : OpenTypes'[i] = tree'[stack'[i]].typ
  BY OpenThen, Zenon
<1>3. /\ Len(stack') = Len(stack) - 1
      /\ \A i \in 1..(Len(stack) - 1) : i \in DOMAIN stack /\ stack'[i] = stack[i]
  <2>1. stack \in Seq(Nat)
    BY DEF IInv, TypeOK
  <2> QED BY <2>1, Shortened, Zenon
<1> DEFINE shorter == SubSeq(OpenTypes, 1, Len(OpenTypes) - 1)
<1>4. /\ shorter \in Seq(Openers) /\ Len(shorter) = Len(OpenTypes) - 1
      /\ \A i \in 1..(Len(OpenTypes) - 1) : shorter[i] = OpenTypes[i]
  BY <1>1, Shortened, Zenon
<1> HIDE DEF shorter
<1>5. \A i \in 1..Len(OpenTypes') : OpenTypes'[i] = shorter[i]
  BY <1>1, <1>2, <1>3, <1>4, Zenon
<1>6. Len(OpenTypes') = Len(shorter)
  BY <1>1, <1>2, <1>3, <1>4, Zenon
<1>7. OpenTypes' = shorter
  BY <1>2, <1>4, <1>5, <1>6, SameElements, Zenon
<1> QED BY <1>7 DEF shorter

\* A value that is pushed changes no container's type.
LEMMA TypesKept ==
  ASSUME IInv, stack # <<>>, NEW t \in Scalars \cup Openers, PushValue(t)
  PROVE  \A i \in DOMAIN stack : tree'[stack[i]].typ = tree[stack[i]].typ
<1>1. \A n \in DOMAIN tree : tree'[n].typ = tree[n].typ
  BY Pushed, Zenon DEF IInv
<1> QED BY <1>1, Zenon DEF IInv, OpenPathLive

LEMMA OpenRefines ==
  ASSUME IInv, IInv', NEW t \in Openers, OpenContainer(t)
  PROVE  Grammar!Open(t)
<1>1. t \in Scalars \cup Openers /\ t # "string" /\ t # ","
  BY DEF Openers
<1>2. /\ PushValue(t) /\ stack' = Append(stack, IF stack = <<>> THEN 1 ELSE Len(tree) + 1)
      /\ status = "scanning" /\ Expected(t) /\ tok' = t /\ scanned' = Append(scanned, t)
      /\ LoopTest
  BY DEF OpenContainer, Scan
<1>3. /\ Cleared = {}
      /\ \/ stack = <<>> /\ tree = <<Node("keyword")>>
         \/ stack # <<>> /\ TopType = "{" /\ expectMask = {"VALUE"}
         \/ stack # <<>> /\ TopType = "[" /\ expectMask = {"ARR_VALUE"}
  BY <1>1, <1>2, ValueTurn, Zenon DEF IInv
<1>4. Place \in {"start", "value", "firstElement", "element"}
  BY <1>2, <1>3, PlaceNow DEF PlaceFits
<1>5. Node(t).typ = t
  BY <1>1, NodeIsNode, Zenon
<1>6. OpenTypes' = Append(OpenTypes, t)
  <2>1. CASE stack = <<>>
    <3>1. DOMAIN stack = {} /\ 1 \in Nat /\ stack' = Append(stack, 1)
      BY <1>2, <2>1
    <3>2. tree'[1].typ = t
      BY <1>1, <1>2, <1>3, <1>5, <2>1, First, Zenon
    <3> QED BY <3>1, <3>2, OpenPushed, Zenon
  <2>2. CASE stack # <<>>
    <3> DEFINE e == Len(tree) + 1
    <3>1. e \in Nat /\ stack' = Append(stack, e)
      BY <1>2, <2>2 DEF IInv, TypeOK
    <3>2. tree'[e].typ = t
      BY <1>1, <1>2, <1>5, <2>2, Pushed, Zenon DEF IInv
    <3>3. \A i \in DOMAIN stack : tree'[stack[i]].typ = tree[stack[i]].typ
      BY <1>1, <1>2, <2>2, TypesKept, Zenon
    <3> HIDE DEF e
    <3> QED BY <3>1, <3>2, <3>3, OpenPushed, Zenon
  <2> QED BY <2>1, <2>2
<1>7. Place' = IF t = "{" THEN "firstName" ELSE "firstElement"
  <2>1. stack' # <<>>
    BY <1>2 DEF IInv, TypeOK
  <2>2. /\ status' = "scanning"
        /\ expectMask' = {IF t = "{" THEN "OBJ_NAME" ELSE "ARR_VALUE"}
    BY <1>2, <1>3, <2>1 DEF OpenContainer, LoopTest
  <2> QED BY <1>1, <1>2, <2>1, <2>2, PlaceThen DEF PlaceFits
<1>8. t \in Grammar!Openers /\ Place \in Grammar!ValuePlaces
  BY <1>4 DEF Grammar!Openers, Grammar!ValuePlaces, Openers
<1> QED BY <1>2, <1>6, <1>7, <1>8, Zenon DEF Grammar!Open, Grammar!Take

LEMMA ScalarRefines ==
  ASSUME IInv, IInv', NEW t \in Scalars, ScalarValue(t)
  PROVE  Grammar!Scalar(t)
<1>1. t \in Scalars \cup Openers
  BY DEF Scalars
<1>2. /\ PushValue(t) /\ stack' = stack /\ ~ (t = "string" /\ "OBJ_NAME" \in Cleared)
      /\ status = "scanning" /\ Expected(t) /\ tok' = t /\ scanned' = Append(scanned, t)
      /\ LoopTest
  BY DEF ScalarValue, Scan
<1>3. /\ Cleared = {}
      /\ \/ stack = <<>> /\ tree = <<Node("keyword")>>
         \/ stack # <<>> /\ TopType = "{" /\ expectMask = {"VALUE"}
         \/ stack # <<>> /\ TopType = "[" /\ expectMask = {"ARR_VALUE"}
  BY <1>1, <1>2, ValueTurn, Zenon DEF IInv
<1>4. Place \in {"start", "value", "firstElement", "element"}
  BY <1>2, <1>3, PlaceNow DEF PlaceFits
<1>5. OpenTypes' = OpenTypes
  <2>1. \A i \in DOMAIN stack : tree'[stack[i]].typ = tree[stack[i]].typ
    <3>1. CASE stack = <<>>
      BY <3>1
    <3>2. CASE stack # <<>>
      BY <1>1, <1>2, <3>2, TypesKept, Zenon
    <3> QED BY <3>1, <3>2
  <2> QED BY <1>2, <2>1, OpenKept, Zenon
<1>6. Place' = IF OpenTypes = <<>> THEN "end" ELSE "more"
  <2>1. OpenTypes = <<>> <=> stack = <<>>
    BY OpenNow, Zenon
  <2>2. CASE stack = <<>>
    <3>1. status' = "ending"
      BY <1>2, <2>2 DEF LoopTest
    <3> QED BY <2>1, <2>2, <3>1, PlaceThen DEF PlaceFits
  <2>3. CASE stack # <<>>
    <3>1. status' = "scanning" /\ expectMask' = {"NOT_VALUE"}
      BY <1>2, <1>3, <2>3 DEF ScalarValue, LoopTest
    <3> QED BY <1>2, <2>1, <2>3, <3>1, PlaceThen DEF PlaceFits
  <2> QED BY <2>2, <2>3
<1>7. t \in Grammar!Scalars /\ Place \in Grammar!ValuePlaces
  BY <1>4 DEF Grammar!Scalars, Grammar!ValuePlaces, Scalars
<1> QED BY <1>2, <1>5, <1>6, <1>7, Zenon DEF Grammar!Scalar, Grammar!Take, Grammar!Behind

LEMMA CloseRefines ==
  ASSUME IInv, IInv', NEW t \in Closers, CloseContainer(t)
  PROVE  Grammar!Close(t)
<1>1. /\ stack' = SubSeq(stack, 1, Len(stack) - 1) /\ tree' = tree /\ LoopTest
      /\ status = "scanning" /\ Expected(t) /\ CaseAccepts(t)
      /\ tok' = t /\ scanned' = Append(scanned, t)
      /\ expectMask' = (Cleared \ {"OBJ_NAME"}) \cup {"NOT_VALUE"}
  BY DEF CloseContainer, Scan
<1>2. stack # <<>> /\ "COLON" \notin expectMask /\ "VALUE" \notin expectMask /\ expectMask' = {"NOT_VALUE"}
  BY <1>1, CloseTurn, Zenon DEF IInv
<1>3. tok # "," /\ TopType = (IF t = "}" THEN "{" ELSE "[")
  BY <1>1 DEF CaseAccepts
<1>4. OpenTypes # <<>> /\ OpenTypes[Len(OpenTypes)] = TopType
  BY <1>2, OpenNow, Zenon
<1>5. t = IF TopType = "{" THEN "}" ELSE "]"
  BY <1>3 DEF Closers
<1>6. Place \in {"more", "firstName", "firstElement"}
  <2>1. \/ expectMask = {"OBJ_NAME"} \/ expectMask = {"ARR_VALUE"} \/ expectMask = {"NOT_VALUE"}
    BY <1>1, <1>2 DEF IInv, MaskFits
  <2> QED BY <1>1, <1>2, <1>3, <2>1, PlaceNow DEF PlaceFits
<1>7. OpenTypes' = SubSeq(OpenTypes, 1, Len(OpenTypes) - 1)
  BY <1>1, <1>2, OpenPopped, Zenon
<1>8. Place' = IF OpenTypes' = <<>> THEN "end" ELSE "more"
  <2>1. OpenTypes' = <<>> <=> stack' = <<>>
    BY OpenThen, Zenon
  <2>2. CASE stack' = <<>>
    <3>1. status' = "ending"
      BY <1>1, <2>2 DEF LoopTest
    <3> QED BY <2>1, <2>2, <3>1, PlaceThen DEF PlaceFits
  <2>3. CASE stack' # <<>>
    <3>1. status' = "scanning"
      BY <1>1, <2>3 DEF LoopTest
    <3> QED BY <1>2, <2>1, <2>3, <3>1, PlaceThen DEF PlaceFits
  <2> QED BY <2>2, <2>3
<1>9. Grammar!MayClose(t)
  BY <1>4, <1>5, <1>6, Zenon DEF Grammar!MayClose, Grammar!Closer, Grammar!Innermost
<1>10. t \in Grammar!Closers
  BY DEF Grammar!Closers, Closers
<1> QED BY <1>1, <1>7, <1>8, <1>9, <1>10, Zenon DEF Grammar!Close, Grammar!Take, Grammar!Behind

LEMMA ColonRefines ==
  ASSUME IInv, IInv', Colon
  PROVE  Grammar!Colon
<1>1. /\ stack' = stack /\ tree' = tree /\ LoopTest
      /\ status = "scanning" /\ Expected(":") /\ CaseAccepts(":")
      /\ tok' = ":" /\ scanned' = Append(scanned, ":")
  BY DEF Colon, Scan
<1>2. stack # <<>> /\ "COLON" \in expectMask /\ Cleared = {}
  BY <1>1, ColonTurn, Zenon DEF IInv
<1>3. expectMask = {"COLON", "NOT_VALUE"}
  BY <1>1, <1>2 DEF IInv, MaskFits
<1>4. Place = "colon"
  BY <1>1, <1>2, <1>3, PlaceNow DEF PlaceFits
<1>5. expectMask' = {"VALUE"} /\ status' = "scanning"
  BY <1>1, <1>2 DEF Colon, LoopTest
<1>6. Place' = "value"
  BY <1>1, <1>2, <1>5, PlaceThen DEF PlaceFits
<1>7. OpenTypes' = OpenTypes
  BY <1>1, OpenKept, Zenon
<1> QED BY <1>1, <1>4, <1>6, <1>7, Zenon DEF Grammar!Colon, Grammar!Take

LEMMA CommaRefines ==
  ASSUME IInv, IInv', Comma
  PROVE  Grammar!Comma
<1>1. /\ stack' = stack /\ tree' = tree /\ LoopTest
      /\ status = "scanning" /\ Expected(",") /\ CaseAccepts(",")
      /\ tok' = "," /\ scanned' = Append(scanned, ",")
  BY DEF Comma, Scan
<1>2. stack # <<>> /\ expectMask = {"NOT_VALUE"} /\ Cleared = {}
  BY <1>1, CommaTurn, Zenon DEF IInv
<1>3. Place = "more"
  BY <1>1, <1>2, PlaceNow DEF PlaceFits
<1>4. /\ expectMask' = {IF TopType = "{" THEN "OBJ_NAME" ELSE "ARR_VALUE"}
      /\ status' = "scanning"
  BY <1>1, <1>2 DEF Comma, LoopTest
<1>5. Place' = IF TopType = "{" THEN "name" ELSE "element"
  BY <1>1, <1>2, <1>4, PlaceThen DEF PlaceFits
<1>6. OpenTypes[Len(OpenTypes)] = TopType
  BY <1>2, OpenNow, Zenon
<1>7. OpenTypes' = OpenTypes
  BY <1>1, OpenKept, Zenon
<1> QED BY <1>1, <1>3, <1>5, <1>6, <1>7, Zenon DEF Grammar!Comma, Grammar!Take, Grammar!Innermost

LEMMA NameRefines ==
  ASSUME IInv, IInv', KeyString
  PROVE  Grammar!Name
<1>1. /\ stack' = stack /\ tree' = [tree EXCEPT ![Top].keys = @ + 1] /\ LoopTest
      /\ status = "scanning" /\ Expected("string") /\ "OBJ_NAME" \in Cleared
      /\ tok' = "string" /\ scanned' = Append(scanned, "string")
      /\ expectMask' = (Cleared \ {"OBJ_NAME"}) \cup {"COLON", "NOT_VALUE"}
  BY DEF KeyString, Scan
<1>2. stack # <<>> /\ expectMask = {"OBJ_NAME"} /\ expectMask' = {"COLON", "NOT_VALUE"}
  BY <1>1, KeyTurn, Zenon DEF IInv
<1>3. Place \in {"firstName", "name"}
  BY <1>1, <1>2, PlaceNow DEF PlaceFits
<1>4. Place' = "colon"
  BY <1>1, <1>2, PlaceThen DEF PlaceFits, LoopTest
<1>5. \A i \in DOMAIN stack : tree'[stack[i]].typ = tree[stack[i]].typ
  <2>1. ASSUME NEW n \in DOMAIN tree PROVE tree'[n].typ = tree[n].typ
    <3>1. tree[n] \in NodeType
      BY DEF IInv, TypeOK
    <3>2. tree'[n] = IF n = Top THEN [tree[n] EXCEPT !.keys = @ + 1] ELSE tree[n]
      BY <1>1
    <3> QED BY <3>1, <3>2 DEF NodeType
  <2> QED BY <2>1, Zenon DEF IInv, OpenPathLive
<1>6. OpenTypes' = OpenTypes
  BY <1>1, <1>5, OpenKept, Zenon
<1> QED BY <1>1, <1>3, <1>4, <1>6, Zenon DEF Grammar!Name, Grammar!Take

\* The loop refuses no token that the grammar allows.
LEMMA AllowedPasses ==
  ASSUME IInv, LastToken, status = "scanning", NEW t, Grammar!Allowed(t)
  PROVE  t \in Tokens /\ Expected(t) /\ CaseAccepts(t)
<1>1. \/ t \in Scalars \cup Openers /\ Place \in {"start", "value", "firstElement", "element"}
      \/ t = "string" /\ Place \in {"firstName", "name"}
      \/ t = ":" /\ Place = "colon"
      \/ t = "," /\ Place = "more"
      \/ /\ t \in Closers /\ OpenTypes # <<>>
         /\ t = IF OpenTypes[Len(OpenTypes)] = "{" THEN "}" ELSE "]"
         /\ Place \in {"more", "firstName", "firstElement"}
  BY Zenon DEF Grammar!Allowed, Grammar!MayClose, Grammar!Closer, Grammar!Innermost,
               Grammar!Scalars, Grammar!Openers, Grammar!Closers, Grammar!ValuePlaces,
               Scalars, Openers, Closers
<1>2. /\ OpenTypes = <<>> <=> stack = <<>>
      /\ stack # <<>> => OpenTypes[Len(OpenTypes)] = TopType
  BY OpenNow, Zenon
<1>3. \/ stack = <<>> /\ expectMask = {} /\ Place = "start"
      \/ stack # <<>> /\ TopType = "{" /\ expectMask = {"OBJ_NAME"}
           /\ Place = (IF tok = "," THEN "name" ELSE "firstName")
      \/ stack # <<>> /\ TopType = "{" /\ expectMask = {"COLON", "NOT_VALUE"} /\ Place = "colon"
      \/ stack # <<>> /\ TopType = "{" /\ expectMask = {"VALUE"} /\ Place = "value"
      \/ stack # <<>> /\ TopType = "[" /\ expectMask = {"ARR_VALUE"}
           /\ Place = (IF tok = "," THEN "element" ELSE "firstElement")
      \/ stack # <<>> /\ TopType \in Openers /\ expectMask = {"NOT_VALUE"} /\ Place = "more"
           /\ tok \notin {",", "["}
  BY PlaceNow DEF PlaceFits, IInv, MaskFits, LastToken, Openers
<1>4. t \in Tokens
  BY <1>1 DEF Tokens, Scalars, Openers, Closers
<1>5. CASE t \in Scalars \cup Openers /\ Place \in {"start", "value", "firstElement", "element"}
  <2>1. IsValueOpen(t) /\ t \notin Closers \cup {":", ","}
    BY <1>5 DEF IsValueOpen, Scalars, Openers, Closers
  <2>2. expectMask \in {{}, {"VALUE"}, {"ARR_VALUE"}}
    BY <1>3, <1>5
  <2> QED BY <1>4, <2>1, <2>2 DEF Expected, CaseAccepts
<1>6. CASE t = "string" /\ Place \in {"firstName", "name"}
  <2>1. expectMask = {"OBJ_NAME"}
    BY <1>3, <1>6
  <2> QED BY <1>4, <1>6, <2>1 DEF Expected, CaseAccepts, Closers
<1>7. CASE t = ":" /\ Place = "colon"
  <2>1. expectMask = {"COLON", "NOT_VALUE"} /\ stack # <<>> /\ TopType = "{"
    BY <1>3, <1>7
  <2> QED BY <1>4, <1>7, <2>1 DEF Expected, CaseAccepts, Closers, IsValueOpen, Scalars, Openers
<1>8. CASE t = "," /\ Place = "more"
  <2>1. expectMask = {"NOT_VALUE"} /\ stack # <<>> /\ tok \notin {",", "["}
    BY <1>3, <1>8
  <2> QED BY <1>4, <1>8, <2>1 DEF Expected, CaseAccepts, Closers, IsValueOpen, Scalars, Openers
<1>9. CASE /\ t \in Closers /\ stack # <<>>
           /\ t = IF TopType = "{" THEN "}" ELSE "]"
           /\ Place \in {"more", "firstName", "firstElement"}
  <2>1. ~ IsValueOpen(t) /\ t # ":" /\ t # ","
    BY <1>9 DEF IsValueOpen, Scalars, Openers, Closers
  <2>2. /\ tok # ","
        /\ expectMask \in {{"OBJ_NAME"}, {"ARR_VALUE"}, {"NOT_VALUE"}}
        /\ expectMask = {"OBJ_NAME"} => TopType = "{"
        /\ expectMask = {"ARR_VALUE"} => TopType = "["
        /\ TopType \in Openers
    BY <1>3, <1>9 DEF Openers
  <2>3. CaseAccepts(t)
    BY <1>9, <2>1, <2>2 DEF CaseAccepts, Openers
  <2>4. Expected(t)
    BY <1>9, <2>1, <2>2 DEF Expected
  <2> QED BY <1>4, <2>3, <2>4
<1> QED BY <1>1, <1>2, <1>5, <1>6, <1>7, <1>8, <1>9

LEMMA FailRefines ==
  ASSUME IInv, IInv', LastToken, NEW t \in Tokens \cup {"none", "err"}, Fail(t)
  PROVE  Grammar!Refuse(t)
<1>1. /\ status = "scanning" /\ tok' = t /\ status' = "false"
      /\ stack' = stack /\ tree' = tree /\ scanned' = scanned
      /\ ~ (t \in Tokens /\ Expected(t) /\ CaseAccepts(t))
  <2>1. "none" \notin Tokens /\ "err" \notin Tokens
    BY DEF Tokens, Scalars, Openers, Closers
  <2> QED BY <2>1 DEF Fail
<1>2. ~ Grammar!Allowed(t)
  BY <1>1, AllowedPasses, Zenon
<1>3. Place \notin {"accepted", "refused", "end"}
  BY <1>1, PlaceNow DEF PlaceFits, IInv, MaskFits
<1>4. Place' = "refused"
  BY <1>1, PlaceThen DEF PlaceFits
<1>5. OpenTypes' = OpenTypes
  BY <1>1, OpenKept, Zenon
<1> QED BY <1>1, <1>2, <1>3, <1>4, <1>5 DEF Grammar!Refuse

LEMMA EndRefines ==
  ASSUME IInv, IInv', NEW t \in Tokens \cup {"none", "err"}, CheckEnd(t)
  PROVE  Grammar!Accept \/ Grammar!Refuse(t)
<1>1. /\ status = "ending" /\ tok' = t /\ scanned' = scanned /\ stack' = stack /\ tree' = tree
      /\ status' = IF t = "none" THEN "true" ELSE "false"
  BY DEF CheckEnd
<1>2. Place = "end"
  BY <1>1, PlaceNow DEF PlaceFits
<1>3. OpenTypes' = OpenTypes
  BY <1>1, OpenKept, Zenon
<1>4. CASE t = "none"
  <2>1. Place' = "accepted"
    BY <1>1, <1>4, PlaceThen DEF PlaceFits
  <2> QED BY <1>1, <1>2, <1>3, <1>4, <2>1, Zenon DEF Grammar!Accept
<1>5. CASE t # "none"
  <2>1. Place' = "refused"
    BY <1>1, <1>5, PlaceThen DEF PlaceFits
  <2>2. ~ Grammar!Allowed(t)
    BY <1>2 DEF Grammar!Allowed, Grammar!MayClose, Grammar!ValuePlaces
  <2> QED BY <1>1, <1>2, <1>3, <1>5, <2>1, <2>2 DEF Grammar!Refuse
<1> QED BY <1>4, <1>5

LEMMA LastTokenStep == IInv /\ LastToken /\ [Next]_vars => LastToken'
<1> SUFFICES ASSUME IInv, LastToken, [Next]_vars, status' = "scanning", expectMask' = {"NOT_VALUE"}
    PROVE  tok' \notin {",", "["}
  BY DEF LastToken
<1>1. ASSUME NEW t \in Tokens, OpenContainer(t) PROVE FALSE
  <2>1. (IF t = "{" THEN "OBJ_NAME" ELSE "ARR_VALUE") \in expectMask'
    BY <1>1, Zenon DEF OpenContainer
  <2> QED BY <2>1
<1>2. ASSUME NEW t \in Tokens, CloseContainer(t) PROVE tok' \notin {",", "["}
  BY <1>2 DEF CloseContainer, Scan, Closers
<1>3. ASSUME NEW t \in Tokens, ScalarValue(t) PROVE tok' \notin {",", "["}
  BY <1>3 DEF ScalarValue, Scan, Scalars
<1>4. CASE Colon
  BY <1>4 DEF Colon, Scan
<1>5. CASE Comma
  <2>1. (IF TopType = "{" THEN "OBJ_NAME" ELSE "ARR_VALUE") \in expectMask'
    BY <1>5, Zenon DEF Comma
  <2> QED BY <2>1
<1>6. CASE KeyString
  <2>1. "COLON" \in expectMask'
    BY <1>6, Zenon DEF KeyString
  <2> QED BY <2>1
<1>7. ASSUME NEW t \in Tokens \cup {"none", "err"}, Fail(t) \/ CheckEnd(t) PROVE FALSE
  BY <1>7 DEF Fail, CheckEnd
<1>8. CASE UNCHANGED vars
  BY <1>8 DEF LastToken, vars
<1> QED BY <1>1, <1>2, <1>3, <1>4, <1>5, <1>6, <1>7, <1>8, Zenon DEF Next

LEMMA StepRefines ==
  IInv /\ IInv' /\ LastToken /\ [Next]_vars => [Grammar!Next]_(Grammar!gvars)
<1> SUFFICES ASSUME IInv, IInv', LastToken, [Next]_vars PROVE [Grammar!Next]_(Grammar!gvars)
  OBVIOUS
<1>1. ASSUME NEW t \in Tokens, OpenContainer(t) \/ CloseContainer(t) \/ ScalarValue(t)
      PROVE  Grammar!Next
  <2>1. t \in Grammar!Tokens
    BY DEF Grammar!Tokens, Grammar!Scalars, Grammar!Openers, Grammar!Closers,
           Tokens, Scalars, Openers, Closers
  <2>2. /\ OpenContainer(t) => t \in Openers
        /\ CloseContainer(t) => t \in Closers
        /\ ScalarValue(t) => t \in Scalars
    BY DEF OpenContainer, CloseContainer, ScalarValue
  <2>3. Grammar!Open(t) \/ Grammar!Close(t) \/ Grammar!Scalar(t)
    BY <1>1, <2>2, OpenRefines, CloseRefines, ScalarRefines, Zenon
  <2> QED BY <2>1, <2>3, Zenon DEF Grammar!Next
<1>2. ASSUME NEW t \in Tokens \cup {"none", "err"}, Fail(t) \/ CheckEnd(t)
      PROVE  Grammar!Next
  <2>1. t \in Grammar!Tokens \cup {"none", "err"}
    BY DEF Grammar!Tokens, Grammar!Scalars, Grammar!Openers, Grammar!Closers,
           Tokens, Scalars, Openers, Closers
  <2>2. Grammar!Accept \/ Grammar!Refuse(t)
    BY <1>2, FailRefines, EndRefines, Zenon
  <2> QED BY <2>1, <2>2, Zenon DEF Grammar!Next
<1>3. CASE Colon
  BY <1>3, ColonRefines, Zenon DEF Grammar!Next
<1>4. CASE Comma
  BY <1>4, CommaRefines, Zenon DEF Grammar!Next
<1>5. CASE KeyString
  BY <1>5, NameRefines, Zenon DEF Grammar!Next
<1>6. CASE UNCHANGED vars
  <2>1. /\ tok' = tok /\ scanned' = scanned /\ stack' = stack /\ tree' = tree
        /\ status' = status /\ expectMask' = expectMask
    BY <1>6 DEF vars
  <2>2. OpenTypes' = OpenTypes
    BY <2>1, OpenKept, Zenon
  <2>3. Place' = Place
    BY <2>1, Zenon DEF Place
  <2> QED BY <2>1, <2>2, <2>3, Zenon DEF Grammar!gvars
<1> QED BY <1>1, <1>2, <1>3, <1>4, <1>5, <1>6, Zenon DEF Next

\* Whatever the text, UniValue::read takes a token exactly where the grammar
\* allows it, refuses the text at the first one it does not, and accepts it at
\* the end of a complete value.
THEOREM ReadsEveryText == Spec => ReadsTheGrammar
<1>1. Init => LastToken
  BY DEF Init, LastToken
<1> QED BY <1>1, InitRefines, StepRefines, LastTokenStep, InvariantHolds, PTL
        DEF Spec, ReadsTheGrammar, Grammar!Spec
-----------------------------------------------------------------------------
(* Texts and their tokens.                                                 *)

Marks == Tokens \cup {"space", "newline"}

\* The token at a place of a text, or nothing.
Kept(text) == [i \in DOMAIN text |-> IF text[i] \in Tokens THEN <<text[i]>> ELSE <<>>]

LEMMA KeptType ==
  ASSUME NEW text \in Seq(Marks)
  PROVE  /\ Kept(text) \in Seq(Seq(Tokens)) /\ Len(Kept(text)) = Len(text)
         /\ OnlyTokens(text) = FlattenSeq(Kept(text))
<1>1. Len(text) \in Nat /\ DOMAIN text = 1..Len(text)
  OBVIOUS
<1>2. ASSUME NEW i \in 1..Len(text)
      PROVE  (IF text[i] \in Tokens THEN <<text[i]>> ELSE <<>>) \in Seq(Tokens)
  <2>1. \A e \in Tokens : <<e>> \in Seq(Tokens)
    OBVIOUS
  <2>2. <<>> \in Seq(Tokens)
    OBVIOUS
  <2> QED BY <2>1, <2>2, Zenon
<1>3. Kept(text) \in [1..Len(text) -> Seq(Tokens)]
  BY <1>1, <1>2 DEF Kept
<1>4. Kept(text) \in Seq(Seq(Tokens)) /\ Len(Kept(text)) = Len(text)
  BY <1>1, <1>3, FunctionIsSeq, Zenon
<1> QED BY <1>4, Zenon DEF OnlyTokens, Kept

LEMMA OnlyType ==
  ASSUME NEW text \in Seq(Marks)
  PROVE  OnlyTokens(text) \in Seq(Tokens)
<1>1. Kept(text) \in Seq(Seq(Tokens)) /\ OnlyTokens(text) = FlattenSeq(Kept(text))
  BY KeptType, Zenon
<1>2. PICK f : Chain(f, Kept(text), Tokens) /\ FlattenSeq(Kept(text)) = f[Len(Kept(text))]
  BY <1>1, FlattenChain, Zenon
<1>3. Len(Kept(text)) \in 0..Len(Kept(text))
  BY <1>1
<1> QED BY <1>1, <1>2, <1>3, Zenon DEF Chain

\* The tokens of two texts are those of the one behind those of the other.
LEMMA OnlyJoins ==
  ASSUME NEW a \in Seq(Marks), NEW b \in Seq(Marks)
  PROVE  a \o b \in Seq(Marks) /\ OnlyTokens(a \o b) = OnlyTokens(a) \o OnlyTokens(b)
<1>1. PICK w : w = a \o b
  OBVIOUS
<1>2. Joins(a, b, w, Marks)
  BY <1>1, JoinedPlaces, Zenon
<1>3. w \in Seq(Marks) /\ Len(w) = Len(a) + Len(b) /\ Len(a) \in Nat /\ Len(b) \in Nat
  BY <1>2 DEF Joins
<1>4. PICK x, y, z : x = Kept(a) /\ y = Kept(b) /\ z = Kept(w)
  OBVIOUS
<1>5. /\ x \in Seq(Seq(Tokens)) /\ Len(x) = Len(a) /\ OnlyTokens(a) = FlattenSeq(x)
      /\ y \in Seq(Seq(Tokens)) /\ Len(y) = Len(b) /\ OnlyTokens(b) = FlattenSeq(y)
      /\ z \in Seq(Seq(Tokens)) /\ Len(z) = Len(w) /\ OnlyTokens(w) = FlattenSeq(z)
  BY <1>3, <1>4, KeptType, Zenon
<1>6. PICK v : v = x \o y
  OBVIOUS
<1>7. Joins(x, y, v, Seq(Tokens))
  BY <1>5, <1>6, JoinedPlaces, Zenon
<1>8. /\ v \in Seq(Seq(Tokens)) /\ Len(v) = Len(z)
      /\ \A k \in 1..Len(a) : v[k] = x[k]
      /\ \A k \in 1..Len(b) : v[Len(a) + k] = y[k]
  BY <1>3, <1>5, <1>7 DEF Joins
<1>9. ASSUME NEW k \in 1..Len(v) PROVE v[k] = z[k]
  <2>0. k \in 1..Len(w)
    BY <1>5, <1>8
  <2>1. z[k] = IF w[k] \in Tokens THEN <<w[k]>> ELSE <<>>
    BY <1>3, <1>4, <2>0 DEF Kept
  <2>2. CASE k <= Len(a)
    <3>1. k \in 1..Len(a)
      BY <1>3, <2>0, <2>2
    <3>2. x[k] = IF a[k] \in Tokens THEN <<a[k]>> ELSE <<>>
      BY <1>4, <3>1 DEF Kept
    <3>3. w[k] = a[k] /\ v[k] = x[k]
      BY <1>2, <1>8, <3>1, Zenon DEF Joins
    <3> QED BY <2>1, <3>2, <3>3, Zenon
  <2>3. CASE ~ (k <= Len(a))
    <3>1. PICK l \in 1..Len(b) : k = Len(a) + l
      <4>1. k - Len(a) \in 1..Len(b) /\ k = Len(a) + (k - Len(a))
        BY <1>3, <2>0, <2>3
      <4> QED BY <4>1, Zenon
    <3>2. y[l] = IF b[l] \in Tokens THEN <<b[l]>> ELSE <<>>
      BY <1>4, <3>1 DEF Kept
    <3>3. w[k] = b[l] /\ v[k] = y[l]
      BY <1>2, <1>8, <3>1, Zenon DEF Joins
    <3> QED BY <2>1, <3>2, <3>3, Zenon
  <2> QED BY <2>2, <2>3
<1>10. v = z
  <2>1. Len(v) = Len(z) /\ \A k \in 1..Len(v) : v[k] = z[k]
    BY <1>8, <1>9
  <2> QED BY <1>5, <1>8, <2>1, SeqEqual
<1>11. FlattenSeq(v) = FlattenSeq(x) \o FlattenSeq(y)
  BY <1>5, <1>6, FlattenJoins, Zenon
<1> QED BY <1>1, <1>3, <1>5, <1>10, <1>11, Zenon

LEMMA OnlyOne ==
  ASSUME NEW e \in Marks
  PROVE  /\ <<e>> \in Seq(Marks)
         /\ OnlyTokens(<<e>>) = IF e \in Tokens THEN <<e>> ELSE <<>>
<1>1. PICK t : t = <<e>>
  OBVIOUS
<1>2. t \in Seq(Marks) /\ Len(t) = 1 /\ t[1] = e
  BY <1>1
<1>3. PICK x : x = Kept(t)
  OBVIOUS
<1>4. x \in Seq(Seq(Tokens)) /\ Len(x) = 1 /\ OnlyTokens(t) = FlattenSeq(x)
  BY <1>2, <1>3, KeptType, Zenon
<1>5. x[1] = (IF e \in Tokens THEN <<e>> ELSE <<>>) /\ x[1] \in Seq(Tokens)
  <2>1. x[1] = IF t[1] \in Tokens THEN <<t[1]>> ELSE <<>>
    BY <1>2, <1>3 DEF Kept
  <2>2. x[1] \in Seq(Tokens)
    BY <1>4
  <2> QED BY <1>2, <2>1, <2>2, Zenon
<1>6. PICK f : Chain(f, x, Tokens) /\ FlattenSeq(x) = f[Len(x)]
  BY <1>4, FlattenChain, Zenon
<1>7. f[0] = <<>> /\ f[1] = f[0] \o x[1]
  <2>1. 1 \in 1..Len(x) /\ 1 - 1 = 0
    BY <1>4
  <2>2. f[0] = <<>> /\ f[1] = f[1 - 1] \o x[1]
    BY <1>6, <2>1, Zenon DEF Chain
  <2> QED BY <2>1, <2>2
<1>8. f[1] = x[1]
  BY <1>5, <1>7, NothingBehind
<1> QED BY <1>1, <1>2, <1>4, <1>5, <1>6, <1>8, Zenon

LEMMA OnlyNone ==
  /\ <<>> \in Seq(Marks) /\ OnlyTokens(<<>>) = <<>>
<1>1. <<>> \in Seq(Marks)
  OBVIOUS
<1>2. Kept(<<>>) = <<>>
  BY DEF Kept
<1> QED BY <1>1, <1>2, KeptType DEF FlattenSeq

\* A text that has no spaces and line ends is its tokens.
LEMMA OnlyItself ==
  ASSUME NEW t \in Seq(Tokens)
  PROVE  t \in Seq(Marks) /\ OnlyTokens(t) = t
<1>1. t \in Seq(Marks) /\ Len(t) \in Nat /\ DOMAIN t = 1..Len(t)
  <2>1. Tokens \subseteq Marks
    BY Zenon DEF Marks
  <2> QED BY <2>1
<1>2. PICK x : x = Kept(t)
  OBVIOUS
<1>3. x \in Seq(Seq(Tokens)) /\ Len(x) = Len(t) /\ OnlyTokens(t) = FlattenSeq(x)
  BY <1>1, <1>2, KeptType, Zenon
<1>4. \A i \in 1..Len(t) : x[i] = <<t[i]>>
  <2>1. \A i \in 1..Len(t) : t[i] \in Tokens
    OBVIOUS
  <2> QED BY <1>1, <1>2, <2>1, Zenon DEF Kept
<1>5. PICK f : Chain(f, x, Tokens) /\ FlattenSeq(x) = f[Len(x)]
  BY <1>3, FlattenChain, Zenon
<1> DEFINE G == {i \in 0..Len(t) : f[i] = Cut(t, 1, i + 1)}
<1>6. ASSUME NEW i \in 0..Len(t), \A k \in 0..(i - 1) : k \in G PROVE i \in G
  <2>1. CASE i = 0
    <3>1. 1 \in 1..(Len(t) + 1)
      BY <1>1
    <3>2. Cut(t, 1, 1) = <<>>
      BY <3>1, CutEnds
    <3>3. i + 1 = 1 /\ f[i] = <<>>
      BY <1>5, <2>1 DEF Chain
    <3> QED BY <3>2, <3>3
  <2>2. CASE i # 0
    <3>1. i \in 1..Len(t) /\ i - 1 \in 0..(i - 1) /\ (i - 1) + 1 = i
      BY <1>1, <2>2
    <3>2. f[i - 1] = Cut(t, 1, i)
      BY <1>6, <3>1
    <3>3. f[i] = f[i - 1] \o x[i]
      BY <1>3, <1>5, <3>1, Zenon DEF Chain
    <3>4. x[i] = Cut(t, i, i + 1)
      BY <1>4, <3>1, CutEnds
    <3>5. Cut(t, 1, i) \o Cut(t, i, i + 1) = Cut(t, 1, i + 1)
      <4>1. PICK j : j = i + 1
        OBVIOUS
      <4>2. 1 \in Nat /\ i \in Nat /\ j \in Nat /\ 1 <= 1 /\ 1 <= i /\ i <= j /\ j <= Len(t) + 1
        BY <1>1, <3>1, <4>1
      <4>3. Cut(t, 1, i) \o Cut(t, i, j) = Cut(t, 1, j)
        BY <4>2, CutJoin, Zenon
      <4> QED BY <4>1, <4>3, Zenon
    <3>6. f[i] = Cut(t, 1, i + 1)
      BY <3>2, <3>3, <3>4, <3>5, Zenon
    <3> QED BY <3>6
  <2> QED BY <2>1, <2>2
<1> HIDE DEF G
<1>7. \A i \in 0..Len(t) : i \in G
  BY <1>1, <1>6, FromLeft
<1>8. f[Len(t)] = Cut(t, 1, Len(t) + 1)
  <2>1. Len(t) \in 0..Len(t)
    BY <1>1
  <2> QED BY <1>7, <2>1 DEF G
<1> QED BY <1>1, <1>3, <1>5, <1>8, CutEnds
-----------------------------------------------------------------------------
(* What write returns.                                                     *)

\* What a text is made of.
Printed(pretty) == IF pretty = 0 THEN Tokens ELSE Marks

\* A turn of the loop of writeArray and writeObject.
Member(node, texts, pretty, level, i) ==
  Indent(pretty * level)
    \o (IF node.typ = "{" THEN <<"string", ":">> \o IfPretty(pretty, "space") ELSE <<>>)
    \o texts[i]
    \o (IF i # Len(node.values) THEN <<",">> ELSE <<>>)
    \o IfPretty(pretty, "newline")

Turns(node, texts, pretty, level) ==
  [i \in DOMAIN node.values |-> Member(node, texts, pretty, level, i)]

LEMMA MembersAreTurns ==
  ASSUME NEW node, NEW texts, NEW pretty, NEW level
  PROVE  Members(node, texts, pretty, level) = FlattenSeq(Turns(node, texts, pretty, level))
BY Zenon DEF Members, Turns, Member

LEMMA Kinds ==
  ASSUME NEW pretty \in Nat
  PROVE  /\ Tokens \subseteq Printed(pretty) /\ Printed(pretty) \subseteq Marks
         /\ pretty # 0 => "space" \in Printed(pretty) /\ "newline" \in Printed(pretty)
BY DEF Printed, Marks

LEMMA JoinType ==
  ASSUME NEW S, NEW s \in Seq(S), NEW t \in Seq(S)
  PROVE  s \o t \in Seq(S)
OBVIOUS

LEMMA PieceTypes ==
  ASSUME NEW pretty \in Nat
  PROVE  /\ \A t \in Tokens : <<t>> \in Seq(Printed(pretty))
         /\ <<>> \in Seq(Printed(pretty))
         /\ <<"string", ":">> \in Seq(Printed(pretty))
         /\ \A n \in Nat : Indent(pretty * n) \in Seq(Printed(pretty))
         /\ IfPretty(pretty, "space") \in Seq(Printed(pretty))
         /\ IfPretty(pretty, "newline") \in Seq(Printed(pretty))
<1>1. PICK Q : Q = Printed(pretty)
  OBVIOUS
<1>2. /\ Tokens \subseteq Q
      /\ pretty # 0 => "space" \in Q /\ "newline" \in Q
  BY <1>1, Kinds, Zenon
<1>3. \A t \in Q : <<t>> \in Seq(Q)
  OBVIOUS
<1>4. <<>> \in Seq(Q)
  OBVIOUS
<1>5. "string" \in Q /\ ":" \in Q
  BY <1>2 DEF Tokens, Scalars
<1>6. <<"string", ":">> \in Seq(Q)
  BY <1>5
<1>7. ASSUME NEW n \in Nat PROVE Indent(pretty * n) \in Seq(Q)
  <2>1. PICK k \in Nat : k = pretty * n
    <3>1. pretty * n \in Nat
      OBVIOUS
    <3> QED BY <3>1, Zenon
  <2>2. CASE pretty = 0
    <3>1. k = 0
      BY <2>1, <2>2
    <3>2. 1..k = {}
      BY <3>1
    <3>3. Indent(k) = <<>>
      BY <3>2 DEF Indent
    <3> QED BY <1>4, <2>1, <3>3, Zenon
  <2>3. CASE pretty # 0
    <3>1. Indent(k) \in [1..k -> Q]
      BY <1>2, <2>3 DEF Indent
    <3> QED BY <2>1, <3>1, FunctionIsSeq, Zenon
  <2> QED BY <2>2, <2>3, Zenon
<1>8. IfPretty(pretty, "space") \in Seq(Q) /\ IfPretty(pretty, "newline") \in Seq(Q)
  BY <1>2, <1>3, <1>4, Zenon DEF IfPretty
<1>9. \A t \in Tokens : <<t>> \in Seq(Q)
  BY <1>2, <1>3, Zenon
<1> QED BY <1>1, <1>4, <1>6, <1>7, <1>8, <1>9, Zenon

\* The texts of the values, where each has one.
Printables(node, texts, pretty) ==
  /\ node.values \in Seq(Nat)
  /\ texts \in [DOMAIN node.values -> Seq(Printed(pretty))]

LEMMA MemberType ==
  ASSUME NEW pretty \in Nat, NEW level \in Nat, NEW node, NEW texts,
         Printables(node, texts, pretty), NEW i \in DOMAIN node.values
  PROVE  Member(node, texts, pretty, level, i) \in Seq(Printed(pretty))
<1>1. PICK Q : Q = Printed(pretty)
  OBVIOUS
<1>2. PICK a, b, c, d, e :
        /\ a = Indent(pretty * level)
        /\ b = IF node.typ = "{" THEN <<"string", ":">> \o IfPretty(pretty, "space") ELSE <<>>
        /\ c = texts[i]
        /\ d = IF i # Len(node.values) THEN <<",">> ELSE <<>>
        /\ e = IfPretty(pretty, "newline")
  OBVIOUS
<1>3. a \in Seq(Q) /\ e \in Seq(Q)
  BY <1>1, <1>2, PieceTypes, Zenon
<1>4. b \in Seq(Q)
  <2>1. <<"string", ":">> \in Seq(Q) /\ IfPretty(pretty, "space") \in Seq(Q) /\ <<>> \in Seq(Q)
    BY <1>1, PieceTypes, Zenon
  <2>2. <<"string", ":">> \o IfPretty(pretty, "space") \in Seq(Q)
    <3>1. PICK x, y : x = <<"string", ":">> /\ y = IfPretty(pretty, "space")
      OBVIOUS
    <3>2. x \o y \in Seq(Q)
      BY <2>1, <3>1, JoinType, Zenon
    <3> QED BY <3>1, <3>2, Zenon
  <2> QED BY <1>2, <2>1, <2>2, Zenon
<1>5. c \in Seq(Q)
  BY <1>1, <1>2, Zenon DEF Printables
<1>6. d \in Seq(Q)
  <2>1. "," \in Tokens
    BY DEF Tokens
  <2>2. <<",">> \in Seq(Q) /\ <<>> \in Seq(Q)
    BY <1>1, <2>1, PieceTypes, Zenon
  <2> QED BY <1>2, <2>2, Zenon
<1>7. a \o b \o c \o d \o e \in Seq(Q)
  BY <1>3, <1>4, <1>5, <1>6
<1>8. Member(node, texts, pretty, level, i) = a \o b \o c \o d \o e
  BY <1>2, Zenon DEF Member
<1> QED BY <1>1, <1>7, <1>8, Zenon

LEMMA TurnsType ==
  ASSUME NEW pretty \in Nat, NEW level \in Nat, NEW node, NEW texts,
         Printables(node, texts, pretty)
  PROVE  /\ Turns(node, texts, pretty, level) \in Seq(Seq(Printed(pretty)))
         /\ Len(Turns(node, texts, pretty, level)) = Len(node.values)
<1>1. Len(node.values) \in Nat /\ DOMAIN node.values = 1..Len(node.values)
  BY DEF Printables
<1>2. PICK n : n = Len(node.values)
  OBVIOUS
<1>3. \A i \in DOMAIN node.values :
        Member(node, texts, pretty, level, i) \in Seq(Printed(pretty))
  BY MemberType, Zenon
<1>4. Turns(node, texts, pretty, level) \in [1..n -> Seq(Printed(pretty))]
  BY <1>1, <1>2, <1>3 DEF Turns
<1> QED BY <1>1, <1>2, <1>4, FunctionIsSeq, Zenon

Closer(typ) == IF typ = "{" THEN "}" ELSE "]"

LEMMA ContainerParts ==
  ASSUME NEW pretty \in Nat, NEW level \in Nat \ {0}, NEW node, NEW texts,
         Printables(node, texts, pretty), node.typ \in Openers
  PROVE  /\ <<node.typ>> \in Seq(Printed(pretty))
         /\ IfPretty(pretty, "newline") \in Seq(Printed(pretty))
         /\ Members(node, texts, pretty, level) \in Seq(Printed(pretty))
         /\ Indent(pretty * (level - 1)) \in Seq(Printed(pretty))
         /\ <<Closer(node.typ)>> \in Seq(Printed(pretty))
<1>1. node.typ \in Tokens /\ Closer(node.typ) \in Tokens
  BY DEF Openers, Closers, Tokens, Closer
<1>2. level - 1 \in Nat
  OBVIOUS
<1>3. PICK f : Chain(f, Turns(node, texts, pretty, level), Printed(pretty))
               /\ FlattenSeq(Turns(node, texts, pretty, level))
                    = f[Len(Turns(node, texts, pretty, level))]
  BY TurnsType, FlattenChain, Zenon
<1>4. Len(Turns(node, texts, pretty, level)) \in 0..Len(Turns(node, texts, pretty, level))
  BY TurnsType
<1>5. Members(node, texts, pretty, level) \in Seq(Printed(pretty))
  BY <1>3, <1>4, MembersAreTurns, Zenon DEF Chain
<1> QED BY <1>1, <1>2, <1>5, PieceTypes, Zenon

LEMMA ContainerIs ==
  ASSUME NEW pretty, NEW level, NEW node, NEW texts
  PROVE  Container(node, texts, pretty, level)
           = <<node.typ>> \o IfPretty(pretty, "newline") \o Members(node, texts, pretty, level)
               \o Indent(pretty * (level - 1)) \o <<Closer(node.typ)>>
BY Zenon DEF Container, Closer

LEMMA ContainerType ==
  ASSUME NEW pretty \in Nat, NEW level \in Nat \ {0}, NEW node, NEW texts,
         Printables(node, texts, pretty), node.typ \in Openers
  PROVE  Container(node, texts, pretty, level) \in Seq(Printed(pretty))
<1>1. PICK Q, a, b, c, d, e :
        /\ Q = Printed(pretty)
        /\ a = <<node.typ>> /\ b = IfPretty(pretty, "newline")
        /\ c = Members(node, texts, pretty, level)
        /\ d = Indent(pretty * (level - 1)) /\ e = <<Closer(node.typ)>>
  OBVIOUS
<1>2. a \in Seq(Q) /\ b \in Seq(Q) /\ c \in Seq(Q) /\ d \in Seq(Q) /\ e \in Seq(Q)
  BY <1>1, ContainerParts, Zenon
<1>3. a \o b \o c \o d \o e \in Seq(Q)
  BY <1>2
<1> QED BY <1>1, <1>3, ContainerIs, Zenon
-----------------------------------------------------------------------------
(* The recursion of write.                                                 *)

\* A pointer of the tree points behind its node.
Forward == \A m \in DOMAIN tree : \A i \in DOMAIN tree[m].values :
             tree[m].values[i] \in (m + 1)..Len(tree)

Level(given) == IF given = 0 THEN 1 ELSE given

\* What write makes of a node, and what it made of all of them.
Body(w, m, pretty, given) ==
  IF tree[m].typ \in Scalars THEN <<tree[m].typ>>
  ELSE Container(tree[m],
         [i \in DOMAIN tree[m].values |-> w[tree[m].values[i]][Level(given) + 1]],
         pretty, Level(given))

Writes(w, pretty) ==
  /\ w \in [1..Len(tree) -> [Nat -> Seq(Printed(pretty))]]
  /\ \A m \in 1..Len(tree) : \A given \in Nat : w[m][given] = Body(w, m, pretty, given)

LEMMA BodyType ==
  ASSUME tree \in Seq(NodeType), Forward, NEW pretty \in Nat,
         NEW m \in 1..Len(tree),
         NEW w \in [(m + 1)..Len(tree) -> [Nat -> Seq(Printed(pretty))]],
         NEW given \in Nat
  PROVE  Body(w, m, pretty, given) \in Seq(Printed(pretty))
<1>1. /\ tree[m] \in NodeType /\ m \in DOMAIN tree
      /\ tree[m].typ \in Scalars \cup Openers /\ tree[m].values \in Seq(Nat)
  <2>1. tree[m] \in NodeType /\ m \in DOMAIN tree
    OBVIOUS
  <2> QED BY <2>1 DEF NodeType
<1>2. Level(given) \in Nat \ {0} /\ Level(given) + 1 \in Nat
  BY DEF Level
<1>3. CASE tree[m].typ \in Scalars
  <2>1. tree[m].typ \in Tokens
    BY <1>3 DEF Tokens
  <2>2. <<tree[m].typ>> \in Seq(Printed(pretty))
    BY <2>1, PieceTypes, Zenon
  <2> QED BY <1>3, <2>2, Zenon DEF Body
<1>4. CASE tree[m].typ \notin Scalars
  <2> DEFINE texts == [i \in DOMAIN tree[m].values |-> w[tree[m].values[i]][Level(given) + 1]]
  <2>1. ASSUME NEW i \in DOMAIN tree[m].values
        PROVE  w[tree[m].values[i]][Level(given) + 1] \in Seq(Printed(pretty))
    <3>1. tree[m].values[i] \in (m + 1)..Len(tree)
      BY <1>1, Zenon DEF Forward
    <3>2. w[tree[m].values[i]] \in [Nat -> Seq(Printed(pretty))]
      BY <3>1, Zenon
    <3> QED BY <1>2, <3>2, Zenon
  <2>2. texts \in [DOMAIN tree[m].values -> Seq(Printed(pretty))]
    BY <2>1, Zenon
  <2>3. Printables(tree[m], texts, pretty)
    BY <1>1, <2>2, Zenon DEF Printables
  <2>4. tree[m].typ \in Openers
    BY <1>1, <1>4, Zenon
  <2>5. Container(tree[m], texts, pretty, Level(given)) \in Seq(Printed(pretty))
    BY <1>2, <2>3, <2>4, ContainerType, Zenon
  <2> QED BY <1>4, <2>5, Zenon DEF Body
<1> QED BY <1>3, <1>4, Zenon

\* What a node becomes depends on the nodes behind it.
SameBehind(v, w, m) == \A k \in (m + 1)..Len(tree) : v[k] = w[k]

LEMMA BodyBehind ==
  ASSUME Forward, NEW pretty, NEW m \in DOMAIN tree, NEW v, NEW w, NEW given,
         SameBehind(v, w, m)
  PROVE  Body(v, m, pretty, given) = Body(w, m, pretty, given)
<1>1. \A i \in DOMAIN tree[m].values :
        v[tree[m].values[i]][Level(given) + 1] = w[tree[m].values[i]][Level(given) + 1]
  BY Zenon DEF Forward, SameBehind
<1>2. [i \in DOMAIN tree[m].values |-> v[tree[m].values[i]][Level(given) + 1]]
        = [i \in DOMAIN tree[m].values |-> w[tree[m].values[i]][Level(given) + 1]]
  BY <1>1, Zenon
<1> QED BY <1>2, Zenon DEF Body

LEMMA WritesExists ==
  ASSUME tree \in Seq(NodeType), Forward, NEW pretty \in Nat
  PROVE  \E w : Writes(w, pretty)
<1> DEFINE n == Len(tree)
           T == [Nat -> Seq(Printed(pretty))]
           h == [m \in 1..n |-> [g \in [(m + 1)..n -> T] |->
                  [given \in Nat |-> Body(g, m, pretty, given)]]]
<1>1. n \in Nat /\ 1 \in Nat /\ 1 <= n + 1 /\ DOMAIN tree = 1..n
  OBVIOUS
<1>2. ASSUME NEW m \in 1..n, NEW g \in [(m + 1)..n -> T]
      PROVE  h[m][g] = [given \in Nat |-> Body(g, m, pretty, given)] /\ h[m][g] \in T
  <2>1. \A given \in Nat : Body(g, m, pretty, given) \in Seq(Printed(pretty))
    BY <1>2, BodyType, Zenon
  <2>2. h[m][g] = [given \in Nat |-> Body(g, m, pretty, given)]
    BY <1>2, Zenon
  <2> QED BY <2>1, <2>2, Zenon
<1> HIDE DEF h
<1>3. Steps(h, 1, n, T)
  BY <1>2, Zenon DEF Steps
<1>4. PICK w : Solves(w, h, 1, n, T)
  <2> HIDE DEF n, T
  <2> QED BY <1>1, <1>3, Downward
<1>5. ASSUME NEW m \in 1..n, NEW given \in Nat
      PROVE  w[m][given] = Body(w, m, pretty, given)
  <2> DEFINE g == [k \in (m + 1)..n |-> w[k]]
  <2>1. w \in [1..n -> T] /\ w[m] = h[m][g]
    BY <1>4, Zenon DEF Solves
  <2>2. \A k \in (m + 1)..n : k \in 1..n
    BY <1>1
  <2>3. g \in [(m + 1)..n -> T]
    BY <2>1, <2>2, Zenon
  <2>4. w[m] = [gg \in Nat |-> Body(g, m, pretty, gg)]
    BY <1>2, <2>1, <2>3, Zenon
  <2>5. w[m][given] = Body(g, m, pretty, given)
    BY <2>4, Zenon
  <2>6. m \in DOMAIN tree /\ \A k \in (m + 1)..Len(tree) : g[k] = w[k]
    BY <1>1, Zenon
  <2>7. Body(g, m, pretty, given) = Body(w, m, pretty, given)
    <3>1. PICK x : x = g
      OBVIOUS
    <3>2. SameBehind(x, w, m)
      BY <2>6, <3>1, Zenon DEF SameBehind
    <3>3. Body(x, m, pretty, given) = Body(w, m, pretty, given)
      <4>1. m \in DOMAIN tree
        BY <2>6
      <4>2. Forward
        OBVIOUS
      <4>3. SameBehind(x, w, m)
        BY <3>2
      <4> QED BY <4>1, <4>2, <4>3, BodyBehind
    <3> QED BY <3>1, <3>3, Zenon
  <2> QED BY <2>5, <2>7, Zenon
<1>6. w \in [1..Len(tree) -> [Nat -> Seq(Printed(pretty))]]
  BY <1>4, Zenon DEF Solves
<1> QED BY <1>5, <1>6, Zenon DEF Writes

\* write is such a function, whatever node and level it is called with.
LEMMA WriteIs ==
  ASSUME tree \in Seq(NodeType), Forward, NEW pretty \in Nat
  PROVE  \E w : Writes(w, pretty) /\ \A n \in DOMAIN tree : \A given \in Nat :
                                        Write(n, pretty, given) = w[n][given]
<1> DEFINE E(w, m) ==
        [given \in Nat |->
           LET node  == tree[m]
               level == IF given = 0 THEN 1 ELSE given
               texts == [i \in DOMAIN node.values |-> w[node.values[i]][level + 1]]
           IN  IF node.typ \in Scalars THEN <<node.typ>>
               ELSE Container(node, texts, pretty, level)]
           F == CHOOSE w : w = [m \in DOMAIN tree |-> E(w, m)]
<1>1. PICK w : Writes(w, pretty)
  BY WritesExists
<1>2. DOMAIN tree = 1..Len(tree)
  OBVIOUS
<1>3. \A v, m : E(v, m) = [given \in Nat |-> Body(v, m, pretty, given)]
  BY Zenon DEF Body, Level
<1>4. ASSUME NEW n, NEW given PROVE Write(n, pretty, given) = F[n][given]
  BY Zenon DEF Write
<1> HIDE DEF E
<1>5. w = [m \in DOMAIN tree |-> E(w, m)]
  <2>1. ASSUME NEW m \in DOMAIN tree PROVE w[m] = E(w, m)
    <3>1. w[m] \in [Nat -> Seq(Printed(pretty))]
      BY <1>1, <1>2, Zenon DEF Writes
    <3>2. \A given \in Nat : w[m][given] = Body(w, m, pretty, given)
      BY <1>1, <1>2, Zenon DEF Writes
    <3>3. w[m] = [given \in Nat |-> Body(w, m, pretty, given)]
      BY <3>1, <3>2, Zenon
    <3> QED BY <1>3, <3>3, Zenon
  <2>2. w \in [DOMAIN tree -> [Nat -> Seq(Printed(pretty))]]
    BY <1>1, <1>2, Zenon DEF Writes
  <2> QED BY <2>1, <2>2, Zenon
<1>6. F = [m \in DOMAIN tree |-> E(F, m)]
  BY <1>5, Zenon
<1> HIDE DEF F
<1>7. \A m \in DOMAIN tree : \A given \in Nat : F[m][given] = Body(F, m, pretty, given)
  <2>1. ASSUME NEW m \in DOMAIN tree, NEW given \in Nat
        PROVE  F[m][given] = Body(F, m, pretty, given)
    <3>1. F[m] = E(F, m)
      BY <1>6, Zenon
    <3>2. F[m] = [gg \in Nat |-> Body(F, m, pretty, gg)]
      BY <1>3, <3>1, Zenon
    <3> QED BY <3>2, Zenon
  <2> QED BY <2>1, Zenon
<1> DEFINE G == {m \in 1..Len(tree) : F[m] = w[m]}
<1>8. ASSUME NEW m \in 1..Len(tree), \A k \in (m + 1)..Len(tree) : k \in G PROVE m \in G
  <2>1. SameBehind(F, w, m)
    BY <1>8, Zenon DEF SameBehind
  <2>2. m \in DOMAIN tree
    BY <1>2, Zenon
  <2>3. ASSUME NEW given PROVE Body(F, m, pretty, given) = Body(w, m, pretty, given)
    <3>1. PICK x : x = F
      OBVIOUS
    <3>2. SameBehind(x, w, m)
      BY <2>1, <3>1, Zenon
    <3>3. Forward
      OBVIOUS
    <3>4. Body(x, m, pretty, given) = Body(w, m, pretty, given)
      BY <2>2, <3>2, <3>3, BodyBehind
    <3> QED BY <3>1, <3>4, Zenon
  <2>4. F[m] = [given \in Nat |-> Body(F, m, pretty, given)]
    BY <1>3, <1>6, <2>2, Zenon
  <2>5. w[m] = [given \in Nat |-> Body(w, m, pretty, given)]
    BY <1>3, <1>5, <2>2, Zenon
  <2>6. F[m] = w[m]
    BY <2>3, <2>4, <2>5, Zenon
  <2> QED BY <2>6, Zenon
<1> HIDE DEF G
<1>9. \A m \in 1..Len(tree) : m \in G
  <2>1. 1 \in Nat /\ Len(tree) \in Nat
    OBVIOUS
  <2> QED BY <1>8, <2>1, FromRight, Zenon
<1>10. \A n \in DOMAIN tree : \A given \in Nat : Write(n, pretty, given) = w[n][given]
  BY <1>2, <1>4, <1>9, Zenon DEF G
<1> QED BY <1>1, <1>10, Zenon
-----------------------------------------------------------------------------
(* Where the tokens of a value stand in the text it was read from.         *)

\* The text s has the token t at place j.
Has(s, j, t) == j \in 1..Len(s) /\ s[j] = t

Nodes(t) == 1..Len(t)

\* The place where the loop of write starts on the i-th value of the node n,
\* and the one behind its last value.
Begin(t, at, end, n, i) == IF i = 1 THEN at[n] + 1 ELSE end[t[n].values[i - 1]] + 1

After(t, at, end, n) ==
  IF Len(t[n].values) = 0 THEN at[n] + 1 ELSE end[t[n].values[Len(t[n].values)]]

\* What a value has in front of it, up to the place b where its turn begins.
CommaAt(s, b, i) == i > 1 => Has(s, b - 1, ",")
NameAt(s, b) == Has(s, b, "string")
ColonAt(s, b) == Has(s, b + 1, ":")

ValueLaid(s, t, at, end, n, i) ==
  LET b == Begin(t, at, end, n, i)
      v == t[n].values[i]
  IN  /\ v \in (n + 1)..Len(t)
      /\ CommaAt(s, b, i)
      /\ IF t[n].typ = "{" THEN at[v] = b + 2 /\ NameAt(s, b) /\ ColonAt(s, b)
         ELSE at[v] = b

ClosedLaid(s, t, at, end, n) ==
  IF t[n].typ \in Scalars THEN Len(t[n].values) = 0 /\ end[n] = at[n] + 1
  ELSE /\ Has(s, After(t, at, end, n), Closer(t[n].typ))
       /\ end[n] = After(t, at, end, n) + 1

\* C has the nodes that are closed.
NodeLaid(s, t, at, end, C, n) ==
  /\ Has(s, at[n], t[n].typ)
  /\ \A i \in 1..Len(t[n].values) : ValueLaid(s, t, at, end, n, i)
  /\ \A i \in 1..Len(t[n].values) :
       t[n].values[i] \in C \/ (n \notin C /\ i = Len(t[n].values))
  /\ n \in C => ClosedLaid(s, t, at, end, n)

Laid(s, t, at, end, C) ==
  /\ at \in [Nodes(t) -> Nat] /\ end \in [Nodes(t) -> Nat]
  /\ 1 \in Nodes(t) /\ at[1] = 1
  /\ \A n \in Nodes(t) : NodeLaid(s, t, at, end, C, n)

\* Where the reader is in the innermost container n.
Reached(s, t, at, end, C, n, mask, last) ==
  LET k == Len(t[n].values)
      b == Begin(t, at, end, n, k + 1)
      p == Len(s) + 1
  IN  /\ \A i \in 1..k : t[n].values[i] \in C
      /\ mask = {"NOT_VALUE"} => k > 0 /\ p = end[t[n].values[k]]
      /\ mask # {"NOT_VALUE"} => CommaAt(s, b, k + 1)
      /\ mask = {"OBJ_NAME"} \/ mask = {"ARR_VALUE"} => p = b /\ (k > 0 => last = ",")
      /\ mask = {"COLON", "NOT_VALUE"} => p = b + 1 /\ NameAt(s, b)
      /\ mask = {"VALUE"} => p = b + 2 /\ NameAt(s, b) /\ ColonAt(s, b)

Shut == {n \in Nodes(tree) : \A i \in DOMAIN stack : stack[i] # n}

LayoutFits(at, end) ==
  /\ Laid(scanned, tree, at, end, Shut)
  /\ IF stack = <<>> THEN end[1] = Len(scanned) + 1
     ELSE Reached(scanned, tree, at, end, Shut, Top, expectMask, tok)

\* The tokens read so far stand where the tree has them.
Layout ==
  status # "false" =>
    IF stack = <<>> /\ status = "scanning" THEN scanned = <<>>
    ELSE \E at, end : LayoutFits(at, end)
-----------------------------------------------------------------------------
(* A text that grows leaves what is laid in it where it is.                *)

Grows(s, u, t, r, at, bt, end, fin, C, D) ==
  /\ \A j, x : Has(s, j, x) => Has(u, j, x)
  /\ Len(t) \in Nat /\ Len(r) \in Nat /\ Len(t) <= Len(r)
  /\ \A m \in Nodes(t) : bt[m] = at[m]
  /\ \A m \in C : fin[m] = end[m]
  /\ C \subseteq D

LEMMA HasMore ==
  ASSUME NEW S, NEW s \in Seq(S), NEW e \in S, NEW u, u = Append(s, e)
  PROVE  /\ u \in Seq(S) /\ Len(s) \in Nat /\ Len(u) = Len(s) + 1
         /\ \A j, x : Has(s, j, x) => Has(u, j, x)
         /\ Has(u, Len(s) + 1, e)
<1>1. u \in Seq(S) /\ Len(s) \in Nat /\ Len(u) = Len(s) + 1 /\ u[Len(s) + 1] = e
  OBVIOUS
<1>2. \A j \in 1..Len(s) : u[j] = s[j]
  OBVIOUS
<1>3. \A j \in 1..Len(s) : j \in 1..Len(u)
  BY <1>1
<1>4. Len(s) + 1 \in 1..Len(u)
  BY <1>1
<1> QED BY <1>1, <1>2, <1>3, <1>4, Zenon DEF Has

LEMMA BeginKept ==
  ASSUME NEW s, NEW u, NEW t, NEW r, NEW at, NEW bt, NEW end, NEW fin, NEW C, NEW D,
         Grows(s, u, t, r, at, bt, end, fin, C, D),
         NEW n \in Nodes(t), NEW i \in Nat \ {0},
         i # 1 => r[n].values[i - 1] = t[n].values[i - 1] /\ t[n].values[i - 1] \in C
  PROVE  Begin(r, bt, fin, n, i) = Begin(t, at, end, n, i)
<1>1. bt[n] = at[n]
  BY Zenon DEF Grows
<1>2. i # 1 => fin[t[n].values[i - 1]] = end[t[n].values[i - 1]]
  BY Zenon DEF Grows
<1> QED BY <1>1, <1>2, Zenon DEF Begin

LEMMA ValueKept ==
  ASSUME NEW s, NEW u, NEW t, NEW r, NEW at, NEW bt, NEW end, NEW fin, NEW C, NEW D,
         Grows(s, u, t, r, at, bt, end, fin, C, D),
         NEW n \in Nodes(t), NEW i \in Nat \ {0},
         r[n].typ = t[n].typ, r[n].values[i] = t[n].values[i],
         i # 1 => r[n].values[i - 1] = t[n].values[i - 1] /\ t[n].values[i - 1] \in C,
         ValueLaid(s, t, at, end, n, i)
  PROVE  ValueLaid(u, r, bt, fin, n, i)
<1>1. PICK b, v : b = Begin(t, at, end, n, i) /\ v = t[n].values[i]
  OBVIOUS
<1>2. Begin(r, bt, fin, n, i) = b /\ r[n].values[i] = v
  <2>1. Begin(r, bt, fin, n, i) = Begin(t, at, end, n, i)
    BY BeginKept
  <2> QED BY <1>1, <2>1, Zenon
<1>3. /\ v \in (n + 1)..Len(t)
      /\ CommaAt(s, b, i)
      /\ IF t[n].typ = "{" THEN at[v] = b + 2 /\ NameAt(s, b) /\ ColonAt(s, b)
         ELSE at[v] = b
  BY <1>1, Zenon DEF ValueLaid
<1>4. v \in Nodes(t) /\ v \in (n + 1)..Len(r)
  <2>1. Len(t) \in Nat /\ Len(r) \in Nat /\ Len(t) <= Len(r)
    BY Zenon DEF Grows
  <2>2. n \in 1..Len(t) /\ v \in (n + 1)..Len(t)
    BY <1>3, Zenon DEF Nodes
  <2>3. v \in 1..Len(t) /\ v \in (n + 1)..Len(r)
    BY <2>1, <2>2
  <2> QED BY <2>3, Zenon DEF Nodes
<1>5. bt[v] = at[v]
  BY <1>4, Zenon DEF Grows
<1>6. CommaAt(u, b, i)
  BY <1>3, Zenon DEF Grows, CommaAt
<1>7. /\ NameAt(s, b) => NameAt(u, b)
      /\ ColonAt(s, b) => ColonAt(u, b)
  BY Zenon DEF Grows, NameAt, ColonAt
<1>8. IF r[n].typ = "{" THEN bt[v] = b + 2 /\ NameAt(u, b) /\ ColonAt(u, b)
      ELSE bt[v] = b
  BY <1>3, <1>5, <1>7, Zenon
<1> QED BY <1>2, <1>4, <1>6, <1>8, Zenon DEF ValueLaid

LEMMA NodeKept ==
  ASSUME NEW s, NEW u, NEW t, NEW r, NEW at, NEW bt, NEW end, NEW fin, NEW C, NEW D,
         Grows(s, u, t, r, at, bt, end, fin, C, D),
         NEW n \in Nodes(t), t[n].values \in Seq(Nat),
         r[n].typ = t[n].typ, r[n].values = t[n].values, n \in D => n \in C,
         NodeLaid(s, t, at, end, C, n)
  PROVE  NodeLaid(u, r, bt, fin, D, n)
<1>1. PICK k, vs : k = Len(vs) /\ vs = t[n].values /\ k \in Nat
  OBVIOUS
<1>2. \A i \in 1..k : i \in Nat \ {0} /\ (i # 1 => i - 1 \in 1..k /\ i - 1 # k)
  BY <1>1
<1>3. /\ Has(s, at[n], t[n].typ)
      /\ \A i \in 1..k : ValueLaid(s, t, at, end, n, i)
      /\ \A i \in 1..k : vs[i] \in C \/ (n \notin C /\ i = k)
      /\ n \in C => ClosedLaid(s, t, at, end, n)
  BY <1>1, Zenon DEF NodeLaid
<1>4. Has(u, bt[n], r[n].typ) /\ bt[n] = at[n]
  BY <1>3, Zenon DEF Grows
<1>5. ASSUME NEW i \in 1..k PROVE ValueLaid(u, r, bt, fin, n, i)
  <2>1. i # 1 => vs[i - 1] \in C
    BY <1>2, <1>3, Zenon
  <2>2. ValueLaid(s, t, at, end, n, i) /\ i \in Nat \ {0}
    BY <1>2, <1>3, Zenon
  <2>3. r[n].values[i] = t[n].values[i]
        /\ (i # 1 => r[n].values[i - 1] = t[n].values[i - 1] /\ t[n].values[i - 1] \in C)
    BY <1>1, <2>1, Zenon
  <2> QED BY <2>2, <2>3, ValueKept, Zenon
<1>6. ASSUME NEW i \in 1..k PROVE vs[i] \in D \/ (n \notin D /\ i = k)
  BY <1>3, Zenon DEF Grows
<1>7. ASSUME n \in D PROVE ClosedLaid(u, r, bt, fin, n)
  <2>1. n \in C /\ ClosedLaid(s, t, at, end, n)
    BY <1>3, <1>7, Zenon
  <2>2. fin[n] = end[n]
    BY <2>1, Zenon DEF Grows
  <2>3. After(r, bt, fin, n) = After(t, at, end, n)
    <3>1. CASE k = 0
      BY <1>1, <1>4, <3>1, Zenon DEF After
    <3>2. CASE k # 0
      <4>1. k \in 1..k
        BY <1>1, <3>2
      <4>2. vs[k] \in C
        BY <1>3, <2>1, <4>1, Zenon
      <4>3. fin[vs[k]] = end[vs[k]]
        BY <4>2, Zenon DEF Grows
      <4> QED BY <1>1, <3>2, <4>3, Zenon DEF After
    <3> QED BY <3>1, <3>2, Zenon
  <2>4. \A j, x : Has(s, j, x) => Has(u, j, x)
    BY Zenon DEF Grows
  <2> QED BY <1>4, <2>1, <2>2, <2>3, <2>4, Zenon DEF ClosedLaid
<1>8. /\ \A i \in 1..Len(r[n].values) : ValueLaid(u, r, bt, fin, n, i)
      /\ \A i \in 1..Len(r[n].values) :
           r[n].values[i] \in D \/ (n \notin D /\ i = Len(r[n].values))
  BY <1>1, <1>5, <1>6, Zenon
<1> QED BY <1>4, <1>7, <1>8, Zenon DEF NodeLaid
-----------------------------------------------------------------------------
(* A value more.                                                           *)

\* f, and p for the node v behind its nodes.
Placed(f, v, p) == [m \in 1..v |-> IF m = v THEN p ELSE f[m]]

IsPlaced(g, f, n, v, p) ==
  g \in [1..v -> Nat] /\ g[v] = p /\ \A m \in 1..n : g[m] = f[m] /\ m # v

LEMMA PlacedIs ==
  ASSUME NEW n \in Nat, NEW f \in [1..n -> Nat], NEW p \in Nat, NEW v, v = n + 1
  PROVE  IsPlaced(Placed(f, v, p), f, n, v, p)
<1>1. \A m \in 1..n : m \in 1..v /\ m # v
  OBVIOUS
<1>2. v \in 1..v /\ \A m \in 1..v : m # v => m \in 1..n
  OBVIOUS
<1>3. Placed(f, v, p)[v] = p
  BY <1>2, Zenon DEF Placed
<1>4. \A m \in 1..n : Placed(f, v, p)[m] = f[m]
  BY <1>1, Zenon DEF Placed
<1>5. \A m \in 1..v : (IF m = v THEN p ELSE f[m]) \in Nat
  BY <1>2, Zenon
<1>6. Placed(f, v, p) \in [1..v -> Nat]
  BY <1>5, Zenon DEF Placed
<1> QED BY <1>1, <1>3, <1>4, <1>6, Zenon DEF IsPlaced

\* The tree r is the tree t with the value Node(x) more in the node n.
Adds(t, r, n, x) ==
  /\ t \in Seq(NodeType) /\ n \in Nodes(t)
  /\ r \in Seq(NodeType) /\ Len(r) = Len(t) + 1
  /\ r[Len(t) + 1] = Node(x)
  /\ \A m \in Nodes(t) : m # n => r[m] = t[m]
  /\ r[n].typ = t[n].typ
  /\ r[n].values = Append(t[n].values, Len(t) + 1)

OneMore(t, r, n, k) ==
  /\ Len(t) \in Nat /\ n \in 1..Len(t) /\ 1 \in 1..Len(t)
  /\ k \in Nat /\ Len(r[n].values) = k + 1 /\ r[n].values[k + 1] = Len(t) + 1
  /\ \A i \in 1..k : r[n].values[i] = t[n].values[i]
  /\ \A m \in Nodes(t) : t[m].values \in Seq(Nat)

LEMMA AddsIs ==
  ASSUME NEW t, NEW r, NEW n, NEW x, Adds(t, r, n, x), NEW k, k = Len(t[n].values)
  PROVE  OneMore(t, r, n, k)
<1>1. t \in Seq(NodeType) /\ n \in 1..Len(t) /\ r[n].values = Append(t[n].values, Len(t) + 1)
  BY Zenon DEF Adds, Nodes
<1>2. Len(t) \in Nat /\ 1 \in 1..Len(t)
  BY <1>1
<1>3. ASSUME NEW m \in Nodes(t) PROVE t[m].values \in Seq(Nat)
  <2>1. t[m] \in NodeType
    BY <1>1 DEF Nodes
  <2> QED BY <2>1 DEF NodeType
<1>4. PICK vs, ws : vs = t[n].values /\ ws = r[n].values
  OBVIOUS
<1>5. vs \in Seq(Nat) /\ ws = Append(vs, Len(t) + 1) /\ k = Len(vs)
  BY <1>1, <1>3, <1>4, Zenon DEF Nodes
<1>6. k \in Nat /\ Len(ws) = k + 1 /\ ws[k + 1] = Len(t) + 1 /\ \A i \in 1..k : ws[i] = vs[i]
  BY <1>5
<1> QED BY <1>1, <1>2, <1>3, <1>4, <1>6, Zenon DEF OneMore

AddsTo(s, u, t, r, at, end, C, D, n, x, mask, last) ==
  /\ Adds(t, r, n, x) /\ x \in Scalars \cup Openers
  /\ s \in Seq(Tokens) /\ u = Append(s, x)
  /\ Laid(s, t, at, end, C)
  /\ C \subseteq Nodes(t) /\ n \notin C
  /\ C \subseteq D /\ D \subseteq C \cup {Len(t) + 1}
  /\ Len(t) + 1 \in D => x \in Scalars
  /\ Reached(s, t, at, end, C, n, mask, last)
  /\ (t[n].typ = "{" /\ mask = {"VALUE"}) \/ (t[n].typ = "[" /\ mask = {"ARR_VALUE"})

LEMMA AddedGrows ==
  ASSUME NEW s, NEW u, NEW t, NEW r, NEW at, NEW end, NEW C, NEW D, NEW n, NEW x,
         NEW mask, NEW last, AddsTo(s, u, t, r, at, end, C, D, n, x, mask, last),
         NEW v, v = Len(t) + 1, NEW p, p = Len(s) + 1,
         NEW bt, bt = Placed(at, v, p), NEW fin, fin = Placed(end, v, p + 1)
  PROVE  /\ Grows(s, u, t, r, at, bt, end, fin, C, D)
         /\ Has(u, p, x) /\ p \in Nat \ {0} /\ Len(u) = p /\ v \in Nat
         /\ bt \in [Nodes(r) -> Nat] /\ fin \in [Nodes(r) -> Nat]
         /\ bt[v] = p /\ fin[v] = p + 1
         /\ v \in Nodes(r) /\ n \notin D
         /\ \A m \in Nodes(t) : m # v /\ (m \in D => m \in C)
         /\ \A m \in Nodes(r) : m = v \/ m \in Nodes(t)
<1>1. /\ Adds(t, r, n, x) /\ s \in Seq(Tokens) /\ u = Append(s, x) /\ x \in Tokens
  <2>1. Adds(t, r, n, x) /\ s \in Seq(Tokens) /\ u = Append(s, x) /\ x \in Scalars \cup Openers
    BY Zenon DEF AddsTo
  <2>2. x \in Tokens
    BY <2>1, Zenon DEF Tokens
  <2> QED BY <2>1, <2>2, Zenon
<1>2. /\ Len(s) \in Nat /\ Len(u) = Len(s) + 1 /\ Has(u, p, x)
      /\ \A j, y : Has(s, j, y) => Has(u, j, y)
  BY <1>1, HasMore, Zenon
<1>3. p \in Nat \ {0} /\ p + 1 \in Nat /\ Len(u) = p
  BY <1>2
<1>4. Len(t) \in Nat /\ n \in 1..Len(t)
  <2>1. OneMore(t, r, n, Len(t[n].values))
    BY <1>1, AddsIs
  <2> QED BY <2>1, Zenon DEF OneMore
<1>5. Len(r) = v
  BY <1>1, Zenon DEF Adds
<1>6. at \in [1..Len(t) -> Nat] /\ end \in [1..Len(t) -> Nat]
  BY Zenon DEF AddsTo, Laid, Nodes
<1>0. PICK l \in Nat : l = Len(t) /\ v = l + 1
  BY <1>4, Zenon
<1>7. bt \in [1..v -> Nat] /\ bt[v] = p /\ \A m \in 1..Len(t) : bt[m] = at[m] /\ m # v
  <2>1. l \in Nat /\ v = l + 1 /\ p \in Nat /\ at \in [1..l -> Nat]
    BY <1>0, <1>3, <1>6, Zenon
  <2>2. IsPlaced(bt, at, l, v, p)
    BY <2>1, PlacedIs
  <2> QED BY <1>0, <2>2, Zenon DEF IsPlaced
<1>8. fin \in [1..v -> Nat] /\ fin[v] = p + 1 /\ \A m \in 1..Len(t) : fin[m] = end[m]
  <2>1. l \in Nat /\ v = l + 1 /\ p + 1 \in Nat /\ end \in [1..l -> Nat]
    BY <1>0, <1>3, <1>6, Zenon
  <2>2. IsPlaced(fin, end, l, v, p + 1)
    BY <2>1, PlacedIs
  <2> QED BY <1>0, <2>2, Zenon DEF IsPlaced
<1>9. v \in Nat /\ Len(t) <= Len(r) /\ v \in 1..v /\ \A m \in 1..v : m = v \/ m \in 1..Len(t)
  BY <1>4, <1>5
<1>10. /\ C \subseteq 1..Len(t) /\ n \notin C /\ C \subseteq D /\ D \subseteq C \cup {v}
  BY Zenon DEF AddsTo, Nodes
<1>11. n \notin D /\ \A m \in 1..Len(t) : m \in D => m \in C
  BY <1>4, <1>7, <1>10, Zenon
<1>12. Grows(s, u, t, r, at, bt, end, fin, C, D)
  BY <1>2, <1>4, <1>5, <1>7, <1>8, <1>9, <1>10, Zenon DEF Grows, Nodes
<1> QED BY <1>2, <1>3, <1>5, <1>7, <1>8, <1>9, <1>11, <1>12, Zenon DEF Nodes

LEMMA AddedLaid ==
  ASSUME NEW s, NEW u, NEW t, NEW r, NEW at, NEW end, NEW C, NEW D, NEW n, NEW x,
         NEW mask, NEW last, AddsTo(s, u, t, r, at, end, C, D, n, x, mask, last),
         NEW v, v = Len(t) + 1, NEW p, p = Len(s) + 1,
         NEW bt, bt = Placed(at, v, p), NEW fin, fin = Placed(end, v, p + 1)
  PROVE  Laid(u, r, bt, fin, D)
<1>1. Adds(t, r, n, x) /\ x \in Scalars \cup Openers
  BY Zenon DEF AddsTo
<1>2. /\ Grows(s, u, t, r, at, bt, end, fin, C, D)
      /\ Has(u, p, x) /\ p \in Nat \ {0} /\ v \in Nat
      /\ bt \in [Nodes(r) -> Nat] /\ fin \in [Nodes(r) -> Nat]
      /\ bt[v] = p /\ fin[v] = p + 1
      /\ n \notin D
      /\ \A m \in Nodes(t) : m # v /\ (m \in D => m \in C)
      /\ \A m \in Nodes(r) : m = v \/ m \in Nodes(t)
  BY AddedGrows
<1>3. PICK k : k = Len(t[n].values)
  OBVIOUS
<1>4. /\ Len(t) \in Nat /\ n \in 1..Len(t) /\ 1 \in 1..Len(t)
      /\ k \in Nat /\ Len(r[n].values) = k + 1 /\ r[n].values[k + 1] = v
      /\ \A i \in 1..k : r[n].values[i] = t[n].values[i]
      /\ \A m \in Nodes(t) : t[m].values \in Seq(Nat)
  <2>1. OneMore(t, r, n, k)
    BY <1>1, <1>3, AddsIs
  <2> QED BY <2>1, Zenon DEF OneMore
<1>5. /\ at[1] = 1 /\ \A m \in Nodes(t) : NodeLaid(s, t, at, end, C, m)
  BY Zenon DEF AddsTo, Laid
<1>6. bt[1] = 1
  BY <1>2, <1>4, <1>5, Zenon DEF Grows, Nodes
<1>7. ASSUME NEW m \in Nodes(t), m # n PROVE NodeLaid(u, r, bt, fin, D, m)
  <2>1. r[m] = t[m]
    BY <1>1, <1>7, Zenon DEF Adds
  <2>2. r[m].typ = t[m].typ /\ r[m].values = t[m].values /\ t[m].values \in Seq(Nat)
        /\ NodeLaid(s, t, at, end, C, m) /\ (m \in D => m \in C)
    BY <1>2, <1>4, <1>5, <2>1, Zenon
  <2> QED BY <1>2, <2>2, NodeKept
<1>8. NodeLaid(u, r, bt, fin, D, v)
  <2>1. r[v] = Node(x) /\ Node(x).typ = x /\ Len(Node(x).values) = 0
    <3>1. r[v] = Node(x) /\ Node(x).typ = x /\ Node(x).values = <<>>
      BY <1>1, NodeIsNode, Zenon DEF Adds
    <3> QED BY <3>1
  <2>2. Has(u, bt[v], r[v].typ) /\ 1..Len(r[v].values) = {}
    BY <1>2, <2>1
  <2>3. v \in D => ClosedLaid(u, r, bt, fin, v)
    <3>1. v \in D => x \in Scalars
      BY Zenon DEF AddsTo
    <3> QED BY <1>2, <2>1, <3>1, Zenon DEF ClosedLaid
  <2> QED BY <2>2, <2>3, Zenon DEF NodeLaid
<1>9. NodeLaid(u, r, bt, fin, D, n)
  <2> DEFINE b == Begin(t, at, end, n, k + 1)
  <2>0. n \in Nodes(t) /\ r[n].typ = t[n].typ
    BY <1>1, <1>4, Zenon DEF Nodes, Adds
  <2>1. /\ \A i \in 1..k : t[n].values[i] \in C
        /\ mask # {"NOT_VALUE"} => CommaAt(s, b, k + 1)
        /\ mask = {"ARR_VALUE"} => p = b
        /\ mask = {"VALUE"} => p = b + 2 /\ NameAt(s, b) /\ ColonAt(s, b)
    <3>1. Reached(s, t, at, end, C, n, mask, last)
      BY Zenon DEF AddsTo
    <3> QED BY <1>3, <3>1, Zenon DEF Reached
  <2>2. (t[n].typ = "{" /\ mask = {"VALUE"}) \/ (t[n].typ = "[" /\ mask = {"ARR_VALUE"})
    BY Zenon DEF AddsTo
  <2>3. {"VALUE"} # {"NOT_VALUE"} /\ {"ARR_VALUE"} # {"NOT_VALUE"} /\ "[" # "{"
    OBVIOUS
  <2>4. /\ k + 1 \in Nat \ {0} /\ (k + 1) - 1 = k /\ (k + 1 # 1 => k \in 1..k)
        /\ \A i \in 1..k : i \in Nat \ {0} /\ (i # 1 => i - 1 \in 1..k)
        /\ \A i \in 1..(k + 1) : i \in 1..k \/ i = k + 1
    BY <1>4
  <2>5. Has(u, bt[n], r[n].typ)
    <3>1. Has(s, at[n], t[n].typ)
      BY <1>5, <2>0, Zenon DEF NodeLaid
    <3> QED BY <1>2, <2>0, <3>1, Zenon DEF Grows
  <2>6. ASSUME NEW i \in 1..k PROVE ValueLaid(u, r, bt, fin, n, i)
    <3>1. ValueLaid(s, t, at, end, n, i)
      BY <1>3, <1>5, <2>0, Zenon DEF NodeLaid
    <3>2. i \in Nat \ {0} /\ r[n].values[i] = t[n].values[i]
          /\ (i # 1 => r[n].values[i - 1] = t[n].values[i - 1] /\ t[n].values[i - 1] \in C)
      BY <1>4, <2>1, <2>4, Zenon
    <3> QED BY <1>2, <2>0, <3>1, <3>2, ValueKept
  <2>7. ValueLaid(u, r, bt, fin, n, k + 1)
    <3>1. Begin(r, bt, fin, n, k + 1) = b
      <4>1. PICK i : i = k + 1
        OBVIOUS
      <4>2. i \in Nat \ {0}
            /\ (i # 1 => r[n].values[i - 1] = t[n].values[i - 1] /\ t[n].values[i - 1] \in C)
        BY <1>4, <2>1, <2>4, <4>1, Zenon
      <4>3. Begin(r, bt, fin, n, i) = Begin(t, at, end, n, i)
        BY <1>2, <2>0, <4>2, BeginKept
      <4> QED BY <4>1, <4>3, Zenon
    <3>2. v \in (n + 1)..Len(r)
      <4>1. Len(r) = Len(t) + 1
        BY <1>1, Zenon DEF Adds
      <4> QED BY <1>4, <4>1
    <3> HIDE DEF b
    <3>3. CommaAt(s, b, k + 1)
      BY <2>1, <2>2, <2>3, Zenon
    <3>4. CommaAt(u, b, k + 1)
      BY <1>2, <3>3, Zenon DEF Grows, CommaAt
    <3>5. IF t[n].typ = "{" THEN p = b + 2 /\ NameAt(s, b) /\ ColonAt(s, b) ELSE p = b
      BY <2>1, <2>2, <2>3, Zenon
    <3>6. IF r[n].typ = "{" THEN bt[v] = b + 2 /\ NameAt(u, b) /\ ColonAt(u, b) ELSE bt[v] = b
      BY <1>2, <2>0, <3>5, Zenon DEF Grows, NameAt, ColonAt
    <3> QED BY <1>4, <3>1, <3>2, <3>4, <3>6, Zenon DEF ValueLaid
  <2>8. \A i \in 1..(k + 1) : ValueLaid(u, r, bt, fin, n, i)
    <3>1. \A i \in 1..k : ValueLaid(u, r, bt, fin, n, i)
      BY <2>6, Zenon
    <3> QED BY <2>4, <2>7, <3>1
  <2>9. ASSUME NEW i \in 1..(k + 1) PROVE r[n].values[i] \in D \/ (n \notin D /\ i = k + 1)
    <3>1. i \in 1..k => r[n].values[i] \in D
      BY <1>2, <1>4, <2>1, Zenon DEF Grows
    <3> QED BY <1>2, <2>4, <3>1
  <2> QED BY <1>2, <1>4, <2>5, <2>8, <2>9, Zenon DEF NodeLaid
<1>10. 1 \in Nodes(r)
  <2>1. Len(r) = Len(t) + 1
    BY <1>1, Zenon DEF Adds
  <2>2. 1 \in 1..Len(r)
    BY <1>4, <2>1
  <2> QED BY <2>2, Zenon DEF Nodes
<1> QED BY <1>2, <1>6, <1>7, <1>8, <1>9, <1>10, Zenon DEF Laid
-----------------------------------------------------------------------------
(* Where the reader is after a turn.                                       *)

LEMMA Masks ==
  /\ {"NOT_VALUE"} # {"OBJ_NAME"} /\ {"NOT_VALUE"} # {"ARR_VALUE"} /\ {"NOT_VALUE"} # {"VALUE"}
  /\ {"NOT_VALUE"} # {"COLON", "NOT_VALUE"}
  /\ {"OBJ_NAME"} # {"COLON", "NOT_VALUE"} /\ {"OBJ_NAME"} # {"VALUE"}
  /\ {"ARR_VALUE"} # {"COLON", "NOT_VALUE"} /\ {"ARR_VALUE"} # {"VALUE"}
  /\ {"VALUE"} # {"COLON", "NOT_VALUE"}
<1>1. "COLON" # "NOT_VALUE" /\ "OBJ_NAME" # "COLON" /\ "OBJ_NAME" # "NOT_VALUE"
      /\ "ARR_VALUE" # "COLON" /\ "ARR_VALUE" # "NOT_VALUE" /\ "VALUE" # "COLON"
      /\ "VALUE" # "NOT_VALUE" /\ "VALUE" # "OBJ_NAME" /\ "VALUE" # "ARR_VALUE"
  OBVIOUS
<1> QED BY <1>1

\* A container that was just opened.
LEMMA AtOpener ==
  ASSUME NEW u, NEW r, NEW bt, NEW fin, NEW D, NEW v, NEW m, NEW l,
         Len(r[v].values) = 0, Len(u) + 1 = bt[v] + 1,
         m = {"OBJ_NAME"} \/ m = {"ARR_VALUE"}
  PROVE  Reached(u, r, bt, fin, D, v, m, l)
<1>1. /\ m # {"NOT_VALUE"} /\ m # {"COLON", "NOT_VALUE"} /\ m # {"VALUE"}
  BY Masks, Zenon
<1>2. 0 + 1 = 1 /\ ~ (0 > 0) /\ ~ (1 > 1) /\ 1..0 = {}
  OBVIOUS
<1>3. Begin(r, bt, fin, v, 1) = bt[v] + 1
  BY Zenon DEF Begin
<1> QED BY <1>1, <1>2, <1>3, Zenon DEF Reached, CommaAt

\* Behind a value.
LEMMA AtValue ==
  ASSUME NEW u, NEW r, NEW bt, NEW fin, NEW D, NEW v, NEW l, NEW k \in Nat,
         Len(r[v].values) = k, k > 0, \A i \in 1..k : r[v].values[i] \in D,
         Len(u) + 1 = fin[r[v].values[k]]
  PROVE  Reached(u, r, bt, fin, D, v, {"NOT_VALUE"}, l)
BY Masks, Zenon DEF Reached

LEMMA AddedReached ==
  ASSUME NEW s, NEW u, NEW t, NEW r, NEW at, NEW end, NEW C, NEW D, NEW n, NEW x,
         NEW mask, NEW last, AddsTo(s, u, t, r, at, end, C, D, n, x, mask, last),
         NEW v, v = Len(t) + 1, NEW p, p = Len(s) + 1,
         NEW bt, bt = Placed(at, v, p), NEW fin, fin = Placed(end, v, p + 1), NEW l
  PROVE  /\ v \in D => Reached(u, r, bt, fin, D, n, {"NOT_VALUE"}, l)
         /\ \A m : m = {"OBJ_NAME"} \/ m = {"ARR_VALUE"} => Reached(u, r, bt, fin, D, v, m, l)
<1>1. Adds(t, r, n, x) /\ x \in Scalars \cup Openers /\ C \subseteq D
  BY Zenon DEF AddsTo
<1>2. p \in Nat \ {0} /\ Len(u) = p /\ bt[v] = p /\ fin[v] = p + 1
  BY AddedGrows
<1>3. PICK k : k = Len(t[n].values)
  OBVIOUS
<1>4. OneMore(t, r, n, k)
  BY <1>1, <1>3, AddsIs
<1>5. /\ k \in Nat /\ Len(r[n].values) = k + 1 /\ r[n].values[k + 1] = v
      /\ \A i \in 1..k : r[n].values[i] = t[n].values[i]
  BY <1>4, Zenon DEF OneMore
<1>6. ASSUME v \in D PROVE Reached(u, r, bt, fin, D, n, {"NOT_VALUE"}, l)
  <2>1. \A i \in 1..k : t[n].values[i] \in C
    <3>1. Reached(s, t, at, end, C, n, mask, last)
      BY Zenon DEF AddsTo
    <3> QED BY <1>3, <3>1, Zenon DEF Reached
  <2>2. k + 1 \in Nat /\ k + 1 > 0 /\ \A i \in 1..(k + 1) : i \in 1..k \/ i = k + 1
    BY <1>5
  <2>3. \A i \in 1..k : r[n].values[i] \in D
    BY <1>1, <1>5, <2>1, Zenon
  <2>4. \A i \in 1..(k + 1) : r[n].values[i] \in D
    BY <1>5, <1>6, <2>2, <2>3
  <2>5. Len(u) + 1 = fin[r[n].values[k + 1]]
    BY <1>2, <1>5, Zenon
  <2>6. PICK j : j = k + 1
    OBVIOUS
  <2>7. /\ j \in Nat /\ Len(r[n].values) = j /\ j > 0 /\ \A i \in 1..j : r[n].values[i] \in D
        /\ Len(u) + 1 = fin[r[n].values[j]]
    BY <1>5, <2>2, <2>4, <2>5, <2>6, Zenon
  <2> QED BY <2>7, AtValue
<1>7. ASSUME NEW m, m = {"OBJ_NAME"} \/ m = {"ARR_VALUE"}
      PROVE  Reached(u, r, bt, fin, D, v, m, l)
  <2>1. Len(r[v].values) = 0
    <3>1. r[v] = Node(x) /\ Node(x).values = <<>>
      BY <1>1, NodeIsNode, Zenon DEF Adds
    <3> QED BY <3>1
  <2>2. Len(u) + 1 = bt[v] + 1
    BY <1>2, Zenon
  <2> QED BY <1>7, <2>1, <2>2, AtOpener
<1> QED BY <1>6, <1>7, Zenon

Closes(s, u, t, at, end, C, D, n, mask, last) ==
  /\ t \in Seq(NodeType) /\ n \in Nodes(t) /\ t[n].typ \in Openers
  /\ s \in Seq(Tokens) /\ u = Append(s, Closer(t[n].typ))
  /\ Laid(s, t, at, end, C)
  /\ C \subseteq Nodes(t) /\ n \notin C /\ D = C \cup {n}
  /\ Reached(s, t, at, end, C, n, mask, last)
  /\ mask = {"NOT_VALUE"} \/ (last # "," /\ (mask = {"OBJ_NAME"} \/ mask = {"ARR_VALUE"}))

Ended(end, n, p) == [end EXCEPT ![n] = p]

LEMMA ClosedIs ==
  ASSUME NEW s, NEW u, NEW t, NEW at, NEW end, NEW C, NEW D, NEW n, NEW mask, NEW last,
         Closes(s, u, t, at, end, C, D, n, mask, last),
         NEW fin, fin = Ended(end, n, Len(u) + 1)
  PROVE  Laid(u, t, at, fin, D) /\ fin[n] = Len(u) + 1
<1>1. /\ t \in Seq(NodeType) /\ n \in Nodes(t) /\ t[n].typ \in Openers
      /\ s \in Seq(Tokens) /\ u = Append(s, Closer(t[n].typ))
      /\ Laid(s, t, at, end, C)
      /\ C \subseteq Nodes(t) /\ n \notin C /\ D = C \cup {n}
      /\ Reached(s, t, at, end, C, n, mask, last)
      /\ mask = {"NOT_VALUE"} \/ (last # "," /\ (mask = {"OBJ_NAME"} \/ mask = {"ARR_VALUE"}))
  BY Zenon DEF Closes
<1>2. Closer(t[n].typ) \in Tokens
  BY DEF Closer, Tokens, Closers
<1>3. PICK p : p = Len(s) + 1
  OBVIOUS
<1>4. /\ Len(s) \in Nat /\ Len(u) = p /\ Has(u, p, Closer(t[n].typ))
      /\ \A j, y : Has(s, j, y) => Has(u, j, y)
  <2>1. /\ Len(s) \in Nat /\ Len(u) = Len(s) + 1 /\ Has(u, Len(s) + 1, Closer(t[n].typ))
        /\ \A j, y : Has(s, j, y) => Has(u, j, y)
    <3>1. PICK e : e = Closer(t[n].typ)
      OBVIOUS
    <3>2. e \in Tokens /\ s \in Seq(Tokens) /\ u = Append(s, e)
      BY <1>1, <1>2, <3>1, Zenon
    <3>3. /\ Len(s) \in Nat /\ Len(u) = Len(s) + 1 /\ Has(u, Len(s) + 1, e)
          /\ \A j, y : Has(s, j, y) => Has(u, j, y)
      BY <3>2, HasMore
    <3> QED BY <3>1, <3>3, Zenon
  <2> QED BY <1>3, <2>1, Zenon
<1>5. /\ at \in [Nodes(t) -> Nat] /\ end \in [Nodes(t) -> Nat] /\ at[1] = 1 /\ 1 \in Nodes(t)
      /\ \A m \in Nodes(t) : NodeLaid(s, t, at, end, C, m)
  BY <1>1, Zenon DEF Laid
<1>6. p + 1 \in Nat /\ Len(t) \in Nat /\ Len(t) <= Len(t)
  <2>1. Len(s) \in Nat /\ p = Len(s) + 1 /\ t \in Seq(NodeType)
    BY <1>1, <1>3, <1>4, Zenon
  <2> QED BY <2>1
<1>7. fin \in [Nodes(t) -> Nat] /\ fin[n] = p + 1 /\ \A m : m \in Nodes(t) /\ m # n => fin[m] = end[m]
  BY <1>1, <1>4, <1>5, <1>6 DEF Ended
<1>8. PICK k, vs : vs = t[n].values /\ k = Len(vs)
  OBVIOUS
<1>9. vs \in Seq(Nat) /\ k \in Nat
  <2>1. t[n] \in NodeType
    BY <1>1, ElementOfSeq, Zenon DEF Nodes
  <2>2. vs \in Seq(Nat)
    BY <1>8, <2>1 DEF NodeType
  <2> QED BY <1>8, <2>2
<1>10. \A i \in 1..k : vs[i] \in C /\ vs[i] \in Nodes(t) /\ vs[i] # n
  <2>1. ASSUME NEW i \in 1..k PROVE vs[i] \in (n + 1)..Len(t) /\ vs[i] \in C
    <3>1. NodeLaid(s, t, at, end, C, n)
      BY <1>1, <1>5, Zenon
    <3>2. ValueLaid(s, t, at, end, n, i)
      BY <1>8, <3>1, Zenon DEF NodeLaid
    <3> QED BY <1>1, <1>8, <3>2, Zenon DEF ValueLaid, Reached
  <2>2. n \in 1..Len(t) /\ Len(t) \in Nat
    BY <1>1, <1>6, Zenon DEF Nodes
  <2>3. \A v \in (n + 1)..Len(t) : v \in 1..Len(t) /\ v # n
    BY <2>2
  <2> QED BY <2>1, <2>3, Zenon DEF Nodes
<1>11. After(t, at, end, n) = p
  <2> DEFINE b == Begin(t, at, end, n, k + 1)
  <2>1. /\ mask = {"NOT_VALUE"} => k > 0 /\ p = end[vs[k]]
        /\ mask = {"OBJ_NAME"} \/ mask = {"ARR_VALUE"} => p = b /\ (k > 0 => last = ",")
    BY <1>1, <1>3, <1>8, Zenon DEF Reached
  <2>2. CASE mask = {"NOT_VALUE"}
    <3>1. k > 0 /\ p = end[vs[k]]
      BY <2>1, <2>2, Zenon
    <3>2. k # 0
      BY <3>1
    <3> QED BY <1>8, <3>1, <3>2, Zenon DEF After
  <2>3. CASE mask # {"NOT_VALUE"}
    <3>1. ~ (k > 0) /\ p = b
      BY <1>1, <2>1, <2>3, Zenon
    <3>2. k = 0 /\ k + 1 = 1
      BY <1>9, <3>1
    <3>3. b = at[n] + 1
      BY <3>2, Zenon DEF Begin
    <3> QED BY <1>8, <3>1, <3>2, <3>3, Zenon DEF After
  <2> QED BY <2>2, <2>3, Zenon
<1>12. Grows(s, u, t, t, at, at, end, fin, C, D)
  BY <1>1, <1>4, <1>6, <1>7, Zenon DEF Grows
<1>13. ASSUME NEW m \in Nodes(t) PROVE t[m].values \in Seq(Nat) /\ NodeLaid(s, t, at, end, C, m)
  <2>1. t[m] \in NodeType
    BY <1>1, ElementOfSeq, Zenon DEF Nodes
  <2>2. t[m].values \in Seq(Nat)
    BY <2>1 DEF NodeType
  <2> QED BY <1>5, <2>2, Zenon
<1>14. ASSUME NEW m \in Nodes(t), m # n PROVE NodeLaid(u, t, at, fin, D, m)
  <2>1. m \in D => m \in C
    BY <1>1, <1>14, Zenon
  <2> QED BY <1>12, <1>13, <2>1, NodeKept
<1>15. NodeLaid(u, t, at, fin, D, n)
  <2>1. Has(s, at[n], t[n].typ) /\ \A i \in 1..k : ValueLaid(s, t, at, end, n, i)
    BY <1>1, <1>5, <1>8, Zenon DEF NodeLaid
  <2>2. ASSUME NEW i \in 1..k PROVE ValueLaid(u, t, at, fin, n, i)
    <3>1. i \in Nat \ {0} /\ (i # 1 => i - 1 \in 1..k)
      BY <1>9
    <3>2. i # 1 => t[n].values[i - 1] \in C
      BY <1>8, <1>10, <3>1, Zenon
    <3>3. ValueLaid(s, t, at, end, n, i)
      BY <2>1
    <3>4. n \in Nodes(t) /\ i \in Nat \ {0}
      BY <1>1, <3>1, Zenon
    <3> QED BY <1>12, <3>2, <3>3, <3>4, ValueKept
  <2>3. t[n].typ \notin Scalars
    BY <1>1 DEF Openers, Scalars
  <2>4. After(t, at, fin, n) = p
    <3>1. CASE k = 0
      BY <1>8, <1>11, <3>1, Zenon DEF After
    <3>2. CASE k # 0
      <4>1. k \in 1..k
        BY <1>9, <3>2
      <4>2. fin[vs[k]] = end[vs[k]]
        BY <1>7, <1>10, <4>1, Zenon
      <4> QED BY <1>8, <1>11, <3>2, <4>2, Zenon DEF After
    <3> QED BY <3>1, <3>2, Zenon
  <2>5. ClosedLaid(u, t, at, fin, n)
    BY <1>4, <1>7, <2>3, <2>4, Zenon DEF ClosedLaid
  <2>6. \A i \in 1..k : vs[i] \in D
    BY <1>1, <1>10, Zenon
  <2>7. Has(u, at[n], t[n].typ)
    BY <1>4, <2>1, Zenon
  <2>8. /\ \A i \in 1..Len(t[n].values) : ValueLaid(u, t, at, fin, n, i)
        /\ \A i \in 1..Len(t[n].values) : t[n].values[i] \in D
    BY <1>8, <2>2, <2>6, Zenon
  <2> QED BY <2>5, <2>7, <2>8, Zenon DEF NodeLaid
<1>16. Laid(u, t, at, fin, D)
  BY <1>5, <1>7, <1>14, <1>15, Zenon DEF Laid
<1>17. fin[n] = Len(u) + 1
  BY <1>4, <1>7, Zenon
<1> QED BY <1>16, <1>17, Zenon
-----------------------------------------------------------------------------
(* Turns that add no value.                                                *)

SameValues(t, r) ==
  /\ t \in Seq(NodeType) /\ Len(r) = Len(t)
  /\ \A m \in Nodes(t) : r[m].typ = t[m].typ /\ r[m].values = t[m].values

Stays(s, u, t, r, at, end, C, n, x, mask, last) ==
  /\ SameValues(t, r) /\ n \in Nodes(t) /\ C \subseteq Nodes(t)
  /\ s \in Seq(Tokens) /\ x \in Tokens /\ u = Append(s, x)
  /\ Laid(s, t, at, end, C)
  /\ Reached(s, t, at, end, C, n, mask, last)

LEMMA StaysIs ==
  ASSUME NEW s, NEW u, NEW t, NEW r, NEW at, NEW end, NEW C, NEW n, NEW x, NEW mask, NEW last,
         Stays(s, u, t, r, at, end, C, n, x, mask, last), NEW p, p = Len(s) + 1
  PROVE  /\ p \in Nat \ {0} /\ Len(u) = p /\ Has(u, p, x)
         /\ \A j, y : Has(s, j, y) => Has(u, j, y)
         /\ Grows(s, u, t, r, at, at, end, end, C, C)
<1>1. s \in Seq(Tokens) /\ x \in Tokens /\ u = Append(s, x)
  BY Zenon DEF Stays
<1>2. /\ Len(s) \in Nat /\ Len(u) = Len(s) + 1 /\ Has(u, Len(s) + 1, x)
      /\ \A j, y : Has(s, j, y) => Has(u, j, y)
  BY <1>1, HasMore
<1>3. p \in Nat \ {0}
  BY <1>2
<1>4. Len(t) \in Nat /\ Len(r) \in Nat /\ Len(t) <= Len(r)
  <2>1. t \in Seq(NodeType) /\ Len(r) = Len(t)
    BY Zenon DEF Stays, SameValues
  <2> QED BY <2>1
<1>5. Grows(s, u, t, r, at, at, end, end, C, C)
  BY <1>2, <1>4, Zenon DEF Grows
<1> QED BY <1>2, <1>3, <1>5, Zenon

LEMMA StaysLaid ==
  ASSUME NEW s, NEW u, NEW t, NEW r, NEW at, NEW end, NEW C, NEW n, NEW x, NEW mask, NEW last,
         Stays(s, u, t, r, at, end, C, n, x, mask, last)
  PROVE  Laid(u, r, at, end, C)
<1>1. Grows(s, u, t, r, at, at, end, end, C, C)
  BY StaysIs
<1>2. /\ t \in Seq(NodeType) /\ Nodes(r) = Nodes(t)
      /\ \A m \in Nodes(t) : r[m].typ = t[m].typ /\ r[m].values = t[m].values
  BY Zenon DEF Stays, SameValues, Nodes
<1>3. /\ at \in [Nodes(t) -> Nat] /\ end \in [Nodes(t) -> Nat] /\ at[1] = 1 /\ 1 \in Nodes(t)
      /\ \A m \in Nodes(t) : NodeLaid(s, t, at, end, C, m)
  BY Zenon DEF Stays, Laid
<1>4. ASSUME NEW m \in Nodes(t) PROVE NodeLaid(u, r, at, end, C, m)
  <2>1. t[m] \in NodeType
    BY <1>2, ElementOfSeq, Zenon DEF Nodes
  <2>2. t[m].values \in Seq(Nat)
    BY <2>1 DEF NodeType
  <2>3. r[m].typ = t[m].typ /\ r[m].values = t[m].values /\ NodeLaid(s, t, at, end, C, m)
    BY <1>2, <1>3, Zenon
  <2> QED BY <1>1, <2>2, <2>3, NodeKept
<1> QED BY <1>2, <1>3, <1>4, Zenon DEF Laid

LEMMA StaysReached ==
  ASSUME NEW s, NEW u, NEW t, NEW r, NEW at, NEW end, NEW C, NEW n, NEW x, NEW mask, NEW last,
         Stays(s, u, t, r, at, end, C, n, x, mask, last), NEW l
  PROVE  /\ mask = {"NOT_VALUE"} /\ x = "," =>
              \A m : m = {"OBJ_NAME"} \/ m = {"ARR_VALUE"} =>
                Reached(u, r, at, end, C, n, m, ",")
         /\ mask = {"OBJ_NAME"} /\ x = "string" =>
              Reached(u, r, at, end, C, n, {"COLON", "NOT_VALUE"}, l)
         /\ mask = {"COLON", "NOT_VALUE"} /\ x = ":" =>
              Reached(u, r, at, end, C, n, {"VALUE"}, l)
<1>1. PICK p, k, b : /\ p = Len(s) + 1 /\ k = Len(t[n].values)
                     /\ b = Begin(t, at, end, n, k + 1)
  OBVIOUS
<1>2. /\ p \in Nat \ {0} /\ Len(u) = p /\ Has(u, p, x)
      /\ \A j, y : Has(s, j, y) => Has(u, j, y)
  BY <1>1, StaysIs
<1>3. /\ r[n].values = t[n].values /\ Reached(s, t, at, end, C, n, mask, last)
      /\ t \in Seq(NodeType) /\ n \in 1..Len(t)
  BY Zenon DEF Stays, SameValues, Nodes
<1>4. k \in Nat
  <2>1. t[n] \in NodeType
    BY <1>3, ElementOfSeq, Zenon
  <2>2. t[n].values \in Seq(Nat)
    BY <2>1 DEF NodeType
  <2> QED BY <1>1, <2>2
<1>5. Begin(r, at, end, n, k + 1) = b /\ Len(r[n].values) = k
  BY <1>1, <1>3, Zenon DEF Begin
<1>6. /\ \A i \in 1..k : t[n].values[i] \in C
      /\ mask = {"NOT_VALUE"} => k > 0 /\ p = end[t[n].values[k]]
      /\ mask # {"NOT_VALUE"} => CommaAt(s, b, k + 1)
      /\ mask = {"OBJ_NAME"} \/ mask = {"ARR_VALUE"} => p = b
      /\ mask = {"COLON", "NOT_VALUE"} => p = b + 1 /\ NameAt(s, b)
  BY <1>1, <1>3, Zenon DEF Reached
<1>7. \A i \in 1..Len(r[n].values) : r[n].values[i] \in C
  BY <1>3, <1>5, <1>6, Zenon
<1>8. CommaAt(s, b, k + 1) => CommaAt(u, b, k + 1)
  BY <1>2, Zenon DEF CommaAt
<1>9. ASSUME mask = {"NOT_VALUE"}, x = ",", NEW m, m = {"OBJ_NAME"} \/ m = {"ARR_VALUE"}
      PROVE  Reached(u, r, at, end, C, n, m, ",")
  <2>1. k > 0 /\ p = end[t[n].values[k]]
    BY <1>6, <1>9, Zenon
  <2>2. k + 1 # 1 /\ (k + 1) - 1 = k /\ (p + 1) - 1 = p
    BY <1>2, <1>4, <2>1
  <2>3. b = p + 1
    BY <1>1, <2>1, <2>2, Zenon DEF Begin
  <2>4. CommaAt(u, b, k + 1)
    BY <1>2, <1>9, <2>2, <2>3, Zenon DEF CommaAt
  <2>5. /\ m # {"NOT_VALUE"} /\ m # {"COLON", "NOT_VALUE"} /\ m # {"VALUE"}
    BY <1>9, Masks, Zenon
  <2>6. Len(u) + 1 = b
    BY <1>2, <2>3, Zenon
  <2> QED BY <1>5, <1>7, <2>4, <2>5, <2>6, Zenon DEF Reached
<1>10. ASSUME mask = {"OBJ_NAME"}, x = "string"
       PROVE  Reached(u, r, at, end, C, n, {"COLON", "NOT_VALUE"}, l)
  <2>1. CommaAt(u, b, k + 1) /\ p = b
    BY <1>6, <1>8, <1>10, Masks, Zenon
  <2>2. NameAt(u, b) /\ Len(u) + 1 = b + 1
    BY <1>2, <1>10, <2>1, Zenon DEF NameAt
  <2> QED BY <1>5, <1>7, <2>1, <2>2, Masks, Zenon DEF Reached
<1>11. ASSUME mask = {"COLON", "NOT_VALUE"}, x = ":"
       PROVE  Reached(u, r, at, end, C, n, {"VALUE"}, l)
  <2>1. CommaAt(u, b, k + 1) /\ p = b + 1 /\ NameAt(s, b)
    BY <1>6, <1>8, <1>11, Masks, Zenon
  <2>2. NameAt(u, b) /\ ColonAt(u, b)
    BY <1>2, <1>11, <2>1, Zenon DEF NameAt, ColonAt
  <2>3. b \in Int
    <3>1. at \in [1..Len(t) -> Nat] /\ end \in [1..Len(t) -> Nat] /\ C \subseteq 1..Len(t)
      BY Zenon DEF Stays, Laid, Nodes
    <3>2. at[n] \in Nat
      BY <1>3, <3>1, Zenon
    <3>3. k # 0 => end[t[n].values[k]] \in Nat
      <4>1. k # 0 => k \in 1..k
        BY <1>4
      <4> QED BY <1>6, <3>1, <4>1, Zenon
    <3>4. k + 1 = 1 <=> k = 0
      BY <1>4
    <3>5. b = IF k = 0 THEN at[n] + 1 ELSE end[t[n].values[k]] + 1
      <4>1. (k + 1) - 1 = k
        BY <1>4
      <4> QED BY <1>1, <3>4, <4>1, Zenon DEF Begin
    <3> QED BY <3>2, <3>3, <3>5
  <2>4. Len(u) + 1 = b + 2
    BY <1>2, <2>1, <2>3
  <2> QED BY <1>5, <1>7, <2>1, <2>2, <2>4, Masks, Zenon DEF Reached
<1> QED BY <1>9, <1>10, <1>11, Zenon
-----------------------------------------------------------------------------
\* The outermost value.
LEMMA FirstLaid ==
  ASSUME NEW x \in Scalars \cup Openers, NEW s, s = <<>>, NEW u, u = Append(s, x),
         NEW r \in Seq(NodeType), Nodes(r) = {1}, r[1] = Node(x),
         NEW C, 1 \in C => x \in Scalars,
         NEW at, at = [n \in {1} |-> 1], NEW end, end = [n \in {1} |-> 2], NEW l
  PROVE  /\ Laid(u, r, at, end, C) /\ end[1] = Len(u) + 1
         /\ \A m : m = {"OBJ_NAME"} \/ m = {"ARR_VALUE"} => Reached(u, r, at, end, C, 1, m, l)
<1>1. x \in Tokens /\ s \in Seq(Tokens)
  <2>1. x \in Tokens
    BY Zenon DEF Tokens
  <2>2. <<>> \in Seq(Tokens)
    OBVIOUS
  <2> QED BY <2>1, <2>2, Zenon
<1>2. Len(s) = 0 /\ Len(s) + 1 = 1 /\ 1 + 1 = 2 /\ 1 \in Nat /\ 2 \in Nat
  OBVIOUS
<1>3. Len(u) = 1 /\ Has(u, 1, x)
  <2>1. Len(u) = 1 /\ u[1] = x
    BY <1>1
  <2>2. 1 \in 1..1
    OBVIOUS
  <2> QED BY <2>1, <2>2, Zenon DEF Has
<1>4. at \in [{1} -> Nat] /\ end \in [{1} -> Nat] /\ at[1] = 1 /\ end[1] = 2
  BY <1>2, Zenon
<1>5. Node(x).typ = x /\ Len(Node(x).values) = 0
  <2>1. Node(x).typ = x /\ Node(x).values = <<>>
    BY NodeIsNode, Zenon
  <2> QED BY <2>1
<1>6. NodeLaid(u, r, at, end, C, 1)
  <2>1. Has(u, at[1], r[1].typ) /\ Len(r[1].values) = 0 /\ 1..0 = {}
    BY <1>3, <1>4, <1>5
  <2>2. 1 \in C => ClosedLaid(u, r, at, end, 1)
    BY <1>2, <1>4, <1>5, <2>1, Zenon DEF ClosedLaid
  <2> QED BY <2>1, <2>2, Zenon DEF NodeLaid
<1>7. Laid(u, r, at, end, C)
  <2>1. 1 \in Nodes(r)
    BY Zenon
  <2> QED BY <1>4, <1>6, <2>1, Zenon DEF Laid
<1>8. ASSUME NEW m, m = {"OBJ_NAME"} \/ m = {"ARR_VALUE"}
      PROVE  Reached(u, r, at, end, C, 1, m, l)
  <2>1. Len(r[1].values) = 0 /\ Len(u) + 1 = at[1] + 1
    BY <1>3, <1>4, <1>5, Zenon
  <2> QED BY <1>8, <2>1, AtOpener
<1> QED BY <1>2, <1>3, <1>4, <1>7, <1>8, Zenon
-----------------------------------------------------------------------------
(* The layout holds in every state.                                        *)

LEMMA ShutNow ==
  ASSUME IInv
  PROVE  /\ Shut \subseteq Nodes(tree) /\ tree \in Seq(NodeType) /\ DOMAIN tree = Nodes(tree)
         /\ scanned \in Seq(Tokens)
         /\ stack # <<>> => Top \in Nodes(tree) /\ Top \notin Shut /\ TopType \in Openers
<1>1. tree \in Seq(NodeType) /\ scanned \in Seq(Tokens)
  BY DEF IInv, TypeOK
<1>2. DOMAIN tree = Nodes(tree)
  BY <1>1 DEF Nodes
<1>3. ASSUME stack # <<>> PROVE Top \in Nodes(tree) /\ Top \notin Shut /\ TopType \in Openers
  <2>1. Len(stack) \in Nat \ {0} /\ Top \in DOMAIN tree /\ TopType \in Openers
    BY <1>3, TopIsOpen, Zenon DEF IInv
  <2>2. Len(stack) \in DOMAIN stack
    <3>1. stack \in Seq(Nat)
      BY DEF IInv, TypeOK
    <3> QED BY <2>1, <3>1
  <2>3. Top = stack[Len(stack)]
    BY Zenon DEF Top
  <2> QED BY <1>2, <2>1, <2>2, <2>3, Zenon DEF Shut
<1> QED BY <1>1, <1>2, <1>3, Zenon DEF Shut

LEMMA LayoutNow ==
  ASSUME Layout, status = "scanning", stack # <<>>
  PROVE  \E at, end : /\ Laid(scanned, tree, at, end, Shut)
                      /\ Reached(scanned, tree, at, end, Shut, Top, expectMask, tok)
<1>1. status # "false"
  OBVIOUS
<1> QED BY <1>1, Zenon DEF Layout, LayoutFits

LEMMA LayoutThen ==
  ASSUME NEW at, NEW end, stack' # <<>>,
         Laid(scanned', tree', at, end, Shut'),
         Reached(scanned', tree', at, end, Shut', Top', expectMask', tok')
  PROVE  Layout'
<1>1. LayoutFits(at, end)'
  BY Zenon DEF LayoutFits
<1> QED BY <1>1, Zenon DEF Layout

LEMMA OpenFirstLayout ==
  ASSUME IInv, Layout, stack = <<>>, NEW t \in Openers, OpenContainer(t)
  PROVE  Layout'
<1>1. t \in Scalars \cup Openers /\ t # "string" /\ t \in Tokens /\ t \notin Scalars
  BY DEF Openers, Tokens, Scalars
<1>2. PushValue(t) /\ stack' = Append(stack, 1) /\ Scan(t) /\ LoopTest /\ scanned' = Append(scanned, t)
  BY DEF OpenContainer, Scan
<1>3. status = "scanning" /\ Expected(t) /\ CaseAccepts(t)
  BY <1>1, <1>2, Scanned, Zenon DEF IInv
<1>4. Cleared = {} /\ tree = <<Node("keyword")>>
  BY <1>1, <1>3, ValueTurn, Zenon DEF IInv
<1>5. tree' \in Seq(NodeType) /\ DOMAIN tree' = {1} /\ tree'[1] = Node(t)
  BY <1>1, <1>2, <1>4, First, Zenon
<1>6. stack' # <<>> /\ Len(stack') = 1 /\ DOMAIN stack' = {1} /\ stack'[1] = 1
  BY <1>2
<1>7. expectMask' = {"OBJ_NAME"} \/ expectMask' = {"ARR_VALUE"}
  BY <1>4 DEF OpenContainer
<1>8. scanned = <<>>
  <2>1. status # "false"
    BY <1>3
  <2> QED BY <1>3, <2>1, Zenon DEF Layout
<1>9. Top' = 1 /\ 1 \notin Shut'
  BY <1>6, Zenon DEF Top, Shut
<1>10. PICK u, r, C, s, at, end : /\ u = scanned' /\ r = tree' /\ C = Shut' /\ s = scanned
                              /\ at = [n \in {1} |-> 1] /\ end = [n \in {1} |-> 2]
  OBVIOUS
<1>11. s = <<>> /\ u = Append(s, t) /\ r \in Seq(NodeType) /\ r[1] = Node(t) /\ (1 \in C => t \in Scalars)
  BY <1>2, <1>5, <1>8, <1>9, <1>10, Zenon
<1>12. Nodes(r) = {1}
  BY <1>5, <1>10 DEF Nodes
<1>13. \A l : /\ Laid(u, r, at, end, C)
              /\ \A m : m = {"OBJ_NAME"} \/ m = {"ARR_VALUE"} => Reached(u, r, at, end, C, 1, m, l)
  BY <1>1, <1>10, <1>11, <1>12, FirstLaid
<1>14. Laid(u, r, at, end, C) /\ Reached(u, r, at, end, C, 1, expectMask', tok')
  BY <1>7, <1>13, Zenon
<1> QED BY <1>6, <1>9, <1>10, <1>14, LayoutThen, Zenon

LEMMA ScalarFirstLayout ==
  ASSUME IInv, Layout, stack = <<>>, NEW t \in Scalars, ScalarValue(t)
  PROVE  Layout'
<1>1. t \in Scalars \cup Openers /\ t \in Tokens
  BY DEF Tokens
<1>2. /\ PushValue(t) /\ stack' = stack /\ Scan(t) /\ LoopTest /\ scanned' = Append(scanned, t)
      /\ ~ (t = "string" /\ "OBJ_NAME" \in Cleared)
  BY DEF ScalarValue, Scan
<1>3. status = "scanning" /\ Expected(t) /\ CaseAccepts(t)
  BY <1>1, <1>2, Scanned, Zenon DEF IInv
<1>4. Cleared = {} /\ tree = <<Node("keyword")>>
  BY <1>1, <1>2, <1>3, ValueTurn, Zenon DEF IInv
<1>5. tree' \in Seq(NodeType) /\ DOMAIN tree' = {1} /\ tree'[1] = Node(t)
  BY <1>1, <1>2, <1>4, First, Zenon
<1>6. stack' = <<>> /\ status' = "ending" /\ status' # "scanning"
  BY <1>2 DEF LoopTest
<1>8. scanned = <<>>
  <2>1. status # "false"
    BY <1>3
  <2> QED BY <1>3, <2>1, Zenon DEF Layout
<1>10. PICK u, r, C, s, at, end : /\ u = scanned' /\ r = tree' /\ C = Shut' /\ s = scanned
                              /\ at = [n \in {1} |-> 1] /\ end = [n \in {1} |-> 2]
  OBVIOUS
<1>11. s = <<>> /\ u = Append(s, t) /\ r \in Seq(NodeType) /\ r[1] = Node(t) /\ (1 \in C => t \in Scalars)
  BY <1>2, <1>5, <1>8, <1>10, Zenon
<1>12. Nodes(r) = {1}
  BY <1>5, <1>10 DEF Nodes
<1>13. Laid(u, r, at, end, C) /\ end[1] = Len(u) + 1
  BY <1>1, <1>10, <1>11, <1>12, FirstLaid
<1>14. LayoutFits(at, end)'
  BY <1>6, <1>10, <1>13, Zenon DEF LayoutFits
<1> QED BY <1>6, <1>14, Zenon DEF Layout

\* A value is added to the innermost container.
LEMMA PushLayout ==
  ASSUME IInv, Layout, stack # <<>>, status = "scanning",
         NEW t \in Scalars \cup Openers, PushValue(t), Scan(t),
         (TopType = "{" /\ expectMask = {"VALUE"}) \/ (TopType = "[" /\ expectMask = {"ARR_VALUE"}),
         Shut \subseteq Shut', Shut' \subseteq Shut \cup {Len(tree) + 1},
         Len(tree) + 1 \in Shut' => t \in Scalars
  PROVE  \E at, end :
           /\ Laid(scanned', tree', at, end, Shut')
           /\ Len(tree) + 1 \in Shut' =>
                \A l : Reached(scanned', tree', at, end, Shut', Top, {"NOT_VALUE"}, l)
           /\ \A m, l : m = {"OBJ_NAME"} \/ m = {"ARR_VALUE"} =>
                Reached(scanned', tree', at, end, Shut', Len(tree) + 1, m, l)
<1>1. PICK at, end : /\ Laid(scanned, tree, at, end, Shut)
                     /\ Reached(scanned, tree, at, end, Shut, Top, expectMask, tok)
  BY LayoutNow, Zenon
<1>2. /\ Shut \subseteq Nodes(tree) /\ tree \in Seq(NodeType) /\ DOMAIN tree = Nodes(tree)
      /\ scanned \in Seq(Tokens) /\ Top \in Nodes(tree) /\ Top \notin Shut
  BY ShutNow, Zenon
<1>3. /\ tree' \in Seq(NodeType)
      /\ Len(tree') = Len(tree) + 1
      /\ tree'[Len(tree) + 1] = Node(t)
      /\ \A n \in DOMAIN tree \ {Top} : tree'[n] = tree[n]
      /\ tree'[Top].typ = tree[Top].typ
      /\ tree'[Top].values = Append(tree[Top].values, Len(tree) + 1)
  BY Pushed, Zenon DEF IInv
<1>4. scanned' = Append(scanned, t)
  BY DEF Scan
<1>5. PICK s, u, q, r, C, D, n, mask, last :
        /\ s = scanned /\ u = scanned' /\ q = tree /\ r = tree' /\ C = Shut /\ D = Shut'
        /\ n = Top /\ mask = expectMask /\ last = tok
  OBVIOUS
<1>6. Adds(q, r, n, t)
  <2>1. q \in Seq(NodeType) /\ n \in Nodes(q)
    BY <1>2, <1>5, Zenon
  <2>2. /\ r \in Seq(NodeType) /\ Len(r) = Len(q) + 1 /\ r[Len(q) + 1] = Node(t)
        /\ r[n].typ = q[n].typ /\ r[n].values = Append(q[n].values, Len(q) + 1)
    BY <1>3, <1>5, Zenon
  <2>3. \A m \in Nodes(q) : m # n => r[m] = q[m]
    BY <1>2, <1>3, <1>5, Zenon
  <2> QED BY <2>1, <2>2, <2>3, Zenon DEF Adds
<1>7. AddsTo(s, u, q, r, at, end, C, D, n, t, mask, last)
  <2>1. s \in Seq(Tokens) /\ u = Append(s, t) /\ Laid(s, q, at, end, C)
    BY <1>1, <1>2, <1>4, <1>5, Zenon
  <2>2. /\ C \subseteq Nodes(q) /\ n \notin C
        /\ C \subseteq D /\ D \subseteq C \cup {Len(q) + 1}
        /\ Len(q) + 1 \in D => t \in Scalars
    BY <1>2, <1>5, Zenon
  <2>3. Reached(s, q, at, end, C, n, mask, last)
    BY <1>1, <1>5, Zenon
  <2>4. (q[n].typ = "{" /\ mask = {"VALUE"}) \/ (q[n].typ = "[" /\ mask = {"ARR_VALUE"})
    BY <1>5, Zenon DEF TopType
  <2> QED BY <1>6, <2>1, <2>2, <2>3, <2>4, Zenon DEF AddsTo
<1>8. PICK v, p, bt, fin : /\ v = Len(q) + 1 /\ p = Len(s) + 1
                           /\ bt = Placed(at, v, p) /\ fin = Placed(end, v, p + 1)
  OBVIOUS
<1>9. Laid(u, r, bt, fin, D)
  BY <1>7, <1>8, AddedLaid
<1>10. \A l : /\ v \in D => Reached(u, r, bt, fin, D, n, {"NOT_VALUE"}, l)
              /\ \A m : m = {"OBJ_NAME"} \/ m = {"ARR_VALUE"} =>
                   Reached(u, r, bt, fin, D, v, m, l)
  BY <1>7, <1>8, AddedReached
<1> QED BY <1>5, <1>8, <1>9, <1>10, Zenon

LEMMA OpenInnerLayout ==
  ASSUME IInv, Layout, stack # <<>>, NEW t \in Openers, OpenContainer(t)
  PROVE  Layout'
<1> DEFINE e == Len(tree) + 1
<1>1. t \in Scalars \cup Openers /\ t # "string" /\ t \in Tokens /\ t \notin Scalars
  BY DEF Openers, Tokens, Scalars
<1>2. PushValue(t) /\ stack' = Append(stack, e) /\ Scan(t) /\ LoopTest
  BY DEF OpenContainer
<1>3. status = "scanning" /\ Expected(t) /\ CaseAccepts(t)
  BY <1>1, <1>2, Scanned, Zenon DEF IInv
<1>4. /\ Cleared = {}
      /\ (TopType = "{" /\ expectMask = {"VALUE"}) \/ (TopType = "[" /\ expectMask = {"ARR_VALUE"})
  BY <1>1, <1>3, ValueTurn, Zenon DEF IInv
<1>5. Len(tree') = Len(tree) + 1
  BY <1>1, <1>2, Pushed, Zenon DEF IInv
<1>6. stack \in Seq(Nat) /\ e \in Nat /\ Len(tree) \in Nat
  BY DEF IInv, TypeOK
<1>7. expectMask' = {"OBJ_NAME"} \/ expectMask' = {"ARR_VALUE"}
  BY <1>4 DEF OpenContainer
<1>8. /\ Nodes(tree') = Nodes(tree) \cup {e} /\ e \notin Nodes(tree)
  BY <1>5, <1>6 DEF Nodes
<1> HIDE DEF e
<1>9. /\ stack' # <<>> /\ Len(stack') = Len(stack) + 1
      /\ Len(stack) \in Nat /\ stack'[Len(stack')] = e
      /\ \A i \in DOMAIN stack : stack'[i] = stack[i]
      /\ DOMAIN stack = 1..Len(stack) /\ DOMAIN stack' = 1..(Len(stack) + 1)
  BY <1>2, <1>6, StackPushed, Zenon
<1>10. DOMAIN stack' = DOMAIN stack \cup {Len(stack')} /\ Top' = e
  <2>1. DOMAIN stack' = DOMAIN stack \cup {Len(stack')}
    BY <1>9
  <2> QED BY <1>9, <2>1, Zenon DEF Top
<1>11. Shut' = Shut /\ e \notin Shut'
  <2>1. \A n : n \in Shut' <=> n \in Nodes(tree) \cup {e} /\ \A i \in DOMAIN stack' : stack'[i] # n
    BY <1>8, Zenon DEF Shut
  <2>2. \A n : n \in Shut' <=> n \in Nodes(tree) \cup {e} /\ n # e /\ \A i \in DOMAIN stack : stack[i] # n
    BY <1>9, <1>10, <2>1, Zenon
  <2>3. \A n : n \in Shut <=> n \in Nodes(tree) /\ \A i \in DOMAIN stack : stack[i] # n
    BY Zenon DEF Shut
  <2> QED BY <1>8, <2>2, <2>3, Zenon
<1>12. PICK at, end :
         /\ Laid(scanned', tree', at, end, Shut')
         /\ \A m, l : m = {"OBJ_NAME"} \/ m = {"ARR_VALUE"} =>
              Reached(scanned', tree', at, end, Shut', e, m, l)
  BY <1>1, <1>2, <1>3, <1>4, <1>11, PushLayout, Zenon DEF e
<1>13. Reached(scanned', tree', at, end, Shut', Top', expectMask', tok')
  BY <1>7, <1>10, <1>12, Zenon
<1> QED BY <1>9, <1>12, <1>13, LayoutThen, Zenon

LEMMA ScalarInnerLayout ==
  ASSUME IInv, Layout, stack # <<>>, NEW t \in Scalars, ScalarValue(t)
  PROVE  Layout'
<1> DEFINE e == Len(tree) + 1
<1>1. t \in Scalars \cup Openers /\ t \in Tokens
  BY DEF Tokens
<1>2. /\ PushValue(t) /\ stack' = stack /\ Scan(t) /\ LoopTest
      /\ ~ (t = "string" /\ "OBJ_NAME" \in Cleared)
  BY DEF ScalarValue
<1>3. status = "scanning" /\ Expected(t) /\ CaseAccepts(t)
  BY <1>1, <1>2, Scanned, Zenon DEF IInv
<1>4. /\ Cleared = {}
      /\ (TopType = "{" /\ expectMask = {"VALUE"}) \/ (TopType = "[" /\ expectMask = {"ARR_VALUE"})
  BY <1>1, <1>2, <1>3, ValueTurn, Zenon DEF IInv
<1>5. Len(tree') = Len(tree) + 1
  BY <1>1, <1>2, Pushed, Zenon DEF IInv
<1>6. expectMask' = {"NOT_VALUE"}
  BY <1>2, <1>4 DEF ScalarValue, LoopTest
<1>7. Len(tree) \in Nat
  BY DEF IInv, TypeOK
<1>8. /\ Nodes(tree') = Nodes(tree) \cup {e} /\ e \notin Nodes(tree)
  BY <1>5, <1>7 DEF Nodes
<1> HIDE DEF e
<1>9. \A i \in DOMAIN stack : stack[i] # e
  BY <1>8, ShutNow, Zenon DEF IInv, OpenPathLive
<1>10. Shut' = Shut \cup {e}
  BY <1>2, <1>8, <1>9, Zenon DEF Shut
<1>11. PICK at, end :
         /\ Laid(scanned', tree', at, end, Shut')
         /\ \A l : Reached(scanned', tree', at, end, Shut', Top, {"NOT_VALUE"}, l)
  BY <1>1, <1>2, <1>3, <1>4, <1>10, PushLayout, Zenon DEF e
<1>12. Reached(scanned', tree', at, end, Shut', Top', expectMask', tok')
  BY <1>2, <1>6, <1>11, Zenon DEF Top
<1>13. stack' # <<>>
  BY <1>2, Zenon
<1> QED BY <1>11, <1>12, <1>13, LayoutThen, Zenon

LEMMA CloseLayout ==
  ASSUME IInv, Layout, NEW t \in Closers, CloseContainer(t)
  PROVE  Layout'
<1>1. t \in Tokens
  BY DEF Tokens
<1>2. /\ stack' = SubSeq(stack, 1, Len(stack) - 1) /\ tree' = tree /\ Scan(t) /\ LoopTest
      /\ expectMask' = (Cleared \ {"OBJ_NAME"}) \cup {"NOT_VALUE"}
      /\ scanned' = Append(scanned, t)
  BY DEF CloseContainer, Scan
<1>3. status = "scanning" /\ Expected(t) /\ CaseAccepts(t)
  BY <1>1, <1>2, Scanned, Zenon DEF IInv
<1>4. /\ stack # <<>> /\ expectMask' = {"NOT_VALUE"}
      /\ "COLON" \notin expectMask /\ "VALUE" \notin expectMask
  BY <1>2, <1>3, CloseTurn, Zenon DEF IInv
<1>5. stack \in Seq(Nat)
  BY DEF IInv, TypeOK
<1>6. /\ Len(stack') = Len(stack) - 1
      /\ \A i \in 1..(Len(stack) - 1) : i \in DOMAIN stack /\ stack'[i] = stack[i]
      /\ stack' \in Seq(Nat)
  BY <1>2, <1>4, <1>5, Shortened, Zenon
<1>7. Len(stack) \in Nat /\ Len(stack) # 0 /\ DOMAIN stack' = 1..(Len(stack) - 1)
      /\ DOMAIN stack = 1..Len(stack)
  BY <1>4, <1>5, <1>6
<1>8. /\ Shut \subseteq Nodes(tree) /\ tree \in Seq(NodeType) /\ scanned \in Seq(Tokens)
      /\ Top \in Nodes(tree) /\ Top \notin Shut /\ TopType \in Openers
  BY <1>4, ShutNow, Zenon
<1>9. t = Closer(TopType) /\ tok # ","
  BY <1>3, <1>8 DEF CaseAccepts, Closer, Closers, Openers
<1>10. /\ expectMask = {"NOT_VALUE"} \/ expectMask = {"OBJ_NAME"} \/ expectMask = {"ARR_VALUE"}
  BY <1>3, <1>4 DEF IInv, MaskFits
<1>11. Shut' = Shut \cup {Top}
  <2>1. \A n : n \in Shut' <=> n \in Nodes(tree) /\ \A i \in DOMAIN stack' : stack'[i] # n
    BY <1>2, Zenon DEF Shut
  <2>2. \A n : n \in Shut' <=> n \in Nodes(tree) /\ \A i \in DOMAIN stack' : stack[i] # n
    BY <1>6, <1>7, <2>1, Zenon
  <2>3. \A i \in DOMAIN stack : i \in DOMAIN stack' \/ i = Len(stack)
    BY <1>7
  <2>4. \A i \in DOMAIN stack' : i \in DOMAIN stack /\ i # Len(stack)
    BY <1>7
  <2>5. \A i \in DOMAIN stack' : stack[i] # Top
    BY <1>4, <2>4, TopIsOpen, Zenon DEF IInv
  <2>6. \A n : n \in Shut <=> n \in Nodes(tree) /\ \A i \in DOMAIN stack : stack[i] # n
    BY Zenon DEF Shut
  <2>7. stack[Len(stack)] = Top
    BY Zenon DEF Top
  <2>8. ASSUME NEW n PROVE n \in Shut' <=> n \in Shut \cup {Top}
    <3>1. n \in Shut => n \in Shut'
      BY <2>2, <2>4, <2>6, Zenon
    <3>2. Top \in Shut'
      BY <1>8, <2>2, <2>5, Zenon
    <3>3. n \in Shut' /\ n # Top => n \in Shut
      BY <2>2, <2>3, <2>6, <2>7, Zenon
    <3> QED BY <3>1, <3>2, <3>3, Zenon
  <2> QED BY <2>8, Zenon
<1>12. PICK at, end : /\ Laid(scanned, tree, at, end, Shut)
                      /\ Reached(scanned, tree, at, end, Shut, Top, expectMask, tok)
  BY <1>3, <1>4, LayoutNow, Zenon
<1>13. PICK s, u, q, C, D, n, mask, last :
         /\ s = scanned /\ u = scanned' /\ q = tree /\ C = Shut /\ D = Shut'
         /\ n = Top /\ mask = expectMask /\ last = tok
  OBVIOUS
<1>14. Closes(s, u, q, at, end, C, D, n, mask, last)
  <2>1. /\ q \in Seq(NodeType) /\ n \in Nodes(q) /\ q[n].typ \in Openers
        /\ s \in Seq(Tokens) /\ u = Append(s, Closer(q[n].typ))
    BY <1>2, <1>8, <1>9, <1>13, Zenon DEF TopType
  <2>2. Laid(s, q, at, end, C) /\ Reached(s, q, at, end, C, n, mask, last)
    BY <1>12, <1>13, Zenon
  <2>3. C \subseteq Nodes(q) /\ n \notin C /\ D = C \cup {n}
    BY <1>8, <1>11, <1>13, Zenon
  <2>4. mask = {"NOT_VALUE"} \/ (last # "," /\ (mask = {"OBJ_NAME"} \/ mask = {"ARR_VALUE"}))
    BY <1>9, <1>10, <1>13, Zenon
  <2> QED BY <2>1, <2>2, <2>3, <2>4, Zenon DEF Closes
<1>15. PICK fin : fin = Ended(end, n, Len(u) + 1)
  OBVIOUS
<1>16. Laid(u, q, at, fin, D) /\ fin[n] = Len(u) + 1
  BY <1>14, <1>15, ClosedIs
<1>17. CASE stack' = <<>>
  <2>1. Len(stack') = 0
    BY <1>17
  <2>2. Len(stack) = 1
    BY <1>6, <1>7, <2>1
  <2>3. Top = 1
    BY <1>4, <2>2, Zenon DEF IInv, OpenPathLive, Top
  <2>4. status' = "ending" /\ status' # "scanning"
    BY <1>2, <1>17 DEF LoopTest
  <2>5. LayoutFits(at, fin)'
    BY <1>2, <1>13, <1>16, <1>17, <2>3, Zenon DEF LayoutFits
  <2> QED BY <2>4, <2>5, Zenon DEF Layout
<1>18. CASE stack' # <<>>
  <2>1. Len(stack') # 0
    <3>1. stack' \in Seq(Nat) /\ stack' # <<>>
      BY <1>6, <1>18, Zenon
    <3> QED BY <3>1
  <2>2. /\ Len(stack) - 1 \in 1..(Len(stack) - 1) /\ (Len(stack) - 1) + 1 = Len(stack)
        /\ Len(stack) - 1 \in DOMAIN stack
    BY <1>6, <1>7, <2>1
  <2>3. PICK o, k : o = Top' /\ k = Len(q[o].values)
    OBVIOUS
  <2>4. o = stack[Len(stack) - 1]
    <3>1. o = stack'[Len(stack) - 1]
      BY <1>6, <2>3, Zenon DEF Top
    <3> QED BY <1>6, <2>2, <3>1, Zenon
  <2>5. o \in Nodes(q) /\ q[o].values # <<>> /\ q[o].values[k] = n
    <3>1. tree[o].values # <<>> /\ tree[o].values[Len(tree[o].values)] = stack[Len(stack)]
      BY <2>2, <2>4, Zenon DEF IInv, OpenPathLive
    <3>2. o \in Nodes(tree)
      BY <2>2, <2>4, ShutNow, Zenon DEF IInv, OpenPathLive
    <3> QED BY <1>13, <2>3, <3>1, <3>2, Zenon DEF Top
  <2>6. q[o].values \in Seq(Nat)
    <3>1. q[o] \in NodeType
      BY <1>8, <1>13, <2>5, ElementOfSeq, Zenon DEF Nodes
    <3> QED BY <3>1 DEF NodeType
  <2>7. k \in Nat /\ k > 0
    BY <2>3, <2>5, <2>6
  <2>8. \A i \in 1..k : q[o].values[i] \in D
    <3>1. NodeLaid(s, q, at, end, C, o)
      BY <1>12, <1>13, <2>5, Zenon DEF Laid
    <3>2. \A i \in 1..k : q[o].values[i] \in C \/ i = k
      BY <2>3, <3>1, Zenon DEF NodeLaid
    <3> QED BY <1>11, <1>13, <2>5, <3>2, Zenon
  <2>9. Len(u) + 1 = fin[q[o].values[k]]
    BY <1>16, <2>5, Zenon
  <2>10. \A l : Reached(u, q, at, fin, D, o, {"NOT_VALUE"}, l)
    BY <2>3, <2>7, <2>8, <2>9, AtValue
  <2>11. /\ Laid(scanned', tree', at, fin, Shut')
         /\ Reached(scanned', tree', at, fin, Shut', Top', expectMask', tok')
    BY <1>2, <1>4, <1>13, <1>16, <2>3, <2>10, Zenon
  <2> QED BY <1>18, <2>11, LayoutThen, Zenon
<1> QED BY <1>17, <1>18, Zenon

\* A token that adds no value.
LEMMA StaysLayout ==
  ASSUME IInv, Layout, stack # <<>>, stack' = stack, status = "scanning",
         SameValues(tree, tree'), NEW t \in Tokens, Scan(t)
  PROVE  \E at, end :
           /\ Laid(scanned', tree', at, end, Shut')
           /\ expectMask = {"NOT_VALUE"} /\ t = "," =>
                \A m : m = {"OBJ_NAME"} \/ m = {"ARR_VALUE"} =>
                  Reached(scanned', tree', at, end, Shut', Top', m, ",")
           /\ \A l : expectMask = {"OBJ_NAME"} /\ t = "string" =>
                Reached(scanned', tree', at, end, Shut', Top', {"COLON", "NOT_VALUE"}, l)
           /\ \A l : expectMask = {"COLON", "NOT_VALUE"} /\ t = ":" =>
                Reached(scanned', tree', at, end, Shut', Top', {"VALUE"}, l)
<1>1. PICK at, end : /\ Laid(scanned, tree, at, end, Shut)
                     /\ Reached(scanned, tree, at, end, Shut, Top, expectMask, tok)
  BY LayoutNow, Zenon
<1>2. /\ Shut \subseteq Nodes(tree) /\ tree \in Seq(NodeType)
      /\ scanned \in Seq(Tokens) /\ Top \in Nodes(tree)
  BY ShutNow, Zenon
<1>3. Nodes(tree') = Nodes(tree)
  BY Zenon DEF SameValues, Nodes
<1>4. Shut' = Shut /\ Top' = Top
  BY <1>3, Zenon DEF Shut, Top
<1>5. scanned' = Append(scanned, t)
  BY DEF Scan
<1>6. PICK s, u, q, r, C, n, mask, last :
        /\ s = scanned /\ u = scanned' /\ q = tree /\ r = tree' /\ C = Shut
        /\ n = Top /\ mask = expectMask /\ last = tok
  OBVIOUS
<1>7. Stays(s, u, q, r, at, end, C, n, t, mask, last)
  BY <1>1, <1>2, <1>5, <1>6, Zenon DEF Stays
<1>8. Laid(u, r, at, end, C)
  BY <1>7, StaysLaid
<1>9. \A l :
         /\ mask = {"NOT_VALUE"} /\ t = "," =>
              \A m : m = {"OBJ_NAME"} \/ m = {"ARR_VALUE"} =>
                Reached(u, r, at, end, C, n, m, ",")
         /\ mask = {"OBJ_NAME"} /\ t = "string" =>
              Reached(u, r, at, end, C, n, {"COLON", "NOT_VALUE"}, l)
         /\ mask = {"COLON", "NOT_VALUE"} /\ t = ":" =>
              Reached(u, r, at, end, C, n, {"VALUE"}, l)
  BY <1>7, StaysReached
<1> QED BY <1>4, <1>6, <1>8, <1>9, Zenon

LEMMA TreeStays ==
  ASSUME IInv, tree' = tree
  PROVE  SameValues(tree, tree')
BY ShutNow, Zenon DEF SameValues

LEMMA ColonLayout == ASSUME IInv, Layout, Colon PROVE Layout'
<1>1. Scan(":") /\ stack' = stack /\ tree' = tree /\ LoopTest /\ ":" \in Tokens
  BY DEF Colon, Tokens
<1>2. status = "scanning" /\ Expected(":") /\ CaseAccepts(":")
  BY <1>1, Scanned, Zenon DEF IInv
<1>3. stack # <<>> /\ TopType = "{" /\ "COLON" \in expectMask /\ Cleared = {}
  BY <1>2, ColonTurn, Zenon DEF IInv
<1>4. expectMask = {"COLON", "NOT_VALUE"} /\ expectMask' = {"VALUE"}
  <2>1. expectMask = {"COLON", "NOT_VALUE"}
    <3>1. "COLON" \notin {"OBJ_NAME"} /\ "COLON" \notin {"VALUE"} /\ "COLON" \notin {"NOT_VALUE"}
          /\ "COLON" \notin {"ARR_VALUE"}
      OBVIOUS
    <3> QED BY <1>2, <1>3, <3>1, Zenon DEF IInv, MaskFits
  <2>2. expectMask' = {"VALUE"}
    BY <1>3 DEF Colon
  <2> QED BY <2>1, <2>2
<1>5. SameValues(tree, tree')
  BY <1>1, TreeStays, Zenon
<1>6. PICK at, end :
        /\ Laid(scanned', tree', at, end, Shut')
        /\ \A l : expectMask = {"COLON", "NOT_VALUE"} /\ ":" = ":" =>
             Reached(scanned', tree', at, end, Shut', Top', {"VALUE"}, l)
  BY <1>1, <1>2, <1>3, <1>5, StaysLayout, Zenon
<1>7. Reached(scanned', tree', at, end, Shut', Top', expectMask', tok') /\ stack' # <<>>
  BY <1>1, <1>3, <1>4, <1>6, Zenon
<1> QED BY <1>6, <1>7, LayoutThen, Zenon

LEMMA CommaLayout == ASSUME IInv, Layout, Comma PROVE Layout'
<1>1. Scan(",") /\ stack' = stack /\ tree' = tree /\ LoopTest /\ "," \in Tokens /\ tok' = ","
  BY DEF Comma, Tokens, Scan
<1>2. status = "scanning" /\ Expected(",") /\ CaseAccepts(",")
  BY <1>1, Scanned, Zenon DEF IInv
<1>3. stack # <<>> /\ expectMask = {"NOT_VALUE"} /\ Cleared = {}
  BY <1>2, CommaTurn, Zenon DEF IInv
<1>4. expectMask' = {"OBJ_NAME"} \/ expectMask' = {"ARR_VALUE"}
  BY <1>3 DEF Comma
<1>5. SameValues(tree, tree')
  BY <1>1, TreeStays, Zenon
<1>6. PICK at, end :
        /\ Laid(scanned', tree', at, end, Shut')
        /\ expectMask = {"NOT_VALUE"} /\ "," = "," =>
             \A m : m = {"OBJ_NAME"} \/ m = {"ARR_VALUE"} =>
               Reached(scanned', tree', at, end, Shut', Top', m, ",")
  BY <1>1, <1>2, <1>3, <1>5, StaysLayout, Zenon
<1>7. Reached(scanned', tree', at, end, Shut', Top', expectMask', tok') /\ stack' # <<>>
  BY <1>1, <1>3, <1>4, <1>6, Zenon
<1> QED BY <1>6, <1>7, LayoutThen, Zenon

LEMMA KeyLayout == ASSUME IInv, Layout, KeyString PROVE Layout'
<1> DEFINE named == [tree[Top] EXCEPT !.keys = @ + 1]
<1>1. /\ Scan("string") /\ "OBJ_NAME" \in Cleared /\ stack' = stack /\ LoopTest
      /\ tree' = [tree EXCEPT ![Top] = named] /\ "string" \in Tokens
      /\ expectMask' = (Cleared \ {"OBJ_NAME"}) \cup {"COLON", "NOT_VALUE"}
  BY DEF KeyString, Tokens, Scalars
<1>2. status = "scanning" /\ Expected("string") /\ CaseAccepts("string")
  BY <1>1, Scanned, Zenon DEF IInv
<1>3. /\ stack # <<>> /\ expectMask = {"OBJ_NAME"}
      /\ expectMask' = {"COLON", "NOT_VALUE"}
  BY <1>1, <1>2, KeyTurn, Zenon DEF IInv
<1>4. Top \in DOMAIN tree /\ tree[Top] \in NodeType
  BY <1>3, TopIsOpen, Zenon DEF IInv
<1>5. named.typ = tree[Top].typ /\ named.values = tree[Top].values
  BY <1>4 DEF NodeType
<1> HIDE DEF named
<1>6. /\ Len(tree') = Len(tree) /\ tree'[Top] = named
      /\ \A n \in DOMAIN tree : n # Top => tree'[n] = tree[n]
  BY <1>1, <1>4 DEF IInv, TypeOK
<1>7. tree \in Seq(NodeType) /\ DOMAIN tree = Nodes(tree)
  BY ShutNow, Zenon
<1>8. SameValues(tree, tree')
  BY <1>5, <1>6, <1>7, Zenon DEF SameValues
<1>9. PICK at, end :
        /\ Laid(scanned', tree', at, end, Shut')
        /\ \A l : expectMask = {"OBJ_NAME"} /\ "string" = "string" =>
             Reached(scanned', tree', at, end, Shut', Top', {"COLON", "NOT_VALUE"}, l)
  BY <1>1, <1>2, <1>3, <1>8, StaysLayout, Zenon
<1>10. Reached(scanned', tree', at, end, Shut', Top', expectMask', tok') /\ stack' # <<>>
  BY <1>1, <1>3, <1>9, Zenon
<1> QED BY <1>9, <1>10, LayoutThen, Zenon

LEMMA LayoutLasts ==
  ASSUME IInv, Layout, NEW t \in Tokens \cup {"none", "err"}, Fail(t) \/ CheckEnd(t)
  PROVE  Layout'
<1>1. /\ stack' = stack /\ tree' = tree /\ scanned' = scanned
      /\ status' = "false" \/ (status = "ending" /\ status' = "true")
  BY DEF Fail, CheckEnd
<1>2. CASE status' = "false"
  BY <1>2, Zenon DEF Layout
<1>3. CASE status = "ending" /\ status' = "true"
  <2>1. stack = <<>>
    BY <1>3 DEF IInv, MaskFits
  <2>2. status # "false" /\ ~ (stack = <<>> /\ status = "scanning") /\ status' # "scanning"
    BY <1>3
  <2>3. PICK at, end : LayoutFits(at, end)
    BY <2>2, Zenon DEF Layout
  <2>4. Shut' = Shut
    BY <1>1, Zenon DEF Shut
  <2>5. LayoutFits(at, end)'
    BY <1>1, <2>1, <2>3, <2>4, Zenon DEF LayoutFits
  <2> QED BY <2>2, <2>5, Zenon DEF Layout
<1> QED BY <1>1, <1>2, <1>3, Zenon

LEMMA InitLayout == Init => Layout
BY DEF Init, Layout

LEMMA LayoutStep == IInv /\ Layout /\ [Next]_vars => Layout'
<1> SUFFICES ASSUME IInv, Layout, [Next]_vars PROVE Layout'
  OBVIOUS
<1>1. ASSUME NEW t \in Tokens, OpenContainer(t) PROVE Layout'
  <2>1. t \in Openers
    BY <1>1 DEF OpenContainer
  <2> QED BY <1>1, <2>1, OpenFirstLayout, OpenInnerLayout, Zenon
<1>2. ASSUME NEW t \in Tokens, CloseContainer(t) PROVE Layout'
  <2>1. t \in Closers
    BY <1>2 DEF CloseContainer
  <2> QED BY <1>2, <2>1, CloseLayout, Zenon
<1>3. ASSUME NEW t \in Tokens, ScalarValue(t) PROVE Layout'
  <2>1. t \in Scalars
    BY <1>3 DEF ScalarValue
  <2> QED BY <1>3, <2>1, ScalarFirstLayout, ScalarInnerLayout, Zenon
<1>4. CASE UNCHANGED vars
  <2>1. /\ expectMask' = expectMask /\ tok' = tok /\ stack' = stack /\ tree' = tree
        /\ scanned' = scanned /\ status' = status
    BY <1>4 DEF vars
  <2>2. Shut' = Shut /\ Top' = Top
    BY <2>1, Zenon DEF Shut, Top
  <2>3. \A at, end : LayoutFits(at, end) => LayoutFits(at, end)'
    BY <2>1, <2>2, Zenon DEF LayoutFits
  <2> QED BY <2>1, <2>3, Zenon DEF Layout
<1> QED BY <1>1, <1>2, <1>3, <1>4, ColonLayout, CommaLayout, KeyLayout, LayoutLasts, Zenon DEF Next

\* Whatever has been read stands in the tree as it stood in the text.
THEOREM LayoutHolds == Spec => [](IInv /\ Layout)
<1>1. Init => IInv /\ Layout
  BY InitIInv, InitLayout
<1>2. IInv /\ Layout /\ [Next]_vars => (IInv /\ Layout)'
  BY Inductive, LayoutStep
<1> QED BY <1>1, <1>2, PTL DEF Spec
-----------------------------------------------------------------------------
(* The tokens of a text that write makes.                                  *)

LEMMA OnlySpaces ==
  ASSUME NEW text \in Seq(Marks), \A i \in 1..Len(text) : text[i] \notin Tokens
  PROVE  OnlyTokens(text) = <<>>
<1>1. PICK x : x = Kept(text)
  OBVIOUS
<1>2. /\ x \in Seq(Seq(Tokens)) /\ Len(x) = Len(text) /\ OnlyTokens(text) = FlattenSeq(x)
  BY <1>1, KeptType, Zenon
<1>3. Len(text) \in Nat /\ DOMAIN text = 1..Len(text)
  OBVIOUS
<1>4. \A i \in 1..Len(text) : x[i] = <<>>
  BY <1>1, <1>3, Zenon DEF Kept
<1>5. PICK f : Chain(f, x, Tokens) /\ FlattenSeq(x) = f[Len(x)]
  BY <1>2, FlattenChain, Zenon
<1> DEFINE G == {i \in 0..Len(text) : f[i] = <<>>}
<1>6. ASSUME NEW i \in 0..Len(text), \A k \in 0..(i - 1) : k \in G PROVE i \in G
  <2>1. CASE i = 0
    BY <1>5, <2>1 DEF Chain
  <2>2. CASE i # 0
    <3>1. i \in 1..Len(text) /\ i - 1 \in 0..(i - 1)
      BY <1>3, <2>2
    <3>2. f[i - 1] = <<>> /\ x[i] = <<>>
      BY <1>4, <1>6, <3>1
    <3>3. f[i] = f[i - 1] \o x[i]
      BY <1>2, <1>5, <3>1, Zenon DEF Chain
    <3>4. <<>> \o <<>> = <<>>
      OBVIOUS
    <3>5. f[i] = <<>>
      BY <3>2, <3>3, <3>4, Zenon
    <3> QED BY <3>5
  <2> QED BY <2>1, <2>2
<1> HIDE DEF G
<1>7. \A i \in 0..Len(text) : i \in G
  BY <1>3, <1>6, FromLeft
<1>8. f[Len(text)] = <<>>
  <2>1. Len(text) \in 0..Len(text)
    BY <1>3
  <2> QED BY <1>7, <2>1 DEF G
<1> QED BY <1>2, <1>5, <1>8, Zenon

LEMMA MarksNotTokens == "space" \notin Tokens /\ "newline" \notin Tokens
BY DEF Tokens, Scalars, Openers, Closers

LEMMA OnlyIndent ==
  ASSUME NEW k \in Nat
  PROVE  Indent(k) \in Seq(Marks) /\ OnlyTokens(Indent(k)) = <<>>
<1>1. PICK t : t = Indent(k)
  OBVIOUS
<1>2. t \in [1..k -> Marks]
  <2>1. "space" \in Marks
    BY Zenon DEF Marks
  <2> QED BY <1>1, <2>1, Zenon DEF Indent
<1>3. t \in Seq(Marks) /\ Len(t) = k
  BY <1>2, FunctionIsSeq, Zenon
<1>4. \A i \in 1..Len(t) : t[i] \notin Tokens
  <2>1. \A i \in 1..k : t[i] = "space"
    BY <1>1, Zenon DEF Indent
  <2> QED BY <1>3, <2>1, MarksNotTokens, Zenon
<1> QED BY <1>1, <1>3, <1>4, OnlySpaces, Zenon

LEMMA OnlyIfPretty ==
  ASSUME NEW pretty, NEW e \in {"space", "newline"}
  PROVE  IfPretty(pretty, e) \in Seq(Marks) /\ OnlyTokens(IfPretty(pretty, e)) = <<>>
<1>1. e \in Marks /\ e \notin Tokens
  BY MarksNotTokens DEF Marks
<1> QED BY <1>1, OnlyOne, OnlyNone, Zenon DEF IfPretty

LEMMA Pair == ASSUME NEW S, NEW a \in S, NEW b \in S PROVE <<a, b>> \in Seq(S)
OBVIOUS

\* The name and the colon, and the comma of a turn.
NamePart(node) == IF node.typ = "{" THEN <<"string", ":">> ELSE <<>>
CommaPart(node, i) == IF i # Len(node.values) THEN <<",">> ELSE <<>>

LEMMA SignParts ==
  ASSUME NEW node, NEW i
  PROVE  /\ NamePart(node) \in Seq(Tokens) /\ CommaPart(node, i) \in Seq(Tokens)
<1>1. "string" \in Tokens /\ ":" \in Tokens /\ "," \in Tokens
  BY DEF Tokens, Scalars
<1>2. <<"string", ":">> \in Seq(Tokens) /\ <<",">> \in Seq(Tokens) /\ <<>> \in Seq(Tokens)
  <2>1. <<>> \in Seq(Tokens)
    OBVIOUS
  <2> QED BY <1>1, <2>1, Pair, Singleton, Zenon
<1> QED BY <1>2, Zenon DEF NamePart, CommaPart

\* Five texts put together.
FiveJoined(a, b, c, d, e) ==
  OnlyTokens(a \o b \o c \o d \o e)
    = OnlyTokens(a) \o OnlyTokens(b) \o OnlyTokens(c) \o OnlyTokens(d) \o OnlyTokens(e)

LEMMA OnlyFive ==
  ASSUME NEW a \in Seq(Marks), NEW b \in Seq(Marks), NEW c \in Seq(Marks),
         NEW d \in Seq(Marks), NEW e \in Seq(Marks)
  PROVE  FiveJoined(a, b, c, d, e)
<1>1. a \o b \in Seq(Marks) /\ OnlyTokens(a \o b) = OnlyTokens(a) \o OnlyTokens(b)
  BY OnlyJoins, Zenon
<1>2. PICK ab : ab = a \o b
  OBVIOUS
<1>3. ab \o c \in Seq(Marks) /\ OnlyTokens(ab \o c) = OnlyTokens(ab) \o OnlyTokens(c)
  BY <1>1, <1>2, OnlyJoins, Zenon
<1>4. PICK abc : abc = ab \o c
  OBVIOUS
<1>5. abc \o d \in Seq(Marks) /\ OnlyTokens(abc \o d) = OnlyTokens(abc) \o OnlyTokens(d)
  BY <1>3, <1>4, OnlyJoins, Zenon
<1>6. PICK abcd : abcd = abc \o d
  OBVIOUS
<1>7. abcd \o e \in Seq(Marks) /\ OnlyTokens(abcd \o e) = OnlyTokens(abcd) \o OnlyTokens(e)
  BY <1>5, <1>6, OnlyJoins, Zenon
<1> QED BY <1>1, <1>2, <1>3, <1>4, <1>5, <1>6, <1>7, Zenon DEF FiveJoined

MemberIs(node, texts, pretty, level, i) ==
  /\ OnlyTokens(texts[i]) \in Seq(Tokens)
  /\ OnlyTokens(Member(node, texts, pretty, level, i))
       = NamePart(node) \o OnlyTokens(texts[i]) \o CommaPart(node, i)

LEMMA MemberTokens ==
  ASSUME NEW pretty \in Nat, NEW level \in Nat, NEW node, NEW texts,
         Printables(node, texts, pretty), NEW i \in DOMAIN node.values
  PROVE  MemberIs(node, texts, pretty, level, i)
<1>1. PICK a, b, c, d, e :
        /\ a = Indent(pretty * level)
        /\ b = IF node.typ = "{" THEN <<"string", ":">> \o IfPretty(pretty, "space") ELSE <<>>
        /\ c = texts[i]
        /\ d = IF i # Len(node.values) THEN <<",">> ELSE <<>>
        /\ e = IfPretty(pretty, "newline")
  OBVIOUS
<1>2. PICK na, cm : na = NamePart(node) /\ cm = CommaPart(node, i)
  OBVIOUS
<1>3. na \in Seq(Tokens) /\ cm \in Seq(Tokens)
  BY <1>2, SignParts, Zenon
<1>4. /\ na \in Seq(Marks) /\ OnlyTokens(na) = na
      /\ cm \in Seq(Marks) /\ OnlyTokens(cm) = cm
  BY <1>3, OnlyItself, Zenon
<1>5. a \in Seq(Marks) /\ OnlyTokens(a) = <<>>
  <2>1. PICK k \in Nat : k = pretty * level
    <3>1. pretty * level \in Nat
      OBVIOUS
    <3> QED BY <3>1, Zenon
  <2> QED BY <1>1, <2>1, OnlyIndent, Zenon
<1>6. e \in Seq(Marks) /\ OnlyTokens(e) = <<>>
  BY <1>1, OnlyIfPretty, Zenon
<1>7. b \in Seq(Marks) /\ OnlyTokens(b) = na
  <2>1. CASE node.typ = "{"
    <3>1. PICK x, y : x = <<"string", ":">> /\ y = IfPretty(pretty, "space")
      OBVIOUS
    <3>2. na = x /\ b = x \o y
      BY <1>1, <1>2, <2>1, <3>1, Zenon DEF NamePart
    <3>3. y \in Seq(Marks) /\ OnlyTokens(y) = <<>>
      BY <3>1, OnlyIfPretty, Zenon
    <3>4. x \o y \in Seq(Marks) /\ OnlyTokens(x \o y) = OnlyTokens(x) \o OnlyTokens(y)
      BY <1>4, <3>2, <3>3, OnlyJoins, Zenon
    <3>5. na \o <<>> = na
      BY <1>3, NothingBehind, Zenon
    <3> QED BY <1>4, <3>2, <3>3, <3>4, <3>5, Zenon
  <2>2. CASE node.typ # "{"
    BY <1>1, <1>2, <1>4, <2>2, Zenon DEF NamePart
  <2> QED BY <2>1, <2>2, Zenon
<1>8. c \in Seq(Marks) /\ OnlyTokens(c) \in Seq(Tokens)
  <2>1. c \in Seq(Printed(pretty))
    BY <1>1, Zenon DEF Printables
  <2>2. Printed(pretty) \subseteq Marks
    BY Kinds, Zenon
  <2>3. c \in Seq(Marks)
    BY <2>1, <2>2
  <2> QED BY <2>3, OnlyType, Zenon
<1>9. d = cm
  BY <1>1, <1>2, Zenon DEF CommaPart
<1>10. Member(node, texts, pretty, level, i) = a \o b \o c \o d \o e
  BY <1>1, Zenon DEF Member
<1>11. OnlyTokens(a \o b \o c \o d \o e)
         = OnlyTokens(a) \o OnlyTokens(b) \o OnlyTokens(c) \o OnlyTokens(d) \o OnlyTokens(e)
  <2>1. /\ a \in Seq(Marks) /\ b \in Seq(Marks) /\ c \in Seq(Marks)
        /\ d \in Seq(Marks) /\ e \in Seq(Marks)
    BY <1>4, <1>5, <1>6, <1>7, <1>8, <1>9, Zenon
  <2>2. FiveJoined(a, b, c, d, e)
    BY <2>1, OnlyFive, Zenon
  <2> QED BY <2>2, Zenon DEF FiveJoined
<1>12. PICK ct : ct = OnlyTokens(c) /\ ct \in Seq(Tokens)
  BY <1>8, Zenon
<1>13. OnlyTokens(a \o b \o c \o d \o e) = <<>> \o na \o ct \o cm \o <<>>
  BY <1>4, <1>5, <1>6, <1>7, <1>9, <1>11, <1>12, Zenon
<1>14. <<>> \o na = na
  BY <1>3, NothingBehind, Zenon
<1>15. na \o ct \o cm \in Seq(Tokens)
  BY <1>3, <1>12
<1>16. (na \o ct \o cm) \o <<>> = na \o ct \o cm
  BY <1>15, NothingBehind, Zenon
<1> QED BY <1>1, <1>2, <1>8, <1>10, <1>12, <1>13, <1>14, <1>16, Zenon DEF MemberIs

ContainerHas(node, texts, pretty, level) ==
  /\ OnlyTokens(Members(node, texts, pretty, level)) \in Seq(Tokens)
  /\ OnlyTokens(Container(node, texts, pretty, level))
       = <<node.typ>> \o OnlyTokens(Members(node, texts, pretty, level))
           \o <<Closer(node.typ)>>

LEMMA ContainerTokens ==
  ASSUME NEW pretty \in Nat, NEW level \in Nat \ {0}, NEW node, NEW texts,
         Printables(node, texts, pretty), node.typ \in Openers
  PROVE  ContainerHas(node, texts, pretty, level)
<1>1. PICK a, b, c, d, e :
        /\ a = <<node.typ>> /\ b = IfPretty(pretty, "newline")
        /\ c = Members(node, texts, pretty, level)
        /\ d = Indent(pretty * (level - 1)) /\ e = <<Closer(node.typ)>>
  OBVIOUS
<1>2. node.typ \in Tokens /\ Closer(node.typ) \in Tokens
  BY DEF Openers, Closers, Tokens, Closer
<1>3. a \in Seq(Tokens) /\ e \in Seq(Tokens)
  BY <1>1, <1>2
<1>4. a \in Seq(Marks) /\ OnlyTokens(a) = a /\ e \in Seq(Marks) /\ OnlyTokens(e) = e
  BY <1>3, OnlyItself, Zenon
<1>5. b \in Seq(Marks) /\ OnlyTokens(b) = <<>>
  BY <1>1, OnlyIfPretty, Zenon
<1>6. d \in Seq(Marks) /\ OnlyTokens(d) = <<>>
  <2>1. PICK k \in Nat : k = pretty * (level - 1)
    <3>1. pretty * (level - 1) \in Nat
      OBVIOUS
    <3> QED BY <3>1, Zenon
  <2> QED BY <1>1, <2>1, OnlyIndent, Zenon
<1>7. c \in Seq(Marks) /\ OnlyTokens(c) \in Seq(Tokens)
  <2>1. c \in Seq(Printed(pretty))
    BY <1>1, ContainerParts, Zenon
  <2>2. Printed(pretty) \subseteq Marks
    BY Kinds, Zenon
  <2>3. c \in Seq(Marks)
    BY <2>1, <2>2
  <2> QED BY <2>3, OnlyType, Zenon
<1>8. PICK ct : ct = OnlyTokens(c) /\ ct \in Seq(Tokens)
  BY <1>7, Zenon
<1>9. OnlyTokens(a \o b \o c \o d \o e) = a \o <<>> \o ct \o <<>> \o e
  <2>1. /\ a \in Seq(Marks) /\ b \in Seq(Marks) /\ c \in Seq(Marks)
        /\ d \in Seq(Marks) /\ e \in Seq(Marks)
    BY <1>4, <1>5, <1>6, <1>7, Zenon
  <2>2. FiveJoined(a, b, c, d, e)
    BY <2>1, OnlyFive, Zenon
  <2> QED BY <1>4, <1>5, <1>6, <1>8, <2>2, Zenon DEF FiveJoined
<1>10. a \o <<>> = a
  BY <1>3, NothingBehind, Zenon
<1>11. a \o ct \in Seq(Tokens)
  BY <1>3, <1>8
<1>12. (a \o ct) \o <<>> = a \o ct
  BY <1>11, NothingBehind, Zenon
<1>13. Container(node, texts, pretty, level) = a \o b \o c \o d \o e
  BY <1>1, ContainerIs, Zenon
<1> QED BY <1>1, <1>7, <1>8, <1>9, <1>10, <1>12, <1>13, Zenon DEF ContainerHas
-----------------------------------------------------------------------------
(* The tokens of the text of a node are those it was read from.            *)

\* The place behind the i-th turn of the loop of write.
Stop(t, at, end, n, i) ==
  IF i < Len(t[n].values) THEN Begin(t, at, end, n, i + 1) ELSE After(t, at, end, n)

Covers(s, at, end, v) ==
  at[v] \in Nat /\ end[v] \in Nat /\ 1 <= at[v] /\ at[v] < end[v] /\ end[v] <= Len(s) + 1

LEMMA HasCut ==
  ASSUME NEW s \in Seq(Tokens), NEW j, NEW x, Has(s, j, x)
  PROVE  j \in Nat /\ 1 <= j /\ j <= Len(s) /\ Len(s) \in Nat /\ Cut(s, j, j + 1) = <<x>>
<1>1. j \in 1..Len(s) /\ s[j] = x
  BY Zenon DEF Has
<1>2. Len(s) \in Nat
  OBVIOUS
<1>3. Cut(s, j, j + 1) = <<s[j]>>
  BY <1>1, CutEnds, Zenon
<1>4. j \in Nat /\ 1 <= j /\ j <= Len(s)
  BY <1>1, <1>2
<1> QED BY <1>1, <1>2, <1>3, <1>4, Zenon

LEMMA TwoJoined == ASSUME NEW S, NEW x \in S, NEW y \in S PROVE <<x>> \o <<y>> = <<x, y>>
<1>1. PICK w : w = <<x>> \o <<y>>
  OBVIOUS
<1>2. w \in Seq(S) /\ Len(w) = 2 /\ w[1] = x /\ w[2] = y
  BY <1>1
<1>3. <<x, y>> \in Seq(S) /\ Len(<<x, y>>) = 2
  OBVIOUS
<1>4. \A i \in 1..Len(w) : w[i] = <<x, y>>[i]
  BY <1>2
<1> QED BY <1>1, <1>2, <1>3, <1>4, SeqEqual

Meet(s, a, b, c) ==
  /\ Cut(s, a, b) \in Seq(Tokens) /\ Cut(s, b, c) \in Seq(Tokens)
  /\ Cut(s, a, b) \o Cut(s, b, c) = Cut(s, a, c)

LEMMA CutStep ==
  ASSUME NEW s \in Seq(Tokens), NEW a \in Nat, NEW b \in Nat, NEW c \in Nat,
         1 <= a, a <= b, b <= c, c <= Len(s) + 1
  PROVE  Meet(s, a, b, c)
<1>1. 1 <= b /\ b <= Len(s) + 1
  OBVIOUS
<1>2. Cut(s, a, b) \in Seq(Tokens)
  BY <1>1, CutType, Zenon
<1>3. Cut(s, b, c) \in Seq(Tokens)
  BY <1>1, CutType, Zenon
<1>4. Cut(s, a, b) \o Cut(s, b, c) = Cut(s, a, c)
  BY CutJoin, Zenon
<1> QED BY <1>2, <1>3, <1>4, Zenon DEF Meet

IsCut(s, node, i, at, end, v, b, e) ==
  /\ e \in Nat /\ b < e /\ e <= Len(s) + 1
  /\ NamePart(node) \o Cut(s, at[v], end[v]) \o CommaPart(node, i) = Cut(s, b, e)

LEMMA MemberCut ==
  ASSUME NEW s \in Seq(Tokens), NEW t, NEW at, NEW end, Laid(s, t, at, end, Nodes(t)),
         NEW n \in Nodes(t), NEW k \in Nat, k = Len(t[n].values), NEW i \in 1..k,
         NEW b \in Nat, b = Begin(t, at, end, n, i), 1 <= b,
         NEW e, e = Stop(t, at, end, n, i),
         NEW v, v = t[n].values[i], Covers(s, at, end, v)
  PROVE  IsCut(s, t[n], i, at, end, v, b, e)
<1>1. NodeLaid(s, t, at, end, Nodes(t), n)
  BY Zenon DEF Laid
<1>2. \A j \in 1..k : ValueLaid(s, t, at, end, n, j)
  BY <1>1, Zenon DEF NodeLaid
<1>3. IF t[n].typ = "{" THEN at[v] = b + 2 /\ NameAt(s, b) /\ ColonAt(s, b) ELSE at[v] = b
  BY <1>2, Zenon DEF ValueLaid
<1>4. PICK a, z : a = at[v] /\ z = end[v]
  OBVIOUS
<1>5. a \in Nat /\ z \in Nat /\ 1 <= a /\ a < z /\ z <= Len(s) + 1 /\ Len(s) \in Nat
  BY <1>4 DEF Covers
<1>6. b <= a /\ NamePart(t[n]) = Cut(s, b, a)
  <2>1. CASE t[n].typ = "{"
    <3>1. a = b + 2 /\ Has(s, b, "string") /\ Has(s, b + 1, ":")
      BY <1>3, <1>4, <2>1, Zenon DEF NameAt, ColonAt
    <3>2. PICK c : c = b + 1
      OBVIOUS
    <3>3. c \in Nat /\ a = c + 1 /\ b <= a
      BY <3>1, <3>2
    <3>4. Cut(s, b, c) = <<"string">> /\ b <= Len(s)
      BY <3>1, <3>2, HasCut, Zenon
    <3>5. Cut(s, c, a) = <<":">> /\ c <= Len(s)
      BY <3>1, <3>2, <3>3, HasCut, Zenon
    <3>6. b <= c /\ c <= a /\ a <= Len(s) + 1
      BY <1>5, <3>2, <3>3
    <3>7. Cut(s, b, c) \o Cut(s, c, a) = Cut(s, b, a)
      <4>1. Meet(s, b, c, a)
        BY <1>5, <3>3, <3>6, CutStep
      <4> QED BY <4>1, Zenon DEF Meet
    <3>8. <<"string">> \o <<":">> = <<"string", ":">>
      <4>1. "string" \in Tokens /\ ":" \in Tokens
        BY DEF Tokens, Scalars
      <4> QED BY <4>1, TwoJoined, Zenon
    <3> QED BY <2>1, <3>3, <3>4, <3>5, <3>7, <3>8, Zenon DEF NamePart
  <2>2. CASE t[n].typ # "{"
    <3>1. a = b
      BY <1>3, <1>4, <2>2, Zenon
    <3>2. b <= a /\ b \in 1..(Len(s) + 1)
      BY <1>5, <3>1
    <3>3. Cut(s, b, b) = <<>>
      BY <3>2, CutEnds, Zenon
    <3> QED BY <2>2, <3>1, <3>2, <3>3, Zenon DEF NamePart
  <2> QED BY <2>1, <2>2, Zenon
<1>7. e \in Nat /\ z <= e /\ e <= Len(s) + 1 /\ CommaPart(t[n], i) = Cut(s, z, e)
  <2>1. CASE i < k
    <3>1. PICK j : j = i + 1
      OBVIOUS
    <3>2. j \in 1..k /\ j > 1 /\ j - 1 = i /\ j # 1 /\ i # k
      BY <2>1, <3>1
    <3>3. e = Begin(t, at, end, n, j)
      BY <2>1, <3>1, Zenon DEF Stop
    <3>4. e = z + 1
      BY <1>4, <3>2, <3>3, Zenon DEF Begin
    <3>5. CommaAt(s, e, j)
      BY <1>2, <3>2, <3>3, Zenon DEF ValueLaid
    <3>6. e - 1 = z
      BY <1>5, <3>4
    <3>7. Has(s, z, ",")
      BY <3>2, <3>5, <3>6, Zenon DEF CommaAt
    <3>8. z <= Len(s) /\ Cut(s, z, z + 1) = <<",">>
      BY <3>7, HasCut, Zenon
    <3>9. e \in Nat /\ z <= e /\ e <= Len(s) + 1
      <4>1. z \in Nat /\ Len(s) \in Nat /\ e = z + 1 /\ z <= Len(s)
        BY <1>5, <3>4, <3>8, Zenon
      <4> QED BY <4>1
    <3> QED BY <3>2, <3>4, <3>8, <3>9, Zenon DEF CommaPart
  <2>2. CASE ~ (i < k)
    <3>1. i = k /\ k # 0
      BY <2>2
    <3>2. e = z
      BY <1>4, <2>2, <3>1, Zenon DEF Stop, After
    <3>3. z \in 1..(Len(s) + 1) /\ z <= z
      BY <1>5
    <3>4. Cut(s, z, z) = <<>>
      BY <3>3, CutEnds, Zenon
    <3> QED BY <1>5, <3>1, <3>2, <3>3, <3>4, Zenon DEF CommaPart
  <2> QED BY <2>1, <2>2, Zenon
<1>8. b < e /\ a <= z /\ a <= Len(s) + 1 /\ b <= z
  BY <1>5, <1>6, <1>7
<1>9. Cut(s, b, a) \o Cut(s, a, z) = Cut(s, b, z)
  <2>1. b <= a /\ a <= z /\ z <= Len(s) + 1 /\ a \in Nat /\ z \in Nat
    BY <1>5, <1>6, <1>8, Zenon
  <2>2. Meet(s, b, a, z)
    BY <2>1, CutStep
  <2> QED BY <2>2, Zenon DEF Meet
<1>10. Cut(s, b, z) \o Cut(s, z, e) = Cut(s, b, e)
  <2>1. b <= z /\ z <= e /\ e <= Len(s) + 1 /\ e \in Nat /\ z \in Nat
    BY <1>5, <1>7, <1>8, Zenon
  <2>2. Meet(s, b, z, e)
    BY <2>1, CutStep
  <2> QED BY <2>2, Zenon DEF Meet
<1> QED BY <1>4, <1>6, <1>7, <1>8, <1>9, <1>10, Zenon DEF IsCut

LEMMA ValuesOf ==
  ASSUME tree \in Seq(NodeType), NEW n \in Nodes(tree)
  PROVE  /\ tree[n].values \in Seq(Nat) /\ Len(tree[n].values) \in Nat
         /\ DOMAIN tree[n].values = 1..Len(tree[n].values)
         /\ tree[n].typ \in Scalars \cup Openers
         /\ n \in DOMAIN tree
<1>1. tree[n] \in NodeType /\ n \in DOMAIN tree
  <2>1. n \in 1..Len(tree)
    BY Zenon DEF Nodes
  <2>2. n \in DOMAIN tree
    BY <2>1
  <2> QED BY <2>1, <2>2, ElementOfSeq, Zenon
<1>2. tree[n].values \in Seq(Nat) /\ tree[n].typ \in Scalars \cup Openers
  BY <1>1 DEF NodeType
<1>3. Len(tree[n].values) \in Nat /\ DOMAIN tree[n].values = 1..Len(tree[n].values)
  BY <1>2
<1> QED BY <1>1, <1>2, <1>3, Zenon

\* The text of a node is read back.
Reads(w, at, end, n) ==
  /\ Covers(scanned, at, end, n)
  /\ \A given \in Nat : OnlyTokens(w[n][given]) = Cut(scanned, at[n], end[n])

TextsOf(w, n, level) ==
  [i \in DOMAIN tree[n].values |-> w[tree[n].values[i]][level + 1]]

LEMMA TextsType ==
  ASSUME tree \in Seq(NodeType), Forward, NEW pretty \in Nat, NEW w, Writes(w, pretty),
         NEW n \in Nodes(tree), NEW level \in Nat
  PROVE  Printables(tree[n], TextsOf(w, n, level), pretty)
<1>1. /\ tree[n].values \in Seq(Nat) /\ n \in DOMAIN tree
  BY ValuesOf, Zenon
<1>2. ASSUME NEW i \in DOMAIN tree[n].values
      PROVE  w[tree[n].values[i]][level + 1] \in Seq(Printed(pretty))
  <2>1. tree[n].values[i] \in (n + 1)..Len(tree)
    BY <1>1, Zenon DEF Forward
  <2>2. tree[n].values[i] \in 1..Len(tree)
    <3>1. n \in 1..Len(tree)
      BY Zenon DEF Nodes
    <3> QED BY <2>1, <3>1
  <2>3. w[tree[n].values[i]] \in [Nat -> Seq(Printed(pretty))]
    BY <2>2, Zenon DEF Writes
  <2>4. level + 1 \in Nat
    OBVIOUS
  <2> QED BY <2>3, <2>4, Zenon
<1> QED BY <1>1, <1>2, Zenon DEF Printables, TextsOf

LEMMA MembersCut ==
  ASSUME tree \in Seq(NodeType), scanned \in Seq(Tokens), Forward,
         NEW at, NEW end, Laid(scanned, tree, at, end, Nodes(tree)),
         NEW pretty \in Nat, NEW w, Writes(w, pretty),
         NEW n \in Nodes(tree), \A m \in (n + 1)..Len(tree) : Reads(w, at, end, m),
         NEW level \in Nat,
         NEW texts, texts = TextsOf(w, n, level),
         NEW a, a = at[n] + 1, NEW z, z = After(tree, at, end, n)
  PROVE  /\ z \in Nat /\ a \in Nat /\ 1 <= a /\ a <= z /\ z <= Len(scanned) + 1
         /\ OnlyTokens(Members(tree[n], texts, pretty, level)) = Cut(scanned, a, z)
<1> DEFINE k == Len(tree[n].values)
           node == tree[n]
           s == scanned
<1>1. /\ tree[n].values \in Seq(Nat) /\ k \in Nat /\ DOMAIN node.values = 1..k
  BY ValuesOf, Zenon
<1>2. Printables(node, texts, pretty)
  BY TextsType, Zenon
<1>3. PICK ts : ts = Turns(node, texts, pretty, level)
  OBVIOUS
<1>4. ts \in Seq(Seq(Marks)) /\ Len(ts) = k
  <2>1. ts \in Seq(Seq(Printed(pretty))) /\ Len(ts) = k
    BY <1>2, <1>3, TurnsType, Zenon
  <2>2. Printed(pretty) \subseteq Marks
    BY Kinds, Zenon
  <2>3. Seq(Printed(pretty)) \subseteq Seq(Marks)
    BY <2>2
  <2> QED BY <2>1, <2>3
<1>5. PICK f : Chain(f, ts, Marks) /\ FlattenSeq(ts) = f[k]
  BY <1>4, FlattenChain, Zenon
<1>6. /\ f[0] = <<>> /\ \A i \in 1..k : f[i] = f[i - 1] \o ts[i]
      /\ \A i \in 0..k : f[i] \in Seq(Marks)
  BY <1>4, <1>5, Zenon DEF Chain
<1>7. a \in Nat /\ 1 <= a /\ a <= Len(s) + 1 /\ Len(s) \in Nat
  <2>1. Has(s, at[n], tree[n].typ)
    BY Zenon DEF Laid, NodeLaid
  <2>2. at[n] \in Nat /\ 1 <= at[n] /\ at[n] <= Len(s) /\ Len(s) \in Nat
    BY <2>1, HasCut, Zenon
  <2> QED BY <2>2
<1> DEFINE e(i) == IF i = 0 THEN a ELSE Stop(tree, at, end, n, i)
<1>8. \A i \in 1..k : Begin(tree, at, end, n, i) = e(i - 1)
  <2>1. ASSUME NEW i \in 1..k PROVE Begin(tree, at, end, n, i) = e(i - 1)
    <3>1. CASE i = 1
      <4>1. i - 1 = 0
        BY <3>1
      <4> QED BY <3>1, <4>1, Zenon DEF Begin
    <3>2. CASE i # 1
      <4>1. i - 1 # 0 /\ i - 1 < k /\ (i - 1) + 1 = i
        BY <1>1, <3>2
      <4> QED BY <4>1, Zenon DEF Stop
    <3> QED BY <3>1, <3>2, Zenon
  <2> QED BY <2>1
<1>9. e(k) = z /\ e(0) = a
  <2>1. CASE k = 0
    BY <2>1, Zenon DEF After
  <2>2. CASE k # 0
    <3>1. ~ (k < k)
      BY <1>1
    <3> QED BY <2>2, <3>1, Zenon DEF Stop
  <2> QED BY <2>1, <2>2, Zenon
<1> HIDE DEF e
<1> DEFINE G == {i \in 0..k : /\ e(i) \in Nat /\ a <= e(i) /\ e(i) <= Len(s) + 1
                              /\ OnlyTokens(f[i]) = Cut(s, a, e(i))}
<1>10. ASSUME NEW i \in 0..k, \A j \in 0..(i - 1) : j \in G PROVE i \in G
  <2>1. CASE i = 0
    <3>1. Cut(s, a, a) = <<>>
      <4>1. a \in 1..(Len(s) + 1)
        BY <1>7
      <4> QED BY <4>1, CutEnds, Zenon
    <3>2. OnlyTokens(f[0]) = <<>>
      BY <1>6, OnlyNone, Zenon
    <3>3. a <= a
      BY <1>7
    <3>4. /\ e(i) \in Nat /\ a <= e(i) /\ e(i) <= Len(s) + 1
          /\ OnlyTokens(f[i]) = Cut(s, a, e(i))
      BY <1>7, <1>9, <2>1, <3>1, <3>2, <3>3, Zenon
    <3> QED BY <3>4, Zenon
  <2>2. CASE i # 0
    <3>1. i \in 1..k /\ i - 1 \in 0..(i - 1)
      BY <1>1, <2>2
    <3>2. PICK b, c, v, m : /\ b = e(i - 1) /\ c = Stop(tree, at, end, n, i)
                            /\ v = tree[n].values[i]
                            /\ m = Member(node, texts, pretty, level, i)
      OBVIOUS
    <3>3. /\ b \in Nat /\ a <= b /\ b <= Len(s) + 1
          /\ OnlyTokens(f[i - 1]) = Cut(s, a, b)
      BY <1>10, <3>1, <3>2, Zenon
    <3>4. i \in DOMAIN node.values /\ i # 0 /\ i - 1 \in 0..k
      BY <1>1, <3>1
    <3>5. v \in (n + 1)..Len(tree)
      BY <3>2, <3>4, ValuesOf, Zenon DEF Forward
    <3>6. Reads(w, at, end, v)
      BY <3>5, Zenon
    <3>7. OnlyTokens(texts[i]) = Cut(s, at[v], end[v])
      <4>1. texts[i] = w[v][level + 1]
        BY <3>2, <3>4, Zenon DEF TextsOf
      <4>2. level + 1 \in Nat
        OBVIOUS
      <4> QED BY <3>6, <4>1, <4>2, Zenon DEF Reads
    <3>8. OnlyTokens(m) = NamePart(node) \o Cut(s, at[v], end[v]) \o CommaPart(node, i)
      <4>1. MemberIs(node, texts, pretty, level, i)
        BY <1>2, <3>4, MemberTokens
      <4> QED BY <3>2, <3>7, <4>1, Zenon DEF MemberIs
    <3>9. b = Begin(tree, at, end, n, i) /\ 1 <= b
      <4>1. b = Begin(tree, at, end, n, i)
        BY <1>8, <3>1, <3>2, Zenon
      <4>2. 1 <= b
        BY <1>7, <3>3
      <4> QED BY <4>1, <4>2, Zenon
    <3>10. Covers(s, at, end, v)
      BY <3>6, Zenon DEF Reads
    <3>11. /\ c \in Nat /\ b < c /\ c <= Len(s) + 1
           /\ NamePart(node) \o Cut(s, at[v], end[v]) \o CommaPart(node, i) = Cut(s, b, c)
      <4>1. PICK l, t, q : l \in Nat /\ l = Len(t[n].values) /\ t = tree /\ q = s
        BY <1>1, Zenon
      <4>2. /\ q \in Seq(Tokens) /\ Laid(q, t, at, end, Nodes(t)) /\ n \in Nodes(t)
            /\ i \in 1..l /\ b = Begin(t, at, end, n, i) /\ c = Stop(t, at, end, n, i)
            /\ v = t[n].values[i] /\ Covers(q, at, end, v)
        BY <3>1, <3>2, <3>9, <3>10, <4>1, Zenon
      <4>3. IsCut(q, t[n], i, at, end, v, b, c)
        BY <3>3, <3>9, <4>1, <4>2, MemberCut
      <4> QED BY <4>1, <4>3, Zenon DEF IsCut
    <3>12. f[i] = f[i - 1] \o m
      <4>1. ts[i] = m
        BY <1>3, <3>2, <3>4, Zenon DEF Turns
      <4> QED BY <1>6, <3>1, <4>1, Zenon
    <3>13. m \in Seq(Marks)
      <4>1. m \in Seq(Printed(pretty))
        BY <1>2, <3>2, <3>4, MemberType, Zenon
      <4>2. Printed(pretty) \subseteq Marks
        BY Kinds, Zenon
      <4> QED BY <4>1, <4>2
    <3>14. OnlyTokens(f[i]) = Cut(s, a, b) \o Cut(s, b, c)
      <4>1. f[i - 1] \in Seq(Marks)
        BY <1>6, <3>4, Zenon
      <4>2. OnlyTokens(f[i - 1] \o m) = OnlyTokens(f[i - 1]) \o OnlyTokens(m)
        BY <3>13, <4>1, OnlyJoins, Zenon
      <4> QED BY <3>3, <3>8, <3>11, <3>12, <4>2, Zenon
    <3>15. Meet(s, a, b, c) /\ a <= c
      <4>1. b <= c /\ a <= c
        BY <1>7, <3>3, <3>11
      <4>2. PICK q : q = s
        OBVIOUS
      <4>3. /\ q \in Seq(Tokens) /\ a \in Nat /\ b \in Nat /\ c \in Nat
            /\ 1 <= a /\ a <= b /\ b <= c /\ c <= Len(q) + 1
        BY <1>7, <3>3, <3>11, <4>1, <4>2, Zenon
      <4>4. Meet(q, a, b, c)
        BY <4>3, CutStep
      <4> QED BY <4>1, <4>2, <4>4, Zenon
    <3>16. e(i) = c
      BY <3>2, <3>4, Zenon DEF e
    <3>17. /\ e(i) \in Nat /\ a <= e(i) /\ e(i) <= Len(s) + 1
           /\ OnlyTokens(f[i]) = Cut(s, a, e(i))
      BY <3>11, <3>14, <3>15, <3>16, Zenon DEF Meet
    <3> QED BY <3>17, Zenon
  <2> QED BY <2>1, <2>2, Zenon
<1> HIDE DEF G
<1>11. \A i \in 0..k : i \in G
  <2> HIDE DEF k
  <2> QED BY <1>1, <1>10, FromLeft
<1>12. k \in G
  <2>1. k \in 0..k
    BY <1>1
  <2> QED BY <1>11, <2>1, Zenon
<1>13. Members(node, texts, pretty, level) = f[k]
  BY <1>3, <1>5, MembersAreTurns, Zenon
<1> QED BY <1>7, <1>9, <1>12, <1>13, Zenon DEF G

LEMMA ReadsAll ==
  ASSUME tree \in Seq(NodeType), scanned \in Seq(Tokens), Forward,
         NEW at, NEW end, Laid(scanned, tree, at, end, Nodes(tree)),
         NEW pretty \in Nat, NEW w, Writes(w, pretty)
  PROVE  \A n \in Nodes(tree) : Reads(w, at, end, n)
<1> DEFINE G == {n \in Nodes(tree) : Reads(w, at, end, n)}
           s == scanned
<1>1. Len(tree) \in Nat /\ 1 \in Nat /\ Len(s) \in Nat
  OBVIOUS
<1>2. ASSUME NEW n \in 1..Len(tree), \A m \in (n + 1)..Len(tree) : m \in G PROVE n \in G
  <2>1. n \in Nodes(tree) /\ \A m \in (n + 1)..Len(tree) : Reads(w, at, end, m)
    BY <1>2, Zenon DEF Nodes
  <2>2. tree[n].typ \in Scalars \cup Openers /\ n \in DOMAIN tree
    BY <2>1, ValuesOf, Zenon
  <2>3. NodeLaid(s, tree, at, end, Nodes(tree), n)
    BY <2>1, Zenon DEF Laid
  <2>4. Has(s, at[n], tree[n].typ) /\ ClosedLaid(s, tree, at, end, n)
    BY <2>1, <2>3, Zenon DEF NodeLaid
  <2>5. PICK a, z, x : a = at[n] /\ z = end[n] /\ x = tree[n].typ
    OBVIOUS
  <2>6. a \in Nat /\ 1 <= a /\ a <= Len(s) /\ Cut(s, a, a + 1) = <<x>>
    BY <2>4, <2>5, HasCut, Zenon
  <2>7. \A given \in Nat : w[n][given] = Body(w, n, pretty, given)
    BY <1>2, Zenon DEF Writes
  <2>8. CASE x \in Scalars
    <3>1. z = a + 1
      BY <2>4, <2>5, <2>8, Zenon DEF ClosedLaid
    <3>2. z \in Nat /\ a < z /\ z <= Len(s) + 1
      BY <1>1, <2>6, <3>1
    <3>3. ASSUME NEW given \in Nat PROVE OnlyTokens(w[n][given]) = Cut(s, a, z)
      <4>1. w[n][given] = <<x>>
        BY <2>5, <2>7, <2>8, Zenon DEF Body
      <4>2. x \in Tokens /\ x \in Marks
        BY <2>8, Zenon DEF Tokens, Marks
      <4>3. OnlyTokens(<<x>>) = <<x>>
        BY <4>2, OnlyOne, Zenon
      <4> QED BY <2>6, <3>1, <4>1, <4>3, Zenon
    <3>4. Reads(w, at, end, n)
      BY <2>5, <2>6, <3>2, <3>3, Zenon DEF Reads, Covers
    <3> QED BY <2>1, <3>4, Zenon
  <2>9. CASE x \notin Scalars
    <3>1. x \in Openers
      BY <2>2, <2>5, <2>9, Zenon
    <3>2. PICK b, c : b = a + 1 /\ c = After(tree, at, end, n)
      OBVIOUS
    <3>3. Has(s, c, Closer(x)) /\ z = c + 1
      BY <2>4, <2>5, <2>9, <3>2, Zenon DEF ClosedLaid
    <3>4. c \in Nat /\ c <= Len(s) /\ Cut(s, c, z) = <<Closer(x)>>
      BY <3>3, HasCut, Zenon
    <3>5. ASSUME NEW given \in Nat
          PROVE  b <= c /\ OnlyTokens(w[n][given]) = <<x>> \o Cut(s, b, c) \o <<Closer(x)>>
      <4>1. PICK level : level = Level(given)
        OBVIOUS
      <4>2. level \in Nat /\ level \in Nat \ {0}
        BY <4>1 DEF Level
      <4>3. PICK texts : texts = TextsOf(w, n, level)
        OBVIOUS
      <4>4. Printables(tree[n], texts, pretty)
        BY <2>1, <4>2, <4>3, TextsType, Zenon
      <4>5. b <= c /\ OnlyTokens(Members(tree[n], texts, pretty, level)) = Cut(s, b, c)
        <5>1. b = at[n] + 1
          BY <2>5, <3>2, Zenon
        <5> QED BY <2>1, <3>2, <4>2, <4>3, <5>1, MembersCut
      <4>6. w[n][given] = Container(tree[n], texts, pretty, level)
        BY <2>5, <2>7, <2>9, <4>1, <4>3, Zenon DEF Body, TextsOf
      <4>7. OnlyTokens(Container(tree[n], texts, pretty, level))
              = <<x>> \o OnlyTokens(Members(tree[n], texts, pretty, level)) \o <<Closer(x)>>
        <5>1. tree[n].typ \in Openers
          BY <2>5, <3>1, Zenon
        <5>2. ContainerHas(tree[n], texts, pretty, level)
          BY <4>2, <4>4, <5>1, ContainerTokens
        <5> QED BY <2>5, <5>2, Zenon DEF ContainerHas
      <4> QED BY <4>5, <4>6, <4>7, Zenon
    <3>6. b <= c
      BY <1>1, <3>5
    <3>7. /\ b \in Nat /\ z \in Nat /\ a <= b /\ b <= z /\ c <= z /\ a < z /\ z <= Len(s) + 1
          /\ 1 <= b /\ a <= c /\ c <= Len(s) + 1
      BY <1>1, <2>6, <3>2, <3>3, <3>4, <3>6
    <3>8. PICK q : q = s
      OBVIOUS
    <3>9. q \in Seq(Tokens) /\ a \in Nat /\ b \in Nat /\ c \in Nat /\ z \in Nat
      BY <2>6, <3>4, <3>7, <3>8, Zenon
    <3>10. Meet(q, a, b, c)
      BY <2>6, <3>6, <3>7, <3>8, <3>9, CutStep
    <3>11. Meet(q, a, c, z)
      BY <2>6, <3>7, <3>8, <3>9, CutStep
    <3>12. ASSUME NEW given \in Nat PROVE OnlyTokens(w[n][given]) = Cut(s, a, z)
      <4>1. OnlyTokens(w[n][given]) = Cut(q, a, b) \o Cut(q, b, c) \o Cut(q, c, z)
        BY <2>6, <3>2, <3>4, <3>5, <3>8, Zenon
      <4> QED BY <3>8, <3>10, <3>11, <4>1, Zenon DEF Meet
    <3>13. Reads(w, at, end, n)
      BY <2>5, <2>6, <3>7, <3>12, Zenon DEF Reads, Covers
    <3> QED BY <2>1, <3>13, Zenon
  <2> QED BY <2>8, <2>9, Zenon
<1> HIDE DEF G
<1>3. \A n \in 1..Len(tree) : n \in G
  BY <1>1, <1>2, FromRight
<1> QED BY <1>3, Zenon DEF G, Nodes

LEMMA LaidForward ==
  ASSUME tree \in Seq(NodeType), NEW at, NEW end, NEW C, Laid(scanned, tree, at, end, C)
  PROVE  Forward
<1>1. ASSUME NEW m \in DOMAIN tree, NEW i \in DOMAIN tree[m].values
      PROVE  tree[m].values[i] \in (m + 1)..Len(tree)
  <2>1. m \in Nodes(tree)
    BY DEF Nodes
  <2>2. i \in 1..Len(tree[m].values)
    BY <2>1, ValuesOf, Zenon
  <2> QED BY <2>1, <2>2, Zenon DEF Laid, NodeLaid, ValueLaid
<1> QED BY <1>1, Zenon DEF Forward

\* What was read, in the layout of the whole text.
LEMMA AllShut ==
  ASSUME IInv, Layout, status = "true"
  PROVE  \E at, end : /\ Laid(scanned, tree, at, end, Nodes(tree))
                      /\ end[1] = Len(scanned) + 1 /\ at[1] = 1
                      /\ 1 \in Nodes(tree) /\ Forward
<1>1. stack = <<>> /\ status # "false" /\ ~ (stack = <<>> /\ status = "scanning")
  <2>1. status # "false" /\ status # "scanning" /\ status \in {"ending", "true"}
    OBVIOUS
  <2> QED BY <2>1, Zenon DEF IInv, MaskFits
<1>2. PICK at, end : LayoutFits(at, end)
  BY <1>1, Zenon DEF Layout
<1>3. Shut = Nodes(tree)
  <2>1. DOMAIN stack = {}
    BY <1>1
  <2> QED BY <2>1, Zenon DEF Shut
<1>4. Laid(scanned, tree, at, end, Nodes(tree)) /\ end[1] = Len(scanned) + 1
  BY <1>1, <1>2, <1>3, Zenon DEF LayoutFits
<1>5. at[1] = 1 /\ Forward
  BY <1>4, ShutNow, LaidForward, Zenon DEF Laid
<1>6. 1 \in Nodes(tree)
  BY <1>4, Zenon DEF Laid
<1> QED BY <1>4, <1>5, <1>6, Zenon

\* Whatever value was read, writing it gives the tokens it was read from,
\* without spaces and with them (UniValue::read, UniValue::write).
THEOREM WritesWhatWasRead == Spec => []RoundTrip
<1>1. ASSUME IInv, Layout PROVE RoundTrip
  <2> SUFFICES ASSUME status = "true"
               PROVE  Write(1, 0, 0) = scanned /\ OnlyTokens(Write(1, 2, 0)) = scanned
    BY DEF RoundTrip
  <2>1. PICK at, end : /\ Laid(scanned, tree, at, end, Nodes(tree))
                       /\ end[1] = Len(scanned) + 1 /\ at[1] = 1
                       /\ 1 \in Nodes(tree) /\ Forward
    BY <1>1, AllShut, Zenon
  <2>2. tree \in Seq(NodeType) /\ scanned \in Seq(Tokens) /\ DOMAIN tree = Nodes(tree)
    BY <1>1, ShutNow, Zenon
  <2>3. Cut(scanned, at[1], end[1]) = scanned
    BY <2>1, <2>2, CutEnds, Zenon
  <2>4. 0 \in Nat /\ 2 \in Nat /\ 1 \in 1..Len(tree)
    BY <2>1 DEF Nodes
  <2>5. ASSUME NEW pretty \in Nat
        PROVE  /\ OnlyTokens(Write(1, pretty, 0)) = scanned
               /\ Write(1, pretty, 0) \in Seq(Printed(pretty))
    <3>1. PICK w : Writes(w, pretty) /\ \A n \in DOMAIN tree : \A given \in Nat :
                                          Write(n, pretty, given) = w[n][given]
      BY <2>1, <2>2, WriteIs, Zenon
    <3>2. Write(1, pretty, 0) = w[1][0]
      BY <2>1, <2>2, <2>4, <3>1, Zenon
    <3>3. Reads(w, at, end, 1)
      BY <2>1, <2>2, <3>1, ReadsAll, Zenon
    <3>4. OnlyTokens(w[1][0]) = scanned
      BY <2>3, <2>4, <3>3, Zenon DEF Reads
    <3>5. w[1][0] \in Seq(Printed(pretty))
      BY <2>4, <3>1, Zenon DEF Writes
    <3> QED BY <3>2, <3>4, <3>5, Zenon
  <2>6. Write(1, 0, 0) = scanned
    <3>1. Write(1, 0, 0) \in Seq(Tokens)
      BY <2>4, <2>5, Zenon DEF Printed
    <3> QED BY <2>4, <2>5, <3>1, OnlyItself, Zenon
  <2> QED BY <2>4, <2>5, <2>6, Zenon
<1> QED BY <1>1, LayoutHolds, PTL
-----------------------------------------------------------------------------
(* The indentation of a text. A state has the number of containers that    *)
(* are open and, where the line has had nothing but spaces so far, one     *)
(* more than their number; else 0.                                         *)

States == Int \X Nat

\* What a mark does to the state, where a line is indented by its depth.
Moves(x, a, b) ==
  IF x = "newline" THEN a[2] = 0 /\ b = <<a[1], 1>>
  ELSE IF x = "space" THEN b = <<a[1], IF a[2] = 0 THEN 0 ELSE a[2] + 1>>
  ELSE /\ a[2] # 0 => a[2] = 2 * (IF x \in Closers THEN a[1] - 1 ELSE a[1]) + 1
       /\ b = <<IF x \in Openers THEN a[1] + 1 ELSE IF x \in Closers THEN a[1] - 1 ELSE a[1], 0>>

\* f has the states before and behind the marks of s.
Traces(s, f) ==
  /\ f \in [0..Len(s) -> States]
  /\ \A j \in 1..Len(s) : Moves(s[j], f[j - 1], f[j])

Leads(s, a, b) == \E f : Traces(s, f) /\ f[0] = a /\ f[Len(s)] = b

LEMMA LeadsJoin ==
  ASSUME NEW S, NEW s \in Seq(S), NEW t \in Seq(S), NEW a, NEW b, NEW c,
         Leads(s, a, b), Leads(t, b, c)
  PROVE  Leads(s \o t, a, c)
<1>1. PICK m, n, w : m = Len(s) /\ n = Len(t) /\ w = s \o t
  OBVIOUS
<1>2. m \in Nat /\ n \in Nat
  BY <1>1
<1>3. Joins(s, t, w, S)
  BY <1>1, JoinedPlaces, Zenon
<1>4. /\ Len(w) = m + n
      /\ \A k \in 1..m : w[k] = s[k]
      /\ \A k \in 1..n : w[m + k] = t[k]
  BY <1>1, <1>3, Zenon DEF Joins
<1>5. PICK f : Traces(s, f) /\ f[0] = a /\ f[m] = b
  BY <1>1, Zenon DEF Leads
<1>6. PICK g : Traces(t, g) /\ g[0] = b /\ g[n] = c
  BY <1>1, Zenon DEF Leads
<1>7. /\ f \in [0..m -> States] /\ \A j \in 1..m : Moves(s[j], f[j - 1], f[j])
      /\ g \in [0..n -> States] /\ \A j \in 1..n : Moves(t[j], g[j - 1], g[j])
  BY <1>1, <1>5, <1>6, Zenon DEF Traces
<1>8. PICK h : h = [j \in 0..(m + n) |-> IF j <= m THEN f[j] ELSE g[j - m]]
  OBVIOUS
<1>9. \A j \in 0..(m + n) : IF j <= m THEN j \in 0..m ELSE j - m \in 0..n
  BY <1>2
<1>10. h \in [0..(m + n) -> States]
  BY <1>7, <1>8, <1>9
<1>11. \A j \in 0..m : h[j] = f[j]
  BY <1>2, <1>8
<1>12. ASSUME NEW j \in 0..n PROVE h[m + j] = g[j]
  <2>1. m + j \in 0..(m + n) /\ m + j - m = j /\ (m + j <= m => j = 0 /\ m + j = m)
    BY <1>2
  <2>2. CASE j = 0
    BY <1>2, <1>5, <1>6, <1>8, <2>1, <2>2
  <2>3. CASE j # 0
    <3>1. ~ (m + j <= m)
      BY <1>2, <2>3
    <3>2. PICK k : k = m + j
      OBVIOUS
    <3>3. k \in 0..(m + n) /\ ~ (k <= m) /\ k - m = j
      BY <1>2, <2>1, <3>1, <3>2
    <3>4. h[k] = g[k - m]
      BY <1>8, <3>3, Zenon
    <3> QED BY <3>2, <3>3, <3>4, Zenon
  <2> QED BY <2>2, <2>3
<1>13. ASSUME NEW j \in 1..(m + n) PROVE Moves(w[j], h[j - 1], h[j])
  <2>1. CASE j <= m
    <3>1. j \in 1..m /\ j \in 0..m /\ j - 1 \in 0..m
      BY <1>2, <2>1
    <3> QED BY <1>4, <1>7, <1>11, <3>1, Zenon
  <2>2. CASE ~ (j <= m)
    <3>1. PICK k : k = j - m
      OBVIOUS
    <3>2. /\ k \in 1..n /\ k \in 0..n /\ k - 1 \in 0..n
          /\ m + k = j /\ m + (k - 1) = j - 1
      BY <1>2, <2>2, <3>1
    <3>3. w[m + k] = t[k] /\ h[m + k] = g[k] /\ h[m + (k - 1)] = g[k - 1]
      BY <1>4, <1>12, <3>2, Zenon
    <3> QED BY <1>7, <3>2, <3>3, Zenon
  <2> QED BY <2>1, <2>2
<1>14. h[0] = a /\ h[m + n] = c
  <2>1. 0 \in 0..m /\ n \in 0..n
    BY <1>2
  <2> QED BY <1>5, <1>6, <1>11, <1>12, <2>1, Zenon
<1> QED BY <1>1, <1>4, <1>10, <1>13, <1>14, Zenon DEF Leads, Traces

LEMMA LeadsNone ==
  ASSUME NEW a \in States
  PROVE  Leads(<<>>, a, a)
<1>1. PICK f : f = [j \in 0..0 |-> a]
  OBVIOUS
<1>2. f \in [0..0 -> States] /\ f[0] = a /\ 1..0 = {} /\ Len(<<>>) = 0
  BY <1>1
<1> QED BY <1>2 DEF Leads, Traces

LEMMA LeadsOne ==
  ASSUME NEW x, NEW a \in States, NEW b \in States, Moves(x, a, b)
  PROVE  Leads(<<x>>, a, b)
<1>1. PICK f : f = [j \in 0..1 |-> IF j = 0 THEN a ELSE b]
  OBVIOUS
<1>2. f \in [0..1 -> States] /\ f[0] = a /\ f[1] = b
  BY <1>1
<1>3. PICK s : s = <<x>>
  OBVIOUS
<1>4. Len(s) = 1 /\ s[1] = x
  BY <1>3
<1>5. \A j \in 1..1 : Moves(s[j], f[j - 1], f[j])
  <2>1. \A j \in 1..1 : j = 1 /\ j - 1 = 0
    OBVIOUS
  <2> QED BY <1>2, <1>4, <2>1, Zenon
<1>6. Leads(s, a, b)
  BY <1>2, <1>4, <1>5, Zenon DEF Leads, Traces
<1> QED BY <1>3, <1>6, Zenon

LEMMA LeadsIndent ==
  ASSUME NEW d \in Int, NEW k \in Nat
  PROVE  Leads(Indent(k), <<d, 1>>, <<d, k + 1>>)
<1>1. PICK s : s = Indent(k)
  OBVIOUS
<1>2. s \in [1..k -> {"space"}]
  BY <1>1 DEF Indent
<1>3. Len(s) = k
  BY <1>2, FunctionIsSeq, Zenon
<1>4. PICK f : f = [j \in 0..k |-> <<d, j + 1>>]
  OBVIOUS
<1>5. f \in [0..k -> States]
  BY <1>4 DEF States
<1>6. ASSUME NEW j \in 1..k PROVE Moves(s[j], f[j - 1], f[j])
  <2>1. s[j] = "space"
    BY <1>2
  <2>2. f[j] = <<d, j + 1>> /\ f[j - 1] = <<d, j>>
    BY <1>4
  <2>3. j # 0
    OBVIOUS
  <2> QED BY <2>1, <2>2, <2>3 DEF Moves
<1>7. f[0] = <<d, 1>> /\ f[k] = <<d, k + 1>>
  BY <1>4
<1>8. Leads(s, <<d, 1>>, <<d, k + 1>>)
  BY <1>3, <1>5, <1>6, <1>7, Zenon DEF Leads, Traces
<1> QED BY <1>1, <1>8, Zenon

\* At the start of a line, at the first mark of one that is indented to the
\* depth, and inside a line.
Fresh(d) == <<d, 1>>
Indented(d) == <<d, 2 * d + 1>>
Inside(d) == <<d, 0>>

LEMMA StateTypes ==
  ASSUME NEW d \in Nat
  PROVE  Fresh(d) \in States /\ Indented(d) \in States /\ Inside(d) \in States
BY DEF Fresh, Indented, Inside, States

\* A token that opens or closes nothing, an opener, and a closer at the
\* depth outside its container.
LEMMA TokenMoves ==
  ASSUME NEW d \in Nat
  PROVE  /\ \A x \in Scalars \cup {",", ":"} :
              Moves(x, Indented(d), Inside(d)) /\ Moves(x, Inside(d), Inside(d))
         /\ \A x \in Openers :
              Moves(x, Indented(d), Inside(d + 1)) /\ Moves(x, Inside(d), Inside(d + 1))
         /\ \A x \in Closers : Moves(x, <<d + 1, 2 * d + 1>>, Inside(d))
         /\ Moves("space", Inside(d), Inside(d))
         /\ Moves("newline", Inside(d), Fresh(d))
<1>1. /\ \A x \in Scalars \cup {",", ":"} : x \notin Openers /\ x \notin Closers
                                              /\ x # "newline" /\ x # "space"
      /\ \A x \in Openers : x \notin Closers /\ x # "newline" /\ x # "space"
      /\ \A x \in Closers : x \notin Openers /\ x # "newline" /\ x # "space"
      /\ "space" # "newline"
  BY DEF Scalars, Openers, Closers
<1>2. \A x \in Scalars \cup {",", ":"} :
        Moves(x, Indented(d), Inside(d)) /\ Moves(x, Inside(d), Inside(d))
  BY <1>1 DEF Moves, Indented, Inside
<1>3. \A x \in Openers :
        Moves(x, Indented(d), Inside(d + 1)) /\ Moves(x, Inside(d), Inside(d + 1))
  BY <1>1 DEF Moves, Indented, Inside
<1>4. ASSUME NEW x \in Closers PROVE Moves(x, <<d + 1, 2 * d + 1>>, Inside(d))
  <2>1. PICK a, b : a = <<d + 1, 2 * d + 1>> /\ b = Inside(d)
    OBVIOUS
  <2>2. a[1] - 1 = d /\ a[2] = 2 * d + 1 /\ b = <<d, 0>>
    BY <2>1 DEF Inside
  <2>3. a[2] = 2 * (a[1] - 1) + 1 /\ b = <<a[1] - 1, 0>>
    BY <2>2
  <2>4. Moves(x, a, b)
    BY <1>1, <2>3, Zenon DEF Moves
  <2> QED BY <2>1, <2>4, Zenon
<1>5. Moves("space", Inside(d), Inside(d))
  BY <1>1 DEF Moves, Inside
<1>6. Moves("newline", Inside(d), Fresh(d))
  BY DEF Moves, Inside, Fresh
<1> QED BY <1>2, <1>3, <1>4, <1>5, <1>6, Zenon

\* The text of a value, where it follows spaces and where it follows a name.
Hangs(text, d) ==
  text \in Seq(Marks) /\ Leads(text, Indented(d), Inside(d)) /\ Leads(text, Inside(d), Inside(d))

LEMMA ScalarHangs ==
  ASSUME NEW d \in Nat, NEW x \in Scalars
  PROVE  Hangs(<<x>>, d)
<1>1. x \in Marks
  BY DEF Marks, Tokens
<1>2. <<x>> \in Seq(Marks)
  BY <1>1
<1> QED BY <1>2, StateTypes, TokenMoves, LeadsOne, Zenon DEF Hangs

LEMMA Pretty ==
  ASSUME NEW ws
  PROVE  IfPretty(2, ws) = <<ws>>
BY DEF IfPretty

LEMMA LeadsThen ==
  ASSUME NEW s \in Seq(Marks), NEW t \in Seq(Marks), NEW a, NEW b, NEW c,
         Leads(s, a, b), Leads(t, b, c)
  PROVE  s \o t \in Seq(Marks) /\ Leads(s \o t, a, c)
<1>1. s \o t \in Seq(Marks)
  BY JoinType, Zenon
<1> QED BY <1>1, LeadsJoin, Zenon

\* The parts of a turn of the loop of writeArray and writeObject.
LEMMA MemberParts ==
  ASSUME NEW d \in Nat
  PROVE  /\ Indent(2 * d) \in Seq(Marks) /\ Leads(Indent(2 * d), Fresh(d), Indented(d))
         /\ <<"string", ":">> \o <<"space">> \in Seq(Marks)
         /\ Leads(<<"string", ":">> \o <<"space">>, Indented(d), Inside(d))
         /\ <<",">> \in Seq(Marks) /\ Leads(<<",">>, Inside(d), Inside(d))
         /\ <<>> \in Seq(Marks)
         /\ Leads(<<>>, Inside(d), Inside(d)) /\ Leads(<<>>, Indented(d), Indented(d))
         /\ <<"newline">> \in Seq(Marks) /\ Leads(<<"newline">>, Inside(d), Fresh(d))
<1>1. /\ Fresh(d) \in States /\ Indented(d) \in States /\ Inside(d) \in States
  BY StateTypes, Zenon
<1>2. /\ "string" \in Marks /\ ":" \in Marks /\ "," \in Marks /\ "space" \in Marks
      /\ "newline" \in Marks /\ "string" \in Scalars
  BY DEF Marks, Tokens, Scalars
<1>3. \A x \in Marks : <<x>> \in Seq(Marks)
  OBVIOUS
<1>4. Leads(Indent(2 * d), Fresh(d), Indented(d))
  <2>1. PICK k : k = 2 * d
    OBVIOUS
  <2>2. k \in Nat /\ d \in Int
    BY <2>1
  <2>3. Leads(Indent(k), <<d, 1>>, <<d, k + 1>>)
    BY <2>2, LeadsIndent, Zenon
  <2> QED BY <2>1, <2>3, Zenon DEF Fresh, Indented
<1>5. Indent(2 * d) \in Seq(Marks)
  <2>1. 2 \in Nat /\ Printed(2) = Marks
    BY DEF Printed
  <2> QED BY <2>1, PieceTypes, Zenon
<1>6. Leads(<<"string", ":">> \o <<"space">>, Indented(d), Inside(d))
      /\ <<"string", ":">> \o <<"space">> \in Seq(Marks)
  <2>1. PICK x, y, z : x = <<"string">> /\ y = <<":">> /\ z = <<"space">>
    OBVIOUS
  <2>2. x \in Seq(Marks) /\ y \in Seq(Marks) /\ z \in Seq(Marks)
    BY <1>2, <1>3, <2>1, Zenon
  <2>3. /\ Leads(x, Indented(d), Inside(d)) /\ Leads(y, Inside(d), Inside(d))
        /\ Leads(z, Inside(d), Inside(d))
    BY <1>1, <1>2, <2>1, TokenMoves, LeadsOne, Zenon
  <2>4. x \o y \in Seq(Marks) /\ Leads(x \o y, Indented(d), Inside(d))
    BY <2>2, <2>3, LeadsThen, Zenon
  <2>5. (x \o y) \o z \in Seq(Marks) /\ Leads((x \o y) \o z, Indented(d), Inside(d))
    BY <2>2, <2>3, <2>4, LeadsThen, Zenon
  <2>6. x \o y = <<"string", ":">>
    <3>1. PICK u, v : u = x \o y /\ v = <<"string", ":">>
      OBVIOUS
    <3>2. Joins(x, y, u, Marks)
      BY <2>2, <3>1, JoinedPlaces, Zenon
    <3>3. Len(x) = 1 /\ Len(y) = 1 /\ x[1] = "string" /\ y[1] = ":"
      BY <2>1
    <3>4. 1 \in 1..1 /\ 1 + 1 = 2
      OBVIOUS
    <3>5. u \in Seq(Marks) /\ Len(u) = 2 /\ u[1] = "string" /\ u[2] = ":"
      BY <3>2, <3>3, <3>4, Zenon DEF Joins
    <3>6. v \in Seq(Marks) /\ Len(v) = 2 /\ v[1] = "string" /\ v[2] = ":"
      <4>1. Len(v) = 2 /\ v[1] = "string" /\ v[2] = ":"
        BY <3>1
      <4>2. v \in Seq(Marks)
        <5>1. 2 \in Nat /\ Printed(2) = Marks
          BY DEF Printed
        <5> QED BY <3>1, <5>1, PieceTypes, Zenon
      <4> QED BY <4>1, <4>2
    <3>7. Len(u) = Len(v) /\ \A j \in 1..Len(u) : u[j] = v[j]
      BY <3>5, <3>6
    <3>8. u = v
      BY <3>5, <3>6, <3>7, SeqEqual
    <3> QED BY <3>1, <3>8, Zenon
  <2> QED BY <2>1, <2>5, <2>6, Zenon
<1>7. Leads(<<",">>, Inside(d), Inside(d)) /\ Leads(<<"newline">>, Inside(d), Fresh(d))
  BY <1>1, TokenMoves, LeadsOne, Zenon
<1>8. <<>> \in Seq(Marks)
  OBVIOUS
<1>9. Leads(<<>>, Inside(d), Inside(d)) /\ Leads(<<>>, Indented(d), Indented(d))
  BY <1>1, LeadsNone, Zenon
<1> QED BY <1>2, <1>3, <1>4, <1>5, <1>6, <1>7, <1>8, <1>9, Zenon

LEMMA MemberLeads ==
  ASSUME NEW d \in Nat, NEW node, NEW texts, NEW i, Hangs(texts[i], d)
  PROVE  Member(node, texts, 2, d, i) \in Seq(Marks)
         /\ Leads(Member(node, texts, 2, d, i), Fresh(d), Fresh(d))
<1>1. PICK a, b, c, e, f, m :
        /\ a = Indent(2 * d)
        /\ b = IF node.typ = "{" THEN <<"string", ":">> \o IfPretty(2, "space") ELSE <<>>
        /\ c = texts[i]
        /\ e = IF i # Len(node.values) THEN <<",">> ELSE <<>>
        /\ f = IfPretty(2, "newline")
        /\ m = IF node.typ = "{" THEN Inside(d) ELSE Indented(d)
  OBVIOUS
<1>2. Member(node, texts, 2, d, i) = (((a \o b) \o c) \o e) \o f
  BY <1>1, Zenon DEF Member
<1>3. a \in Seq(Marks) /\ Leads(a, Fresh(d), Indented(d))
  BY <1>1, MemberParts, Zenon
<1>4. b \in Seq(Marks) /\ Leads(b, Indented(d), m)
  BY <1>1, MemberParts, Pretty, Zenon
<1>5. c \in Seq(Marks) /\ Leads(c, m, Inside(d))
  BY <1>1, Zenon DEF Hangs
<1>6. e \in Seq(Marks) /\ Leads(e, Inside(d), Inside(d))
  BY <1>1, MemberParts, Zenon
<1>7. f \in Seq(Marks) /\ Leads(f, Inside(d), Fresh(d))
  BY <1>1, MemberParts, Pretty, Zenon
<1>8. a \o b \in Seq(Marks) /\ Leads(a \o b, Fresh(d), m)
  BY <1>3, <1>4, LeadsThen, Zenon
<1>9. (a \o b) \o c \in Seq(Marks) /\ Leads((a \o b) \o c, Fresh(d), Inside(d))
  BY <1>5, <1>8, LeadsThen, Zenon
<1>10. ((a \o b) \o c) \o e \in Seq(Marks) /\ Leads(((a \o b) \o c) \o e, Fresh(d), Inside(d))
  BY <1>6, <1>9, LeadsThen, Zenon
<1>11. (((a \o b) \o c) \o e) \o f \in Seq(Marks)
       /\ Leads((((a \o b) \o c) \o e) \o f, Fresh(d), Fresh(d))
  BY <1>7, <1>10, LeadsThen, Zenon
<1> QED BY <1>2, <1>11, Zenon

LEMMA MembersLead ==
  ASSUME NEW d \in Nat, NEW node, NEW texts, Printables(node, texts, 2),
         \A i \in DOMAIN node.values : Hangs(texts[i], d)
  PROVE  Leads(Members(node, texts, 2, d), Fresh(d), Fresh(d))
<1>1. PICK k, ts : k = Len(node.values) /\ ts = Turns(node, texts, 2, d)
  OBVIOUS
<1>2. k \in Nat /\ DOMAIN node.values = 1..k
  BY <1>1 DEF Printables
<1>3. 2 \in Nat /\ Printed(2) = Marks
  BY DEF Printed
<1>4. ts \in Seq(Seq(Marks)) /\ Len(ts) = k
  BY <1>1, <1>3, TurnsType, Zenon
<1>5. PICK f : Chain(f, ts, Marks) /\ FlattenSeq(ts) = f[k]
  BY <1>4, FlattenChain, Zenon
<1>6. /\ f[0] = <<>> /\ \A i \in 1..k : f[i] = f[i - 1] \o ts[i]
      /\ \A i \in 0..k : f[i] \in Seq(Marks)
  BY <1>4, <1>5, Zenon DEF Chain
<1> DEFINE G == {i \in 0..k : Leads(f[i], Fresh(d), Fresh(d))}
<1>7. ASSUME NEW i \in 0..k, \A j \in 0..(i - 1) : j \in G PROVE i \in G
  <2>1. CASE i = 0
    <3>1. Leads(f[i], Fresh(d), Fresh(d))
      BY <1>6, <2>1, StateTypes, LeadsNone, Zenon
    <3> QED BY <3>1, Zenon
  <2>2. CASE i # 0
    <3>1. i \in 1..k /\ i - 1 \in 0..(i - 1) /\ i - 1 \in 0..k
      BY <1>2, <2>2
    <3>2. Leads(f[i - 1], Fresh(d), Fresh(d))
      BY <1>7, <3>1, Zenon
    <3>3. ts[i] = Member(node, texts, 2, d, i) /\ Hangs(texts[i], d)
      BY <1>1, <1>2, <3>1, Zenon DEF Turns
    <3>4. ts[i] \in Seq(Marks) /\ Leads(ts[i], Fresh(d), Fresh(d))
      BY <3>3, MemberLeads, Zenon
    <3>5. f[i - 1] \in Seq(Marks)
      BY <1>6, <3>1, Zenon
    <3>6. Leads(f[i - 1] \o ts[i], Fresh(d), Fresh(d))
      BY <3>2, <3>4, <3>5, LeadsThen
    <3>7. Leads(f[i], Fresh(d), Fresh(d))
      BY <1>6, <3>1, <3>6, Zenon
    <3> QED BY <3>7, Zenon
  <2> QED BY <2>1, <2>2, Zenon
<1> HIDE DEF G
<1>8. \A i \in 0..k : i \in G
  BY <1>2, <1>7, FromLeft
<1>9. k \in G
  BY <1>2, <1>8
<1> QED BY <1>1, <1>5, <1>9, MembersAreTurns, Zenon DEF G

LEMMA ContainerHangs ==
  ASSUME NEW d \in Nat, NEW node, NEW texts, Printables(node, texts, 2), node.typ \in Openers,
         NEW level, level = d + 1,
         \A i \in DOMAIN node.values : Hangs(texts[i], level)
  PROVE  Hangs(Container(node, texts, 2, level), d)
<1>1. PICK a, b, c, e, f :
        /\ a = <<node.typ>> /\ b = IfPretty(2, "newline")
        /\ c = Members(node, texts, 2, level)
        /\ e = Indent(2 * (level - 1)) /\ f = <<Closer(node.typ)>>
  OBVIOUS
<1>2. Container(node, texts, 2, level) = (((a \o b) \o c) \o e) \o f
  BY <1>1, ContainerIs, Zenon
<1>3. level \in Nat /\ level \in Nat \ {0} /\ level - 1 = d
  OBVIOUS
<1>4. 2 \in Nat /\ Printed(2) = Marks
  BY DEF Printed
<1>5. a \in Seq(Marks) /\ b \in Seq(Marks) /\ c \in Seq(Marks) /\ e \in Seq(Marks) /\ f \in Seq(Marks)
  BY <1>1, <1>3, <1>4, ContainerParts, Zenon
<1>6. Leads(a, Indented(d), Inside(level)) /\ Leads(a, Inside(d), Inside(level))
  BY <1>1, <1>3, StateTypes, TokenMoves, LeadsOne, Zenon
<1>7. Leads(b, Inside(level), Fresh(level))
  BY <1>1, <1>3, MemberParts, Pretty, Zenon
<1>8. Leads(c, Fresh(level), Fresh(level))
  BY <1>1, <1>3, MembersLead, Zenon
<1>9. Leads(e, Fresh(level), <<level, 2 * d + 1>>)
  <2>1. PICK k : k = 2 * d
    OBVIOUS
  <2>2. k \in Nat /\ level \in Int
    BY <2>1
  <2>3. Leads(Indent(k), <<level, 1>>, <<level, k + 1>>)
    BY <2>2, LeadsIndent, Zenon
  <2> QED BY <1>1, <1>3, <2>1, <2>3, Zenon DEF Fresh
<1>10. Leads(f, <<level, 2 * d + 1>>, Inside(d))
  <2>1. Closer(node.typ) \in Closers
    BY DEF Closer, Closers
  <2>2. <<level, 2 * d + 1>> \in States
    BY DEF States
  <2> QED BY <1>1, <2>1, <2>2, StateTypes, TokenMoves, LeadsOne, Zenon
<1>11. ASSUME NEW x, Leads(a, x, Inside(level))
       PROVE  /\ Leads((((a \o b) \o c) \o e) \o f, x, Inside(d))
              /\ (((a \o b) \o c) \o e) \o f \in Seq(Marks)
  <2>1. a \o b \in Seq(Marks) /\ Leads(a \o b, x, Fresh(level))
    BY <1>5, <1>7, <1>11, LeadsThen, Zenon
  <2>2. (a \o b) \o c \in Seq(Marks) /\ Leads((a \o b) \o c, x, Fresh(level))
    BY <1>5, <1>8, <2>1, LeadsThen, Zenon
  <2>3. ((a \o b) \o c) \o e \in Seq(Marks)
        /\ Leads(((a \o b) \o c) \o e, x, <<level, 2 * d + 1>>)
    BY <1>5, <1>9, <2>2, LeadsThen, Zenon
  <2>4. PICK p : p = ((a \o b) \o c) \o e
    OBVIOUS
  <2>5. PICK y, z : y = <<level, 2 * d + 1>> /\ z = Inside(d)
    OBVIOUS
  <2>6. p \in Seq(Marks) /\ Leads(p, x, y) /\ f \in Seq(Marks) /\ Leads(f, y, z)
    BY <1>5, <1>10, <2>3, <2>4, <2>5, Zenon
  <2>7. p \o f \in Seq(Marks) /\ Leads(p \o f, x, z)
    BY <2>6, LeadsThen
  <2> QED BY <2>4, <2>5, <2>7, Zenon
<1> QED BY <1>2, <1>6, <1>11, Zenon DEF Hangs

\* Every text that write makes of a node, at the depth it is written at.
LEMMA NodesHang ==
  ASSUME tree \in Seq(NodeType), Forward, NEW w, Writes(w, 2)
  PROVE  \A m \in 1..Len(tree) : \A d \in Nat : Hangs(w[m][d + 1], d)
<1> DEFINE G == {m \in 1..Len(tree) : \A d \in Nat : Hangs(w[m][d + 1], d)}
<1>1. ASSUME NEW m \in 1..Len(tree), \A k \in (m + 1)..Len(tree) : k \in G PROVE m \in G
  <2>1. ASSUME NEW d \in Nat PROVE Hangs(w[m][d + 1], d)
    <3>1. PICK level : level = d + 1
      OBVIOUS
    <3>2. level \in Nat /\ level # 0 /\ Level(level) = level
      BY <3>1 DEF Level
    <3>3. w[m][level] = Body(w, m, 2, level)
      BY <3>2, Zenon DEF Writes
    <3>4. m \in Nodes(tree)
      BY DEF Nodes
    <3>5. tree[m].typ \in Scalars \cup Openers /\ m \in DOMAIN tree
      BY <3>4, ValuesOf, Zenon
    <3>6. CASE tree[m].typ \in Scalars
      <4>1. w[m][level] = <<tree[m].typ>>
        BY <3>3, <3>6, Zenon DEF Body
      <4>2. Hangs(<<tree[m].typ>>, d)
        BY <3>6, ScalarHangs, Zenon
      <4> QED BY <3>1, <4>1, <4>2, Zenon
    <3>7. CASE tree[m].typ \notin Scalars
      <4>1. PICK texts : texts = TextsOf(w, m, level)
        OBVIOUS
      <4>2. w[m][level] = Container(tree[m], texts, 2, level)
        BY <3>2, <3>3, <3>7, <4>1, Zenon DEF Body, TextsOf
      <4>3. Printables(tree[m], texts, 2)
        <5>1. 2 \in Nat
          OBVIOUS
        <5> QED BY <3>2, <3>4, <4>1, <5>1, TextsType, Zenon
      <4>4. ASSUME NEW i \in DOMAIN tree[m].values PROVE Hangs(texts[i], level)
        <5>1. tree[m].values[i] \in (m + 1)..Len(tree)
          BY <3>5, Zenon DEF Forward
        <5>2. tree[m].values[i] \in G
          BY <1>1, <5>1, Zenon
        <5>3. Hangs(w[tree[m].values[i]][level + 1], level)
          BY <3>2, <5>2, Zenon
        <5>4. texts[i] = w[tree[m].values[i]][level + 1]
          BY <4>1, Zenon DEF TextsOf
        <5> QED BY <5>3, <5>4, Zenon
      <4>5. tree[m].typ \in Openers
        BY <3>5, <3>7, Zenon
      <4>6. Hangs(Container(tree[m], texts, 2, level), d)
        BY <3>1, <4>3, <4>4, <4>5, ContainerHangs, Zenon
      <4> QED BY <3>1, <4>2, <4>6, Zenon
    <3> QED BY <3>6, <3>7, Zenon
  <2> QED BY <2>1, Zenon
<1> HIDE DEF G
<1>2. 1 \in Nat /\ Len(tree) \in Nat
  OBVIOUS
<1>3. \A m \in 1..Len(tree) : m \in G
  BY <1>1, <1>2, FromRight, Zenon
<1> QED BY <1>3, Zenon DEF G

\* The containers that are open behind the first k marks of s.
Places(s, k, P) == {j \in 1..k : s[j] \in P}
OpensTo(s, k) == Places(s, k, Openers)
ClosesTo(s, k) == Places(s, k, Closers)

LEMMA OneMoreMark ==
  ASSUME NEW s, NEW k \in Nat, NEW P
  PROVE  Cardinality(Places(s, k + 1, P))
           = IF s[k + 1] \in P THEN Cardinality(Places(s, k, P)) + 1
             ELSE Cardinality(Places(s, k, P))
<1>0. PICK A, B : A = Places(s, k, P) /\ B = Places(s, k + 1, P)
  OBVIOUS
<1>1. /\ A = {j \in 1..k : s[j] \in P}
      /\ B = {j \in 1..(k + 1) : s[j] \in P}
  BY <1>0, Zenon DEF Places
<1>2. IsFiniteSet(A)
  <2>1. A \subseteq 1..k
    BY <1>1
  <2>2. IsFiniteSet(1..k)
    BY FS_Interval
  <2> QED BY <2>1, <2>2, FS_Subset
<1>4. k + 1 \notin A
  BY <1>1
<1>5. CASE s[k + 1] \in P
  <2>1. B = A \cup {k + 1}
    BY <1>1, <1>5
  <2>2. Cardinality(B) = Cardinality(A) + 1
    BY <1>2, <1>4, <2>1, FS_AddElement
  <2> QED BY <1>0, <1>5, <2>2, Zenon
<1>6. CASE s[k + 1] \notin P
  <2>1. B = A
    <3>1. \A j \in 1..(k + 1) : j \in 1..k \/ j = k + 1
      OBVIOUS
    <3>2. \A j \in 1..k : j \in 1..(k + 1)
      OBVIOUS
    <3> QED BY <1>1, <1>6, <3>1, <3>2, Zenon
  <2> QED BY <1>0, <1>6, <2>1, Zenon
<1> QED BY <1>5, <1>6, Zenon

\* The depth of a state is the number of the containers that are open there.
LEMMA DepthCounts ==
  ASSUME NEW s \in Seq(Marks), NEW f, Traces(s, f), f[0] = Inside(0)
  PROVE  \A k \in 0..Len(s) :
           /\ Cardinality(OpensTo(s, k)) \in Nat /\ Cardinality(ClosesTo(s, k)) \in Nat
           /\ f[k][1] = Cardinality(OpensTo(s, k)) - Cardinality(ClosesTo(s, k))
<1> DEFINE O(k) == Cardinality(OpensTo(s, k))
           C(k) == Cardinality(ClosesTo(s, k))
           G == {k \in 0..Len(s) : O(k) \in Nat /\ C(k) \in Nat /\ f[k][1] = O(k) - C(k)}
<1>1. Len(s) \in Nat
  OBVIOUS
<1>2. ASSUME NEW k \in 0..Len(s), \A j \in 0..(k - 1) : j \in G PROVE k \in G
  <2>1. CASE k = 0
    <3>1. OpensTo(s, 0) = {} /\ ClosesTo(s, 0) = {}
      BY DEF OpensTo, ClosesTo, Places
    <3>2. O(0) = 0 /\ C(0) = 0
      BY <3>1, FS_EmptySet
    <3>3. f[0][1] = 0
      BY DEF Inside
    <3>4. O(k) \in Nat /\ C(k) \in Nat /\ f[k][1] = O(k) - C(k)
      BY <2>1, <3>2, <3>3
    <3> QED BY <3>4, Zenon
  <2>2. CASE k # 0
    <3>1. PICK l : l = k - 1
      OBVIOUS
    <3>2. l \in 0..(k - 1) /\ l \in Nat /\ l + 1 = k /\ k \in 1..Len(s) /\ l \in 0..Len(s)
      BY <1>1, <2>2, <3>1
    <3>3. O(l) \in Nat /\ C(l) \in Nat /\ f[l][1] = O(l) - C(l)
      BY <1>2, <3>2, Zenon
    <3>4. /\ O(k) = IF s[k] \in Openers THEN O(l) + 1 ELSE O(l)
          /\ C(k) = IF s[k] \in Closers THEN C(l) + 1 ELSE C(l)
      BY <3>2, OneMoreMark DEF OpensTo, ClosesTo
    <3>5. Moves(s[k], f[l], f[k]) /\ f[l] \in States /\ f[k] \in States
      BY <3>1, <3>2, Zenon DEF Traces
    <3>6. f[k][1] = IF s[k] \in Openers THEN f[l][1] + 1
                    ELSE IF s[k] \in Closers THEN f[l][1] - 1 ELSE f[l][1]
      <4>1. PICK x, a, b : x = s[k] /\ a = f[l] /\ b = f[k]
        OBVIOUS
      <4>2. Moves(x, a, b)
        BY <3>5, <4>1, Zenon
      <4>3. b[1] = IF x \in Openers THEN a[1] + 1 ELSE IF x \in Closers THEN a[1] - 1 ELSE a[1]
        <5>1. "newline" \notin Openers \cup Closers /\ "space" \notin Openers \cup Closers
          BY DEF Openers, Closers
        <5>2. CASE x = "newline"
          BY <4>2, <5>1, <5>2 DEF Moves
        <5>3. CASE x # "newline" /\ x = "space"
          BY <4>2, <5>1, <5>3 DEF Moves
        <5>4. CASE x # "newline" /\ x # "space"
          BY <4>2, <5>4 DEF Moves
        <5> QED BY <5>2, <5>3, <5>4, Zenon
      <4> QED BY <4>1, <4>3, Zenon
    <3>7. s[k] \in Openers => s[k] \notin Closers
      BY DEF Openers, Closers
    <3>8. PICK o, c, p, q, d, e : /\ o = O(l) /\ c = C(l) /\ p = O(k) /\ q = C(k)
                                  /\ d = f[l][1] /\ e = f[k][1]
      OBVIOUS
    <3>9. p \in Nat /\ q \in Nat /\ e = p - q
      <4> HIDE DEF O, C
      <4> QED BY <3>3, <3>4, <3>6, <3>7, <3>8
    <3>10. O(k) \in Nat /\ C(k) \in Nat /\ f[k][1] = O(k) - C(k)
      BY <3>8, <3>9, Zenon
    <3> QED BY <3>10, Zenon
  <2> QED BY <2>1, <2>2, Zenon
<1> HIDE DEF G
<1>3. \A k \in 0..Len(s) : k \in G
  BY <1>1, <1>2, FromLeft
<1> QED BY <1>3, Zenon DEF G

\* j is the first mark from i on that is not a space.
FirstMark(s, i, j) ==
  j \in i..Len(s) /\ s[j] # "space" /\ \A k \in i..(j - 1) : s[k] = "space"

LEMMA LineBegins ==
  ASSUME NEW s \in Seq(Marks), NEW f, Traces(s, f), NEW i \in 1..Len(s),
         s[i] = "newline", f[Len(s)] = Inside(0)
  PROVE  \E j : FirstMark(s, i + 1, j) /\ s[j] # "newline"
                /\ f[j - 1][2] = j - i /\ f[j - 1][1] \in Int
<1>1. Len(s) \in Nat /\ i \in Nat /\ i \in 0..Len(s) /\ i - 1 \in 0..Len(s)
  OBVIOUS
<1>2. /\ f \in [0..Len(s) -> States] /\ \A k \in 1..Len(s) : Moves(s[k], f[k - 1], f[k])
  BY Zenon DEF Traces
<1>3. f[i][2] = 1
  <2>1. PICK a, b : a = f[i - 1] /\ b = f[i]
    OBVIOUS
  <2>2. Moves("newline", a, b)
    BY <1>2, <2>1, Zenon
  <2>3. b[2] = 1
    BY <2>2 DEF Moves
  <2> QED BY <2>1, <2>3, Zenon
\* Spaces behind the line end are counted.
<1>4. ASSUME NEW z \in i..Len(s), \A k \in (i + 1)..z : s[k] = "space"
      PROVE  f[z][2] = z - i + 1
  <2> DEFINE G == {k \in i..z : f[k][2] = k - i + 1}
  <2>1. ASSUME NEW k \in i..z, \A l \in i..(k - 1) : l \in G PROVE k \in G
    <3>1. CASE k = i
      <4>1. f[k][2] = k - i + 1
        BY <1>1, <1>3, <3>1
      <4> QED BY <4>1, Zenon
    <3>2. CASE k # i
      <4>1. PICK l : l = k - 1
        OBVIOUS
      <4>2. /\ l \in i..(k - 1) /\ k \in 1..Len(s) /\ k \in (i + 1)..z
            /\ l - i + 1 # 0 /\ (l - i + 1) + 1 = k - i + 1
        BY <1>1, <3>2, <4>1
      <4>3. f[l][2] = l - i + 1
        BY <2>1, <4>2, Zenon
      <4>4. PICK a, b : a = f[l] /\ b = f[k]
        OBVIOUS
      <4>5. Moves("space", a, b)
        BY <1>2, <1>4, <4>1, <4>2, <4>4, Zenon
      <4>6. b[2] = IF a[2] = 0 THEN 0 ELSE a[2] + 1
        <5>1. "space" # "newline"
          OBVIOUS
        <5> QED BY <4>5, <5>1 DEF Moves
      <4>7. f[k][2] = k - i + 1
        BY <4>2, <4>3, <4>4, <4>6, Zenon
      <4> QED BY <4>7, Zenon
    <3> QED BY <3>1, <3>2, Zenon
  <2> HIDE DEF G
  <2>2. z \in Nat /\ i \in Nat
    BY <1>1
  <2>3. \A k \in i..z : k \in G
    BY <2>1, <2>2, FromLeft
  <2>4. z \in G
    BY <1>1, <2>2, <2>3
  <2> QED BY <2>4, Zenon DEF G
<1> DEFINE D == {j \in (i + 1)..Len(s) : s[j] # "space"}
<1>5. D # {}
  <2> SUFFICES ASSUME D = {} PROVE FALSE
    OBVIOUS
  <2>1. \A k \in (i + 1)..Len(s) : s[k] = "space"
    OBVIOUS
  <2>2. Len(s) \in i..Len(s)
    BY <1>1
  <2>3. f[Len(s)][2] = Len(s) - i + 1
    BY <1>4, <2>1, <2>2, Zenon
  <2>4. f[Len(s)][2] = 0
    BY DEF Inside
  <2> QED BY <1>1, <2>3, <2>4
<1>6. PICK j \in D : \A e \in D : j <= e
  <2>1. D \subseteq Nat
    BY <1>1
  <2> HIDE DEF D
  <2> QED BY <1>5, <2>1, Least
<1>7. j \in (i + 1)..Len(s) /\ s[j] # "space"
  BY <1>6
<1>8. ASSUME NEW k \in (i + 1)..(j - 1) PROVE s[k] = "space"
  <2>1. k \in (i + 1)..Len(s) /\ ~ (j <= k)
    BY <1>1, <1>7
  <2>2. k \notin D
    <3> HIDE DEF D
    <3> QED BY <1>6, <2>1
  <2> QED BY <2>1, <2>2
<1> HIDE DEF D
<1>9. FirstMark(s, i + 1, j)
  BY <1>7, <1>8, Zenon DEF FirstMark
<1>10. j - 1 \in i..Len(s) /\ j - 1 \in 0..Len(s) /\ j \in 1..Len(s) /\ (j - 1) - i + 1 = j - i
       /\ j - i # 0
  BY <1>1, <1>7
<1>11. f[j - 1][2] = j - i
  BY <1>4, <1>8, <1>10, Zenon
<1>12. f[j - 1][1] \in Int
  <2>1. f[j - 1] \in States
    BY <1>2, <1>10, Zenon
  <2> QED BY <2>1 DEF States
<1>13. s[j] # "newline"
  <2> SUFFICES ASSUME s[j] = "newline" PROVE FALSE
    OBVIOUS
  <2>1. PICK a, b : a = f[j - 1] /\ b = f[j]
    OBVIOUS
  <2>2. Moves("newline", a, b)
    BY <1>2, <1>10, <2>1, Zenon
  <2>3. a[2] = 0
    BY <2>2 DEF Moves
  <2> QED BY <1>10, <1>11, <2>1, <2>3, Zenon
<1> QED BY <1>9, <1>11, <1>12, <1>13, Zenon

\* In a text that leads from the margin back to it, lines are indented by
\* their depth.
LEMMA LinesOf ==
  ASSUME NEW text \in Seq(Marks), Leads(text, Inside(0), Inside(0)),
         NEW i \in DOMAIN text, text[i] = "newline"
  PROVE  \E j : /\ FirstMark(text, i + 1, j)
                /\ j - (i + 1) = 2 * (Cardinality(OpensTo(text, j - 1))
                                        - Cardinality(ClosesTo(text, j)))
<1>1. PICK f : Traces(text, f) /\ f[0] = Inside(0) /\ f[Len(text)] = Inside(0)
  BY Zenon DEF Leads
<1>2. Len(text) \in Nat /\ i \in 1..Len(text) /\ i \in Nat
  OBVIOUS
<1>3. PICK j : FirstMark(text, i + 1, j) /\ text[j] # "newline"
               /\ f[j - 1][2] = j - i /\ f[j - 1][1] \in Int
  BY <1>1, <1>2, LineBegins, Zenon
<1>4. j \in (i + 1)..Len(text) /\ text[j] # "space"
  BY <1>3, Zenon DEF FirstMark
<1>5. PICK l : l = j - 1
  OBVIOUS
<1>6. /\ l \in Nat /\ l + 1 = j /\ l \in 0..Len(text) /\ j \in 1..Len(text) /\ j \in Int
      /\ j - i # 0
  BY <1>2, <1>4, <1>5
<1>7. PICK o, c, d : /\ o = Cardinality(OpensTo(text, l)) /\ c = Cardinality(ClosesTo(text, l))
                     /\ d = Cardinality(ClosesTo(text, j))
  OBVIOUS
<1>8. o \in Nat /\ c \in Nat /\ f[l][1] = o - c
  BY <1>1, <1>6, <1>7, DepthCounts, Zenon
<1>9. d = IF text[j] \in Closers THEN c + 1 ELSE c
  BY <1>6, <1>7, OneMoreMark DEF ClosesTo
<1>10. Moves(text[j], f[l], f[j])
  BY <1>1, <1>5, <1>6, Zenon DEF Traces
<1>11. j - i = 2 * (IF text[j] \in Closers THEN f[l][1] - 1 ELSE f[l][1]) + 1
  <2>1. PICK x, a, b : x = text[j] /\ a = f[l] /\ b = f[j]
    OBVIOUS
  <2>2. Moves(x, a, b) /\ x # "newline" /\ x # "space" /\ a[2] = j - i /\ a[2] # 0
    BY <1>3, <1>4, <1>5, <1>6, <1>10, <2>1, Zenon
  <2>3. a[2] = 2 * (IF x \in Closers THEN a[1] - 1 ELSE a[1]) + 1
    BY <2>2, Zenon DEF Moves
  <2> QED BY <2>1, <2>2, <2>3, Zenon
<1>12. PICK e : e = f[l][1]
  OBVIOUS
<1>13. e = o - c /\ j - i = 2 * (IF text[j] \in Closers THEN e - 1 ELSE e) + 1
  BY <1>8, <1>11, <1>12, Zenon
<1>14. j - (i + 1) = 2 * (o - d)
  <2>1. CASE text[j] \in Closers
    <3>1. d = c + 1 /\ j - i = 2 * (e - 1) + 1
      BY <1>9, <1>13, <2>1, Zenon
    <3> QED BY <1>2, <1>6, <1>8, <1>13, <3>1
  <2>2. CASE text[j] \notin Closers
    <3>1. d = c /\ j - i = 2 * e + 1
      BY <1>9, <1>13, <2>2, Zenon
    <3> QED BY <1>2, <1>6, <1>8, <1>13, <3>1
  <2> QED BY <2>1, <2>2
<1> QED BY <1>3, <1>5, <1>7, <1>14, Zenon

\* In indented text every line begins with two spaces for each container that
\* is open where its first token stands, one that the token closes not counted
\* (the levels that write, writeArray and writeObject pass each other).
THEOREM LinesAreIndented == Spec => []LinesIndented
<1>1. ASSUME IInv, Layout PROVE LinesIndented
  <2> SUFFICES ASSUME status = "true" PROVE LinesIndented
    BY DEF LinesIndented
  <2>1. 1 \in Nodes(tree) /\ Forward
    BY <1>1, AllShut, Zenon
  <2>2. tree \in Seq(NodeType) /\ DOMAIN tree = Nodes(tree)
    BY <1>1, ShutNow, Zenon
  <2>3. 0 \in Nat /\ 1 \in Nat /\ 2 \in Nat /\ 0 + 1 = 1 /\ 1 \in 1..Len(tree) /\ Printed(2) = Marks
    BY <2>1 DEF Nodes, Printed
  <2>4. PICK w : Writes(w, 2) /\ \A n \in DOMAIN tree : \A given \in Nat :
                                   Write(n, 2, given) = w[n][given]
    BY <2>1, <2>2, <2>3, WriteIs, Zenon
  <2>5. w[1][0] = w[1][1]
    <3>1. Body(w, 1, 2, 0) = Body(w, 1, 2, 1)
      <4>1. Level(0) = 1 /\ Level(1) = 1
        BY DEF Level
      <4> QED BY <4>1, Zenon DEF Body
    <3>2. \A given \in Nat : w[1][given] = Body(w, 1, 2, given)
      BY <2>3, <2>4, Zenon DEF Writes
    <3>3. w[1][0] = Body(w, 1, 2, 0) /\ w[1][1] = Body(w, 1, 2, 1)
      BY <2>3, <3>2, Zenon
    <3> QED BY <3>1, <3>3, Zenon
  <2>6. Hangs(w[1][0 + 1], 0)
    BY <2>1, <2>2, <2>3, <2>4, NodesHang, Zenon
  <2>7. PICK text : text = Write(1, 2, 0)
    OBVIOUS
  <2>8. text \in Seq(Marks) /\ Leads(text, Inside(0), Inside(0))
    <3>1. text = w[1][0]
      BY <2>1, <2>2, <2>3, <2>4, <2>7, Zenon
    <3> QED BY <2>3, <2>5, <2>6, <3>1, Zenon DEF Hangs
  <2> DEFINE next(i) == CHOOSE j \in i..Len(text) :
                          text[j] # "space" /\ \A k \in i..(j - 1) : text[k] = "space"
             open(j) == Cardinality({k \in 1..(j - 1) : text[k] \in Openers})
                          - Cardinality({k \in 1..j : text[k] \in Closers})
  <2>9. ASSUME NEW i \in DOMAIN text, text[i] = "newline"
        PROVE  next(i + 1) - (i + 1) = 2 * open(next(i + 1))
    <3>1. PICK j : /\ FirstMark(text, i + 1, j)
                   /\ j - (i + 1) = 2 * (Cardinality(OpensTo(text, j - 1))
                                           - Cardinality(ClosesTo(text, j)))
      BY <2>8, <2>9, LinesOf
    <3>2. ASSUME NEW n, FirstMark(text, i + 1, n) PROVE n = j
      <4>1. Len(text) \in Nat /\ i \in Nat
        BY <2>8
      <4>2. n \in (i + 1)..Len(text) /\ j \in (i + 1)..Len(text)
        BY <3>1, <3>2, Zenon DEF FirstMark
      <4>3. ~ (n \in (i + 1)..(j - 1)) /\ ~ (j \in (i + 1)..(n - 1))
        BY <3>1, <3>2, Zenon DEF FirstMark
      <4> QED BY <4>1, <4>2, <4>3
    <3>3. next(i + 1) = CHOOSE n : FirstMark(text, i + 1, n)
      BY Zenon DEF FirstMark
    <3>4. next(i + 1) = j
      <4>1. FirstMark(text, i + 1, CHOOSE n : FirstMark(text, i + 1, n))
        BY <3>1, Zenon
      <4> QED BY <3>2, <3>3, <4>1, Zenon
    <3>5. open(j) = Cardinality(OpensTo(text, j - 1)) - Cardinality(ClosesTo(text, j))
      BY Zenon DEF OpensTo, ClosesTo, Places
    <3> HIDE DEF next, open
    <3> QED BY <3>1, <3>4, <3>5, Zenon
  <2> QED BY <2>7, <2>9, Zenon DEF LinesIndented
<1> QED BY <1>1, LayoutHolds, PTL
=============================================================================
