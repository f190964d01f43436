----------------------------- MODULE NamedArgs -----------------------------
(***************************************************************************)
(* transformNamedArguments of rpc/server.cpp, loop by loop: the map argsIn *)
(* is filled from the params object, then every declared pattern either    *)
(* takes its argument out of the map, preceded by a null for each pattern  *)
(* skipped since the last one found, or becomes one more hole; names left  *)
(* in the map at the end are an error.                                     *)
(***************************************************************************)
EXTENDS ArgContract

CONSTANTS
  Names,      \* member names and aliases
  KeySeqs,    \* the params objects considered: sequences of member names
  ArgSpecs    \* the argument lists considered: sequences of patterns

ASSUME ArgsAssumption ==
  /\ KeySeqs \subseteq Seq(Names)
  /\ ArgSpecs \subseteq Seq(Seq(Names))
  /\ \A spec \in ArgSpecs : DisjointAliases(spec)

VARIABLES
  keys,       \* in.params.getKeys(); value i is in.params.getValues()[i]
  argNames,   \* the command's patterns, already split at "|"
  read,       \* members copied into argsIn so far
  argsIn,     \* name -> position of its value, 0 when not in the map
  pos,        \* patterns processed so far
  hole,       \* patterns without an argument since the last one with one
  params,     \* out.params
  outcome     \* "running", "returned" or "threw"

vars == <<keys, argNames, read, argsIn, pos, hole, params, outcome>>

Init ==
  /\ keys \in KeySeqs
  /\ argNames \in ArgSpecs
  /\ read = 0
  /\ argsIn = [x \in Names |-> 0]
  /\ pos = 0
  /\ hole = 0
  /\ params = <<>>
  /\ outcome = "running"

\* Mutant of InsertArg: the name gets the value of the next member.
InsertNextValue ==
  /\ read < Len(keys)
  /\ argsIn' = [argsIn EXCEPT ![keys[read + 1]] = read + 2]
  /\ read' = read + 1
  /\ UNCHANGED <<keys, argNames, pos, hole, params, outcome>>

\* argsIn[keys[i]] = &values[i];
InsertArg ==
  /\ read < Len(keys)
  /\ argsIn' = [argsIn EXCEPT ![keys[read + 1]] = read + 1]
  /\ read' = read + 1
  /\ UNCHANGED <<keys, argNames, pos, hole, params, outcome>>

InMap(pattern) == {a \in DOMAIN pattern : argsIn[pattern[a]] # 0}

Nulls(n) == [i \in 1..n |-> NullArg]

AtPattern == read = Len(keys) /\ pos < Len(argNames)

\* Mutants of TakeArg: the hole is not reset; the name is not erased.
TakeKeepingHole ==
  /\ AtPattern
  /\ LET pattern == argNames[pos + 1]
     IN  \E a \in InMap(pattern) :
           /\ \A b \in InMap(pattern) : a <= b
           /\ params' = (params \o Nulls(hole)) \o <<argsIn[pattern[a]]>>
           /\ argsIn' = [argsIn EXCEPT ![pattern[a]] = 0]
  /\ pos' = pos + 1
  /\ UNCHANGED <<keys, argNames, read, hole, outcome>>

TakeWithoutErase ==
  /\ AtPattern
  /\ LET pattern == argNames[pos + 1]
     IN  \E a \in InMap(pattern) :
           /\ \A b \in InMap(pattern) : a <= b
           /\ params' = (params \o Nulls(hole)) \o <<argsIn[pattern[a]]>>
  /\ hole' = 0
  /\ pos' = pos + 1
  /\ UNCHANGED <<keys, argNames, read, argsIn, outcome>>

\* fr != argsIn.end(): fill the hole, push the value, erase the name.
TakeArg ==
  /\ AtPattern
  /\ LET pattern == argNames[pos + 1]
     IN  \E a \in InMap(pattern) :
           /\ \A b \in InMap(pattern) : a <= b
           /\ params' = (params \o Nulls(hole)) \o <<argsIn[pattern[a]]>>
           /\ argsIn' = [argsIn EXCEPT ![pattern[a]] = 0]
  /\ hole' = 0
  /\ pos' = pos + 1
  /\ UNCHANGED <<keys, argNames, read, outcome>>

\* fr == argsIn.end(): hole += 1.
SkipArg ==
  /\ AtPattern
  /\ InMap(argNames[pos + 1]) = {}
  /\ hole' = hole + 1
  /\ pos' = pos + 1
  /\ UNCHANGED <<keys, argNames, read, argsIn, params, outcome>>

\* if (!argsIn.empty()) throw RPC_INVALID_PARAMETER; return out;
Finish ==
  /\ outcome = "running"
  /\ read = Len(keys)
  /\ pos = Len(argNames)
  /\ outcome' = IF \E x \in Names : argsIn[x] # 0 THEN "threw" ELSE "returned"
  /\ UNCHANGED <<keys, argNames, read, argsIn, pos, hole, params>>

Next == InsertArg \/ TakeArg \/ SkipArg \/ Finish

Spec == Init /\ [][Next]_vars
-----------------------------------------------------------------------------
TypeOK ==
  /\ keys \in KeySeqs
  /\ argNames \in ArgSpecs
  /\ read \in 0..Len(keys)
  /\ argsIn \in [Names -> 0..Len(keys)]
  /\ pos \in 0..Len(argNames)
  /\ hole \in Nat
  /\ params \in Seq(Nat)
  /\ outcome \in {"running", "returned", "threw"}

\* The vector handed to a command's actor is the one its argument list
\* promises: each given argument at its own position, nulls only between
\* given arguments, nothing after the last (transformNamedArguments).
ReturnsPositional == outcome = "returned" => IsPositional(params, keys, argNames)

\* A call is refused exactly when it has a name no argument of the command
\* takes; no argument is dropped silently and none is refused by mistake.
ThrowsOnUnknownOnly ==
  /\ outcome = "threw" => UnknownNames(keys, argNames) # {}
  /\ outcome = "returned" => UnknownNames(keys, argNames) = {}
-----------------------------------------------------------------------------
(* The inductive invariant behind the two properties.                      *)

\* While the map is being filled it holds the last value read of each name.
MapHoldsPrefix ==
  pos = 0 =>
    \A x \in Names :
      /\ argsIn[x] # 0 => argsIn[x] <= read /\ keys[argsIn[x]] = x
      /\ \A j \in 1..read : keys[j] = x => j <= argsIn[x]

\* The processed patterns found their argument under an alias of theirs.
TakenNames ==
  {ChosenName(keys, argNames[p]) : p \in {q \in 1..pos : Given(keys, argNames[q])}}

TakenFromOwnPattern ==
  \A p \in 1..pos :
    Given(keys, argNames[p]) =>
      ChosenName(keys, argNames[p]) \in Range(argNames[p]) \cap Range(keys)

\* Once filled the map holds every value no processed pattern has taken.
MapHoldsRest ==
  read = Len(keys) =>
    \A x \in Names :
      /\ argsIn[x] = IF x \in TakenNames THEN 0 ELSE ValueOf(keys, x)
      /\ x \in Range(keys) => ValueOf(keys, x) # 0

\* The vector built so far is positional for the patterns processed so far.
VectorSoFar ==
  /\ pos # 0 => read = Len(keys)
  /\ Len(params) + hole = pos
  /\ Len(params) # 0 => Given(keys, argNames[Len(params)])
  /\ \A p \in (Len(params) + 1)..pos : ~ Given(keys, argNames[p])
  /\ \A p \in DOMAIN params :
       params[p] = IF Given(keys, argNames[p])
                   THEN ValueOf(keys, ChosenName(keys, argNames[p]))
                   ELSE NullArg

Settled ==
  /\ outcome # "running" => read = Len(keys) /\ pos = Len(argNames)
  /\ outcome = "threw" => \E x \in Names : argsIn[x] # 0
  /\ outcome = "returned" => \A x \in Names : argsIn[x] = 0

IInv ==
  /\ TypeOK
  /\ MapHoldsPrefix
  /\ TakenFromOwnPattern
  /\ MapHoldsRest
  /\ VectorSoFar
  /\ Settled
=============================================================================
