---------------------------- MODULE ArgContract ----------------------------
(***************************************************************************)
(* What the JSON-RPC dispatcher promises about named arguments.            *)
(*                                                                         *)
(* A call may pass "params" as an object; a command declares its argument  *)
(* names as a list of patterns, each pattern one or more aliases separated *)
(* by "|".  This module says, without any loop, which positional vector    *)
(* the command's actor receives: the NamedArgs module shows that the loop  *)
(* of transformNamedArguments (rpc/server.cpp) computes exactly this, and  *)
(* JsonRpc uses it to say what a call with named arguments does.           *)
(*                                                                         *)
(* `keys' is the sequence of member names of the params object; a member   *)
(* value is represented by its position in that sequence, and JSON null    *)
(* inserted for a missing argument by 0.                                   *)
(***************************************************************************)
EXTENDS Naturals, Sequences, Functions

NullArg == 0

\* The value a name stands for: the last member of that name, because
\* argsIn[keys[i]] is overwritten by a later duplicate; 0 if there is none.
ValueOf(keys, name) ==
  IF name \in Range(keys)
  THEN CHOOSE i \in DOMAIN keys :
         /\ keys[i] = name
         /\ \A j \in DOMAIN keys : keys[j] = name => j <= i
  ELSE 0

Given(keys, pattern) == \E a \in DOMAIN pattern : pattern[a] \in Range(keys)

\* The alias under which an argument was passed: the first one of the
\* pattern that the caller used.
ChosenName(keys, pattern) ==
  pattern[CHOOSE a \in DOMAIN pattern :
            /\ pattern[a] \in Range(keys)
            /\ \A b \in DOMAIN pattern : pattern[b] \in Range(keys) => a <= b]

GivenPositions(keys, argNames) == {p \in DOMAIN argNames : Given(keys, argNames[p])}

\* Names the command does not know, second aliases of one argument included.
UnknownNames(keys, argNames) ==
  Range(keys) \ {ChosenName(keys, argNames[p]) : p \in GivenPositions(keys, argNames)}

\* v is the positional vector: an argument stands at the position of its
\* pattern, a gap between two given arguments is null, and there is nothing
\* after the last given argument.
IsPositional(v, keys, argNames) ==
  /\ Len(v) <= Len(argNames)
  /\ \A p \in GivenPositions(keys, argNames) : p <= Len(v)
  /\ Len(v) # 0 => Len(v) \in GivenPositions(keys, argNames)
  /\ \A p \in DOMAIN v :
       v[p] = IF Given(keys, argNames[p])
              THEN ValueOf(keys, ChosenName(keys, argNames[p]))
              ELSE NullArg

\* The only such vector, up to the last given argument.
LastGiven(keys, argNames) ==
  CHOOSE n \in {0} \cup GivenPositions(keys, argNames) :
    \A p \in GivenPositions(keys, argNames) : p <= n

PositionalVector(keys, argNames) ==
  [p \in 1..LastGiven(keys, argNames) |->
     IF Given(keys, argNames[p])
     THEN ValueOf(keys, ChosenName(keys, argNames[p]))
     ELSE NullArg]

\* No name is an alias of two different arguments.
DisjointAliases(argNames) ==
  \A p, q \in DOMAIN argNames :
    p # q => Range(argNames[p]) \cap Range(argNames[q]) = {}
=============================================================================
