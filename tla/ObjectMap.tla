------------------------------ MODULE ObjectMap ------------------------------
(***************************************************************************)
(* What the users of a UniValue object rely on: it maps keys to values.    *)
(* pushKV puts one, pushKVs adds the members of another object that are    *)
(* not there yet, every setter empties it.                                 *)
(***************************************************************************)
CONSTANTS Objs, Keys, Elems, Missing

VARIABLE members    \* the value of each key of each object, or Missing

Nothing == [k \in Keys |-> Missing]

Init == members = [x \in Objs |-> Nothing]

Put(x, k, e) == members' = [members EXCEPT ![x][k] = e]

AddAll(x, y) ==
  members' = [members EXCEPT ![x] =
    [k \in Keys |-> IF @[k] = Missing THEN members[y][k] ELSE @[k]]]

Reset(x) == members' = [members EXCEPT ![x] = Nothing]

Next ==
  \E x \in Objs :
    \/ \E k \in Keys, e \in Elems : Put(x, k, e)
    \/ \E y \in Objs : AddAll(x, y)
    \/ Reset(x)

Spec == Init /\ [][Next]_members
=============================================================================
