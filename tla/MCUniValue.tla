----------------------------- MODULE MCUniValue -----------------------------
(* Instance of UniValueObject: two values, members of two types.           *)
EXTENDS UniValueObject

MCElems == {[typ |-> "VNUM", val |-> "1"], [typ |-> "VSTR", val |-> ""]}

=============================================================================
