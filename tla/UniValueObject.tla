--------------------------- MODULE UniValueObject ---------------------------
(***************************************************************************)
(* UniValue as a container (univalue/univalue.{h,cpp}): its setters, the   *)
(* calls that add elements and members, the ways to look a member up.      *)
(* Values are used one call after another; a call that adds the contents   *)
(* of a second value gets another one (with itself pushKVs never ends).    *)
(***************************************************************************)
EXTENDS Integers, Sequences, FiniteSets

CONSTANTS
  Objs,         \* values that calls are made on
  Keys,
  Elems,        \* values that are added, records [typ, val] of scalars
  Missing,      \* no value
  NumberTexts,  \* texts that validNumStr accepts
  OtherTexts,   \* texts that it refuses, "" and those setFloat may print among them
  MaxSize       \* bound on members and elements

Texts == NumberTexts \cup OtherTexts
Scalars == {"VNULL", "VBOOL", "VSTR", "VNUM"}

ASSUME ObjectAssumption ==
  /\ "" \in OtherTexts
  /\ "1" \in NumberTexts
  /\ NumberTexts \cap OtherTexts = {}
  /\ Elems \subseteq [typ : Scalars, val : Texts]
  /\ Missing \notin Elems
  /\ MaxSize \in Nat

VARIABLES
  typ, val, keys, values,   \* the members of each UniValue
  unset                     \* values whose last successful setter was followed
                            \* by a setFloat that failed

vars == <<typ, val, keys, values, unset>>

Init ==
  /\ typ = [x \in Objs |-> "VNULL"]
  /\ val = [x \in Objs |-> ""]
  /\ keys = [x \in Objs |-> <<>>]
  /\ values = [x \in Objs |-> <<>>]
  /\ unset = {}
-----------------------------------------------------------------------------
\* Mutant of findKey: the loop starts behind the first member.
findKeySkipping(x, k) ==
  IF \E i \in 2..Len(keys[x]) : keys[x][i] = k
  THEN CHOOSE i \in 2..Len(keys[x]) :
         keys[x][i] = k /\ \A j \in 2..(i - 1) : keys[x][j] # k
  ELSE 0

\* findKey: the index of the first member with the key, 0 if there is none.
findKey(x, k) ==
  IF \E i \in DOMAIN keys[x] : keys[x][i] = k
  THEN CHOOSE i \in DOMAIN keys[x] :
         keys[x][i] = k /\ \A j \in 1..(i - 1) : keys[x][j] # k
  ELSE 0

\* operator[](key), find_value, and the entries of getObjMap.
Index(x, k) ==
  IF typ[x] = "VOBJ" /\ findKey(x, k) # 0 THEN values[x][findKey(x, k)] ELSE Missing

find_value(x, k) ==
  IF findKey(x, k) # 0 THEN values[x][findKey(x, k)] ELSE Missing

getObjMap(x) ==
  [k \in {keys[x][i] : i \in DOMAIN keys[x]} |->
     values[x][CHOOSE i \in DOMAIN keys[x] :
       keys[x][i] = k /\ \A j \in (i + 1)..Len(keys[x]) : keys[x][j] # k]]

\* checkObject: the types asked for, by key.
checkObject(x, types) ==
  /\ typ[x] = "VOBJ"
  /\ \A k \in DOMAIN types :
       findKey(x, k) # 0 /\ values[x][findKey(x, k)].typ = types[k]

\* Mutant of Clear: the vectors are kept.
ClearText(x, type, text) ==
  /\ typ' = [typ EXCEPT ![x] = type]
  /\ val' = [val EXCEPT ![x] = text]
  /\ unset' = unset \ {x}
  /\ UNCHANGED <<keys, values>>

\* clear(), and the type and text the setter gives the value.
Clear(x, type, text) ==
  /\ typ' = [typ EXCEPT ![x] = type]
  /\ val' = [val EXCEPT ![x] = text]
  /\ keys' = [keys EXCEPT ![x] = <<>>]
  /\ values' = [values EXCEPT ![x] = <<>>]
  /\ unset' = unset \ {x}

\* setNull and setBool.
SetLiteral(x) == Clear(x, "VNULL", "") \/ \E text \in {"", "1"} : Clear(x, "VBOOL", text)

\* setStr, setArray and setObject; and the constructors.
Set(x) ==
  \/ SetLiteral(x)
  \/ \E text \in Texts : Clear(x, "VSTR", text)
  \/ \E type \in {"VARR", "VOBJ"} : Clear(x, type, "")

\* setNumStr, and setInt through it; a text that is no number changes nothing.
SetNumStr(x) == \E text \in NumberTexts : Clear(x, "VNUM", text)

\* setFloat: an infinity or NaN is printed as no number, and makes the value
\* a number all the same.
SetFloat(x) ==
  \/ SetNumStr(x)
  \/ /\ typ' = [typ EXCEPT ![x] = "VNUM"]
     /\ unset' = unset \cup {x}
     /\ UNCHANGED <<val, keys, values>>

PushBack(x, e) ==
  /\ typ[x] = "VARR"
  /\ Len(values[x]) < MaxSize
  /\ values' = [values EXCEPT ![x] = Append(@, e)]
  /\ UNCHANGED <<typ, val, keys, unset>>

\* push_backV with the values of another array or object.
PushBackV(x, y) ==
  /\ typ[x] = "VARR"
  /\ Len(values[x]) + Len(values[y]) <= MaxSize
  /\ values' = [values EXCEPT ![x] = @ \o values[y]]
  /\ UNCHANGED <<typ, val, keys, unset>>

\* Mutants of PushKV: key and value change places; the key is not looked for.
PushKVSwapped(x, k, e) ==
  /\ typ[x] = "VOBJ"
  /\ Len(keys[x]) < MaxSize
  /\ keys' = [keys EXCEPT ![x] = Append(@, e)]
  /\ values' = [values EXCEPT ![x] = Append(@, k)]
  /\ UNCHANGED <<typ, val, unset>>

PushKVAlways(x, k, e) ==
  /\ typ[x] = "VOBJ"
  /\ Len(keys[x]) < MaxSize
  /\ keys' = [keys EXCEPT ![x] = Append(@, k)]
  /\ values' = [values EXCEPT ![x] = Append(@, e)]
  /\ UNCHANGED <<typ, val, unset>>

PushKV(x, k, e) ==
  /\ typ[x] = "VOBJ"
  /\ \/ /\ findKey(x, k) # 0
        /\ values' = [values EXCEPT ![x][findKey(x, k)] = e]
        /\ UNCHANGED keys
     \/ /\ findKey(x, k) = 0
        /\ Len(keys[x]) < MaxSize
        /\ keys' = [keys EXCEPT ![x] = Append(@, k)]
        /\ values' = [values EXCEPT ![x] = Append(@, e)]
  /\ UNCHANGED <<typ, val, unset>>

\* Mutant of PushKVs: the new members come first.
PushKVsInFront(x, y) ==
  /\ typ[x] = "VOBJ" /\ typ[y] = "VOBJ"
  /\ Len(keys[x]) + Len(keys[y]) <= MaxSize
  /\ keys' = [keys EXCEPT ![x] = keys[y] \o @]
  /\ values' = [values EXCEPT ![x] = values[y] \o @]
  /\ UNCHANGED <<typ, val, unset>>

\* pushKVs: __pushKV for each member, whether its key is there or not.
PushKVs(x, y) ==
  /\ typ[x] = "VOBJ" /\ typ[y] = "VOBJ"
  /\ Len(keys[x]) + Len(keys[y]) <= MaxSize
  /\ keys' = [keys EXCEPT ![x] = @ \o keys[y]]
  /\ values' = [values EXCEPT ![x] = @ \o values[y]]
  /\ UNCHANGED <<typ, val, unset>>

Next ==
  \E x \in Objs :
    \/ Set(x) \/ SetNumStr(x) \/ SetFloat(x)
    \/ \E e \in Elems : PushBack(x, e)
    \/ \E k \in Keys, e \in Elems : PushKV(x, k, e)
    \/ \E y \in Objs \ {x} : PushBackV(x, y) \/ PushKVs(x, y)

Spec == Init /\ [][Next]_vars
-----------------------------------------------------------------------------
TypeOK ==
  /\ typ \in [Objs -> Scalars \cup {"VARR", "VOBJ"}]
  /\ val \in [Objs -> Texts]
  /\ keys \in [Objs -> Seq(Keys)]
  /\ values \in [Objs -> Seq(Elems)]
  /\ unset \subseteq Objs
  /\ \A x \in Objs : Len(keys[x]) <= MaxSize /\ Len(values[x]) <= MaxSize

\* An object has a value for each key, where find_value, pushKVs and
\* writeObject take values.at(i); only objects have keys, only containers
\* values; a number's text is a number.  A failing setFloat leaves the former
\* text and members behind, and any other setter makes up for it.
WellFormed ==
  \A x \in Objs :
    /\ typ[x] = "VOBJ" => Len(keys[x]) = Len(values[x])
    /\ x \notin unset =>
         /\ typ[x] # "VOBJ" => keys[x] = <<>>
         /\ typ[x] \notin {"VOBJ", "VARR"} => values[x] = <<>>
         /\ typ[x] = "VNUM" => val[x] \in NumberTexts
    /\ x \in unset => typ[x] = "VNUM"

Distinct(ks) == \A i, j \in DOMAIN ks : ks[i] = ks[j] => i = j

\* find_value, which asks for no type, and operator[] find the same; getObjMap
\* and checkObject agree with them as long as no key is there twice (of two,
\* getObjMap takes the last and the others the first).
LookupsAgree ==
  \A x \in Objs \ unset :
    /\ \A k \in Keys : find_value(x, k) = Index(x, k)
    /\ Distinct(keys[x]) =>
         \A k \in DOMAIN getObjMap(x) :
           /\ getObjMap(x)[k] = Index(x, k)
           /\ checkObject(x, [key \in {k} |-> getObjMap(x)[k].typ])

\* A key comes to be there twice only where pushKVs adds one that was there,
\* never through pushKV.
DuplicatesFromPushKVs ==
  [][\A x \in Objs :
       Distinct(keys[x]) /\ ~ Distinct(keys'[x]) =>
         \E y \in Objs \ {x} :
           /\ keys'[x] = keys[x] \o keys[y]
           /\ Distinct(keys[y]) =>
                \E i \in DOMAIN keys[x], j \in DOMAIN keys[y] : keys[x][i] = keys[y][j]]_vars

\* Looked up by operator[], an object is a map: pushKV changes one member,
\* pushKVs no member that is there, duplicates notwithstanding.
Lookup == INSTANCE ObjectMap WITH members <- [x \in Objs |-> [k \in Keys |-> Index(x, k)]]
IsMap == Lookup!Spec
=============================================================================
