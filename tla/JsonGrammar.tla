---------------------------- MODULE JsonGrammar ----------------------------
(***************************************************************************)
(* Which token sequences are JSON texts, as a reader with a stack of open  *)
(* containers sees them: at each place of a text some tokens may follow,   *)
(* and any other token refuses it.  JsonReader shows that UniValue::read   *)
(* accepts and refuses exactly these texts.                                *)
(***************************************************************************)
EXTENDS Naturals, Sequences

Scalars == {"keyword", "number", "string"}
Openers == {"{", "["}
Closers == {"}", "]"}
Tokens == Scalars \cup Openers \cup Closers \cup {":", ","}

Closer(opener) == IF opener = "{" THEN "}" ELSE "]"

VARIABLES
  tok,      \* the token just read: one of Tokens, "err" for an unreadable one,
            \* "none" at the end of the input, or before it
  scanned,  \* the tokens accepted so far
  open,     \* openers of the containers still open, outermost first
  place     \* what the text has come to

gvars == <<tok, scanned, open, place>>

\* Places where a value stands.
ValuePlaces == {"start", "value", "firstElement", "element"}

Innermost == open[Len(open)]

\* The place behind a complete value.
Behind(containers) == IF containers = <<>> THEN "end" ELSE "more"

MayClose(t) ==
  /\ open # <<>>
  /\ t = Closer(Innermost)
  /\ place \in {"more", "firstName", "firstElement"}

Allowed(t) ==
  \/ t \in Scalars \cup Openers /\ place \in ValuePlaces
  \/ t = "string" /\ place \in {"firstName", "name"}
  \/ t = ":" /\ place = "colon"
  \/ t = "," /\ place = "more"
  \/ t \in Closers /\ MayClose(t)

Init ==
  /\ tok = "none"
  /\ scanned = <<>>
  /\ open = <<>>
  /\ place = "start"

Take(t) ==
  /\ tok' = t
  /\ scanned' = Append(scanned, t)

Scalar(t) ==
  /\ t \in Scalars
  /\ place \in ValuePlaces
  /\ Take(t)
  /\ place' = Behind(open)
  /\ UNCHANGED open

Open(t) ==
  /\ t \in Openers
  /\ place \in ValuePlaces
  /\ Take(t)
  /\ open' = Append(open, t)
  /\ place' = IF t = "{" THEN "firstName" ELSE "firstElement"

Close(t) ==
  /\ t \in Closers
  /\ MayClose(t)
  /\ Take(t)
  /\ open' = SubSeq(open, 1, Len(open) - 1)
  /\ place' = Behind(open')

Name ==
  /\ place \in {"firstName", "name"}
  /\ Take("string")
  /\ place' = "colon"
  /\ UNCHANGED open

Colon ==
  /\ place = "colon"
  /\ Take(":")
  /\ place' = "value"
  /\ UNCHANGED open

Comma ==
  /\ place = "more"
  /\ Take(",")
  /\ place' = IF Innermost = "{" THEN "name" ELSE "element"
  /\ UNCHANGED open

\* The input ends behind the outermost value.
Accept ==
  /\ place = "end"
  /\ tok' = "none"
  /\ place' = "accepted"
  /\ UNCHANGED <<scanned, open>>

\* Anything else refuses the text, its premature end included.
Refuse(t) ==
  /\ place \notin {"accepted", "refused"}
  /\ ~ Allowed(t)
  /\ t = "none" => place # "end"
  /\ tok' = t
  /\ place' = "refused"
  /\ UNCHANGED <<scanned, open>>

Next ==
  \/ \E t \in Tokens : Scalar(t) \/ Open(t) \/ Close(t)
  \/ Name \/ Colon \/ Comma
  \/ Accept
  \/ \E t \in Tokens \cup {"none", "err"} : Refuse(t)

Spec == Init /\ [][Next]_gvars
=============================================================================
