----------------------------- MODULE MCJsonToken -----------------------------
(* Instance of JsonToken: numbers of every shape, keywords and other        *)
(* tokens, and strings of raw bytes of every class, every kind of escape    *)
(* and both halves of a pair.                                               *)
EXTENDS JsonToken, MCUtf8Filter

\* space - + . e 0 1 8 x [ , " and keywords
MCPieces ==
  {<<c>> : c \in {32, 45, 43, 46, 101, 48, 49, 56, 120, 91, 44, 34}}
    \cup {<<110, 117, 108, 108>>, <<116, 114, 117>>, <<102, 97, 108, 115, 101>>}

\* " \ n u and DEL, the bytes 1F 80 C3, the escape \u001f, and the halves
\* \uD83D and \uDE00
MCStringPieces ==
  {<<c>> : c \in {34, 92, 110, 117, 127, 31, 128, 195}}
    \cup {<<92, 117, 48, 48, 49, 102>>, <<92, 117, 68, 56, 51, 68>>,
          <<92, 117, 68, 69, 48, 48>>}

\* Behaviours of TokenSpec, and behaviours of MCUtf8Filter, which take the
\* filter alone further than the texts do.
MCTokenNext ==
  \/ /\ raw # 0 \/ (units = <<>> /\ status = "open")
     /\ TokenNext
  \/ /\ raw = 0 /\ text = <<>>
     /\ MCNext
     /\ UNCHANGED <<text, raw>>

MCTokenSpec == TokenInit /\ [][MCTokenNext]_tvars
=============================================================================
