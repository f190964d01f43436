----------------------------- MODULE MCUtf8Filter -----------------------------
(* Instance of Utf8Filter: strings of at most MaxPushed units, of bytes at   *)
(* the borders of every class and of halves of pairs below and above        *)
(* U+20000 among other escapes.                                             *)
EXTENDS Utf8Filter

CONSTANT MaxPushed

\* 41, 80, BF, C0, C3, E0, ED, F0, F4, F8
MCBytes == {65, 128, 191, 192, 195, 224, 237, 240, 244, 248}

\* 0000, 0022, 001F, FFFF, D83D, DBFF, DE00, DC00
MCEscapes == {0, 34, 31, 65535, 55357, 56319, 56832, 56320}

MCUnits == [esc : {FALSE}, val : MCBytes] \cup [esc : {TRUE}, val : MCEscapes]

MCNext ==
  \/ Len(units) < MaxPushed /\ \E unit \in MCUnits : Push(unit)
  \/ Finalize

MCSpec == Init /\ [][MCNext]_vars
=============================================================================
