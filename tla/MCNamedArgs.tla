---------------------------- MODULE MCNamedArgs ----------------------------
(* Instance of NamedArgs: every params object of up to four members over   *)
(* five names (duplicates included) against argument lists with gaps and   *)
(* aliases.                                                                *)
EXTENDS NamedArgs, SequencesExt

MCNames == {"a", "b", "c", "d", "x"}

MCKeySeqs == BoundedSeq(MCNames, 4)

MCArgSpecs ==
  { <<>>,
    << <<"a">> >>,
    << <<"a">>, <<"b">> >>,
    << <<"a", "b">>, <<"c">>, <<"d">> >>,
    << <<"a">>, <<"b", "c">>, <<"d">>, <<"x">> >> }
=============================================================================
