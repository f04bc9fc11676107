----------------------------- MODULE MCTr181Tool -----------------------------
(***************************************************************************)
(* Every command line of up to four words over one parameter, a text that  *)
(* is a value and a type, and the ID of the local store, and longer ones   *)
(* with all options.                                                       *)
(***************************************************************************)
EXTENDS Tr181Tool

MCTexts == {"k", "b", "localOnly"}

\* -g and -d are passed over alike.
MCWords == (MCTexts \cup Options) \ {"-g"}

MCLong ==
  {<<"-s">> \o x \o y : x, y \in {<<"-v", "b">>, <<"-n", "localOnly">>, <<"-t", "b">>, <<"-v", "-s">>, <<"k">>}}
    \cup {<<"-s", "-v", "b">> \o x \o y \o <<"k">> : x, y \in {<<"-n", "localOnly">>, <<"-t", "b">>, <<"-n", "-v">>}}

MCCommandLines == UNION {[1..n -> MCWords] : n \in 0..4} \cup MCLong

MCOwnType == [p \in {"k"} |-> "WDMP_STRING"]
=============================================================================
