------------------------------ MODULE MCRfcApi ------------------------------
(***************************************************************************)
(* RfcApi for TLC: one parameter of each kind; two directories of          *)
(* defaults.                                                               *)
(***************************************************************************)
EXTENDS RfcApi, TLC

CONSTANTS p1, p2, a, rfc, dot, v1, v2

Ini(v) == [first |-> a, val |-> [n \in {a} |-> v]]

IniFilesDef == {Ini(v1), Ini(v2), Ini(Empty)}

\* Two files that disagree about a, the first of which may give it no value;
\* an empty file between two others.
EtcDirsDef == {<<Ini(v1), Ini(v2)>>, <<Ini(Empty), Ini(v2)>>, <<Ini(Empty), NoLines, Ini(v1)>>}
=============================================================================
