-------------------------- MODULE MCTr181LocalStore --------------------------
(* Small instances of Tr181LocalStore: two callers and two parameter       *)
(* names, "a.x" and "ba.y", both matched by the cleared domain "a.".  The  *)
(* value v1 cut short may read as v2 ("30" and "3") or as empty.           *)
EXTENDS Tr181LocalStore, TLC

CONSTANTS c1, c2, v1, v2

MCKeys == {<<"a", ".", "x">>, <<"b", "a", ".", "y">>}

MCTargets == {<<"a", ".">>, <<"a", ".", "x">>}

MCCuts == [v \in Values |-> {Empty} \cup (IF v = v1 THEN {v2} \cap Values ELSE {})]

\* The first caller has a default for one of the names.
MCDefaults ==
  [c \in Callers |-> [k \in Keys |-> IF c = c1 /\ k = <<"a", ".", "x">> THEN v1 ELSE Absent]]
=============================================================================
