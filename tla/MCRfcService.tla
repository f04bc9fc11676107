---------------------------- MODULE MCRfcService ----------------------------
(***************************************************************************)
(* RfcService for TLC.  Processes are interchangeable, and so are files.   *)
(***************************************************************************)
EXTENDS RfcService, TLC

CONSTANTS p1, p2, p3, n1, n2, n3

Symmetry == Permutations(Instances) \cup Permutations(Inodes)
=============================================================================
