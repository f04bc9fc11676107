--------------------------- MODULE MCCronSchedule ---------------------------
(***************************************************************************)
(* Instances of CronSchedule for TLC.                                      *)
(***************************************************************************)
EXTENDS CronSchedule, TLC

CONSTANTS p1, p2, e1

Star == [any |-> TRUE, ok |-> FALSE, only |-> FALSE, num |-> 0]

\* A list such as 5,35 and a step such as */15.
List(n) == [any |-> FALSE, ok |-> TRUE, only |-> FALSE, num |-> n]
Step == [any |-> FALSE, ok |-> FALSE, only |-> FALSE, num |-> 0]

At(m, h, d) == [minute |-> m, hour |-> h, day |-> d]

\* Around the hour, midnight and the end of the week, with "*" in each place,
\* and two schedules that stoi changes.
MCSchedules ==
  {At(Number(2), Number(0), Star), At(Number(3), Number(0), Number(0)),
   At(Number(1), Number(0), Number(0)), At(Star, Number(5), Star),
   At(List(5), Star, Star), At(Step, Number(5), Number(1))}

Symmetry == Permutations(Procs)
=============================================================================
