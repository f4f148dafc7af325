--------------------------- MODULE MCGoalLifecycle ---------------------------
(***************************************************************************)
(* Instances of GoalLifecycle for TLC.                                     *)
(***************************************************************************)
EXTENDS GoalLifecycle, TLC

\* Operation ids are interchangeable: no transaction orders or compares them
\* but for equality.
Symmetry == Permutations(Ops)
=============================================================================
