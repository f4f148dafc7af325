--------------------------- MODULE MCAIOperation ---------------------------
(***************************************************************************)
(* Instances of AIOperation for TLC: two budget months, a maximum cost of  *)
(* one unit for Goal Refine and two for the action operations.             *)
(***************************************************************************)
EXTENDS AIOperation, TLC

CONSTANTS u1, g1, g2, x1, x2, x3, may, june

\* The first instant belongs to May, the others to June.
MCMonthOf == [t \in Times |-> IF t = 0 THEN may ELSE june]

MCReservation == [k \in Kinds |-> IF k = "action" THEN 2 ELSE 1]

\* The smallest costs: an operation costs nothing or its reservation.
MCUnitReservation == [k \in Kinds |-> 1]

\* Where amounts do not matter: quota and liveness.
MCNoReservation == [k \in Kinds |-> 0]

\* One user owns all goals.
MCOneOwner == [g \in Goals |-> u1]

\* Operations are told apart by nothing but their name.
MCSymmetry == Permutations(Gens)

=============================================================================
