----------------------------- MODULE MCContentKeys -----------------------------
(* Two servers and the operator on one user with one row from before.       *)
EXTENDS ContentKeys, TLC

CONSTANTS s1, s2, op, c1, d1, x1, f, g, t0

MCSymmetry == Permutations({s1, s2})
=============================================================================
