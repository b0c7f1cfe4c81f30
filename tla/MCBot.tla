------------------------------- MODULE MCBot -------------------------------
(* Instances of Bot for TLC. *)
EXTENDS Bot, TLC

CONSTANTS u1, u2, r1, r2, p1, p2, t1

Symmetry == Permutations(Users)
=============================================================================
