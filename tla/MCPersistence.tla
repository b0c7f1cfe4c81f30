--------------------------- MODULE MCPersistence ---------------------------
(* Instances of Persistence for TLC. *)
EXTENDS Persistence, TLC

CONSTANTS u1, u2, r1, r2, r3, h1, h2, t1, t2

Symmetry == Permutations(Users) \cup Permutations(Health)
=============================================================================
