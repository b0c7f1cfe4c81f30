---------------------------- MODULE MCLiquidator ----------------------------
(* Instances of Liquidator for TLC. *)
EXTENDS Liquidator, TLC

CONSTANTS weth, usdc

Symmetry == Permutations(Tokens)
=============================================================================
