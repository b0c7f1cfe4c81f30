--------------------------- MODULE MCLiquidation ---------------------------
(* Instances of Liquidation for TLC. *)
EXTENDS Liquidation

CONSTANTS weth, usdc

\* getUserReservesData lists the reserves in this order.
TwoAssets == <<weth, usdc>>

\* A short f64, of two binary digits: 0, 1, 1.5, 2, 3, 4, 6, 8, 12, 16, 24.  It
\* has no 11: a debt of 11 is rounded up, to 12.
ShortDoubles == {0} \cup {50 * m * 2^e : m \in {2, 3}, e \in 0..4}
=============================================================================
