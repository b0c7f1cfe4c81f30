------------------------------ MODULE MCOracle ------------------------------
(* Instances of Oracle for TLC. *)
EXTENDS Oracle, TLC

CONSTANTS weth, aweth, tbtc, eth, btc

\* Two reserves that share a feed, and one whose price is made of two feeds.
ThreeKinds == weth :> "proxy" @@ aweth :> "stable" @@ tbtc :> "peg"
ThreeLegs == weth :> <<eth>> @@ aweth :> <<eth>> @@ tbtc :> <<btc, eth>>

\* One reserve, priced in two feeds.
PegKind == tbtc :> "peg"
PegLegs == tbtc :> <<btc, eth>>
=============================================================================
