---------------------------- MODULE Liquidating ----------------------------
(***************************************************************************)
(* What a transaction of the Liquidatoor contract amounts to, seen from    *)
(* outside: the whole of a liquidation in one step, or nothing.            *)
(***************************************************************************)
EXTENDS Integers

CONSTANTS
    Tokens,
    Premium,   \* the fee of a flash loan
    Output,    \* what a swap may bring
    Leftover   \* what a swap may leave unsold

VARIABLES
    held,      \* [Tokens -> Nat]: the contract's balances
    owed,      \* [Tokens -> Nat]: the borrower's debt
    pledged    \* [Tokens -> Nat]: the borrower's collateral

\* A part of the debt is paid, ahead of the sale: with a loan, whose fee is paid
\* in the end, or with what the contract has.  All the collateral there is is
\* sold, whenever it came in.
Fee(loan) == IF loan THEN Premium ELSE 0

Liquidate(d, c, loan) ==
    \E covered \in 1..owed[d], seized \in 0..pledged[c] :
       /\ ~loan => covered <= held[d] + (IF c = d THEN seized ELSE 0)
       /\ owed' = [owed EXCEPT ![d] = @ - covered]
       /\ pledged' = [pledged EXCEPT ![c] = @ - seized]
       /\ IF c = d
          THEN held' = [held EXCEPT ![d] = @ + seized - covered - Fee(loan)]
          ELSE \E left \in Leftover, got \in Output :
                  /\ left <= held[c] + seized
                  /\ held' = [held EXCEPT
                        ![c] = left,
                        ![d] = @ + got - covered - Fee(loan)]
       /\ held'[d] >= 0

\* The owner takes all of a token.
Withdraw(t) == held' = [held EXCEPT ![t] = 0] /\ UNCHANGED <<owed, pledged>>

\* The borrower, or another liquidator.
Elsewhere == UNCHANGED held

Next ==
    \/ \E d, c \in Tokens, loan \in BOOLEAN : Liquidate(d, c, loan)
    \/ \E t \in Tokens : Withdraw(t)
    \/ Elsewhere

Spec == held = [t \in Tokens |-> 0] /\ [][Next]_<<held, owed, pledged>>
=============================================================================
