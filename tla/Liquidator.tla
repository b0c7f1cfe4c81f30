----------------------------- MODULE Liquidator -----------------------------
(***************************************************************************)
(* The Liquidatoor contract (contracts/src/Liquidator.sol): one            *)
(* transaction, call by call.  Aave's Pool lends the debt asset, calls     *)
(* executeOperation back, takes what the borrower's debt allows and pays   *)
(* collateral; Uniswap's router swaps it; the Pool collects the loan.      *)
(* executeOperation is external and may also be called without a loan:     *)
(* the same steps then work with what the contract holds.  A call that     *)
(* reverts undoes the transaction.  The two protocols and the tokens are   *)
(* outside: they move balances and allowances, and choose the amounts.     *)
(***************************************************************************)
EXTENDS Integers

CONSTANTS
    Tokens, None,
    Amounts,      \* what a call may ask to be covered
    Premium,      \* the fee of a flash loan
    Premiums,     \* what a call without a loan may name as its fee
    Output,       \* what a swap may bring
    Leftover,     \* what a swap may leave unsold
    MaxHeld, MaxUser   \* bounds on the contract's and the borrower's balances

ASSUME LiquidatorAssumption ==
    /\ Amounts \subseteq Nat /\ Premium \in Nat /\ Premiums \subseteq Nat
    /\ Output \subseteq Nat /\ Leftover \subseteq Nat
    /\ None \notin Tokens
    /\ MaxHeld \in Nat /\ MaxUser \in Nat

VARIABLES
    held,       \* [Tokens -> Nat]: the contract's balances
    owed,       \* [Tokens -> Nat]: the borrower's debt
    pledged,    \* [Tokens -> Nat]: the borrower's collateral
    allowance,  \* [{"pool", "router"} -> [Tokens -> Nat]]: of the contract's
    call,       \* the transaction: its arguments, and what has come of it
    undo        \* what a revert restores

state == [held |-> held, owed |-> owed, pledged |-> pledged,
          allowance |-> allowance]
vars == <<held, owed, pledged, allowance, call, undo>>

NoCall == [pc |-> "none", loan |-> FALSE, debt |-> None, collateral |-> None,
           amount |-> 0, premium |-> 0, covered |-> 0, got |-> 0]
Goto(from, to) == call.pc = from /\ call' = [call EXCEPT !.pc = to]

asset == call.debt
collateral_asset == call.collateral
amount == call.amount
premium == call.premium

Plus(balances, t, n) == [balances EXCEPT ![t] = @ + n]

-----------------------------------------------------------------------------
\* executeOperation is called, within a loan or without one.
Called(loan, debt, collateral, n, fee) ==
    /\ call = NoCall
    /\ undo' = state
    /\ call' = [NoCall EXCEPT !.pc = "called", !.loan = loan,
                              !.debt = debt, !.collateral = collateral,
                              !.amount = n, !.premium = fee]
    /\ UNCHANGED <<owed, pledged, allowance>>

\* liquidatoor(): the Pool transfers the loan and calls executeOperation.  It
\* does so too for anyone else who asks it for a loan to this contract.
Liquidatoor(debt, collateral, n) ==
    /\ Called(TRUE, debt, collateral, n, Premium)
    /\ held' = [held EXCEPT ![debt] = @ + n]

\* executeOperation asks neither who has called it nor for whom.
ExecuteOperation(debt, collateral, n, fee) ==
    /\ Called(FALSE, debt, collateral, n, fee)
    /\ UNCHANGED held

ApproveDebt ==
    /\ Goto("called", "approved")
    /\ allowance' = [allowance EXCEPT !.pool[asset] = amount]
    /\ UNCHANGED <<held, owed, pledged, undo>>

\* Mutant of LiquidationCall: all that is owed is covered, whatever was asked.
LiquidationCallInFull ==
    /\ call.pc = "approved"
    /\ \E covered \in 1..owed[asset], seized \in 0..pledged[collateral_asset] :
          /\ call' = [call EXCEPT !.pc = "liquidated", !.covered = covered]
          /\ owed' = [owed EXCEPT ![asset] = @ - covered]
          /\ pledged' = [pledged EXCEPT ![collateral_asset] = @ - seized]
          /\ held' = Plus(Plus(held, collateral_asset, seized), asset, -covered)
          /\ allowance' = [allowance EXCEPT !.pool[asset] = @ - covered]
    /\ UNCHANGED undo

\* The Pool caps what it covers, and may take less than it was approved.  It
\* pays the collateral before it takes the debt asset, which must be there.
LiquidationCall ==
    /\ call.pc = "approved"
    /\ \E covered \in 1..owed[asset], seized \in 0..pledged[collateral_asset] :
          /\ covered <= amount
          /\ call' = [call EXCEPT !.pc = "liquidated", !.covered = covered]
          /\ owed' = [owed EXCEPT ![asset] = @ - covered]
          /\ pledged' = [pledged EXCEPT ![collateral_asset] = @ - seized]
          /\ held' = Plus(Plus(held, collateral_asset, seized), asset, -covered)
          /\ allowance' = [allowance EXCEPT !.pool[asset] = @ - covered]
          /\ held'[asset] >= 0
    /\ UNCHANGED undo

\* if (collateral_asset != asset)
SkipSwap ==
    /\ asset = collateral_asset
    /\ Goto("liquidated", "swapped")
    /\ UNCHANGED <<held, owed, pledged, allowance, undo>>

\* Mutant of Swap: only what this liquidation has brought in is sold.
SwapSeized ==
    /\ call.pc = "liquidated" /\ asset # collateral_asset
    /\ \E left \in Leftover, got \in Output :
          /\ left <= held[collateral_asset] - undo.held[collateral_asset]
          /\ call' = [call EXCEPT !.pc = "swapped", !.got = got]
          /\ held' = [held EXCEPT
                ![asset] = @ + got,
                ![collateral_asset] = undo.held[collateral_asset] + left]
          /\ allowance' = [allowance EXCEPT !.router[collateral_asset] = left]
    /\ UNCHANGED <<owed, pledged, undo>>

\* The router may sell the contract's whole balance of the collateral, for
\* whatever it brings (amountOutMinimum: 0).  A pool that runs dry leaves a
\* part of it.
Swap ==
    /\ call.pc = "liquidated" /\ asset # collateral_asset
    /\ \E left \in Leftover, got \in Output :
          /\ left <= held[collateral_asset]
          /\ call' = [call EXCEPT !.pc = "swapped", !.got = got]
          /\ held' = [held EXCEPT ![asset] = @ + got,
                                  ![collateral_asset] = left]
          /\ allowance' = [allowance EXCEPT !.router[collateral_asset] = left]
    /\ UNCHANGED <<owed, pledged, undo>>

\* Mutant of ApproveRepayment: approved on top of what is left.
ApproveMore ==
    /\ Goto("swapped", "returned")
    /\ allowance' = [allowance EXCEPT !.pool[asset] = @ + amount + premium]
    /\ UNCHANGED <<held, owed, pledged, undo>>

\* Mutant of ApproveRepayment: the premium is forgotten.
ApproveAmount ==
    /\ Goto("swapped", "returned")
    /\ allowance' = [allowance EXCEPT !.pool[asset] = amount]
    /\ UNCHANGED <<held, owed, pledged, undo>>

ApproveRepayment ==
    /\ Goto("swapped", "returned")
    /\ allowance' = [allowance EXCEPT !.pool[asset] = amount + premium]
    /\ UNCHANGED <<held, owed, pledged, undo>>

\* The Pool collects the loan, and the transaction ends.
Payable ==
    held[asset] >= amount + premium /\ allowance.pool[asset] >= amount + premium

CollectLoan ==
    /\ call.pc = "returned" /\ call.loan /\ Payable
    /\ held' = [held EXCEPT ![asset] = @ - amount - premium]
    /\ allowance' = [allowance EXCEPT !.pool[asset] = @ - amount - premium]
    /\ call' = NoCall /\ undo' = NoCall
    /\ UNCHANGED <<owed, pledged>>

\* Without a loan there is nothing to collect.
Return ==
    /\ call.pc = "returned" /\ ~call.loan
    /\ call' = NoCall /\ undo' = NoCall
    /\ UNCHANGED <<held, owed, pledged, allowance>>

\* Any of the calls reverts: no debt, no collateral, a healthy borrower, no
\* pool for the swap, a debt asset that is not there to be taken, a loan that
\* cannot be collected.
Revert ==
    /\ call # NoCall
    /\ held' = undo.held /\ owed' = undo.owed /\ pledged' = undo.pledged
    /\ allowance' = undo.allowance
    /\ call' = NoCall /\ undo' = NoCall

-----------------------------------------------------------------------------
\* Other transactions.

WithdrawalERC20(t) ==
    /\ call = NoCall
    /\ held' = [held EXCEPT ![t] = 0]
    /\ UNCHANGED <<owed, pledged, allowance, call, undo>>

BorrowerMoves(t) ==
    /\ call = NoCall
    /\ \E n \in 0..MaxUser :
          \/ owed' = [owed EXCEPT ![t] = n] /\ UNCHANGED pledged
          \/ pledged' = [pledged EXCEPT ![t] = n] /\ UNCHANGED owed
    /\ UNCHANGED <<held, allowance, call, undo>>

Init ==
    /\ held = [t \in Tokens |-> 0]
    /\ owed \in [Tokens -> 0..MaxUser] /\ pledged \in [Tokens -> 0..MaxUser]
    /\ allowance = [s \in {"pool", "router"} |-> [t \in Tokens |-> 0]]
    /\ call = NoCall /\ undo = NoCall

\* The bound: a contract that holds much is emptied before the next call.
Begin ==
    /\ \A t \in Tokens : held[t] <= MaxHeld
    /\ \E d, c \in Tokens, n \in Amounts :
          \/ Liquidatoor(d, c, n)
          \/ \E fee \in Premiums : ExecuteOperation(d, c, n, fee)

Next ==
    \/ Begin
    \/ ApproveDebt \/ LiquidationCall \/ Swap \/ SkipSwap \/ ApproveRepayment
    \/ CollectLoan \/ Return \/ Revert
    \/ \E t \in Tokens : WithdrawalERC20(t) \/ BorrowerMoves(t)

Spec == Init /\ [][Next]_vars

-----------------------------------------------------------------------------
\* Type invariant.
Balances == [Tokens -> Nat]
TypeOK ==
    /\ held \in Balances /\ owed \in Balances /\ pledged \in Balances
    /\ allowance \in [{"pool", "router"} -> Balances]
    /\ call.pc \in {"none", "called", "approved", "liquidated", "swapped",
                    "returned"}
    /\ call # NoCall => {asset, collateral_asset} \subseteq Tokens

\* A transaction with a loan leaves the Pool nothing to take that it could not
\* take before, though it has been approved twice and a liquidation may cover
\* less than was asked: of each token, nothing, or what was approved already
\* (Liquidator.sol:60, 106).  Without a loan the second approval stays.
LoanLeavesNothing ==
    [][call.loan /\ call' = NoCall =>
          \A t \in Tokens :
             allowance'.pool[t] \in {0, undo.allowance.pool[t]}]_vars

\* A liquidation that pays for itself can be paid: what the Pool did not take of
\* the loan is still there, and with it what the swap has brought
\* (Liquidator.sol:60-106).
ProfitIsEnough ==
    /\ call.pc = "returned" /\ call.loan /\ asset # collateral_asset
    /\ call.got >= call.covered + premium
    => Payable

-----------------------------------------------------------------------------
\* Seen from outside, a transaction is one step of Liquidating, taken when the
\* loan has been collected or executeOperation has returned; until then nothing
\* has happened.
Seen(v) == IF call = NoCall THEN v ELSE undo

Outside == INSTANCE Liquidating WITH
    held <- Seen(state).held, owed <- Seen(state).owed,
    pledged <- Seen(state).pledged

\* Every transaction is all or nothing: the debt covered, the collateral seized
\* and sold, the proceeds and the premium in one step (liquidatoor and
\* executeOperation, Liquidator.sol:48-140).
ImplementsLiquidating == Outside!Spec
=============================================================================
