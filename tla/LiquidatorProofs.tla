-------------------------- MODULE LiquidatorProofs --------------------------
(***************************************************************************)
(* Theorems about Liquidator: its types, its allowances, and that a        *)
(* transaction, with a loan or without one, is a step of Liquidating, for  *)
(* any tokens, fees, amounts and outcome of the swaps.  The invariant      *)
(* says, for each place of the transaction, how far balances and           *)
(* allowances are from those it began with.                                *)
(***************************************************************************)
EXTENDS Liquidator, TLAPS

Spenders == {"pool", "router"}
PCs == {"none", "called", "approved", "liquidated", "swapped", "returned"}

\* The locals of the transaction, and what a revert restores.
Calls == [pc : PCs, loan : BOOLEAN, debt : Tokens \cup {None},
          collateral : Tokens \cup {None}, amount : Nat, premium : Nat,
          covered : Nat, got : Nat]
States == [held : Balances, owed : Balances, pledged : Balances,
           allowance : [Spenders -> Balances]]

CallInv ==
    /\ call \in Calls
    /\ call.pc = "none" => call = NoCall
    /\ call.pc # "none" =>
          /\ asset \in Tokens /\ collateral_asset \in Tokens
          /\ undo \in States
    /\ call.loan => premium = Premium

BalancesInv ==
    /\ held \in Balances /\ owed \in Balances /\ pledged \in Balances
    /\ allowance \in [Spenders -> Balances]

\* What the Pool may take of the debt asset; of another token it may take what
\* it could take before.
Allowed ==
    CASE call.pc = "approved" -> amount
      [] call.pc \in {"liquidated", "swapped"} -> amount - call.covered
      [] call.pc = "returned" -> amount + premium
      [] OTHER -> undo.allowance.pool[asset]
AllowanceInv ==
    call.pc # "none" =>
        \A t \in Tokens :
           allowance.pool[t] = IF t = asset THEN Allowed
                               ELSE undo.allowance.pool[t]

\* How the balances differ from those the transaction began with.
Loan == IF call.loan THEN amount ELSE 0
Lent == [undo.held EXCEPT ![asset] = @ + Loan]
Sold == call.pc \in {"swapped", "returned"} /\ asset # collateral_asset
Effect(seized) ==
    /\ call.covered \in 1..undo.owed[asset] /\ call.covered <= amount
    /\ ~call.loan =>
          call.covered <= undo.held[asset]
                            + (IF collateral_asset = asset THEN seized ELSE 0)
    /\ owed = [undo.owed EXCEPT ![asset] = @ - call.covered]
    /\ pledged = [undo.pledged EXCEPT ![collateral_asset] = @ - seized]
    /\ ~Sold => held = Plus(Plus(Lent, collateral_asset, seized),
                            asset, -call.covered)
    /\ Sold => /\ call.got \in Output
               /\ \E left \in Leftover :
                     /\ left <= undo.held[collateral_asset] + seized
                     /\ held = [undo.held EXCEPT
                           ![collateral_asset] = left,
                           ![asset] = @ + Loan + call.got - call.covered]
EffectInv ==
    /\ call.pc \in {"called", "approved"} =>
          held = Lent /\ owed = undo.owed /\ pledged = undo.pledged
    /\ call.pc \in {"liquidated", "swapped", "returned"} =>
          \E seized \in 0..undo.pledged[collateral_asset] : Effect(seized)

IInv == CallInv /\ BalancesInv /\ AllowanceInv /\ EffectInv

-----------------------------------------------------------------------------
USE LiquidatorAssumption

\* There is no call exactly when its place is "none".
LEMMA NotCalling == ASSUME CallInv PROVE (call = NoCall) <=> (call.pc = "none")
BY DEF CallInv, NoCall

\* The invariant holds of the constructed contract.
LEMMA InitInv == Init => IInv
BY DEF Init, IInv, CallInv, Calls, BalancesInv, AllowanceInv, EffectInv,
       NoCall, Balances, Spenders, PCs

\* A call of executeOperation, with a loan or without, keeps the invariant.
LEMMA CalledInv ==
    ASSUME IInv, NEW d \in Tokens, NEW c \in Tokens, NEW n \in Nat,
           NEW fee \in Nat, NEW loan \in BOOLEAN, loan => fee = Premium,
           Called(loan, d, c, n, fee),
           held' = [held EXCEPT ![d] = @ + (IF loan THEN n ELSE 0)]
    PROVE  IInv'
<1>1. /\ call = NoCall /\ undo' = state
      /\ UNCHANGED <<owed, pledged, allowance>>
  BY DEF Called
<1>2. call' = [call EXCEPT !.pc = "called", !.loan = loan, !.debt = d,
                           !.collateral = c, !.amount = n, !.premium = fee]
  BY <1>1, Zenon DEF Called
<1>3. /\ call' \in Calls
      /\ call'.pc = "called" /\ call'.loan = loan /\ call'.debt = d
      /\ call'.collateral = c /\ call'.amount = n /\ call'.premium = fee
  <2>1. call \in Calls
    BY DEF IInv, CallInv
  <2> QED
    BY <1>2, <2>1 DEF Calls, PCs
<1>4. CallInv'
  <2>1. undo' \in States
    BY <1>1 DEF IInv, BalancesInv, state, States
  <2> QED
    BY <1>3, <2>1 DEF CallInv, asset, collateral_asset, premium
<1>5. BalancesInv'
  BY <1>1 DEF IInv, BalancesInv, Balances
<1>6. AllowanceInv'
  BY <1>1, <1>3 DEF AllowanceInv, Allowed, asset, state
<1>7. EffectInv'
  BY <1>1, <1>3 DEF EffectInv, Lent, Loan, asset, amount, state
<1> QED
  BY <1>4, <1>5, <1>6, <1>7 DEF IInv

\* Both entries of the contract are such calls.
LEMMA BeginInv == IInv /\ Begin => IInv'
<1> SUFFICES ASSUME IInv, NEW d \in Tokens, NEW c \in Tokens,
                    NEW n \in Amounts,
                    \/ Liquidatoor(d, c, n)
                    \/ \E fee \in Premiums : ExecuteOperation(d, c, n, fee)
             PROVE  IInv'
  BY DEF Begin
<1>1. n \in Nat /\ held \in Balances
  BY DEF IInv, BalancesInv
<1>2. CASE Liquidatoor(d, c, n)
  <2>1. /\ Called(TRUE, d, c, n, Premium)
        /\ held' = [held EXCEPT ![d] = @ + n]
    BY <1>2 DEF Liquidatoor
  <2> QED
    BY <1>1, <2>1, CalledInv
<1>3. ASSUME NEW fee \in Premiums, ExecuteOperation(d, c, n, fee)
      PROVE  IInv'
  <2>1. Called(FALSE, d, c, n, fee) /\ held' = held /\ fee \in Nat
    BY <1>3 DEF ExecuteOperation
  <2>2. held' = [held EXCEPT ![d] = @ + 0]
    BY <1>1, <2>1 DEF Balances
  <2> QED
    BY <1>1, <2>1, <2>2, CalledInv
<1> QED
  BY <1>2, <1>3

\* A step within the transaction keeps its arguments.
Same == /\ undo' = undo /\ call'.loan = call.loan /\ call'.debt = call.debt
        /\ call'.collateral = call.collateral /\ call'.amount = call.amount
        /\ call'.premium = call.premium

\* What a step within a transaction may rely on.
LEMMA CallingInv ==
    ASSUME IInv, Same, call.pc # "none", call' \in Calls, call'.pc # "none"
    PROVE  /\ CallInv'
           /\ asset' = asset /\ collateral_asset' = collateral_asset
           /\ amount' = amount /\ premium' = premium /\ Loan' = Loan
           /\ asset \in Tokens /\ collateral_asset \in Tokens
           /\ amount \in Nat /\ premium \in Nat /\ Loan \in Nat
           /\ undo \in States /\ call.covered \in Nat
           /\ undo.held \in Balances /\ undo.owed \in Balances
           /\ undo.pledged \in Balances
<1>1. /\ asset' = asset /\ collateral_asset' = collateral_asset
      /\ amount' = amount /\ premium' = premium /\ Loan' = Loan
  BY DEF Same, asset, collateral_asset, amount, premium, Loan
<1>2. /\ asset \in Tokens /\ collateral_asset \in Tokens /\ undo \in States
      /\ call \in Calls
  BY DEF IInv, CallInv
<1>3. amount \in Nat /\ premium \in Nat /\ call.covered \in Nat
  BY <1>2 DEF amount, premium, Calls
<1>4. Loan \in Nat
  BY <1>3 DEF Loan
<1>5. /\ undo.held \in Balances /\ undo.owed \in Balances
      /\ undo.pledged \in Balances
  BY <1>2 DEF States
<1>6. CallInv'
  BY <1>1, <1>2 DEF IInv, CallInv, Same
<1> QED
  BY <1>1, <1>2, <1>3, <1>4, <1>5, <1>6

\* The first approval (Liquidator.sol:60).
LEMMA ApproveDebtInv == IInv /\ ApproveDebt => IInv'
<1> SUFFICES ASSUME IInv, ApproveDebt PROVE IInv'
  OBVIOUS
<1>1. /\ call.pc = "called" /\ call' = [call EXCEPT !.pc = "approved"]
      /\ allowance' = [allowance EXCEPT !.pool[asset] = amount]
      /\ UNCHANGED <<held, owed, pledged, undo>>
  BY DEF ApproveDebt, Goto
<1>2. Same /\ call' \in Calls /\ call'.pc = "approved"
  BY <1>1 DEF IInv, CallInv, Calls, PCs, Same
<1>3. /\ CallInv'
      /\ asset' = asset /\ amount' = amount /\ Loan' = Loan
      /\ asset \in Tokens /\ amount \in Nat
  BY <1>1, <1>2, CallingInv
<1>4. BalancesInv'
  BY <1>1, <1>3 DEF IInv, BalancesInv, Balances, Spenders
<1>5. AllowanceInv'
  BY <1>1, <1>2, <1>3 DEF IInv, BalancesInv, AllowanceInv, Allowed, Balances,
                          Spenders
<1>6. EffectInv'
  BY <1>1, <1>2, <1>3 DEF IInv, EffectInv, Lent
<1> QED
  BY <1>3, <1>4, <1>5, <1>6 DEF IInv

\* The cover and the seizure are within what Effect says.
LEMMA LiquidationCallInv == IInv /\ LiquidationCall => IInv'
<1> SUFFICES ASSUME IInv, LiquidationCall PROVE IInv'
  OBVIOUS
<1>1. PICK covered \in 1..owed[asset], seized \in 0..pledged[collateral_asset] :
          /\ covered <= amount
          /\ call' = [call EXCEPT !.pc = "liquidated", !.covered = covered]
          /\ owed' = [owed EXCEPT ![asset] = @ - covered]
          /\ pledged' = [pledged EXCEPT ![collateral_asset] = @ - seized]
          /\ held' = Plus(Plus(held, collateral_asset, seized), asset, -covered)
          /\ allowance' = [allowance EXCEPT !.pool[asset] = @ - covered]
          /\ held'[asset] >= 0
  BY DEF LiquidationCall
<1>2. /\ call.pc = "approved" /\ undo' = undo
      /\ covered \in Int /\ seized \in Int /\ covered >= 1 /\ seized >= 0
      /\ held = Lent /\ owed = undo.owed /\ pledged = undo.pledged
  BY <1>1 DEF LiquidationCall, IInv, EffectInv
<1>3. /\ Same /\ call' \in Calls /\ call'.pc = "liquidated"
      /\ call'.covered = covered
  <2>1. covered \in Nat
    BY <1>2
  <2> QED
    BY <1>1, <1>2, <2>1 DEF IInv, CallInv, Calls, PCs, Same
<1>4. /\ CallInv'
      /\ asset' = asset /\ collateral_asset' = collateral_asset
      /\ amount' = amount /\ Loan' = Loan /\ Loan \in Nat
      /\ asset \in Tokens /\ collateral_asset \in Tokens /\ amount \in Nat
      /\ undo.held \in Balances /\ undo.owed \in Balances
      /\ undo.pledged \in Balances
  BY <1>2, <1>3, CallingInv
<1>5. BalancesInv'
  <2>1. owed' \in Balances /\ pledged' \in Balances
    BY <1>1, <1>2, <1>4 DEF IInv, BalancesInv, Balances
  <2>2. held' \in Balances
    BY <1>1, <1>2, <1>4 DEF IInv, BalancesInv, Balances, Plus
  <2>3. allowance' \in [Spenders -> Balances]
    <3>1. allowance.pool[asset] = amount
      BY <1>2, <1>4 DEF IInv, AllowanceInv, Allowed
    <3> QED
      BY <1>1, <1>2, <1>4, <3>1 DEF IInv, BalancesInv, Balances, Spenders
  <2> QED
    BY <2>1, <2>2, <2>3 DEF BalancesInv
<1>6. AllowanceInv'
  BY <1>1, <1>2, <1>3, <1>4 DEF IInv, BalancesInv, AllowanceInv, Allowed,
                                Balances, Spenders
<1>7. covered <= undo.held[asset] + Loan
                   + (IF collateral_asset = asset THEN seized ELSE 0)
  BY <1>1, <1>2, <1>4 DEF Lent, Plus, Balances
<1>8. ~call.loan => Loan = 0
  BY DEF Loan
<1>9. Effect(seized)'
  <2>1. ~call'.loan =>
           call'.covered <= undo'.held[asset']
                     + (IF collateral_asset' = asset' THEN seized ELSE 0)
    BY <1>2, <1>3, <1>4, <1>7, <1>8 DEF Same, Balances
  <2> QED
    BY <1>1, <1>2, <1>3, <1>4, <2>1 DEF Effect, Sold, Lent
<1>10. EffectInv'
  BY <1>1, <1>2, <1>3, <1>4, <1>9 DEF EffectInv
<1> QED
  BY <1>4, <1>5, <1>6, <1>10 DEF IInv

\* One asset on both sides: nothing is sold.
LEMMA SkipSwapInv == IInv /\ SkipSwap => IInv'
<1> SUFFICES ASSUME IInv, SkipSwap PROVE IInv'
  OBVIOUS
<1>1. /\ call.pc = "liquidated" /\ call' = [call EXCEPT !.pc = "swapped"]
      /\ asset = collateral_asset
      /\ UNCHANGED <<held, owed, pledged, allowance, undo>>
  BY DEF SkipSwap, Goto
<1>2. /\ Same /\ call' \in Calls /\ call'.pc = "swapped"
      /\ call'.covered = call.covered
  BY <1>1 DEF IInv, CallInv, Calls, PCs, Same
<1>3. /\ CallInv'
      /\ asset' = asset /\ collateral_asset' = collateral_asset
      /\ amount' = amount /\ Loan' = Loan
  BY <1>1, <1>2, CallingInv
<1>4. BalancesInv' /\ AllowanceInv'
  BY <1>1, <1>2, <1>3 DEF IInv, BalancesInv, AllowanceInv, Allowed
<1>5. PICK seized \in 0..undo.pledged[collateral_asset] : Effect(seized)
  BY <1>1 DEF IInv, EffectInv
<1>6. Effect(seized)'
  BY <1>1, <1>2, <1>3, <1>5 DEF Effect, Sold, Lent, Same
<1>7. EffectInv'
  BY <1>1, <1>2, <1>3, <1>5, <1>6 DEF EffectInv
<1> QED
  BY <1>3, <1>4, <1>7 DEF IInv

\* The sale of all there is of the collateral.
LEMMA SwapInv == IInv /\ Swap => IInv'
<1> SUFFICES ASSUME IInv, Swap PROVE IInv'
  OBVIOUS
<1>1. PICK left \in Leftover, got \in Output :
          /\ left <= held[collateral_asset]
          /\ call' = [call EXCEPT !.pc = "swapped", !.got = got]
          /\ held' = [held EXCEPT ![asset] = @ + got,
                                  ![collateral_asset] = left]
          /\ allowance' = [allowance EXCEPT !.router[collateral_asset] = left]
  BY DEF Swap
<1>2. /\ call.pc = "liquidated" /\ asset # collateral_asset
      /\ undo' = undo /\ owed' = owed /\ pledged' = pledged
      /\ left \in Nat /\ got \in Nat
  BY <1>1 DEF Swap
<1>3. /\ Same /\ call' \in Calls /\ call'.pc = "swapped" /\ call'.got = got
      /\ call'.covered = call.covered
  BY <1>1, <1>2 DEF IInv, CallInv, Calls, PCs, Same
<1>4. /\ CallInv'
      /\ asset' = asset /\ collateral_asset' = collateral_asset
      /\ amount' = amount /\ Loan' = Loan /\ Loan \in Nat
      /\ asset \in Tokens /\ collateral_asset \in Tokens
      /\ call.covered \in Nat /\ undo.held \in Balances
  BY <1>2, <1>3, CallingInv
<1>5. BalancesInv'
  BY <1>1, <1>2, <1>4 DEF IInv, BalancesInv, Balances, Spenders
<1>6. AllowanceInv'
  BY <1>1, <1>2, <1>3, <1>4 DEF IInv, BalancesInv, AllowanceInv, Allowed,
                                Spenders
<1>7. PICK seized \in 0..undo.pledged[collateral_asset] : Effect(seized)
  BY <1>2 DEF IInv, EffectInv
<1>8. held = Plus(Plus(Lent, collateral_asset, seized), asset, -call.covered)
  BY <1>2, <1>7 DEF Effect, Sold
<1>9. held[collateral_asset] = undo.held[collateral_asset] + seized
  BY <1>2, <1>4, <1>7, <1>8 DEF Plus, Lent, Balances
<1>10. held' = [undo.held EXCEPT
                   ![collateral_asset] = left,
                   ![asset] = @ + Loan + got - call.covered]
  BY <1>1, <1>2, <1>4, <1>7, <1>8 DEF Plus, Lent, Balances
<1>11. Effect(seized)'
  BY <1>1, <1>2, <1>3, <1>4, <1>7, <1>9, <1>10 DEF Effect, Sold, Same
<1>12. EffectInv'
  BY <1>2, <1>3, <1>4, <1>7, <1>11 DEF EffectInv
<1> QED
  BY <1>4, <1>5, <1>6, <1>12 DEF IInv

\* The second approval replaces what is left of the first.
LEMMA ApproveRepaymentInv == IInv /\ ApproveRepayment => IInv'
<1> SUFFICES ASSUME IInv, ApproveRepayment PROVE IInv'
  OBVIOUS
<1>1. /\ call.pc = "swapped" /\ call' = [call EXCEPT !.pc = "returned"]
      /\ allowance' = [allowance EXCEPT !.pool[asset] = amount + premium]
      /\ UNCHANGED <<held, owed, pledged, undo>>
  BY DEF ApproveRepayment, Goto
<1>2. /\ Same /\ call' \in Calls /\ call'.pc = "returned"
      /\ call'.got = call.got /\ call'.covered = call.covered
  BY <1>1 DEF IInv, CallInv, Calls, PCs, Same
<1>3. /\ CallInv'
      /\ asset' = asset /\ collateral_asset' = collateral_asset
      /\ amount' = amount /\ premium' = premium /\ Loan' = Loan
      /\ asset \in Tokens /\ amount \in Nat /\ premium \in Nat
  BY <1>1, <1>2, CallingInv
<1>4. BalancesInv'
  BY <1>1, <1>3 DEF IInv, BalancesInv, Balances, Spenders
<1>5. AllowanceInv'
  BY <1>1, <1>2, <1>3 DEF IInv, BalancesInv, AllowanceInv, Allowed, Balances,
                          Spenders
<1>6. PICK seized \in 0..undo.pledged[collateral_asset] : Effect(seized)
  BY <1>1 DEF IInv, EffectInv
<1>7. Effect(seized)'
  BY <1>1, <1>2, <1>3, <1>6 DEF Effect, Sold, Lent, Same
<1>8. EffectInv'
  BY <1>1, <1>2, <1>3, <1>6, <1>7 DEF EffectInv
<1> QED
  BY <1>3, <1>4, <1>5, <1>8 DEF IInv

\* The transaction ends: nothing is left to say of it.
LEMMA EndedInv ==
    ASSUME call' = NoCall, BalancesInv'
    PROVE  IInv'
BY DEF IInv, CallInv, AllowanceInv, EffectInv, NoCall, Calls, PCs

\* The Pool takes what was approved last, and nothing is left of it.
LEMMA CollectLoanInv == IInv /\ CollectLoan => IInv'
<1> SUFFICES ASSUME IInv, CollectLoan PROVE IInv'
  OBVIOUS
<1>1. asset \in Tokens /\ amount \in Nat /\ premium \in Nat
  BY DEF CollectLoan, IInv, CallInv, Calls, amount, premium
<1>2. BalancesInv'
  BY <1>1 DEF CollectLoan, Payable, IInv, BalancesInv, Balances, Spenders
<1> QED
  BY <1>2, EndedInv DEF CollectLoan

\* Without a loan the approvals stay.
LEMMA ReturnInv == IInv /\ Return => IInv'
<1> SUFFICES ASSUME IInv, Return PROVE IInv'
  OBVIOUS
<1>1. BalancesInv'
  BY DEF Return, IInv, BalancesInv
<1> QED
  BY <1>1, EndedInv DEF Return

\* A revert restores what the transaction began with.
LEMMA RevertInv == IInv /\ Revert => IInv'
<1> SUFFICES ASSUME IInv, Revert PROVE IInv'
  OBVIOUS
<1>1. undo \in States
  BY NotCalling DEF Revert, IInv, CallInv
<1>2. BalancesInv'
  BY <1>1 DEF Revert, BalancesInv, States
<1> QED
  BY <1>2, EndedInv DEF Revert

\* Other transactions move balances, none of them an allowance.
LEMMA ElsewhereInv ==
    ASSUME IInv, NEW t \in Tokens, WithdrawalERC20(t) \/ BorrowerMoves(t)
    PROVE  IInv'
<1>1. call' = NoCall
  BY DEF WithdrawalERC20, BorrowerMoves
<1>2. BalancesInv'
  BY DEF WithdrawalERC20, BorrowerMoves, IInv, BalancesInv, Balances
<1> QED
  BY <1>1, <1>2, EndedInv

\* The invariant is inductive: one case per action.
LEMMA StepInv == IInv /\ [Next]_vars => IInv'
<1> SUFFICES ASSUME IInv, [Next]_vars PROVE IInv'
  OBVIOUS
<1>1. CASE UNCHANGED vars
  BY <1>1 DEF vars, IInv, CallInv, BalancesInv, AllowanceInv, EffectInv,
              Allowed, Lent, Loan, Sold, Effect, Plus, asset,
              collateral_asset, amount, premium
<1>2. CASE Next
  BY <1>2, BeginInv, ApproveDebtInv, LiquidationCallInv, SwapInv,
     SkipSwapInv, ApproveRepaymentInv, CollectLoanInv, ReturnInv, RevertInv,
     ElsewhereInv DEF Next
<1> QED
  BY <1>1, <1>2

\* The invariant holds for ever.
LEMMA Invariant == Spec => []IInv
BY InitInv, StepInv, PTL DEF Spec

-----------------------------------------------------------------------------
\* Balances and allowances are never negative: nothing is paid twice, and
\* neither protocol takes more than is there.
THEOREM TypeCorrect == Spec => []TypeOK
<1>1. IInv => TypeOK
  BY DEF IInv, CallInv, Calls, BalancesInv, TypeOK, PCs, Spenders, NoCall
<1> QED
  BY <1>1, Invariant, PTL

\* Of no token may the Pool take more after a transaction with a loan than
\* before it: what it was approved in between it has taken or lost.
THEOREM LoansLeaveNothing == Spec => LoanLeavesNothing
<1>1. ASSUME IInv, [Next]_vars, call.loan, call' = NoCall, NEW t \in Tokens
      PROVE  allowance'.pool[t] \in {0, undo.allowance.pool[t]}
  <2>1. call # NoCall /\ call.pc # "none"
    BY <1>1, NotCalling DEF IInv, NoCall
  <2>2. CASE CollectLoan
    <3>1. /\ asset \in Tokens /\ amount \in Nat /\ premium \in Nat
          /\ allowance \in [Spenders -> Balances]
      BY <1>1, <2>1 DEF IInv, CallInv, BalancesInv, Calls, amount, premium
    <3>2. \A u \in Tokens :
             allowance.pool[u] = IF u = asset THEN amount + premium
                                 ELSE undo.allowance.pool[u]
      BY <1>1, <2>2 DEF CollectLoan, IInv, AllowanceInv, Allowed
    <3>3. allowance' = [allowance EXCEPT
                           !.pool[asset] = @ - amount - premium]
      BY <2>2 DEF CollectLoan
    <3>4. CASE t = asset
      BY <3>1, <3>2, <3>3, <3>4 DEF Spenders, Balances
    <3>5. CASE t # asset
      BY <3>1, <3>2, <3>3, <3>5 DEF Spenders, Balances
    <3> QED
      BY <3>4, <3>5
  <2>3. CASE Revert
    BY <2>3 DEF Revert
  <2>4. CollectLoan \/ Revert
    BY <1>1, <2>1 DEF vars, Next, Begin, Liquidatoor, ExecuteOperation, Called,
       ApproveDebt, LiquidationCall, Swap, SkipSwap, ApproveRepayment, Goto,
       Return, WithdrawalERC20, BorrowerMoves, IInv, CallInv, Calls, NoCall
  <2> QED
    BY <2>2, <2>3, <2>4
<1>2. IInv /\ [Next]_vars
        => [call.loan /\ call' = NoCall =>
               \A t \in Tokens :
                  allowance'.pool[t] \in {0, undo.allowance.pool[t]}]_vars
  BY <1>1
<1> QED
  BY <1>2, Invariant, PTL DEF Spec, LoanLeavesNothing

\* A swap that brings what the Pool has covered, and the premium, suffices to
\* repay the loan, whatever the contract held and whatever part was covered.
THEOREM ProfitSuffices == Spec => []ProfitIsEnough
<1>1. IInv => ProfitIsEnough
  <2> SUFFICES ASSUME IInv, call.pc = "returned", call.loan,
                      asset # collateral_asset,
                      call.got >= call.covered + premium
               PROVE  Payable
    BY DEF ProfitIsEnough
  <2>1. /\ asset \in Tokens /\ collateral_asset \in Tokens
        /\ undo.held \in Balances /\ call \in Calls
    BY DEF IInv, CallInv, States
  <2>2. /\ amount \in Nat /\ premium \in Nat
        /\ call.covered \in Nat /\ call.got \in Nat
    BY <2>1 DEF Calls, amount, premium
  <2>3. \E left \in Leftover :
           held = [undo.held EXCEPT
                     ![collateral_asset] = left,
                     ![asset] = @ + Loan + call.got - call.covered]
    BY DEF IInv, EffectInv, Effect, Sold
  <2>4. held[asset] = undo.held[asset] + amount + call.got - call.covered
    BY <2>1, <2>3 DEF Balances, Loan
  <2>5. held[asset] >= amount + premium
    BY <2>1, <2>2, <2>4 DEF Balances
  <2>6. allowance.pool[asset] = amount + premium
    BY <2>1 DEF IInv, AllowanceInv, Allowed
  <2> QED
    BY <2>2, <2>5, <2>6 DEF Payable
<1> QED
  BY <1>1, Invariant, PTL

-----------------------------------------------------------------------------
\* The transaction as one step.

SeenHeld == Seen(state).held
SeenOwed == Seen(state).owed
SeenPledged == Seen(state).pledged

\* A step within a transaction, and one that reverts it, is not seen.
LEMMA Unseen ==
    ASSUME call # NoCall, undo' = undo, call' # NoCall
    PROVE  UNCHANGED <<SeenHeld, SeenOwed, SeenPledged>>
BY DEF Seen, SeenHeld, SeenOwed, SeenPledged

\* A transaction that ends well has had its effect, less what was collected.
LEMMA EndIsLiquidate ==
    ASSUME IInv, call.pc = "returned", NEW taken \in Nat,
           taken = (IF call.loan THEN amount + premium ELSE 0),
           call' = NoCall, owed' = owed, pledged' = pledged,
           held' = [held EXCEPT ![asset] = @ - taken], held[asset] >= taken
    PROVE  Outside!Liquidate(asset, collateral_asset, call.loan)
<1>1. /\ Seen(state).held = undo.held /\ Seen(state)'.held = held'
      /\ Seen(state).owed = undo.owed /\ Seen(state)'.owed = owed'
      /\ Seen(state).pledged = undo.pledged
      /\ Seen(state)'.pledged = pledged'
  BY DEF Seen, NoCall, state
<1>2. PICK seized \in 0..undo.pledged[collateral_asset] : Effect(seized)
  BY DEF IInv, EffectInv
<1>3. /\ asset \in Tokens /\ collateral_asset \in Tokens
      /\ undo.held \in Balances /\ undo.owed \in Balances
      /\ undo.pledged \in Balances /\ held \in Balances
      /\ call \in Calls
  BY DEF IInv, CallInv, BalancesInv, States
<1>4. /\ call.loan \in BOOLEAN /\ call.covered \in Nat /\ call.got \in Nat
      /\ amount \in Nat /\ premium \in Nat /\ seized \in Nat
  BY <1>2, <1>3 DEF Calls, amount, premium, Balances
<1>5. PICK fee \in Nat : fee = Outside!Fee(call.loan)
  BY DEF Outside!Fee
<1>6. Loan \in Nat /\ taken = Loan + fee
  <2>1. CASE call.loan
    <3>1. Loan = amount /\ taken = amount + premium /\ fee = premium
      BY <1>5, <2>1 DEF Loan, Outside!Fee, IInv, CallInv
    <3> QED
      BY <1>4, <3>1
  <2>2. CASE ~call.loan
    <3>1. Loan = 0 /\ taken = 0 /\ fee = 0
      BY <1>5, <2>2 DEF Loan, Outside!Fee
    <3> QED
      BY <3>1
  <2> QED
    BY <2>1, <2>2
<1>7. /\ call.covered \in 1..undo.owed[asset]
      /\ ~call.loan => call.covered <= undo.held[asset]
                          + (IF collateral_asset = asset THEN seized ELSE 0)
      /\ owed' = [undo.owed EXCEPT ![asset] = @ - call.covered]
      /\ pledged' = [undo.pledged EXCEPT ![collateral_asset] = @ - seized]
  BY <1>2 DEF Effect
<1>8. held'[asset] >= 0
  BY <1>3 DEF Balances
<1>9. CASE asset = collateral_asset
  <2>1. held = Plus(Plus(Lent, collateral_asset, seized), asset, -call.covered)
    BY <1>2, <1>9 DEF Effect, Sold
  <2>2. held' = [undo.held EXCEPT
                    ![asset] = @ + seized - call.covered - fee]
    BY <1>3, <1>4, <1>6, <1>9, <2>1 DEF Plus, Lent, Balances
  <2> QED
    BY <1>1, <1>2, <1>5, <1>7, <1>8, <1>9, <2>2 DEF Outside!Liquidate
<1>10. CASE asset # collateral_asset
  <2>1. PICK left \in Leftover :
           /\ left <= undo.held[collateral_asset] + seized
           /\ held = [undo.held EXCEPT
                         ![collateral_asset] = left,
                         ![asset] = @ + Loan + call.got - call.covered]
    BY <1>2, <1>10 DEF Effect, Sold
  <2>2. held' = [undo.held EXCEPT
                    ![collateral_asset] = left,
                    ![asset] = @ + call.got - call.covered - fee]
    BY <1>3, <1>4, <1>6, <1>10, <2>1 DEF Balances
  <2>3. call.got \in Output
    BY <1>2, <1>10 DEF Effect, Sold
  <2>4. PICK got \in Output : got = call.got
    BY <2>3
  <2>5. /\ left <= Seen(state).held[collateral_asset] + seized
        /\ Seen(state)'.held = [Seen(state).held EXCEPT
              ![collateral_asset] = left,
              ![asset] = @ + got - call.covered - Outside!Fee(call.loan)]
    <3>1. held' = [undo.held EXCEPT
              ![collateral_asset] = left,
              ![asset] = @ + got - call.covered - Outside!Fee(call.loan)]
      BY <1>5, <2>2, <2>4
    <3> QED
      BY <1>1, <2>1, <3>1
  <2> QED
    <3>1. /\ call.covered \in 1..Seen(state).owed[asset]
          /\ seized \in 0..Seen(state).pledged[collateral_asset]
          /\ ~call.loan => call.covered <= Seen(state).held[asset]
                          + (IF collateral_asset = asset THEN seized ELSE 0)
          /\ Seen(state)'.owed =
                [Seen(state).owed EXCEPT ![asset] = @ - call.covered]
          /\ Seen(state)'.pledged =
                [Seen(state).pledged EXCEPT ![collateral_asset] = @ - seized]
          /\ Seen(state)'.held[asset] >= 0
      BY <1>1, <1>2, <1>7, <1>8
    <3>2. PICK covered \in 1..Seen(state).owed[asset] : covered = call.covered
      BY <3>1
    <3> QED
      BY <1>10, <2>5, <3>1, <3>2 DEF Outside!Liquidate
<1> QED
  BY <1>9, <1>10

\* The end of a transaction is a step of Liquidating, whose witnesses are
\* those of Effect.
LEMMA EndIsOutside ==
    ASSUME IInv, CollectLoan \/ Return
    PROVE  \E d, c \in Tokens, loan \in BOOLEAN : Outside!Liquidate(d, c, loan)
<1>1. /\ asset \in Tokens /\ collateral_asset \in Tokens
      /\ call.loan \in BOOLEAN /\ amount \in Nat /\ premium \in Nat
      /\ call.pc = "returned" /\ held \in Balances
  BY DEF CollectLoan, Return, IInv, CallInv, BalancesInv, Calls, amount, premium
<1>2. held[asset] \in Nat
  BY <1>1 DEF Balances
<1>3. PICK taken \in Nat :
         taken = (IF call.loan THEN amount + premium ELSE 0)
  BY <1>1
<1>4. /\ held' = [held EXCEPT ![asset] = @ - taken] /\ held[asset] >= taken
      /\ call' = NoCall /\ owed' = owed /\ pledged' = pledged
  <2>1. CASE CollectLoan
    <3>1. taken = amount + premium
      BY <1>3, <2>1 DEF CollectLoan
    <3>2. held[asset] - amount - premium = held[asset] - taken
      BY <1>1, <1>2, <3>1
    <3>3. /\ held' = [held EXCEPT ![asset] = held[asset] - amount - premium]
          /\ held[asset] >= amount + premium
          /\ call' = NoCall /\ owed' = owed /\ pledged' = pledged
      BY <2>1 DEF CollectLoan, Payable
    <3> QED
      BY <3>1, <3>2, <3>3
  <2>2. CASE Return
    <3>1. taken = 0
      BY <1>3, <2>2 DEF Return
    <3> QED
      BY <1>1, <1>2, <2>2, <3>1 DEF Return, Balances
  <2> QED
    BY <2>1, <2>2
<1>5. Outside!Liquidate(asset, collateral_asset, call.loan)
  BY <1>1, <1>3, <1>4, EndIsLiquidate
<1> QED
  BY <1>1, <1>5

\* Every step is one of Liquidating, or leaves what is seen alone.
LEMMA StepIsOutside ==
    IInv /\ [Next]_vars
        => Outside!Next \/ UNCHANGED <<SeenHeld, SeenOwed, SeenPledged>>
<1> SUFFICES ASSUME IInv, [Next]_vars
             PROVE  Outside!Next
                        \/ UNCHANGED <<SeenHeld, SeenOwed, SeenPledged>>
  OBVIOUS
<1> USE DEF SeenHeld, SeenOwed, SeenPledged, Seen
<1>1. CASE UNCHANGED vars
  BY <1>1 DEF vars, state
<1>2. CASE Begin
  <2>1. call = NoCall /\ undo' = state /\ call'.pc = "called"
    BY <1>2 DEF Begin, Liquidatoor, ExecuteOperation, Called, NoCall
  <2> QED
    BY <2>1 DEF NoCall
<1>3. CASE ApproveDebt \/ LiquidationCall \/ Swap \/ SkipSwap
              \/ ApproveRepayment
  <2>1. /\ call.pc # "none" /\ undo' = undo
        /\ call'.pc # "none"
    BY <1>3 DEF IInv, CallInv, Calls, ApproveDebt, LiquidationCall, Swap,
                SkipSwap, ApproveRepayment, Goto
  <2> QED
    BY <2>1, Unseen DEF NoCall
<1>4. CASE CollectLoan \/ Return
  BY <1>4, EndIsOutside DEF Outside!Next
<1>5. CASE Revert
  BY <1>5 DEF Revert, state
<1>6. ASSUME NEW t \in Tokens, WithdrawalERC20(t)
      PROVE  Outside!Withdraw(t)
  BY <1>6 DEF WithdrawalERC20, Outside!Withdraw, state
<1>7. ASSUME NEW t \in Tokens, BorrowerMoves(t)
      PROVE  Outside!Elsewhere
  BY <1>7 DEF BorrowerMoves, Outside!Elsewhere, state
<1> QED
  BY <1>1, <1>2, <1>3, <1>4, <1>5, <1>6, <1>7 DEF Next, Outside!Next

\* Whatever its calls do, a transaction, with a loan or without one, is one step
\* of Liquidating, or none.
THEOREM TransactionIsOneStep == Spec => ImplementsLiquidating
<1>1. Init => Seen(state).held = [t \in Tokens |-> 0]
  BY DEF Init, Seen, state
<1>2. IInv /\ [Next]_vars
        => [Outside!Next]_<<Seen(state).held, Seen(state).owed,
                           Seen(state).pledged>>
  BY StepIsOutside DEF SeenHeld, SeenOwed, SeenPledged
<1> QED
  BY <1>1, <1>2, Invariant, PTL DEF Spec, ImplementsLiquidating, Outside!Spec
=============================================================================
