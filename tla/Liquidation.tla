---------------------------- MODULE Liquidation ----------------------------
(***************************************************************************)
(* One LiquidationRequest in detail (actors/executor.rs, utils.rs): which  *)
(* debt, which collateral, how much and through which Uniswap pool, while  *)
(* the chain and the database go on changing between the handler's reads.  *)
(* Executor says when the handler moves on; this module says what it has   *)
(* in hand, and implements it.                                             *)
(*                                                                         *)
(* Indices and f64 amounts are in hundredths (100 is 1.0); token amounts   *)
(* are whole units.  An f64 holds some amounts only (above 2^53 not every  *)
(* whole number): Doubles says which, and what is parsed or multiplied     *)
(* becomes the nearest of them.                                            *)
(***************************************************************************)
EXTENDS Integers, Sequences, FiniteSets

CONSTANTS
    Assets,      \* the protocol's reserves, a sequence: getUserReservesData's order
    Amounts,     \* scaled balances a user may have
    Indices,     \* variable borrow indices
    Doubles,     \* the amounts an f64 can hold, among them the indices
    Liquidities, \* what a pool may report
    User, None

ASSUME DataAssumption ==
    /\ Assets \in Seq({Assets[i] : i \in 1..Len(Assets)})
    /\ Amounts \subseteq Nat /\ Liquidities \subseteq Nat
    /\ Indices \subseteq {i \in Nat : i >= 100}
    /\ Doubles \subseteq Nat /\ Doubles # {}
    /\ None \notin {Assets[i] : i \in 1..Len(Assets)} \cup Nat

VARIABLES
    position,  \* on chain: [asset -> [aToken, debt]], scaled
    index,     \* on chain: [asset -> variable borrow index]
    stats,     \* aavev3_reserves_stats: the index of a part of the assets
    pools,     \* Uniswap: [fee -> liquidity or None], for the one pair of assets
    pc,        \* where the handler is, as in Executor
    note,      \* its notification, as in Executor
    indices,   \* what GetReservesLiquidityIndices has answered
    picked,    \* [debt, collateral, cover]: user_liquidation_data
    probed,    \* [fee -> liquidity, None]: the pools read so far, in order of FEES
    best       \* [liquidity, fee]: max_liquidity and best_pool

chain == <<position, index, stats, pools>>
local == <<indices, picked, probed, best>>
vars == <<chain, pc, note, local>>

Asset == {Assets[i] : i \in 1..Len(Assets)}
Fees == <<500, 3000, 10000>>

Nothing == [debt |-> None, collateral |-> None, cover |-> 0]
NoPool == [liquidity |-> 0, fee |-> None]
NoNote == [outcome |-> "none", at |-> "none"]

-----------------------------------------------------------------------------
\* utils.rs

Distance(m, n) == IF m <= n THEN n - m ELSE m - n

\* The f64 nearest to n/s hundredths: arithmetic rounds, down or up, and a tie
\* one fixed way.
Nearest(n, s) ==
    CHOOSE e \in Doubles :
        \A f \in Doubles : Distance(s * e, n) <= Distance(s * f, n)

\* norm(val, factor): the whole number is parsed, then multiplied.
norm(val, factor) == Nearest(Nearest(val * 100, 1) * factor, 100)

\* U256::from(f64) of ruint rounds to the nearest integer.
FromF64(x) == (x + 50) \div 100

CLOSE_FACTOR == 50

debt_to_cover(debt) == debt * FromF64(CLOSE_FACTOR)

\* indices.get(asset).unwrap_or(&(1.0, 1.0))
IndexOf(map, asset) == IF asset \in DOMAIN map THEN map[asset] ELSE 100

\* find(): the first asset with a balance, in the order of the call's answer.
Earliest(held) ==
    IF held = {} THEN None
    ELSE Assets[CHOOSE i \in held : \A j \in held : i <= j]
FirstDebt ==
    Earliest({i \in 1..Len(Assets) : position[Assets[i]].debt > 0})
FirstCollateral ==
    Earliest({i \in 1..Len(Assets) : position[Assets[i]].aToken > 0})

\* Mutant of NormalizedDebt: the index of the collateral.
DebtAtCollateralIndex ==
    norm(position[FirstDebt].debt, IndexOf(indices, FirstCollateral))

\* norm(debt.scaledVariableDebt, var_idx): the index of the debt asset.
NormalizedDebt == norm(position[FirstDebt].debt, IndexOf(indices, FirstDebt))

\* getPool: no pool has one asset on both sides.
PoolOf(fee) == IF picked.debt = picked.collateral THEN None ELSE pools[fee]

\* Mutant of Better: the last one of the best pools.
AtLeastAsGood(liquidity) == liquidity >= best.liquidity

Better(liquidity) == liquidity > best.liquidity

-----------------------------------------------------------------------------
\* The handler.

Goto(from, to) == pc = from /\ pc' = to

LiquidationRequest ==
    /\ Goto("idle", "rpc")
    /\ note' = NoNote
    /\ UNCHANGED <<chain, local>>

\* The future ends, and its locals with it.
Forget ==
    /\ pc' = "replied"
    /\ indices' = << >> /\ picked' = Nothing /\ probed' = << >> /\ best' = NoPool

\* health_factor, GetReservesLiquidityIndices: a health factor is there or not,
\* a call or query answers or not.
ReadHealth ==
    /\ Goto("rpc", "indices")
    /\ UNCHANGED <<chain, note, local>>

ReadIndices ==
    /\ Goto("indices", "data")
    /\ indices' = stats
    /\ UNCHANGED <<chain, note, picked, probed, best>>

\* user_liquidation_data: one call answers every balance.  The indices are not
\* looked at again.
ReadPosition ==
    /\ Goto("data", "pool")
    /\ FirstDebt # None /\ FirstCollateral # None
    /\ picked' = [debt |-> FirstDebt, collateral |-> FirstCollateral,
                  cover |-> debt_to_cover(FromF64(NormalizedDebt))]
    /\ indices' = << >>
    /\ UNCHANGED <<chain, note, probed, best>>

\* Mutant of ProbePool: the liquidity of the better pools is added up.
ProbePoolAdding ==
    /\ pc = "pool" /\ Len(probed) < Len(Fees)
    /\ LET fee == Fees[Len(probed) + 1]
           liquidity == PoolOf(fee)
       IN  /\ probed' = Append(probed, liquidity)
           /\ best' = IF liquidity # None /\ Better(liquidity)
                      THEN [liquidity |-> best.liquidity + liquidity, fee |-> fee]
                      ELSE best
    /\ UNCHANGED <<chain, pc, note, indices, picked>>

\* The loop of find_most_liquid_uniswap_pool: one pool is read after the other.
ProbePool ==
    /\ pc = "pool" /\ Len(probed) < Len(Fees)
    /\ LET fee == Fees[Len(probed) + 1]
           liquidity == PoolOf(fee)
       IN  /\ probed' = Append(probed, liquidity)
           /\ best' = IF liquidity # None /\ Better(liquidity)
                      THEN [liquidity |-> liquidity, fee |-> fee] ELSE best
    /\ UNCHANGED <<chain, pc, note, indices, picked>>

\* Mutant of PickPool: best_pool.unwrap_or(..).
PickAnyPool ==
    /\ Len(probed) = Len(Fees)
    /\ Goto("pool", "call")
    /\ best' = IF best.fee = None THEN [best EXCEPT !.fee = 500] ELSE best
    /\ UNCHANGED <<chain, note, indices, picked, probed>>

PickPool ==
    /\ Len(probed) = Len(Fees) /\ best.fee # None
    /\ Goto("pool", "call")
    /\ UNCHANGED <<chain, note, local>>

\* Mutant of GiveUp: the Fanatic is told.
GiveUpWithNotice ==
    /\ pc \in {"rpc", "indices", "data", "pool"}
    /\ pc' = "notify"
    /\ note' = [outcome |-> "failure", at |-> "sent"]
    /\ UNCHANGED <<chain, local>>

\* None, a panic, or "?": the handler ends without a word to the Fanatic.  The
\* call or query it awaits fails, or there is no debt, collateral or pool.
GiveUp ==
    /\ pc \in {"rpc", "indices", "data", "pool"}
    /\ Forget
    /\ UNCHANGED <<chain, note>>

CallLiquidatoor ==
    /\ Goto("call", "notify")
    /\ \E outcome \in {"success", "failure"} :
          note' = [outcome |-> outcome, at |-> "sent"]
    /\ UNCHANGED <<chain, local>>

Notified ==
    /\ pc = "notify" /\ note.at = "done"
    /\ Forget
    /\ UNCHANGED <<chain, note>>

HandlerStep ==
    \/ ReadHealth \/ ReadIndices \/ ReadPosition \/ ProbePool \/ PickPool
    \/ GiveUp \/ CallLiquidatoor \/ Notified

-----------------------------------------------------------------------------
\* The rest of the bot, and the chain.

\* The Fanatic answers the notification, and gets the answer to its request.
FanaticAnswers ==
    /\ note.at = "sent"
    /\ note' = [note EXCEPT !.at = "done"]
    /\ UNCHANGED <<chain, pc, local>>

FanaticTakesAnswer ==
    /\ Goto("replied", "idle")
    /\ UNCHANGED <<chain, note, local>>

\* Any transaction changes a position; indices only grow.
Transaction(a) ==
    /\ \/ /\ \E p \in [aToken : Amounts, debt : Amounts] :
                position' = [position EXCEPT ![a] = p]
          /\ UNCHANGED index
       \/ /\ \E i \in Indices : i > index[a] /\ index' = [index EXCEPT ![a] = i]
          /\ UNCHANGED position
    /\ UNCHANGED <<stats, pools, pc, note, local>>

\* ReserveDataUpdated: the Follower stores the index of the chain.
UpsertReserveStats(a) ==
    /\ a \in DOMAIN stats
    /\ stats' = [stats EXCEPT ![a] = index[a]]
    /\ UNCHANGED <<position, index, pools, pc, note, local>>

\* A pool is created, or its liquidity changes.
UniswapMoves ==
    /\ \E i \in 1..Len(Fees), n \in Liquidities :
          pools' = [pools EXCEPT ![Fees[i]] = n]
    /\ UNCHANGED <<position, index, stats, pc, note, local>>

Surroundings ==
    \/ FanaticAnswers \/ FanaticTakesAnswer
    \/ \E a \in Asset : Transaction(a) \/ UpsertReserveStats(a)
    \/ UniswapMoves

Init ==
    /\ position \in [Asset -> [aToken : Amounts, debt : Amounts]]
    /\ index = [a \in Asset |-> 100]
    /\ \E listed \in SUBSET Asset : stats = [a \in listed |-> 100]
    /\ pools = [f \in {Fees[i] : i \in 1..Len(Fees)} |-> None]
    /\ pc = "idle" /\ note = NoNote
    /\ indices = << >> /\ picked = Nothing /\ probed = << >> /\ best = NoPool

Next == LiquidationRequest \/ HandlerStep \/ Surroundings

Spec == Init /\ [][Next]_vars

-----------------------------------------------------------------------------
\* Type invariant.
TypeOK ==
    /\ position \in [Asset -> [aToken : Amounts, debt : Amounts]]
    /\ index \in [Asset -> Indices \cup {100}]
    /\ DOMAIN stats \subseteq Asset /\ DOMAIN indices \subseteq Asset
    /\ pools \in [{500, 3000, 10000} -> Liquidities \cup {None}]
    /\ pc \in {"idle", "rpc", "indices", "data", "pool", "call", "notify",
               "replied"}
    /\ picked \in [debt : Asset \cup {None}, collateral : Asset \cup {None},
                   cover : Nat]
    /\ Len(probed) <= Len(Fees)
    /\ best \in [liquidity : Liquidities \cup {0},
                 fee : {500, 3000, 10000, None}]

\* The pool a liquidation goes through had liquidity, more than the pools of the
\* lower fees and as much as any other when each was read
\* (find_most_liquid_uniswap_pool, utils.rs:96-114).
ChoiceIsMostLiquid ==
    pc = "call" =>
        \E i \in 1..Len(Fees) :
           /\ best.fee = Fees[i] /\ probed[i] # None /\ probed[i] > 0
           /\ \A j \in 1..Len(Fees) : probed[j] # None =>
                 IF j < i THEN probed[j] < probed[i] ELSE probed[j] <= probed[i]

\* Whatever the database lags behind the chain, and with no row for the asset
\* at all (it counts as 1.0), the handler never asks to cover more than it would
\* with the index of the chain at the time it reads the position
\* (executor.rs:132-146, utils.rs:55-59): indices only grow, and rounding keeps
\* their order.  f64 itself may still round a debt to more than is owed.
CoverIsCurrent ==
    [][pc = "data" /\ pc' = "pool" =>
          picked'.cover <= FromF64(norm(position[picked'.debt].debt,
                                        index[picked'.debt]))]_vars

\* A user who owes and holds the same asset first is not liquidated: there is
\* no pool of one asset.  The branch of Liquidator.sol:73 that does without a
\* swap is never taken.
SidesDiffer == pc = "call" => picked.debt # picked.collateral

-----------------------------------------------------------------------------
\* What a single request does is what Executor says of a listener's request.

requestBar == [l \in {"price", "user"} |->
    IF l = "user" /\ pc # "idle" THEN [pc |-> pc, user |-> User]
    ELSE [pc |-> "idle", user |-> None]]
noteBar == [l \in {"price", "user"} |-> IF l = "user" THEN note ELSE NoNote]

E == INSTANCE Executor WITH
        Users <- {User}, HealthFactors <- {95, 2000000},
        request <- requestBar, note <- noteBar

\* Every step of the handler is a step of Executor, or is within one of its
\* reads; whatever else happens leaves the request alone, or is what Bot does
\* with it.
ImplementsExecutor ==
    E!ExecutorInit /\
    [][\/ UNCHANGED <<pc, note>>
       \/ E!ExecutorStep("user") \/ E!SendRequest("user", User)
       \/ UNCHANGED pc /\ note.at = "sent"
       \/ pc = "replied" /\ UNCHANGED note]_vars

-----------------------------------------------------------------------------
\* What the repository says of the amount, and TLC refutes.

\* utils.rs:12, "liquidators can only liquidate a maximum of 50% of the amount
\* pending to be repaid in a position", rounding apart.
CloseFactorRespected ==
    [][pc = "data" /\ pc' = "pool" =>
          2 * picked'.cover <= FromF64(norm(position[picked'.debt].debt,
                                            index[picked'.debt]))]_vars
=============================================================================
