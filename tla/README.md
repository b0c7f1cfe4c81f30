# TLA+ models of the Aave V3 liquidation bot

The repository is an off-chain service in Rust (actix actors over tokio, a
websocket provider, postgres) that follows Aave V3 and Chainlink logs, keeps the
health factors of borrowers, and calls a Solidity contract to liquidate whoever
falls below 1.0. This directory models the service's control: what runs
between two awaits, who waits for whom, what a panic takes down, what is in
memory and what in the tables, and the contract's transaction. TLC checks it on small
instances; TLAPS proves every safety property the passing runs check for all instances.

## The system

| component | source | state | operations |
|---|---|---|---|
| Follower | `actors/follower.rs` | the Fanatic's address, two listeners | `SendFanaticAddr`, `StartListeningForOraclePrices`, `StartListeningForEvents`; per log: read an oracle, store price or indices, send to the Fanatic and await |
| Fanatic | `actors/fanatic.rs` | `users` and `reserves` (two maps behind two tokio mutexes), the Executor's address | `UpdateReservePrice`, `UpdateReserveUser`, `DoSmthWithLiquidationCall`, `SuccessfulLiquidation`, `FailedLiquidation`, `SendExecutorAddr`, `Shutdown`, the 60 s interval task |
| Executor | `actors/executor.rs` | addresses only | `LiquidationRequest` |
| Database | `actors/database.rs`, `actors/messages/database.rs` | the postgres tables | 13 messages: queries, upserts, one transaction per user |
| arithmetic | `utils.rs` | none | `health_factor`, `user_liquidation_data`, `debt_to_cover`, `find_most_liquid_uniswap_pool`, `user_positions` |
| boot | `run.rs` | the addresses, two signals | start the actors, wait for a signal, `Shutdown`, stop |
| schema | `migrations/` | - | keys, foreign keys, seed rows |
| Liquidator | `contracts/src/Liquidator.sol` | balances and allowances | `liquidatoor`: flash loan and call of `executeOperation`; `executeOperation`, also called alone: liquidation, swap, approval of the repayment; withdrawals |
| rest | `contracts.rs`, `args.rs`, `configs.rs`, `main.rs`, `consts.rs` | none | bindings, command line, records |

How they interact:

- The Follower's two listeners are futures of its context. Each sends a log to
  the Fanatic and awaits the answer before it takes the next one, and unwraps
  it. So the Fanatic has at most one price event and at most one user event (or
  liquidation call) in hand, and a handler that gives no answer ends the
  Follower with both listeners.
- The Fanatic's handlers are futures on one arbiter thread. They share the two
  mutexes, and are interleaved at every `await`: locks, remote calls, queries,
  messages to the Executor.
- A handler that meets a health factor below 1.0 sends a `LiquidationRequest` and
  awaits it; the Executor, before it answers, sends the Fanatic a
  `SuccessfulLiquidation` or `FailedLiquidation` and awaits that.
- `update_recent_users` runs every 60 s and once at shutdown. It holds the users
  guard across one chain read and one transaction per user.
- The tables outlive the process. The books are read from them once, at the start.
  The reserves are read from the chain only when there are none in the tables: what the
  first start finds out about a reserve (its aggregator above all) is never revised.
- A price takes the way Chainlink aggregator, log, Follower, `aavev3_reserves_stats`,
  Fanatic. The row's indices come by the other listener. The two listeners and the
  Executor's reads of the row are not ordered by anything.
- The Executor's last step is a call of `liquidatoor`, in which Aave's Pool calls the
  contract back and Uniswap's router is called by it. The function the Pool calls back,
  `executeOperation`, looks neither at its caller nor at the initiator
  (`Liquidator.sol:48-54`): it does the same when it is called alone.

What is hard to get right here: guards that live across awaits; a cycle of
actors that await each other; a value read before an await and written after it;
early returns and panics that hold guards or owe an answer; the order in which
actors learn each other's addresses; a run of the interval that fails, is slow
or overlaps the next one; a crash within a transaction; a price that has two
writers, two copies and a log that names one of several sources; a contract that
pays with whatever it holds.

What makes each component correct:

- Fanatic: both locks are taken in one order and always given back; a scan sees two
  books that agree and covers every member; nothing a handler does is undone
  by another that was suspended; every event is handled to its end.
- Executor: one request leads to at most one notification, while it is awaited; what it
  asks to cover is not made too much by indices out of date or of another asset, and goes
  through a pool that exists.
- Follower: it listens for as long as the bot runs; nobody waits for an answer that
  cannot come. The price it stores is the one the reserve has.
- Database: a user's rows are written together, and equal the chain as read; the
  reserves are all there or none is; no row goes back.
- boot: addresses are known when they are needed; a signal ends the process after
  the attempt to write the users.
- Liquidator: all or nothing; a loan leaves the Pool no allowance beyond the loan, and a
  liquidation that pays for itself can be paid.

`PROJECT.json` lists the hazards at their lines, with the properties that watch them.

## Modules

| module | models | extends or uses |
|---|---|---|
| `AsyncMutex` | `tokio::sync::Mutex`: a fair, non-reentrant queue of guards | - |
| `Actors` | users, health factors, requests and notifications shared by two actors | - |
| `Executor` | a `LiquidationRequest`, read by read | `Actors` |
| `Fanatic` | both books, both locks, every handler, the interval task, the shutdown | `Actors`, `AsyncMutex` |
| `Bot` | the composition of the two, its fairness and its properties | `Fanatic`, `Executor` |
| `BotProofs` | theorems about `Bot`: types, books, rows, the wedge | `Bot`, `TLAPS` |
| `GuardProofs` | theorems about `Bot`: guards, lock order, notifications | `BotProofs` |
| `Startup` | `run()`, `started()`, mailboxes, unwraps, death of actors | - |
| `StartupProofs` | the theorems about `Startup` | `Startup`, `TLAPS` |
| `Liquidation` | the data of one request: debt, collateral, amount, pool | `INSTANCE Executor` |
| `LiquidationProofs` | the theorems about `Liquidation` | `Liquidation`, `TLAPS` |
| `Persistence` | the clock, `update_recent_users`, transactions, crash and reload | - |
| `PersistenceProofs` | the theorems about `Persistence` | `Persistence`, `TLAPS` |
| `Oracle` | prices and indices: the first filling, the aggregator mapping, both listeners, memory and table | - |
| `OracleProofs` | theorems about `Oracle`: the first filling, memory and table | `Oracle`, `TLAPS` |
| `FreshnessProofs` | theorems about `Oracle`: types, rows that never go back | `OracleProofs` |
| `Liquidating` | the contract's transaction as one step | - |
| `Liquidator` | the transaction call by call | `INSTANCE Liquidating` |
| `LiquidatorProofs` | the theorems about `Liquidator` | `Liquidator`, `TLAPS` |
| `MCBot`, `MCLiquidation`, `MCPersistence`, `MCOracle`, `MCLiquidator` | model values for TLC | |

### Fanatic, Executor, Bot

`users` maps a user to a health factor, `reserves` a reserve to its users and
price. A lock is the queue of the guards that were asked for and not dropped;
its head is the guard alive. `pc[t]` names the await task `t` is suspended at: the
two listeners' handlers (`"price"`, `"user"`), the interval runs (`Ticks`) and the
shutdown. `job` holds a handler's message and locals, `todo` what a loop has
left, `request[l]` and `note[l]` the Executor's request and notification of
listener `l`. An action is what a handler does from one await to the next, so
each begins with the answer it waited for or the guard it was granted:

| code (`fanatic.rs`) | actions |
|---|---|
| 338-373 set the price | `UpdateReservePrice`, `SetReservePrice` |
| 373-386 take both guards, collect | `SkipUnknownReserve`, `LockUsersForScan`, `CollectHighPrio` |
| 386-458 the two loops | `RequestFromScan`, `ScanRequestAnswered`, `RecordFromScan`, `RecordHealth`, `PassOverInScan`, `ScanAllUsers`, `AbandonScan`, `PanicInScan`, `EndScan` |
| 468-541 user event | `UpdateReserveUser`, `IgnoreUser`, `PanicOnUser`, `ReadUserHealth`, `RequestForUser`, `UserRequestAnswered`, `KeepUser`, `DiscardUser`, `AddMember`, `RecordHealth` |
| 543-563 liquidation call | `DoSmthWithLiquidationCall`, `InsertLiquidationCall` |
| 599-636 notifications | `ReceiveNotification`, `MarkUser` |
| 71-94, 107-152, 565-597 | `BeginPersist`, `IndicesUnavailable`, `LockUsersToPersist`, `PersistBegin`, `UpsertUserData`, `PersistDone` |

Health factors are hundredths; `HealthFactors` in the runs takes one value from
each range the code tells apart: 95 (below 1.0), 150 (kept), 20000 (100.0 or more: not
kept), 2000000 (above 10000: `None`). The iteration order of a `HashSet` is a choice. Time
is left out: which users are "recent" is any subset, which `Persistence` refines.

### Startup

What `run()` does next, which actors are up, the mailboxes, whose answer is awaited,
which messages a future of the Fanatic is handling. A panic in an actor's own context
(`Dies`) closes its mailbox, drops the answers owed to whoever is in line, and takes
the context's futures along; handlers' futures are tasks of their own and go on. Handlers
are reduced to "answers, or drops its answer, or is wedged", which `Bot` justifies. A message
whose sender has gone with its context is not handled when its turn comes (`SkipDropped`).

The mailboxes hold what the contexts, the listeners and `run()` send. What the handlers'
futures send is not in them: a `LiquidationRequest` to the Executor, the Executor's
`SuccessfulLiquidation` or `FailedLiquidation` to the Fanatic (two of them at once, when
both listeners' handlers have a request under way), queries to the Database. The first two
are in `Bot`. So `Startup` says nothing about the capacity of a mailbox.

`flush` is how the Shutdown handler has ended: its users written, or a failure on the way,
which the handler answers with the same `Ok` (`fanatic.rs:585-592`).

### Liquidation

The handler's locals while every other party moves: positions, indices, the database's
copy of the indices, the pools. The amount to cover passes through `f64`: `norm` parses the
debt and multiplies it by an index, and each of the two results is rounded to an amount an
`f64` can hold (`Nearest`, in `Doubles`), down or up. `FromF64` is ruint's conversion
back, which rounds to the nearest integer. `requestBar` and `noteBar` map it to `Executor`'s variables;
`ImplementsExecutor` says that each step is a step of `Executor` or a stutter.

### Persistence

A clock in units of 10 s, the interval of 6 and the window of 7 units. The users lock is
its holder; handlers that write the books are the one action `RecordUser`. A user's upsert
is a transaction of three kinds of step (`UpsertUserData`: read the chain, begin, delete;
`UpsertPosition` per row; `Commit`), whose writes are invisible until it commits; `Fails`
and `Crash` roll it back. Once the shutdown's handler has ended, nothing of the process goes on
(`up`), an interval run that waits for the lock included. `Restart` reloads the books by the join of `get_reserves_users`.

### Oracle

A feed is a Chainlink proxy, an address `<<feed, phase>>`; its phases are the
aggregators it has been pointed to, and only they emit `AnswerUpdated`. A reserve's
oracle is a contract of one of the kinds `aggregator_addr` tries (`Kind`), and its price
is made of one or two feeds (`Legs`). So a price is a function from feeds to rounds: two
prices differ when one of them is older, or leaves out a feed. `pc` is the start:

| code | actions |
|---|---|
| `fanatic.rs` 155-231 `new`, `init`, start of `_init_reserves` | `FanaticNew`, `GetReserves`, `GetReservesData` |
| `fanatic.rs` 232-287, 289-335, `upsert_reserves` | `LookUpAggregator`, `ReadOraclePrice`, `UpsertReserve`, `CommitReserves` |
| `fanatic.rs` 56-69 | `StartListening` |
| `follower.rs` 119-188 | `GetAggregatorMapping`, `SubscribeLogs`, `TakeAnswer`, `ReadAnswer`, `UpdateOraclePrice`, `UpdateReservePrice`, `FanaticAnswers`, `FanaticHangs`, `SubscriptionEnds` |
| `follower.rs` 192-204, 289-340 | `SubscribeEvents`, `TakeUpdate`, `UpsertReservesStats`, `EventsEnd` |
| the `unwrap()`s; a stop, a kill or a failed start | `FollowerPanics`; `ProcessEnds` |

`ChainMoves` is the rest of the world: a round, an upgrade of a feed, an index. A
subscription holds `Backlog` logs and drops the oldest when it lags, as a broadcast
channel does. The user events of `listen_events` are in `Bot` and are left out here: they
touch neither table nor memory of this module. `moved` and `lagged` are history
variables; no guard reads them.

### Liquidating, Liquidator

`Liquidator` has the contract's two entries, `Liquidatoor` (a loan, which the Pool hands
over before it calls `executeOperation`) and `ExecuteOperation` (the same function called
without a loan, with any amount and premium), and from there one action per external
call, with the balances and allowances those calls move. Aave's Pool, Uniswap's router and
the tokens are external and choose: how much of the debt is covered, how much collateral is
paid for it, what a swap brings and leaves. A transaction ends with `CollectLoan`, or with
`Return` when there is no loan. Any call may revert, which restores `undo`.
`Liquidating` is what is left when one looks from outside: a step in which all of
that happens at once. The refinement mapping `Seen` shows the balances as they were
before the transaction until it has ended.

Allowances do outlive a transaction: the router keeps one of what a swap has left unsold
(`Liquidator.sol:79`), and the Pool keeps that of line 106 when there is no loan to
collect. `LoanLeavesNothing` is about the transactions with a loan only.

## Runs

| run | instance | what it shows |
|---|---|---|
| `bot_handlers` | 1 user, 1 reserve, 1 interval run, shutdown, all four ranges, `FairSpec` | `TypeOK`, `LockOrder`, `NoLeakedGuard`, `MembersKnown`, `ConsistentSnapshot`, `NoteWhileAwaited`, `WedgeFreezesBooks`, `UserEventEnds`, `PriceEventEnds`, `ShutdownEnds` |
| `startup_life` | no bound but the code's own | `TypeOK`, `FanaticAddrKnown`, `AwaitedIsAnswerable`, `StopAwaitsFlush`, `SignalEnds`, `DeathSpreads` |
| `liquidation_request` | 2 assets, each with or without a row, balances 0 and 11, index 1.0 to 1.5, an `f64` of two binary digits, 3 fees | `TypeOK`, `SidesDiffer`, `ChoiceIsMostLiquid`, `CoverIsCurrent`, `ImplementsExecutor` |
| `persistence_flush` | 1 user, 2 overlapping interval runs, shutdown, restarts, 120 s | `RunsFlush` |
| `persistence_rows` | 2 users, 2 reserves with and 1 without a row, failures | `TypeOK`, `PositionsHaveStats`, `PositionsReplaced` |
| `oracle_prices` | 3 reserves on 2 feeds, a shared feed, an upgrade, a round per aggregator, a log in line, 2 starts, `FairSpec` | `TypeOK`, `MemoryAgrees`, `FilledAtOnce`, `NeverOlder`, `RoundReachesTable` |
| `liquidator` | 2 tokens (symmetric), debts and collateral up to 2, calls with and without a loan for 2 and a fee of 1, swaps that bring less or more than is owed and leave a unit, any number of transactions | `TypeOK`, `ProfitIsEnough`, `LoanLeavesNothing`, `ImplementsLiquidating` |

Runs that TLC refutes, each a statement of the repository (see `findings`):

| run | statement | what happens |
|---|---|---|
| `bot_complete` | `PriceUpdateCompletes` (README "Flow") | the price handler locks `users` under its own guard and hangs |
| `bot_exhaustive` | `ScanIsExhaustive` (`fanatic.rs:343`) | a member whose health factor is `None` ends the second loop (425); another member is left, and is never read |
| `bot_mark` | `LiquidatedMarkKept` (`fanatic.rs:609`) | a user in memory is marked by the notification; the handler then writes the older health factor over the mark |
| `liquidation_half` | `CloseFactorRespected` (`utils.rs:12`) | 0.5 rounds to 1: the whole debt |
| `oracle_value` | `ValueTracked` (`README.md:21`) | a reserve priced in two feeds is followed by the logs of one |

`oracle_value` has one reserve, two feeds and no upgrade; it shows a round of the second
feed that nobody hears. There are other ways for a price to stay behind, which `Oracle`
contains and this run does not have: two reserves that share an aggregator are one entry
of the mapping (`Mappings`); of a rate-cap adapter the proxy is stored, which emits nothing
(`Resolved`); an upgrade of the feed leaves the filter with the old aggregator
(`NewPhase`). A failed lookup is stored as NULL for good (`Lookups`).

Further disagreements that need no run to be seen; the models contain the behaviour:

- `executor.rs:169` simulates the liquidation with `call()`, where `README.md:77,93` say
  "execute" (`CallLiquidatoor` leaves the chain unchanged); nothing verifies that "the
  opportunity is profitable" (76, 92).
- The listeners run from `Fanatic::started` on, before the Executor exists. A log that is
  handled before `SendExecutorAddr` makes `executor_addr.clone().unwrap()`
  (`fanatic.rs:344,474`) panic, where `executor.rs:48` has "notify `fanatic` of our
  address" (`FanaticUnwrapsNone` in `Startup`; `DeathSpreads` says what follows).
- One failed call in a handler ends both streams (`FollowerPanics`), where `README.md:21`
  has prices tracked in real time.
- `database.rs:639` deletes nothing for a user without positions (`DeletePositions`), where
  `README.md:22` has open positions kept in postgres.
- The shutdown logs "upsert all users" (`fanatic.rs:589`) after it has upserted the recent
  ones; those of a failed run are not among them (`Fails`, `Recent`).

Why the bounds are enough. A listener has one event in hand, so a second reserve adds
only reserves that no one reads; one user is enough for every lock and every pc, a
second one for loops that are left half-way, which is the instance of `bot_exhaustive`
(`ScanIsExhaustive` counts the members still to come besides the one just read, so it
needs two);
what may depend on more users, reserves or runs than an instance has (`MembersKnown`,
`ConsistentSnapshot`, `NoLeakedGuard`, `RunsFlush`, `NeverOlder`, ...) is proved for any
number. One interval run, the shutdown and the two
handlers put up to five guards in line. The interesting boundary of `Persistence` is an
update between two ticks: 120 s hold two ticks, and the third starts from what the
second left. Two assets are the least at which debt and collateral may differ or agree. In
`liquidation_request` a debt of 11 lies between two amounts of `ShortDoubles` and is
rounded up, its product with 1.5 down: both directions occur, as they do with 53 digits.
In `oracle_prices` the three reserves are the three ways a price and a log can be related (a feed of its own, a shared
feed, half of a product); one reserve's indices move (`Indexed`) and one feed is
upgraded (`Upgraded`), which is enough for two writers of a row and for a filter that is
out of date; a backlog of one log is the least that can be overrun, and the second start the
least that can meet the tables of an earlier one. In `liquidator` `MaxHeld` lets the
contract keep the remainders of several transactions, of which calls without a loan can
pay; what is asked (2) may be more than is owed, less or as much, so a cover is partial or
not. The two tokens enter alike everywhere, hence the symmetry.
`CHECK_DEADLOCK FALSE` stands where the system really stops (after a shutdown, a panic of
`main`, a wedged price handler), or where the clock or the chain has reached its bound.

### Fairness

`Bot!FairSpec`: every future that is not waiting for another one is polled until it
ends (the runtime wakes it), and remote calls and queries answer or fail, which is what
the provider's and the pool's errors are for. One weak fairness condition per task;
logs, ticks and signals need not come. A lock needs no strong fairness: tokio's
mutex is a queue. `Startup!FairSpec` is the same for `main`, the contexts and the
futures; nothing frees a wedged bot, so futures are fair only until then. The
liveness properties name `Wedged` as the way out the code really takes; `bot_complete`
is the same statement without it. `Oracle!FairSpec` has one condition, for the
price listener's future: it is polled, and each call it awaits answers or fails. Neither
the chain nor a restart is fair. `RoundReachesTable` names the two other ends: a dropped
log, a wedged Fanatic.

## Proofs

### `BotProofs`

For all `Users`, `Reserves`, `Prices`, `Ticks` and `HealthFactors`, from the assumptions
`HealthFactorsAreNat`, `TicksAreNotHandlers` and `NoneIsFresh` at most:

- `TypeCorrect`: `Spec => []TypeOK`.
- `ScanFindsMembers`: `Spec => []MembersKnown`.
- `SnapshotIsConsistent`: `Spec => []ConsistentSnapshot`.
- `WedgeIsForever`: `Spec => WedgeFreezesBooks`.

None of these is inductive alone. The inductive invariant `IInv` is the conjunction of

- `TypeOK`;
- `HoldInv`: which guard is at the head of which queue, by the `pc` of its owner. It is
  what makes a write exclusive, and what makes the wedge final: the price handler's
  second guard can never reach the head (`OnlyUserRecords`, from `OneGuard`);
- `JobInv`: what a handler's locals hold at each await (a `None` read before a
  guard would be a write outside the types);
- `MemberInv`: a member without an entry in `users` is the one the user handler is
  between its two writes for. It then holds the reserves guard, which the scan needs;
- `TodoInv`: a persister only goes through users that have an entry;
- `ConsistentSnapshot`: what it has written is what memory holds; no one else has the
  guard.

For each part there is a lemma per group of actions (`TypePrice`, `HoldUser`, ...), with a
step per action; `Invariant` combines them. `WedgeIsForever` then needs a case per
action that could disturb the books.

### `GuardProofs`

On top of `IInv` of `BotProofs`, with the same assumptions:

- `NoGuardLeaks`: `Spec => []NoLeakedGuard`.
- `LocksAreOrdered`: `Spec => []LockOrder`.
- `MarksOnlyWhileAwaited`: `Spec => []NoteWhileAwaited`.

`NoLeakedGuard` says of each guard in line that its owner is at an await at which it has
it or waits for it. A step that drops a guard takes it out of the line once, so the
property is inductive only with the other half: no guard is in line twice (`Distinct`, in
`UsersInv` and `ReservesInv`). `LockJoins` and `UnlockLeaves` say what the two ends of the
queue do to the guards in it, and each action cites one of them or leaves the line alone.
Two guards have the notification as their owner, so `NoteInv` ties request and
notification to the listener's await: the Executor has one in hand only while the
listener that asked is suspended. `LockOrder` and `NoteWhileAwaited` follow from these.

### `LiquidatorProofs`

For all `Tokens`, `Amounts`, `Premium`, `Premiums`, `Output`, `Leftover` and bounds, from
`LiquidatorAssumption`:

- `TypeCorrect`: `Spec => []TypeOK`, which has every balance in `Nat`.
- `LoansLeaveNothing`: `Spec => LoanLeavesNothing`.
- `ProfitSuffices`: `Spec => []ProfitIsEnough`.
- `TransactionIsOneStep`: `Spec => ImplementsLiquidating`.

The inductive invariant says, for each place of the transaction, how far the world is from
`undo`: `CallInv` (its locals, and that the premium of a loan is the Pool's),
`AllowanceInv` (what the Pool may take of the debt asset: the amount, the amount less the
cover, the amount and the premium; of other tokens what it could take before) and
`EffectInv` (the balances, as `undo`'s with the loan if there is one, one cover, one
seizure and one swap applied). `EffectInv` holds the witnesses for the abstract step: when
the Pool collects the loan, or `executeOperation` returns without one, they are what
`Liquidate` asks for (`EndIsOutside`). That the debt asset was there to be taken is the
condition the abstract step has for a call without a loan.

### `OracleProofs`

For all values of the constants, no assumption needed:

- `TablesFilledAtOnce`: `Spec => FilledAtOnce`.
- `MemoryHasTablePrices`: `Spec => []MemoryAgrees`.

The inductive invariant is `ShapeInv` (memory and mapping name listed reserves only),
`FillInv` (while the start fills the tables, tables and memory are empty: without it the
commit could replace prices that memory has) and `AgreeInv` (memory and table agree
everywhere but between the listener's two writes, and there in all reserves but one; a
listener that goes down there never waits again).

### `FreshnessProofs`

On top of `OInv` of `OracleProofs`, from `OracleAssumption` and `NoneIsFresh`:

- `TypeCorrect`: `Spec => []TypeOK`.
- `RowsNeverOlder`: `Spec => NeverOlder`.

The property is about steps, and says that what a listener writes is not older than what
the row has. What it writes was in line before, so the invariant is about the lines:

- `RowsBehind`, `FoundBehind`, `PhaseInv`: neither a row nor what the start has read
  is ahead of the chain, and a replaced aggregator is behind its successor; `FoundInv`: what
  is inserted has a price;
- `PendingInv`: an aggregator with a log in line, or whose answer is being read, has
  an answer at least as new as the price of each row mapped to it. It was the feed's
  current one when it emitted the log, and rows are behind the feed. So a late log
  of a replaced aggregator takes no row back: nothing else writes the price of the
  row mapped to it (`MappingInv`), so the row has not seen the successor either;
- `StoreInv`: the answer that has been read lies between the row and the aggregator;
- `UpdatesInv`, `UpsertInv`: indices in line are in the order they had on chain and none is
  older than its row's. `LineInv`: nothing is in line before the listeners start.

### `StartupProofs`

No assumption is needed.

- `TypeCorrect`: `Spec => []TypeOK`.
- `ListenersKnowTheFanatic`: `Spec => []FanaticAddrKnown`.
- `NobodyWaitsInVain`: `Spec => []AwaitedIsAnswerable`.
- `NoStopUnderFlush`: `Spec => []StopAwaitsFlush`.

The properties rest on each other, and the invariant has them all: a mailbox gives up an
answer by its head, which says who is answered only if no second message has the same sender
(`OneMessageEach`, of the messages `Startup` has); and there is no second one because
whoever has a message in line still awaits it. `MailInv`
says of each message where it may lie and that its sender awaits it or is `Gone`;
`ReplyInv` what an answer says of its caller's own state; `AddrInv` that `started()` gets past
its first message only when the Follower has the address; `StopInv` that the answer to
`Shutdown` comes after its handler has ended. Each action either sends one message (`SendKeeps`),
takes one (`LeaveKeeps`) or kills an actor (`DiesIInv`), which answers everyone in line and
orphans nobody else.

### `LiquidationProofs`

For all `Assets`, `Amounts`, `Doubles`, `Liquidities` and `Indices`, from `DataAssumption`:

- `TypeCorrect`: `Spec => []TypeOK`.
- `SidesAlwaysDiffer`: `Spec => []SidesDiffer`.
- `MostLiquidIsChosen`: `Spec => []ChoiceIsMostLiquid`.
- `CoverStaysCurrent`: `Spec => CoverIsCurrent`.
- `RequestIsExecutors`: `Spec => ImplementsExecutor`.

`CoverIsCurrent` compares two indices that were read at different times: `StatsInv` has the
table's index and the handler's copy never ahead of the chain, and debts grow with their
index (`DebtGrows`). Rounding to the nearest of a set of amounts keeps their order, whatever
the set is (`NearestMonotone`: of two numbers, what is nearest to the larger is not below
what is nearest to the smaller), so `norm` is monotone in the index (`NormMonotone`), and
so are the conversion back and what is taken of it (`FromF64Monotone`, `CoverBound`). The
theorem does not say that the amount is at most what is owed: above 2^53 `f64` may have
rounded the debt itself up. `BestInv` is the loop over the pools: the best so far is the first of the
most liquid of those probed. For the refinement the invariant says where the
handler's locals have been set, and each of its steps is mapped to a step of `Executor` or
leaves `requestBar` and `noteBar` as they are.

### `PersistenceProofs`

For all `Users`, `Reserves`, `Listed`, `Ticks`, `Health` and `MaxTime`, from
`PersistenceAssumption`:

- `TypeCorrect`: `Spec => []TypeOK`.
- `RowsHaveStats`: `Spec => []PositionsHaveStats`.
- `RowsAreReplaced`: `Spec => PositionsReplaced`.
- `EveryRunFlushes`: `Spec => RunsFlush`.

`EveryRunFlushes` is why `SECS` is more than `INTERVAL`. `FlushInv`: a user whose
health factor is not in the table was recorded after the last tick, or is in the window of
a run that has yet to take the lock, or is among those a run is going through. A tick keeps it,
because the window of the run it starts reaches back past the tick before. When the last run
ends, only those recorded after the last tick are left, and `WindowInv` has none of them:
whoever the run has not written was recorded before its window, which begins before that
tick, however long the run has waited for the lock. `HolderInv` (one run goes
through its users at a time), `RunInv` and `ClockInv` (the interval fires within its period)
are what these two need. `TxInv` describes the open transaction between two of its
statements, which `RowsAreReplaced` needs at the commit and `RowsHaveStats` at each insert.

### Model-checked only

Liveness, being out of the prover's reach: `UserEventEnds`, `PriceEventEnds`, `ShutdownEnds`,
`SignalEnds`, `DeathSpreads`, `RoundReachesTable`. Every other property of a passing run is
a theorem. The statements that runs refute have no theorem, of course.

## Not modelled

The encoding of logs and answers: which kind of contract answers which method is `Kind`,
and tokens whose `approve` or `transfer` returns nothing, of which USDT is one
(`Liquidator.sol:60,79,92`), are calls that revert. The exchange rate and the cap of a
price adapter, by which its answer differs from the aggregator's. ERC-20, protocol and
liquidation rows; a second market in the same tables, which `database.rs:635-639` and the
joins by reserve do not keep apart. The rounding of health factors and prices, of which the models keep one value
per range; time zones of timestamps; reorganisations of the chain (`log.removed` is not
looked at): rounds and indices of `Oracle` only move forward;
calls nested in a call of the contract (a loan within a swap, say); the mailboxes of the Database and,
in `Startup`, the messages of handlers' futures;
`withdrawalETH`; bindings and command line. The pile of interval runs behind a wedged
lock (`fanatic.rs:71`), which has no bound. `UpsertUsersStats` and
`GetProtocolDeployBlock` are handled by the Database but sent by no one.

## Plan

Done, in this order: the mutex and the two actors that share it (`AsyncMutex`, `Actors`,
`Executor`, `Fanatic`, `Bot`), then `Startup`, `Liquidation`, `Persistence`, `Oracle`, and
the contract (`Liquidating`, `Liquidator`), each with the proofs of its safety properties.

Next:

1. `Bot` as an implementation of the future that `Startup` abstracts it to, and
   `Persistence` as a refinement of the persister in `Fanatic`, with the proofs of both.
2. `Tables`: the rest of the schema, and two markets in it.
