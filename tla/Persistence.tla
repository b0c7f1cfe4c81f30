---------------------------- MODULE Persistence ----------------------------
(***************************************************************************)
(* What survives the process: update_recent_users (actors/fanatic.rs) with *)
(* its clock, the tables it writes (messages/database.rs, migrations/),    *)
(* and the books Fanatic::new reads back after a crash or a shutdown.      *)
(* Bot leaves time out and checks the locks; here the users lock is its    *)
(* holder, the handlers that write the books are one action, and the clock *)
(* is in units of 10 s.                                                    *)
(*                                                                         *)
(* The timer is punctual: a tick starts within its unit of time.  A run    *)
(* may take any time.  A transaction is invisible until it commits, and    *)
(* the guard makes it the only one that writes these tables.  Amounts are  *)
(* left out of positions, and so are users of other protocols.             *)
(***************************************************************************)
EXTENDS Integers, FiniteSets

CONSTANTS
    Users, Reserves,
    Listed,       \* the reserves with a row in aavev3_reserves
    Health,       \* health factors a handler may record
    None,
    Ticks,        \* BOUND: interval runs alive at one time
    MaxTime,      \* BOUND: the clock stops here
    MayFail       \* whether reads and upserts fail (FALSE: the undisturbed bot)

ASSUME PersistenceAssumption ==
    /\ Listed \subseteq Reserves
    /\ MaxTime \in Nat /\ MayFail \in BOOLEAN
    /\ None \notin Users \cup Ticks \cup {"shutdown"} \cup Health
    /\ "shutdown" \notin Ticks

Persisters == Ticks \cup {"shutdown"}

VARIABLES
    now,        \* the clock
    nextTick,   \* when the interval fires again
    up,         \* the process runs
    chain,      \* [Users -> SUBSET Reserves]: open positions on chain
    users,      \* memory: user -> [hf, last]
    reserves,   \* memory: reserve -> users
    stats,      \* table aavev3_users_stats (and aavev3_users): user -> [hf, at]
    positions,  \* table aavev3_positions: set of [user, reserve]
    run,        \* [Persisters -> [pc, start, todo]]
    holder,     \* the persister whose users guard is alive
    tx,         \* its open transaction: what upsert_user_data has done so far
    failed      \* history: a run since the start of the process has failed

clock == <<now, nextTick, up>>
books == <<users, reserves>>
tables == <<stats, positions>>
runs == <<run, holder, tx, failed>>
vars == <<clock, chain, books, tables, runs>>

\* 60 s and 70 s.
INTERVAL == 6
SECS == 7

Idle == [pc |-> "idle", start |-> 0, todo |-> {}]

\* user, held: the parameters; left: the rest of the loop over them; at: NOW();
\* positions: the table as the transaction sees it.
NoTx == [user |-> None, held |-> {}, left |-> {}, at |-> 0, positions |-> {}]

-----------------------------------------------------------------------------
\* messages/database.rs

\* Mutant of DeletePositions: nothing is deleted.
DeleteNoPositions(rows, u, kept) == rows

\* DELETE .. WHERE user_address = $1 AND reserve != ANY($2): a row goes if some
\* reserve of the list is not its own.
DeletePositions(rows, u, kept) ==
    {p \in rows : ~(p.user = u /\ \E r \in kept : p.reserve # r)}

\* get_reserves_users: the join of users, stats and positions.
Loaded == {p.user : p \in positions} \cap DOMAIN stats
LoadedUsers == [u \in Loaded |-> [hf |-> stats[u].hf, last |-> stats[u].at]]
LoadedReserves ==
    [r \in {p.reserve : p \in {q \in positions : q.user \in Loaded}} |->
        {u \in Loaded : [user |-> u, reserve |-> r] \in positions}]

-----------------------------------------------------------------------------
\* The handlers of the Fanatic that write the books take the users lock.

Insert(map, key, val) ==
    [k \in DOMAIN map \cup {key} |-> IF k = key THEN val ELSE map[k]]

\* A price or a user event, a liquidation: u gets a health factor, now.
RecordUser(u, r, h) ==
    /\ up /\ holder = None
    /\ users' = Insert(users, u, [hf |-> h, last |-> now])
    /\ reserves' = [x \in DOMAIN reserves |->
                       IF x = r THEN reserves[x] \cup {u} ELSE reserves[x]]
    /\ UNCHANGED <<clock, chain, tables, runs>>

-----------------------------------------------------------------------------
\* update_recent_users

\* run_interval, or the Shutdown message: the time is taken at once.
Begin(t) ==
    /\ up /\ run[t].pc = "idle"
    /\ run' = [run EXCEPT ![t] = [Idle EXCEPT !.pc = "indices", !.start = now]]
    /\ UNCHANGED <<now, up, chain, books, tables, holder, tx, failed>>

TickFires(t) == t \in Ticks /\ now = nextTick /\ Begin(t) /\ nextTick' = now + INTERVAL

SignalComes == run["shutdown"].pc = "idle" /\ Begin("shutdown") /\ UNCHANGED nextTick

\* Mutant of Recent: a window as long as the interval.
RecentWithinInterval(t, u) == run[t].start - users[u].last < INTERVAL

Recent(t, u) == run[t].start - users[u].last < SECS

LockUsers(t) ==
    /\ run[t].pc = "indices" /\ holder = None
    /\ holder' = t
    /\ run' = [run EXCEPT ![t].pc = "upsert",
                          ![t].todo = {u \in DOMAIN users : Recent(t, u)}]
    /\ UNCHANGED <<clock, chain, books, tables, tx, failed>>

\* user_positions reads the chain; the transaction begins, and deletes.
UpsertUserData(t, u) ==
    /\ run[t].pc = "upsert" /\ u \in run[t].todo
    /\ tx = NoTx
    /\ tx' = [user |-> u, held |-> chain[u], left |-> chain[u], at |-> now,
              positions |-> DeletePositions(positions, u, chain[u])]
    /\ UNCHANGED <<clock, chain, books, tables, run, holder, failed>>

\* Mutant of UpsertPosition: executed on the pool, not in the transaction.
UpsertPositionOnPool(r) ==
    /\ r \in tx.left \cap Listed
    /\ tx' = [tx EXCEPT !.left = @ \ {r},
                        !.positions = @ \cup {[user |-> tx.user, reserve |-> r]}]
    /\ positions' = positions \cup {[user |-> tx.user, reserve |-> r]}
    /\ UNCHANGED <<clock, chain, books, stats, run, holder, failed>>

\* Mutant of UpsertPosition: without the foreign key.
UpsertAnyPosition(r) ==
    /\ r \in tx.left
    /\ tx' = [tx EXCEPT !.left = @ \ {r},
                        !.positions = @ \cup {[user |-> tx.user, reserve |-> r]}]
    /\ UNCHANGED <<clock, chain, books, tables, run, holder, failed>>

\* INSERT .. ON CONFLICT DO UPDATE, of a reserve that has a row.
UpsertPosition(r) ==
    /\ r \in tx.left \cap Listed
    /\ tx' = [tx EXCEPT !.left = @ \ {r},
                        !.positions = @ \cup {[user |-> tx.user, reserve |-> r]}]
    /\ UNCHANGED <<clock, chain, books, tables, run, holder, failed>>

\* The health factor of the guarded map, then COMMIT.
Commit(t) ==
    /\ holder = t /\ tx # NoTx /\ tx.left = {}
    /\ positions' = tx.positions
    /\ stats' = Insert(stats, tx.user, [hf |-> users[tx.user].hf, at |-> tx.at])
    /\ run' = [run EXCEPT ![t].todo = @ \ {tx.user}]
    /\ tx' = NoTx
    /\ UNCHANGED <<clock, chain, books, holder, failed>>

\* The run is over.  After a Shutdown the process stops.
Ends(t) ==
    /\ run' = [run EXCEPT ![t] = Idle]
    /\ holder' = IF holder = t THEN None ELSE holder
    /\ up' = (t # "shutdown")
    /\ UNCHANGED <<now, nextTick, chain, books, tables>>

Done(t) ==
    /\ run[t].pc = "upsert" /\ run[t].todo = {}
    /\ Ends(t)
    /\ UNCHANGED <<tx, failed>>

\* A position in a reserve without a row breaks a foreign key.
ForeignKeyFails(t) == holder = t /\ ~(tx.left \subseteq Listed)

\* "?": a read, a statement or the commit fails.  The transaction is rolled
\* back, and the users left are not written.
Fails(t) ==
    /\ run[t].pc \in {"indices", "upsert"}
    /\ MayFail \/ ForeignKeyFails(t)
    /\ Ends(t)
    /\ tx' = IF holder = t THEN NoTx ELSE tx
    /\ failed' = TRUE

-----------------------------------------------------------------------------
\* The process dies: memory is gone, what is committed stays.
Crash ==
    /\ up
    /\ up' = FALSE
    /\ run' = [t \in Persisters |-> Idle]
    /\ holder' = None /\ tx' = NoTx
    /\ UNCHANGED <<now, nextTick, chain, books, tables, failed>>

Restart ==
    /\ ~up
    /\ up' = TRUE
    /\ users' = LoadedUsers
    /\ reserves' = LoadedReserves
    /\ nextTick' = now + INTERVAL
    /\ run' = [t \in Persisters |-> Idle]
    /\ holder' = None /\ tx' = NoTx /\ failed' = FALSE
    /\ UNCHANGED <<now, chain, tables>>

\* Supply, withdraw, borrow, repay, liquidation.
ChainMoves(u) ==
    /\ \E held \in SUBSET Reserves : chain' = [chain EXCEPT ![u] = held]
    /\ UNCHANGED <<clock, books, tables, runs>>

TimePasses ==
    /\ now < MaxTime
    /\ up => now < nextTick
    /\ now' = now + 1
    /\ UNCHANGED <<nextTick, up, chain, books, tables, runs>>

Init ==
    /\ now = 0 /\ nextTick = INTERVAL /\ up = TRUE
    /\ chain \in [Users -> SUBSET Reserves]
    /\ stats = << >> /\ positions = {}
    /\ users = << >> /\ reserves = << >>
    /\ run = [t \in Persisters |-> Idle]
    /\ holder = None /\ tx = NoTx /\ failed = FALSE

Next ==
    \/ \E u \in Users, r \in Reserves, h \in Health : RecordUser(u, r, h)
    \/ \E t \in Ticks : TickFires(t)
    \/ SignalComes
    \/ \E t \in Persisters :
          up /\ \/ LockUsers(t) \/ Commit(t) \/ Done(t) \/ Fails(t)
                \/ \E u \in Users : UpsertUserData(t, u)
    \/ up /\ \E r \in Reserves : UpsertPosition(r)
    \/ Crash \/ Restart
    \/ \E u \in Users : ChainMoves(u)
    \/ TimePasses

Spec == Init /\ [][Next]_vars

-----------------------------------------------------------------------------
\* Type invariant.
TypeOK ==
    /\ now \in 0..MaxTime /\ nextTick \in 0..(MaxTime + INTERVAL)
    /\ up \in BOOLEAN /\ failed \in BOOLEAN
    /\ chain \in [Users -> SUBSET Reserves]
    /\ DOMAIN users \subseteq Users /\ DOMAIN reserves \subseteq Listed
    /\ \A u \in DOMAIN users : users[u] \in [hf : Health, last : 0..now]
    /\ \A r \in DOMAIN reserves : reserves[r] \subseteq Users
    /\ DOMAIN stats \subseteq Users
    /\ \A u \in DOMAIN stats : stats[u] \in [hf : Health, at : 0..now]
    /\ positions \subseteq [user : Users, reserve : Listed]
    /\ run \in [Persisters -> [pc : {"idle", "indices", "upsert"},
                               start : 0..MaxTime, todo : SUBSET Users]]
    /\ holder \in Persisters \cup {None}
    /\ tx \in [user : Users \cup {None}, held : SUBSET Reserves,
               left : SUBSET Reserves, at : 0..now,
               positions : SUBSET [user : Users, reserve : Listed]]

\* The users whose health factor in memory is not the one in the table.
Dirty == {u \in DOMAIN users :
             u \notin DOMAIN stats \/ stats[u].hf # users[u].hf}

Quiet == \A t \in Persisters : run[t].pc = "idle"

\* When no run has failed, the end of the last run that is under way leaves
\* nothing in memory that is not in the table: a window of 70 s is enough for
\* an interval of 60 s, also when runs are slow or overlap, because the time
\* of a run is taken before the lock is awaited (fanatic.rs:115-127).
RunsFlush ==
    [][~Quiet /\ Quiet' /\ up /\ ~failed' /\ (\E t \in Persisters : Done(t)) =>
          Dirty' = {}]_vars

\* A user with a position row has a health factor row, whatever fails or crashes
\* between two statements: the join at the next start finds every one of them
\* (upsert_user_data, database.rs:658-691).
PositionsHaveStats == \A p \in positions : p.user \in DOMAIN stats

Committed == tx # NoTx /\ tx' = NoTx /\ run'[holder].pc = "upsert"

\* The rows of a user after the step.
RowsAfter(u) == {p.reserve : p \in {q \in positions' : q.user = u}}

\* A committed upsert of a user who had positions when the chain was read leaves
\* the table with exactly these, although DELETE removes a row that is to be
\* inserted again when there are others (database.rs:637-648).
PositionsReplaced ==
    [][Committed /\ tx.held # {} => RowsAfter(tx.user) = tx.held]_vars
=============================================================================
