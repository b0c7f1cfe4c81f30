------------------------------- MODULE Fanatic -------------------------------
(***************************************************************************)
(* The Fanatic actor (actors/fanatic.rs): the in-memory books of users and *)
(* reserves, and the handlers that read and write them.  Handlers are      *)
(* futures; between two awaits a handler runs alone (one arbiter thread),  *)
(* at every await any other may run.  An action below is what a handler    *)
(* does from one await to the next.                                        *)
(*                                                                         *)
(* A handler's pc names the await it is suspended at.  Iterating over a    *)
(* HashSet or a HashMap is a choice among what is left (todo): its order   *)
(* is unspecified.  Remote reads answer any value of HealthFactors or      *)
(* fail.  Time is left out: last_update, and which entries are younger     *)
(* than 70 seconds, is an arbitrary choice of PersistBegin.                *)
(***************************************************************************)
EXTENDS Actors, AsyncMutex, FiniteSets

CONSTANTS
    Reserves,   \* assets listed by the protocol
    Prices,     \* what an oracle may answer
    Ticks       \* BOUND: runs of the 60 s interval task alive at one time

Persisters == Ticks \cup {"shutdown"}
Tasks == Listeners \cup Persisters

ASSUME TicksAreNotHandlers == Ticks \cap (Listeners \cup {"shutdown"}) = {}
ASSUME NoneIsFresh == None \notin Users \cup Reserves \cup Prices \cup Int

VARIABLES
    users,      \* HashMap<Address, UserData>: user -> health factor
    reserves,   \* HashMap<Address, ReserveData>: reserve -> [users, price]
    usersLock, reservesLock,   \* the two tokio mutexes
    pc,         \* [Tasks -> STRING]
    job,        \* [Listeners -> Jobs]: the message a listener handles
    todo,       \* what a loop over users has left
    round,      \* the loop the price handler is in or comes to: "high" (prio), "all"
    rows,       \* table aavev3_users_stats: user -> health factor
    saved,      \* history: the users a persister has upserted in this pass
    follower    \* "up", or "down" once a panic has stopped the Follower

books == <<users, reserves>>
locks == <<usersLock, reservesLock>>
control == <<pc, job, todo, round>>
messages == <<request, note>>
tables == <<rows, saved>>
FanaticVars == <<books, locks, control, tables, follower>>

\* HashMap: the maps from a part of S to T, and insert.
Maps(S, T) == UNION {[D -> T] : D \in SUBSET S}
Insert(map, key, val) ==
    [k \in DOMAIN map \cup {key} |-> IF k = key THEN val ELSE map[k]]

Liquidated == -200     \* "-2.0 // Liquidated"
HighPrio(h) == h < 105
Recordable(h) == h < 10000
HealthMarks == {h \in HealthFactors : Recordable(h)} \cup {Liquidated}

ReserveData == [users : SUBSET Users, price : Prices]
Jobs == [reserve : Reserves \cup {None}, price : Prices \cup {None},
         user : Users \cup {None}, hf : HealthFactors \cup {None}]
NoJob == [reserve |-> None, price |-> None, user |-> None, hf |-> None]

PCs == {"idle", "setPrice", "scan", "lockUsers", "rpc", "await", "read", "add",
        "write", "insertCall", "failed", "indices", "persist", "upsert",
        "stopped"}

-----------------------------------------------------------------------------
\* Control flow shared by the handlers.

Goto(t, from, to) ==
    /\ pc[t] = from
    /\ pc' = [pc EXCEPT ![t] = to]

\* The handler of listener l returns: its message has been answered.
Return(l, from) ==
    /\ Goto(l, from, "idle")
    /\ job' = [job EXCEPT ![l] = NoJob]

\* The future of listener l panics: its answer is dropped unsent.
Panic(l, from) ==
    /\ Goto(l, from, "failed")
    /\ job' = [job EXCEPT ![l] = NoJob]

-----------------------------------------------------------------------------
\* Handler<UpdateReservePrice>

UpdateReservePrice(r, p) ==
    /\ follower = "up"
    /\ Goto("price", "idle", "setPrice")
    /\ job' = [job EXCEPT !["price"] = [NoJob EXCEPT !.reserve = r,
                                                      !.price = p]]
    /\ reservesLock' = Lock(reservesLock, "price", "setPrice")
    /\ UNCHANGED <<books, usersLock, todo, round, tables, follower, messages>>

\* The first block: set the price, drop the guard.  The next statement asks for
\* the same lock again.
SetReservePrice ==
    /\ Locked(reservesLock, "price", "setPrice")
    /\ Goto("price", "setPrice", "scan")
    /\ reserves' = [r \in DOMAIN reserves |->
          IF r = job["price"].reserve
          THEN [reserves[r] EXCEPT !.price = job["price"].price]
          ELSE reserves[r]]
    /\ reservesLock' = Lock(Unlock(reservesLock), "price", "scan")
    /\ UNCHANGED <<users, usersLock, job, todo, round, tables, follower, messages>>

\* The reserve has no entry: "No users found in reserve".
SkipUnknownReserve ==
    /\ Locked(reservesLock, "price", "scan")
    /\ job["price"].reserve \notin DOMAIN reserves
    /\ Return("price", "scan")
    /\ reservesLock' = Unlock(reservesLock)
    /\ UNCHANGED <<books, usersLock, todo, round, tables, follower, messages>>

\* users.lock().await: users_lock stays alive to the end of the block, through
\* both loops.
LockUsersForScan ==
    /\ Locked(reservesLock, "price", "scan")
    /\ job["price"].reserve \in DOMAIN reserves
    /\ Goto("price", "scan", "lockUsers")
    /\ usersLock' = Lock(usersLock, "price", "scan")
    /\ UNCHANGED <<books, reservesLock, job, todo, round, tables, follower, messages>>

Members == reserves[job["price"].reserve].users

CollectHighPrio ==
    /\ Locked(usersLock, "price", "scan")
    /\ Goto("price", "lockUsers", "rpc")
    /\ todo' = [todo EXCEPT !["price"] =
          {u \in Members : u \in DOMAIN users /\ HighPrio(users[u])}]
    /\ UNCHANGED <<books, locks, job, round, tables, follower, messages>>

\* Mutant of DropScanGuards: the reserves guard outlives the handler.
KeepReservesGuard ==
    /\ usersLock' = Unlock(usersLock)
    /\ UNCHANGED reservesLock

DropScanGuards ==
    /\ usersLock' = Unlock(usersLock)
    /\ reservesLock' = Unlock(reservesLock)

\* The health factor of the next user is None: return, out of both loops.
AbandonScan ==
    /\ todo["price"] # {}
    /\ HealthFactors \ Plausible # {}
    /\ Return("price", "rpc")
    /\ DropScanGuards
    /\ round' = "high"
    /\ todo' = [todo EXCEPT !["price"] = {}]
    /\ UNCHANGED <<books, tables, follower, messages>>

PanicInScan ==
    /\ todo["price"] # {}
    /\ Panic("price", "rpc")
    /\ DropScanGuards
    /\ round' = "high"
    /\ todo' = [todo EXCEPT !["price"] = {}]
    /\ UNCHANGED <<books, tables, follower, messages>>

\* A position under 1.0, in either loop: ask the Executor, await its answer.
RequestFromScan(u, h) ==
    /\ u \in todo["price"]
    /\ Undercollateralized(h)
    /\ Goto("price", "rpc", "await")
    /\ job' = [job EXCEPT !["price"] = [@ EXCEPT !.user = u, !.hf = h]]
    /\ todo' = [todo EXCEPT !["price"] = @ \ {u}]
    /\ SendRequest("price", u)
    /\ UNCHANGED <<books, locks, round, tables, follower>>

\* Otherwise the second loop records what is below 100.0 ..
RecordFromScan(u, h) ==
    /\ u \in todo["price"]
    /\ round = "all" /\ ~Undercollateralized(h) /\ Recordable(h)
    /\ Goto("price", "rpc", "write")
    /\ job' = [job EXCEPT !["price"] = [@ EXCEPT !.user = u, !.hf = h]]
    /\ todo' = [todo EXCEPT !["price"] = @ \ {u}]
    /\ usersLock' = Lock(usersLock, "price", "write")
    /\ UNCHANGED <<books, reservesLock, round, tables, follower, messages>>

\* .. and the rest is left as it is.
PassOverInScan(u, h) ==
    /\ u \in todo["price"]
    /\ ~Undercollateralized(h) /\ (round = "high" \/ ~Recordable(h))
    /\ pc["price"] = "rpc"
    /\ todo' = [todo EXCEPT !["price"] = @ \ {u}]
    /\ UNCHANGED <<books, locks, pc, job, round, tables, follower, messages>>

ScanUser ==
    \E u \in Users, h \in Plausible :
        RequestFromScan(u, h) \/ RecordFromScan(u, h) \/ PassOverInScan(u, h)

\* The loop over the high priority users ends; the one over all users begins.
ScanAllUsers ==
    /\ pc["price"] = "rpc" /\ round = "high" /\ todo["price"] = {}
    /\ round' = "all"
    /\ todo' = [todo EXCEPT !["price"] = Members]
    /\ UNCHANGED <<books, locks, pc, job, tables, follower, messages>>

EndScan ==
    /\ round = "all" /\ todo["price"] = {}
    /\ Return("price", "rpc")
    /\ DropScanGuards
    /\ round' = "high"
    /\ UNCHANGED <<books, todo, tables, follower, messages>>

\* executor_addr.send(..).await returns, whatever the answer.
ScanRequestAnswered ==
    /\ request["price"].pc = "replied"
    /\ Goto("price", "await", "write")
    /\ request' = [request EXCEPT !["price"] = NoRequest]
    /\ usersLock' = Lock(usersLock, "price", "write")
    /\ UNCHANGED <<books, reservesLock, job, todo, round, tables, follower, note>>

-----------------------------------------------------------------------------
\* Handler<UpdateReserveUser>

UpdateReserveUser(r, u) ==
    /\ follower = "up"
    /\ Goto("user", "idle", "rpc")
    /\ job' = [job EXCEPT !["user"] = [NoJob EXCEPT !.reserve = r, !.user = u]]
    /\ UNCHANGED <<books, locks, todo, round, tables, follower, messages>>

\* A health factor of None ends the handler.
IgnoreUser ==
    /\ HealthFactors \ Plausible # {}
    /\ Return("user", "rpc")
    /\ UNCHANGED <<books, locks, todo, round, tables, follower, messages>>

PanicOnUser ==
    /\ Panic("user", "rpc")
    /\ UNCHANGED <<books, locks, todo, round, tables, follower, messages>>

\* The answer is logged next to the old one, which takes the users lock.
ReadUserHealth ==
    /\ Goto("user", "rpc", "read")
    /\ \E h \in Plausible : job' = [job EXCEPT !["user"].hf = h]
    /\ usersLock' = Lock(usersLock, "user", "read")
    /\ UNCHANGED <<books, reservesLock, todo, round, tables, follower, messages>>

\* The guard is dropped before the request is sent.
RequestForUser ==
    /\ Locked(usersLock, "user", "read")
    /\ Undercollateralized(job["user"].hf)
    /\ Goto("user", "read", "await")
    /\ usersLock' = Unlock(usersLock)
    /\ SendRequest("user", job["user"].user)
    /\ UNCHANGED <<books, reservesLock, job, todo, round, tables, follower>>

\* Mutant of KeepUser: without the block around the log statement.
KeepUserGuarded ==
    /\ Locked(usersLock, "user", "read")
    /\ ~Undercollateralized(job["user"].hf) /\ Recordable(job["user"].hf)
    /\ Goto("user", "read", "add")
    /\ reservesLock' = Lock(reservesLock, "user", "add")
    /\ UNCHANGED <<books, usersLock, job, todo, round, tables, follower, messages>>

\* Mutant of KeepUser: without the sanity check.
KeepAnyUser ==
    /\ Locked(usersLock, "user", "read")
    /\ ~Undercollateralized(job["user"].hf)
    /\ Goto("user", "read", "add")
    /\ usersLock' = Unlock(usersLock)
    /\ reservesLock' = Lock(reservesLock, "user", "add")
    /\ UNCHANGED <<books, job, todo, round, tables, follower, messages>>

KeepUser ==
    /\ Locked(usersLock, "user", "read")
    /\ ~Undercollateralized(job["user"].hf) /\ Recordable(job["user"].hf)
    /\ Goto("user", "read", "add")
    /\ usersLock' = Unlock(usersLock)
    /\ reservesLock' = Lock(reservesLock, "user", "add")
    /\ UNCHANGED <<books, job, todo, round, tables, follower, messages>>

DiscardUser ==
    /\ Locked(usersLock, "user", "read")
    /\ ~Recordable(job["user"].hf)
    /\ Return("user", "read")
    /\ usersLock' = Unlock(usersLock)
    /\ UNCHANGED <<books, reservesLock, todo, round, tables, follower, messages>>

UserRequestAnswered ==
    /\ request["user"].pc = "replied"
    /\ Goto("user", "await", "add")
    /\ request' = [request EXCEPT !["user"] = NoRequest]
    /\ reservesLock' = Lock(reservesLock, "user", "add")
    /\ UNCHANGED <<books, usersLock, job, todo, round, tables, follower, note>>

\* Mutant of AddMember: users is written without its lock.
AddMemberAndHealth ==
    /\ Locked(reservesLock, "user", "add")
    /\ Return("user", "add")
    /\ reserves' = [r \in DOMAIN reserves |->
          IF r = job["user"].reserve
          THEN [reserves[r] EXCEPT !.users = @ \cup {job["user"].user}]
          ELSE reserves[r]]
    /\ users' = Insert(users, job["user"].user, job["user"].hf)
    /\ reservesLock' = Unlock(reservesLock)
    /\ UNCHANGED <<usersLock, todo, round, tables, follower, messages>>

\* The user becomes a member of the reserve if that has an entry.  The reserves
\* guard stays alive while the users lock is awaited.
AddMember ==
    /\ Locked(reservesLock, "user", "add")
    /\ Goto("user", "add", "write")
    /\ reserves' = [r \in DOMAIN reserves |->
          IF r = job["user"].reserve
          THEN [reserves[r] EXCEPT !.users = @ \cup {job["user"].user}]
          ELSE reserves[r]]
    /\ usersLock' = Lock(usersLock, "user", "write")
    /\ UNCHANGED <<users, reservesLock, job, todo, round, tables, follower, messages>>

\* users.lock().await and users.insert(..), the same statements in the loops of
\* the price handler and at the end of this one.
RecordHealth(l) ==
    /\ Locked(usersLock, l, "write")
    /\ users' = Insert(users, job[l].user, job[l].hf)
    /\ usersLock' = Unlock(usersLock)
    /\ IF l = "user"
       THEN /\ Return(l, "write")
            /\ reservesLock' = Unlock(reservesLock)
            /\ note' = [note EXCEPT ![l] = NoNote]
       ELSE /\ Goto(l, "write", "rpc")
            /\ UNCHANGED <<job, reservesLock, note>>
    /\ UNCHANGED <<reserves, todo, round, tables, follower, request>>

-----------------------------------------------------------------------------
\* Handler<DoSmthWithLiquidationCall>: the same stream of logs, one database
\* insert, whose error is the answer.

DoSmthWithLiquidationCall ==
    /\ follower = "up"
    /\ Goto("user", "idle", "insertCall")
    /\ UNCHANGED <<books, locks, job, todo, round, tables, follower, messages>>

InsertLiquidationCall ==
    /\ \/ Return("user", "insertCall")
       \/ Panic("user", "insertCall")
    /\ UNCHANGED <<books, locks, todo, round, tables, follower, messages>>

\* The Follower unwraps the answer it awaits: without one, or on an error, its
\* context panics and neither stream is followed any longer.
FollowerPanics(l) ==
    /\ Goto(l, "failed", "idle")
    /\ follower' = "down"
    /\ UNCHANGED <<books, locks, job, todo, round, tables, messages>>

-----------------------------------------------------------------------------
\* Handler<SuccessfulLiquidation> and Handler<FailedLiquidation>

ReceiveNotification(l) ==
    /\ note[l].at = "sent"
    /\ note' = [note EXCEPT ![l].at = "locking"]
    /\ usersLock' = Lock(usersLock, l, "mark")
    /\ UNCHANGED <<books, reservesLock, control, tables, follower, request>>

\* A known user is marked after a success; a failure only refreshes last_update.
SetHealth(l) ==
    /\ note[l].at = "locking"
    /\ users' = [u \in DOMAIN users |->
          IF u = request[l].user /\ note[l].outcome = "success"
          THEN Liquidated ELSE users[u]]
    /\ usersLock' = Unlock(usersLock)
    /\ note' = [note EXCEPT ![l].at = "done"]
    /\ UNCHANGED <<reserves, reservesLock, control, tables, follower, request>>

\* Mutant of MarkUser: the entry is marked before the lock is granted.
MarkUserUnlocked(l) == SetHealth(l)

\* Mutant of MarkUser: a liquidated user is forgotten, in one of the two books.
ForgetUser(l) ==
    /\ note[l].at = "locking"
    /\ Locked(usersLock, l, "mark")
    /\ users' = [u \in DOMAIN users \ {request[l].user} |-> users[u]]
    /\ usersLock' = Unlock(usersLock)
    /\ note' = [note EXCEPT ![l].at = "done"]
    /\ UNCHANGED <<reserves, reservesLock, control, tables, follower, request>>

MarkUser(l) == Locked(usersLock, l, "mark") /\ SetHealth(l)

-----------------------------------------------------------------------------
\* update_recent_users: the 60 s interval task and Handler<Shutdown>

BeginPersist(t) ==
    /\ Goto(t, "idle", "indices")
    /\ UNCHANGED <<books, locks, job, todo, round, tables, follower, messages>>

\* After a shutdown, main stops the actor system: errors are only logged.
PersistEnd(t) == IF t = "shutdown" THEN "stopped" ELSE "idle"

IndicesUnavailable(t) ==
    /\ Goto(t, "indices", PersistEnd(t))
    /\ UNCHANGED <<books, locks, job, todo, round, tables, follower, messages>>

LockUsersToPersist(t) ==
    /\ Goto(t, "indices", "persist")
    /\ usersLock' = Lock(usersLock, t, "persist")
    /\ UNCHANGED <<books, reservesLock, job, todo, round, tables, follower, messages>>

PersistBegin(t) ==
    /\ Locked(usersLock, t, "persist")
    /\ Goto(t, "persist", "upsert")
    /\ \E recent \in SUBSET DOMAIN users : todo' = [todo EXCEPT ![t] = recent]
    /\ UNCHANGED <<books, locks, job, round, tables, follower, messages>>

\* user_positions and UpsertUserData, with the guard alive: the row takes the
\* health factor from memory.
UpsertUserData(t, u) ==
    /\ pc[t] = "upsert"
    /\ u \in todo[t]
    /\ rows' = Insert(rows, u, users[u])
    /\ saved' = [saved EXCEPT ![t] = @ \cup {u}]
    /\ todo' = [todo EXCEPT ![t] = @ \ {u}]
    /\ UNCHANGED <<books, locks, pc, job, round, follower, messages>>

\* The loop is over, or "?" leaves it at a failed read or upsert: the guard is
\* dropped and what is left is not written.
PersistDone(t) ==
    /\ Goto(t, "upsert", PersistEnd(t))
    /\ usersLock' = Unlock(usersLock)
    /\ todo' = [todo EXCEPT ![t] = {}]
    /\ saved' = [saved EXCEPT ![t] = {}]
    /\ UNCHANGED <<books, reservesLock, job, round, rows, follower, messages>>

-----------------------------------------------------------------------------
\* Fanatic::new reads both books from the join of users, their stats and their
\* positions: a user without positions and a reserve without users are not in.
FanaticInit ==
    /\ rows \in Maps(Users, HealthMarks)
    /\ \E positions \in [Reserves -> SUBSET DOMAIN rows],
          price \in [Reserves -> Prices] :
          LET held == {r \in Reserves : positions[r] # {}}
          IN  /\ users = [u \in UNION {positions[r] : r \in held} |-> rows[u]]
              /\ reserves = [r \in held |->
                                [users |-> positions[r], price |-> price[r]]]
    /\ usersLock = << >>
    /\ reservesLock = << >>
    /\ pc = [t \in Tasks |-> "idle"]
    /\ job = [l \in Listeners |-> NoJob]
    /\ todo = [t \in Tasks |-> {}]
    /\ round = "high"
    /\ saved = [t \in Persisters |-> {}]
    /\ follower = "up"

\* What the actor receives: logs, ticks and the signal.
Receive ==
    \/ \E r \in Reserves, p \in Prices : UpdateReservePrice(r, p)
    \/ \E r \in Reserves, u \in Users : UpdateReserveUser(r, u)
    \/ DoSmthWithLiquidationCall
    \/ \E t \in Persisters : BeginPersist(t)

PriceStep ==
    \/ SetReservePrice \/ SkipUnknownReserve \/ LockUsersForScan
    \/ CollectHighPrio \/ ScanUser \/ ScanAllUsers
    \/ AbandonScan \/ PanicInScan \/ EndScan
    \/ ScanRequestAnswered \/ FollowerPanics("price")

UserStep ==
    \/ IgnoreUser \/ PanicOnUser \/ ReadUserHealth
    \/ RequestForUser \/ KeepUser \/ DiscardUser
    \/ UserRequestAnswered \/ AddMember
    \/ InsertLiquidationCall \/ FollowerPanics("user")

PersistStep(t) ==
    \/ IndicesUnavailable(t) \/ LockUsersToPersist(t) \/ PersistBegin(t)
    \/ \E u \in Users : UpsertUserData(t, u)
    \/ PersistDone(t)

NotificationStep(l) == ReceiveNotification(l) \/ MarkUser(l)
=============================================================================
