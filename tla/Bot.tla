-------------------------------- MODULE Bot --------------------------------
(***************************************************************************)
(* The running bot: the Fanatic's handlers composed with the Executor's,   *)
(* interleaved at every await.  Nothing runs after the Shutdown handler    *)
(* has answered: main then stops the actor system.                         *)
(***************************************************************************)
EXTENDS Fanatic, Executor

vars == <<books, locks, control, messages, tables, follower>>

Init == FanaticInit /\ ExecutorInit

Running == pc["shutdown"] # "stopped"

ExecutorRuns(l) == ExecutorStep(l) /\ UNCHANGED FanaticVars

Next ==
    /\ Running
    /\ \/ Receive
       \/ PriceStep
       \/ UserStep
       \/ \E l \in Listeners : RecordHealth(l)
       \/ \E t \in Persisters : PersistStep(t)
       \/ \E l \in Listeners : NotificationStep(l)
       \/ \E l \in Listeners : ExecutorRuns(l)

Spec == Init /\ [][Next]_vars

\* Every future that is not waiting for another one is polled until it ends:
\* the runtime wakes it, and remote calls and queries answer or fail.  Logs,
\* ticks and signals need not arrive.
Fairness ==
    /\ WF_vars(Running /\ (PriceStep \/ RecordHealth("price")))
    /\ WF_vars(Running /\ (UserStep \/ RecordHealth("user")))
    /\ \A t \in Persisters : WF_vars(Running /\ PersistStep(t))
    /\ \A l \in Listeners :
          /\ WF_vars(Running /\ NotificationStep(l))
          /\ WF_vars(Running /\ ExecutorRuns(l))

FairSpec == Spec /\ Fairness

-----------------------------------------------------------------------------
\* Type invariant.

UsersGuards ==
    [by : Tasks, site : {"scan", "write", "read", "mark", "persist"}]
ReservesGuards == [by : Tasks, site : {"setPrice", "scan", "add"}]

TypeOK ==
    /\ users \in Maps(Users, HealthMarks)
    /\ reserves \in Maps(Reserves, ReserveData)
    /\ usersLock \in Seq(UsersGuards)
    /\ reservesLock \in Seq(ReservesGuards)
    /\ pc \in [Tasks -> PCs]
    /\ job \in [Listeners -> Jobs]
    /\ todo \in [Tasks -> SUBSET Users]
    /\ round \in {"high", "all"}
    /\ rows \in Maps(Users, HealthMarks)
    /\ saved \in [Persisters -> SUBSET Users]
    /\ follower \in {"up", "down"}
    /\ request \in [Listeners -> Requests]
    /\ note \in [Listeners -> Notes]

-----------------------------------------------------------------------------
\* What the price handler does to the others.

\* The price handler has sent a request, or has a health factor to record: from
\* here on it asks for the users lock while its own guard of it is alive.
Wedged == pc["price"] \in {"await", "write"}

\* Once the price handler is wedged it stays so, and with it everything the
\* bot remembers: no handler, tick or notification changes a user, a reserve
\* or a row again.  (users_lock and reserves, fanatic.rs:373-376, live to the
\* end of the block; the loops lock users again.)
WedgeFreezesBooks == [][Wedged => Wedged' /\ UNCHANGED <<books, rows>>]_vars

\* Whatever may be said of the price handler, no other task waits for the
\* reserves lock while it has a guard of the users lock alive: the two are
\* always taken in the order reserves, users.
LockOrder ==
    \A task \in Listeners, site \in {"setPrice", "scan", "add"},
       held \in {"scan", "read", "write", "persist"} :
       Locked(usersLock, task, held) =>
          \A i \in 2..Len(reservesLock) :
             reservesLock[i] # [by |-> task, site |-> site]

\* A guard in line belongs to a future that is alive and has asked for it
\* once: no early return, panic or "?" leaves a lock taken.
UsersGuardAlive(g) ==
    \/ g.by = "price" /\ g.site = "scan"
          /\ pc["price"] \in {"lockUsers", "rpc", "await", "write"}
    \/ g.by \in Listeners /\ g.site = "write" /\ pc[g.by] = "write"
    \/ g.by = "user" /\ g.site = "read" /\ pc["user"] = "read"
    \/ g.by \in Listeners /\ g.site = "mark" /\ note[g.by].at = "locking"
    \/ g.by \in Persisters /\ g.site = "persist"
          /\ pc[g.by] \in {"persist", "upsert"}

ReservesGuardAlive(g) ==
    \/ g.by = "price" /\ g.site = "setPrice" /\ pc["price"] = "setPrice"
    \/ g.by = "price" /\ g.site = "scan"
          /\ pc["price"] \in {"scan", "lockUsers", "rpc", "await", "write"}
    \/ g.by = "user" /\ g.site = "add" /\ pc["user"] \in {"add", "write"}

NoLeakedGuard ==
    /\ \A i \in 1..Len(usersLock) :
          /\ UsersGuardAlive(usersLock[i])
          /\ \A j \in 1..(i - 1) : usersLock[j] # usersLock[i]
    /\ \A i \in 1..Len(reservesLock) :
          /\ ReservesGuardAlive(reservesLock[i])
          /\ \A j \in 1..(i - 1) : reservesLock[j] # reservesLock[i]

-----------------------------------------------------------------------------
\* What a handler that runs between two awaits of another must not disturb.

\* While a scan goes through the members of a reserve, each of them has an entry
\* in users: the filter "users_lock.get(*user).is_some()" never hides one.
\* UpdateReserveUser inserts in the two books in two steps.
MembersKnown ==
    pc["price"] \in {"rpc", "await", "write"} => Members \subseteq DOMAIN users

\* What update_recent_users has written so far is what memory holds, for as
\* long as it writes: the users guard is alive across every await of the loop.
ConsistentSnapshot ==
    \A t \in Persisters : pc[t] = "upsert" =>
        \A u \in saved[t] :
            u \in DOMAIN users \cap DOMAIN rows /\ rows[u] = users[u]

\* A notification is about the request its listener is waiting for: the
\* Fanatic marks no user after the request has been answered.
NoteWhileAwaited ==
    \A l \in Listeners : note[l].at \in {"sent", "locking"} =>
        /\ pc[l] = "await"
        /\ request[l].pc = "notify"
        /\ request[l].user = job[l].user

-----------------------------------------------------------------------------
\* Liveness.

\* A user event or a liquidation call is handled, unless the price handler is
\* wedged or the bot shuts down: the Follower gets the answer it awaits.
UserEventEnds ==
    pc["user"] # "idle" ~> (pc["user"] = "idle" \/ Wedged \/ ~Running)

\* A price update is handled or wedges: the scan goes through finitely many
\* users, and waits behind no one who waits for it before that.
PriceEventEnds ==
    pc["price"] # "idle" ~> (pc["price"] = "idle" \/ Wedged \/ ~Running)

\* The Shutdown handler answers, which ends main, unless the price handler is
\* wedged.
ShutdownEnds == pc["shutdown"] # "idle" ~> (~Running \/ Wedged)

-----------------------------------------------------------------------------
\* What the repository says of the bot, and TLC refutes.

\* README.md, "Flow": UpdateReservePrice makes the Fanatic verify health
\* factors, update the in-memory state and send liquidation requests.  So the
\* handler comes to its end, unless the bot is shut down meanwhile.
PriceUpdateCompletes ==
    pc["price"] # "idle" ~> (pc["price"] = "idle" \/ ~Running)

\* fanatic.rs:343, "calculate the new health factors for all users": when the
\* handler leaves its loop over all users, no member is left but at most the one
\* it has just read.
ScanIsExhaustive ==
    [][pc["price"] = "rpc" /\ pc'["price"] = "idle" /\ round = "all" =>
          Cardinality(todo["price"]) <= 1]_vars

\* fanatic.rs:609, "-2.0; // Liquidated": a user who carries the mark of the
\* liquidation that an event has led to still carries it when that event has
\* been handled.
LiquidatedMarkKept ==
    [][/\ pc["user"] = "write" /\ pc'["user"] = "idle"
       /\ note["user"].outcome = "success"
       /\ job["user"].user \in DOMAIN users
       /\ users[job["user"].user] = Liquidated
       => users'[job["user"].user] = Liquidated]_vars
=============================================================================
