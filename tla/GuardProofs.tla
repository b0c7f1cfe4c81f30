---------------------------- MODULE GuardProofs ----------------------------
(* Proofs about the guards of Bot: who stands in line for the two locks.   *)
EXTENDS BotProofs

-----------------------------------------------------------------------------
\* The line of a lock, as a set.

Guards(q) == {q[i] : i \in 1..Len(q)}

\* No guard stands in line twice.
Distinct(q) == \A i \in 1..Len(q) : \A j \in 1..(i - 1) : q[j] # q[i]

\* A guard that was not in line joins it.
LEMMA LockJoins ==
    ASSUME NEW S, NEW q \in Seq(S), NEW t, NEW s, [by |-> t, site |-> s] \in S,
           Distinct(q), [by |-> t, site |-> s] \notin Guards(q)
    PROVE  /\ Distinct(Lock(q, t, s))
           /\ Guards(Lock(q, t, s)) = Guards(q) \cup {[by |-> t, site |-> s]}
<1> DEFINE e == [by |-> t, site |-> s]
           p == Append(q, e)
<1>1. /\ Len(q) \in Nat
      /\ Len(p) = Len(q) + 1
      /\ \A i \in 1..Len(q) : p[i] = q[i]
      /\ p[Len(q) + 1] = e
  BY AppendProperties, LenProperties
<1>2. \A i \in 1..Len(q) : q[i] # e
  BY DEF Guards
<1> HIDE DEF e, p
<1>3. Distinct(p)
  BY <1>1, <1>2 DEF Distinct
<1>4. Guards(p) = Guards(q) \cup {e}
 <2>1. 1..Len(p) = 1..Len(q) \cup {Len(q) + 1}
   BY <1>1
 <2> QED
   BY <1>1, <2>1 DEF Guards
<1> QED
  BY <1>3, <1>4 DEF e, p, Lock

\* The guard that is dropped was the only one of its name.
LEMMA UnlockLeaves ==
    ASSUME NEW S, NEW q \in Seq(S), NEW t, NEW s, Locked(q, t, s), Distinct(q)
    PROVE  /\ Distinct(Unlock(q))
           /\ Guards(Unlock(q)) = Guards(q) \ {[by |-> t, site |-> s]}
<1> DEFINE e == [by |-> t, site |-> s]
           p == Tail(q)
<1>1. /\ Len(q) \in Nat \ {0}
      /\ Len(p) = Len(q) - 1
      /\ \A i \in 1..(Len(q) - 1) : p[i] = q[i + 1]
      /\ q[1] = e
  BY HeadTailProperties, EmptySeq, LenProperties DEF Locked
<1> HIDE DEF e, p
<1>2. Distinct(p)
 <2> SUFFICES ASSUME NEW i \in 1..Len(p), NEW j \in 1..(i - 1)
              PROVE  p[j] # p[i]
   BY DEF Distinct
 <2>1. i + 1 \in 1..Len(q) /\ j + 1 \in 1..((i + 1) - 1)
   BY <1>1
 <2>2. p[i] = q[i + 1] /\ p[j] = q[j + 1]
   BY <1>1
 <2> QED
   BY <2>1, <2>2 DEF Distinct
<1>3. ASSUME NEW i \in 2..Len(q) PROVE q[i] # e
 <2>1. i \in 1..Len(q) /\ 1 \in 1..(i - 1)
   BY <1>1
 <2> QED
   BY <1>1, <2>1 DEF Distinct
<1>4. Guards(p) = {q[i] : i \in 2..Len(q)}
 <2>1. ASSUME NEW i \in 2..Len(q) PROVE i - 1 \in 1..Len(p) /\ p[i - 1] = q[i]
   BY <1>1
 <2>2. ASSUME NEW i \in 1..Len(p) PROVE i + 1 \in 2..Len(q) /\ p[i] = q[i + 1]
   BY <1>1
 <2> QED
   BY <2>1, <2>2 DEF Guards
<1>5. Guards(q) = {q[i] : i \in 2..Len(q)} \cup {e}
 <2>1. 1..Len(q) = 2..Len(q) \cup {1}
   BY <1>1
 <2> QED
   BY <1>1, <2>1 DEF Guards
<1> QED
  BY <1>2, <1>3, <1>4, <1>5 DEF e, p, Unlock

\* What stands behind the guard that is alive is another one.
LEMMA BehindHead ==
    ASSUME NEW S, NEW q \in Seq(S), NEW t, NEW s, Locked(q, t, s), Distinct(q)
    PROVE  /\ [by |-> t, site |-> s] \in Guards(q)
           /\ \A i \in 2..Len(q) : q[i] # [by |-> t, site |-> s]
<1>1. /\ Len(q) \in Nat \ {0}
      /\ q[1] = [by |-> t, site |-> s]
  BY HeadTailProperties, EmptySeq, LenProperties DEF Locked
<1>2. ASSUME NEW i \in 2..Len(q) PROVE q[i] # q[1]
 <2>1. i \in 1..Len(q) /\ 1 \in 1..(i - 1)
   BY <1>1
 <2> QED
   BY <2>1 DEF Distinct
<1>3. 1 \in 1..Len(q)
  BY <1>1
<1> QED
  BY <1>1, <1>2, <1>3 DEF Guards

-----------------------------------------------------------------------------
\* The inductive invariant, next to that of BotProofs.

\* A request is in flight while its listener awaits it, and a notification while
\* the request waits for that.
NoteInv ==
    \A l \in Listeners :
        /\ request[l].pc # "idle" =>
              pc[l] = "await" /\ request[l].user = job[l].user
        /\ note[l].at \in {"sent", "locking"} => request[l].pc = "notify"

\* Who stands in line for the users lock has asked for it, and is alive.
UsersInv ==
    /\ Distinct(usersLock)
    /\ \A g \in Guards(usersLock) : UsersGuardAlive(g)

\* The same for the reserves lock.
ReservesInv ==
    /\ Distinct(reservesLock)
    /\ \A g \in Guards(reservesLock) : ReservesGuardAlive(g)

GInv == IInv /\ NoteInv /\ UsersInv /\ ReservesInv

\* The tasks are told apart, and the variables have their types.
LEMMA GTypes ==
    ASSUME IInv
    PROVE  /\ TypeOK
           /\ pc \in [Tasks -> PCs]
           /\ job \in [Listeners -> Jobs]
           /\ request \in [Listeners -> Requests]
           /\ note \in [Listeners -> Notes]
           /\ Listeners = {"price", "user"}
           /\ Tasks = Listeners \cup Persisters
           /\ \A t \in Persisters : t # "price" /\ t # "user"
  BY TicksAreNotHandlers DEF IInv, TypeOK, Tasks, Listeners, Persisters

-----------------------------------------------------------------------------
\* Requests and notifications.

\* A listener that does not wait for an answer has sent nothing.
LEMMA NothingInFlight ==
    ASSUME NoteInv, NEW l \in Listeners, pc[l] # "await"
    PROVE  request[l].pc = "idle" /\ note[l].at \notin {"sent", "locking"}
  BY DEF NoteInv

\* A new request comes with no notification.
LEMMA NoteSend ==
    ASSUME IInv, NoteInv, NEW l \in Listeners, NEW u,
           SendRequest(l, u), pc' = [pc EXCEPT ![l] = "await"],
           job' \in [Listeners -> Jobs], job'[l].user = u,
           \A m \in Listeners \ {l} : job'[m] = job[m]
    PROVE  NoteInv'
  BY GTypes DEF NoteInv, SendRequest, NoNote

\* The listeners' requests and notifications are left alone, and so is what a
\* listener that waits has in hand.
LEMMA NoteFrame ==
    ASSUME NoteInv, UNCHANGED messages,
           \A l \in Listeners :
               pc[l] = "await" => pc'[l] = "await" /\ job'[l] = job[l]
    PROVE  NoteInv'
  BY DEF NoteInv, messages

\* The price handler sends and hears what NoteInv says.
LEMMA NotePrice == IInv /\ NoteInv /\ PriceStep => NoteInv'
<1> SUFFICES ASSUME IInv, NoteInv, PriceStep PROVE NoteInv'
  OBVIOUS
<1> USE GTypes
<1>1. CASE SetReservePrice \/ SkipUnknownReserve \/ LockUsersForScan
             \/ CollectHighPrio \/ ScanAllUsers \/ AbandonScan \/ PanicInScan
             \/ EndScan \/ FollowerPanics("price")
  BY <1>1, NoteFrame
     DEF SetReservePrice, SkipUnknownReserve, LockUsersForScan,
         CollectHighPrio, ScanAllUsers, AbandonScan, PanicInScan, EndScan,
         FollowerPanics, Return, Panic, Goto, messages
<1>2. CASE ScanUser
 <2> PICK u \in Users, h \in Plausible :
        RequestFromScan(u, h) \/ RecordFromScan(u, h) \/ PassOverInScan(u, h)
   BY <1>2 DEF ScanUser
 <2>1. CASE RequestFromScan(u, h)
  <3>1. /\ job' \in [Listeners -> Jobs]
        /\ job'["price"].user = u
        /\ job'["user"] = job["user"]
   <4>1. job' = [job EXCEPT !["price"] = [@ EXCEPT !.user = u, !.hf = h]]
     BY <2>1 DEF RequestFromScan
   <4>2. job' \in [Listeners -> Jobs]
     BY <4>1, JobTakesUser DEF Plausible
   <4>3. job["price"] \in Jobs
     OBVIOUS
   <4>4. job'["price"].user = u
     BY <4>1, <4>3 DEF Jobs
   <4> QED
     BY <4>1, <4>2, <4>4
  <3> QED
    BY <2>1, <3>1, NoteSend DEF RequestFromScan, Goto
 <2>2. CASE RecordFromScan(u, h)
   BY <2>2, NoteFrame DEF RecordFromScan, Goto
 <2>3. CASE PassOverInScan(u, h)
   BY <2>3, NoteFrame DEF PassOverInScan
 <2> QED
   BY <2>1, <2>2, <2>3
<1>3. CASE ScanRequestAnswered
  BY <1>3 DEF ScanRequestAnswered, Goto, NoteInv, NoRequest
<1> QED
  BY <1>1, <1>2, <1>3 DEF PriceStep

\* So does the user handler.
LEMMA NoteUser == IInv /\ NoteInv /\ UserStep => NoteInv'
<1> SUFFICES ASSUME IInv, NoteInv, UserStep PROVE NoteInv'
  OBVIOUS
<1> USE GTypes
<1>1. CASE IgnoreUser \/ PanicOnUser \/ ReadUserHealth \/ KeepUser
             \/ DiscardUser \/ AddMember \/ InsertLiquidationCall
             \/ FollowerPanics("user")
  BY <1>1, NoteFrame
     DEF IgnoreUser, PanicOnUser, ReadUserHealth, KeepUser, DiscardUser,
         AddMember, InsertLiquidationCall, FollowerPanics, Return, Panic,
         Goto, messages
<1>2. CASE RequestForUser
  BY <1>2, NoteSend DEF RequestForUser, Goto
<1>3. CASE UserRequestAnswered
  BY <1>3 DEF UserRequestAnswered, Goto, NoteInv, NoRequest
<1> QED
  BY <1>1, <1>2, <1>3 DEF UserStep

\* The Executor tells the Fanatic once, before it answers.
LEMMA NoteExecutor ==
    ASSUME IInv, NoteInv, NEW l \in Listeners, ExecutorRuns(l)
    PROVE  NoteInv'
<1> USE GTypes
<1>1. UNCHANGED <<pc, job>>
  BY DEF ExecutorRuns, FanaticVars, control
<1>2. ASSUME NEW from, NEW to, from # "idle", from # "notify",
             RequestAt(l, from, to), UNCHANGED note
      PROVE  NoteInv'
  BY <1>1, <1>2 DEF RequestAt, NoteInv, Requests
<1>3. CASE RequestUserHealth(l) \/ RequestPanics(l)
  BY <1>2, <1>3 DEF RequestUserHealth, RequestPanics
<1>4. CASE RequestRead(l) \/ RequestGivesUp(l)
  BY <1>2, <1>4 DEF RequestRead, RequestGivesUp, NextRead
<1>5. CASE CallLiquidatoor(l)
  BY <1>1, <1>5 DEF CallLiquidatoor, RequestAt, NoteInv, Requests
<1>6. CASE RequestNotified(l)
  BY <1>1, <1>6 DEF RequestNotified, RequestAt, NoteInv, Requests
<1> QED
  BY <1>3, <1>4, <1>5, <1>6 DEF ExecutorRuns, ExecutorStep

\* A request in flight and its notification belong to a listener that waits.
LEMMA NoteNext == IInv /\ NoteInv /\ [Next]_vars => NoteInv'
<1> SUFFICES ASSUME IInv, NoteInv, [Next]_vars PROVE NoteInv'
  OBVIOUS
<1> USE GTypes
<1>1. CASE UNCHANGED vars
  BY <1>1 DEF vars, control, messages, NoteInv
<1>2. CASE Receive
  BY <1>2, NoteFrame
     DEF Receive, UpdateReservePrice, UpdateReserveUser,
         DoSmthWithLiquidationCall, BeginPersist, Goto
<1>3. CASE RecordHealth("user")
  BY <1>3 DEF RecordHealth, Return, Goto, NoteInv, NoNote
<1>4. ASSUME NEW t \in Persisters, PersistStep(t)
      PROVE  NoteInv'
  BY <1>4, NoteFrame
     DEF PersistStep, IndicesUnavailable, LockUsersToPersist, PersistBegin,
         UpsertUserData, PersistDone, Goto
<1>5. ASSUME NEW l \in Listeners, NotificationStep(l)
      PROVE  NoteInv'
  BY <1>5
     DEF NotificationStep, ReceiveNotification, MarkUser, SetHealth, NoteInv,
         control, Notes
<1> QED
  BY <1>1, <1>2, <1>3, <1>4, <1>5, NotePrice, NoteUser, NoteExecutor,
     OnlyUserRecords DEF Next, Listeners

-----------------------------------------------------------------------------
\* Who stands in line.

\* A task that has asked for the users lock joins the line.
LEMMA UsersJoin ==
    ASSUME TypeOK, UsersInv, NEW t \in Tasks,
           NEW s \in {"scan", "write", "read", "mark", "persist"},
           ~UsersGuardAlive([by |-> t, site |-> s]),
           usersLock' = Lock(usersLock, t, s)
    PROVE  /\ Distinct(usersLock)'
           /\ Guards(usersLock)' =
                 Guards(usersLock) \cup {[by |-> t, site |-> s]}
<1>1. usersLock \in Seq(UsersGuards) /\ [by |-> t, site |-> s] \in UsersGuards
  BY DEF TypeOK, UsersGuards
<1>2. Distinct(usersLock) /\ [by |-> t, site |-> s] \notin Guards(usersLock)
  BY DEF UsersInv
<1> QED
  BY <1>1, <1>2, LockJoins

\* The holder of the users lock leaves it.
LEMMA UsersLeave ==
    ASSUME TypeOK, UsersInv, NEW t, NEW s, Locked(usersLock, t, s),
           usersLock' = Unlock(usersLock)
    PROVE  /\ Distinct(usersLock)'
           /\ Guards(usersLock)' = Guards(usersLock) \ {[by |-> t, site |-> s]}
  BY UnlockLeaves DEF TypeOK, UsersInv

\* A task that has asked for the reserves lock joins the line.
LEMMA ReservesJoin ==
    ASSUME TypeOK, ReservesInv, NEW t \in Tasks,
           NEW s \in {"setPrice", "scan", "add"},
           ~ReservesGuardAlive([by |-> t, site |-> s]),
           reservesLock' = Lock(reservesLock, t, s)
    PROVE  /\ Distinct(reservesLock)'
           /\ Guards(reservesLock)' =
                 Guards(reservesLock) \cup {[by |-> t, site |-> s]}
<1>1. /\ reservesLock \in Seq(ReservesGuards)
      /\ [by |-> t, site |-> s] \in ReservesGuards
  BY DEF TypeOK, ReservesGuards
<1>2. /\ Distinct(reservesLock)
      /\ [by |-> t, site |-> s] \notin Guards(reservesLock)
  BY DEF ReservesInv
<1> QED
  BY <1>1, <1>2, LockJoins

\* The holder of the reserves lock leaves it.
LEMMA ReservesLeave ==
    ASSUME TypeOK, ReservesInv, NEW t, NEW s, Locked(reservesLock, t, s),
           reservesLock' = Unlock(reservesLock)
    PROVE  /\ Distinct(reservesLock)'
           /\ Guards(reservesLock)' =
                 Guards(reservesLock) \ {[by |-> t, site |-> s]}
  BY UnlockLeaves DEF TypeOK, ReservesInv

\* Nobody joins or leaves the line for the users lock, and those in it stay
\* alive.
LEMMA UsersStay ==
    ASSUME UsersInv, UNCHANGED usersLock,
           \A g \in Guards(usersLock) : UsersGuardAlive(g)'
    PROVE  UsersInv'
  BY DEF UsersInv

\* The same for the reserves lock.
LEMMA ReservesStay ==
    ASSUME ReservesInv, UNCHANGED reservesLock,
           \A g \in Guards(reservesLock) : ReservesGuardAlive(g)'
    PROVE  ReservesInv'
  BY DEF ReservesInv

\* What the price handler does to the line for the users lock.
LEMMA UsersPrice == GInv /\ PriceStep => UsersInv'
<1> SUFFICES ASSUME GInv, PriceStep PROVE UsersInv'
  OBVIOUS
<1> USE GTypes DEF GInv
<1>1. CASE SetReservePrice \/ SkipUnknownReserve \/ ScanAllUsers
             \/ CollectHighPrio \/ FollowerPanics("price")
 <2>1. UNCHANGED <<usersLock, note>>
   BY <1>1
      DEF SetReservePrice, SkipUnknownReserve, CollectHighPrio, ScanAllUsers,
          FollowerPanics, locks, messages
 <2>2. \A g \in Guards(usersLock) : UsersGuardAlive(g)'
   BY <1>1, <2>1
      DEF SetReservePrice, SkipUnknownReserve, CollectHighPrio, ScanAllUsers,
          FollowerPanics, Return, Goto, UsersInv, UsersGuardAlive
 <2> QED
   BY <2>1, <2>2, UsersStay
<1>2. CASE LockUsersForScan
 <2>1. ~UsersGuardAlive([by |-> "price", site |-> "scan"])
   BY <1>2 DEF LockUsersForScan, Goto, UsersGuardAlive
 <2>2. /\ Distinct(usersLock)'
       /\ Guards(usersLock)' =
             Guards(usersLock) \cup {[by |-> "price", site |-> "scan"]}
   BY <1>2, <2>1, UsersJoin DEF LockUsersForScan
 <2>3. UNCHANGED note
   BY <1>2 DEF LockUsersForScan, messages
 <2>4. \A g \in Guards(usersLock)' : UsersGuardAlive(g)'
   BY <1>2, <2>2, <2>3 DEF LockUsersForScan, Goto, UsersInv, UsersGuardAlive
 <2> QED
   BY <2>2, <2>4 DEF UsersInv
<1>3. CASE ScanUser
 <2> PICK u \in Users, h \in Plausible :
        RequestFromScan(u, h) \/ RecordFromScan(u, h) \/ PassOverInScan(u, h)
   BY <1>3 DEF ScanUser
 <2>1. CASE RequestFromScan(u, h)
  <3>1. /\ note["price"].at # "locking"
        /\ note' = [note EXCEPT !["price"] = NoNote]
    BY <2>1, NothingInFlight DEF RequestFromScan, SendRequest, Goto
  <3>2. \A g \in Guards(usersLock) : UsersGuardAlive(g)'
    BY <2>1, <3>1 DEF RequestFromScan, Goto, UsersInv, UsersGuardAlive
  <3> QED
    BY <2>1, <3>2, UsersStay DEF RequestFromScan, locks
 <2>2. CASE RecordFromScan(u, h)
  <3>1. ~UsersGuardAlive([by |-> "price", site |-> "write"])
    BY <2>2 DEF RecordFromScan, Goto, UsersGuardAlive
  <3>2. /\ Distinct(usersLock)'
        /\ Guards(usersLock)' =
              Guards(usersLock) \cup {[by |-> "price", site |-> "write"]}
    BY <2>2, <3>1, UsersJoin DEF RecordFromScan
  <3>3. UNCHANGED note
    BY <2>2 DEF RecordFromScan, messages
  <3>4. \A g \in Guards(usersLock)' : UsersGuardAlive(g)'
    BY <2>2, <3>2, <3>3 DEF RecordFromScan, Goto, UsersInv, UsersGuardAlive
  <3> QED
    BY <3>2, <3>4 DEF UsersInv
 <2>3. CASE PassOverInScan(u, h)
  <3>1. UNCHANGED <<usersLock, pc, note>>
    BY <2>3 DEF PassOverInScan, locks, messages
  <3> QED
    BY <3>1, UsersStay DEF UsersInv, UsersGuardAlive
 <2> QED
   BY <2>1, <2>2, <2>3
<1>4. CASE AbandonScan \/ PanicInScan \/ EndScan
 <2>1. /\ pc["price"] = "rpc" /\ pc'["price"] \in {"idle", "failed"}
       /\ \A t \in Tasks \ {"price"} : pc'[t] = pc[t]
       /\ usersLock' = Unlock(usersLock)
       /\ UNCHANGED note
   BY <1>4
      DEF AbandonScan, PanicInScan, EndScan, Return, Panic, Goto,
          DropScanGuards, messages
 <2>2. /\ Distinct(usersLock)'
       /\ Guards(usersLock)' =
             Guards(usersLock) \ {[by |-> "price", site |-> "scan"]}
   BY <2>1, UsersLeave DEF IInv, HoldInv
 <2>3. usersLock \in Seq(UsersGuards)
   BY DEF TypeOK
 <2>4. \A g \in Guards(usersLock) : g \in UsersGuards
   BY <2>3 DEF Guards
 <2>5. \A g \in Guards(usersLock)' : UsersGuardAlive(g)'
   BY <2>1, <2>2, <2>4 DEF UsersInv, UsersGuardAlive, UsersGuards
 <2> QED
   BY <2>2, <2>5 DEF UsersInv
<1>5. CASE ScanRequestAnswered
 <2>1. ~UsersGuardAlive([by |-> "price", site |-> "write"])
   BY <1>5 DEF ScanRequestAnswered, Goto, UsersGuardAlive
 <2>2. /\ Distinct(usersLock)'
       /\ Guards(usersLock)' =
             Guards(usersLock) \cup {[by |-> "price", site |-> "write"]}
   BY <1>5, <2>1, UsersJoin DEF ScanRequestAnswered
 <2>3. UNCHANGED note
   BY <1>5 DEF ScanRequestAnswered
 <2>4. \A g \in Guards(usersLock)' : UsersGuardAlive(g)'
   BY <1>5, <2>2, <2>3 DEF ScanRequestAnswered, Goto, UsersInv, UsersGuardAlive
 <2> QED
   BY <2>2, <2>4 DEF UsersInv
<1> QED
  BY <1>1, <1>2, <1>3, <1>4, <1>5 DEF PriceStep

\* What the user handler does to that line.
LEMMA UsersUser == GInv /\ UserStep => UsersInv'
<1> SUFFICES ASSUME GInv, UserStep PROVE UsersInv'
  OBVIOUS
<1> USE GTypes DEF GInv
<1>1. CASE IgnoreUser \/ PanicOnUser \/ UserRequestAnswered
             \/ InsertLiquidationCall \/ FollowerPanics("user")
 <2>1. UNCHANGED <<usersLock, note>>
   BY <1>1
      DEF IgnoreUser, PanicOnUser, UserRequestAnswered, InsertLiquidationCall,
          FollowerPanics, locks, messages
 <2>2. \A g \in Guards(usersLock) : UsersGuardAlive(g)'
   BY <1>1, <2>1
      DEF IgnoreUser, PanicOnUser, UserRequestAnswered, InsertLiquidationCall,
          FollowerPanics, Return, Panic, Goto, UsersInv, UsersGuardAlive
 <2> QED
   BY <2>1, <2>2, UsersStay
<1>2. CASE ReadUserHealth
 <2>1. ~UsersGuardAlive([by |-> "user", site |-> "read"])
   BY <1>2 DEF ReadUserHealth, Goto, UsersGuardAlive
 <2>2. /\ Distinct(usersLock)'
       /\ Guards(usersLock)' =
             Guards(usersLock) \cup {[by |-> "user", site |-> "read"]}
   BY <1>2, <2>1, UsersJoin DEF ReadUserHealth
 <2>3. UNCHANGED note
   BY <1>2 DEF ReadUserHealth, messages
 <2>4. \A g \in Guards(usersLock)' : UsersGuardAlive(g)'
   BY <1>2, <2>2, <2>3 DEF ReadUserHealth, Goto, UsersInv, UsersGuardAlive
 <2> QED
   BY <2>2, <2>4 DEF UsersInv
<1>3. CASE RequestForUser \/ KeepUser \/ DiscardUser
 <2>1. /\ pc["user"] = "read" /\ pc'["user"] \in {"await", "add", "idle"}
       /\ \A t \in Tasks \ {"user"} : pc'[t] = pc[t]
       /\ Locked(usersLock, "user", "read")
       /\ usersLock' = Unlock(usersLock)
   BY <1>3 DEF RequestForUser, KeepUser, DiscardUser, Return, Goto
 <2>2. /\ Distinct(usersLock)'
       /\ Guards(usersLock)' =
             Guards(usersLock) \ {[by |-> "user", site |-> "read"]}
   BY <2>1, UsersLeave
 <2>3. \A l \in Listeners : note[l].at = "locking" => note'[l].at = "locking"
   BY <1>3, <2>1, NothingInFlight
      DEF RequestForUser, KeepUser, DiscardUser, SendRequest, messages
 <2>4. usersLock \in Seq(UsersGuards)
   BY DEF TypeOK
 <2>5. \A g \in Guards(usersLock) : g \in UsersGuards
   BY <2>4 DEF Guards
 <2>6. \A g \in Guards(usersLock)' : UsersGuardAlive(g)'
   BY <2>1, <2>2, <2>3, <2>5 DEF UsersInv, UsersGuardAlive, UsersGuards
 <2> QED
   BY <2>2, <2>6 DEF UsersInv
<1>4. CASE AddMember
 <2>1. ~UsersGuardAlive([by |-> "user", site |-> "write"])
   BY <1>4 DEF AddMember, Goto, UsersGuardAlive
 <2>2. /\ Distinct(usersLock)'
       /\ Guards(usersLock)' =
             Guards(usersLock) \cup {[by |-> "user", site |-> "write"]}
   BY <1>4, <2>1, UsersJoin DEF AddMember
 <2>3. UNCHANGED note
   BY <1>4 DEF AddMember, messages
 <2>4. \A g \in Guards(usersLock)' : UsersGuardAlive(g)'
   BY <1>4, <2>2, <2>3 DEF AddMember, Goto, UsersInv, UsersGuardAlive
 <2> QED
   BY <2>2, <2>4 DEF UsersInv
<1> QED
  BY <1>1, <1>2, <1>3, <1>4 DEF UserStep

\* The end of the user handler frees both locks.
LEMMA LinesRecord == GInv /\ RecordHealth("user") => UsersInv' /\ ReservesInv'
<1> SUFFICES ASSUME GInv, RecordHealth("user") PROVE UsersInv' /\ ReservesInv'
  OBVIOUS
<1> USE GTypes DEF GInv
<1>1. /\ pc["user"] = "write" /\ pc' = [pc EXCEPT !["user"] = "idle"]
      /\ Locked(usersLock, "user", "write")
      /\ usersLock' = Unlock(usersLock) /\ reservesLock' = Unlock(reservesLock)
      /\ note' = [note EXCEPT !["user"] = NoNote]
  BY DEF RecordHealth, Return, Goto
<1>2. Locked(reservesLock, "user", "add")
  BY <1>1 DEF IInv, HoldInv
<1>3. note["user"].at # "locking"
  BY <1>1, NothingInFlight
<1>4. /\ Distinct(usersLock)'
      /\ Guards(usersLock)' =
            Guards(usersLock) \ {[by |-> "user", site |-> "write"]}
  BY <1>1, UsersLeave
<1>5. /\ Distinct(reservesLock)'
      /\ Guards(reservesLock)' =
            Guards(reservesLock) \ {[by |-> "user", site |-> "add"]}
  BY <1>1, <1>2, ReservesLeave
<1>6. \A g \in Guards(usersLock) : g \in UsersGuards
 <2>1. usersLock \in Seq(UsersGuards)
   BY DEF TypeOK
 <2> QED
   BY <2>1 DEF Guards
<1>7. \A g \in Guards(reservesLock) : g \in ReservesGuards
 <2>1. reservesLock \in Seq(ReservesGuards)
   BY DEF TypeOK
 <2> QED
   BY <2>1 DEF Guards
<1>8. UsersInv'
 <2>1. \A g \in Guards(usersLock)' : UsersGuardAlive(g)'
   BY <1>1, <1>3, <1>4, <1>6 DEF UsersInv, UsersGuardAlive, UsersGuards
 <2> QED
   BY <1>4, <2>1 DEF UsersInv
<1>9. ReservesInv'
 <2>1. \A g \in Guards(reservesLock)' : ReservesGuardAlive(g)'
   BY <1>1, <1>5, <1>7 DEF ReservesInv, ReservesGuardAlive, ReservesGuards
 <2> QED
   BY <1>5, <2>1 DEF ReservesInv
<1> QED
  BY <1>8, <1>9

\* What update_recent_users does to the line for the users lock.
LEMMA UsersPersist ==
    ASSUME GInv, NEW t \in Persisters, PersistStep(t)
    PROVE  UsersInv'
<1> USE GTypes DEF GInv
<1>1. UNCHANGED note
  BY DEF PersistStep, IndicesUnavailable, LockUsersToPersist, PersistBegin,
         UpsertUserData, PersistDone, messages
<1>2. CASE IndicesUnavailable(t)
 <2>1. \A g \in Guards(usersLock) : UsersGuardAlive(g)'
   BY <1>1, <1>2 DEF IndicesUnavailable, Goto, UsersInv, UsersGuardAlive
 <2> QED
   BY <1>2, <2>1, UsersStay DEF IndicesUnavailable, locks
<1>3. CASE LockUsersToPersist(t)
 <2>1. ~UsersGuardAlive([by |-> t, site |-> "persist"])
   BY <1>3 DEF LockUsersToPersist, Goto, UsersGuardAlive
 <2>2. /\ Distinct(usersLock)'
       /\ Guards(usersLock)' =
             Guards(usersLock) \cup {[by |-> t, site |-> "persist"]}
   BY <1>3, <2>1, UsersJoin DEF LockUsersToPersist
 <2>3. \A g \in Guards(usersLock)' : UsersGuardAlive(g)'
   BY <1>1, <1>3, <2>2 DEF LockUsersToPersist, Goto, UsersInv, UsersGuardAlive
 <2> QED
   BY <2>2, <2>3 DEF UsersInv
<1>4. CASE PersistBegin(t)
 <2>1. \A g \in Guards(usersLock) : UsersGuardAlive(g)'
   BY <1>1, <1>4 DEF PersistBegin, Goto, UsersInv, UsersGuardAlive
 <2> QED
   BY <1>4, <2>1, UsersStay DEF PersistBegin, locks
<1>5. ASSUME NEW u \in Users, UpsertUserData(t, u) PROVE UsersInv'
 <2>1. UNCHANGED <<usersLock, pc>>
   BY <1>5 DEF UpsertUserData, locks
 <2> QED
   BY <1>1, <2>1, UsersStay DEF UsersInv, UsersGuardAlive
<1>6. CASE PersistDone(t)
 <2>1. /\ pc[t] = "upsert" /\ \A s \in Tasks \ {t} : pc'[s] = pc[s]
       /\ usersLock' = Unlock(usersLock)
   BY <1>6 DEF PersistDone, Goto
 <2>2. /\ Distinct(usersLock)'
       /\ Guards(usersLock)' =
             Guards(usersLock) \ {[by |-> t, site |-> "persist"]}
   BY <2>1, UsersLeave DEF IInv, HoldInv
 <2>3. \A g \in Guards(usersLock) : g \in UsersGuards
  <3>1. usersLock \in Seq(UsersGuards)
    BY DEF TypeOK
  <3> QED
    BY <3>1 DEF Guards
 <2>4. \A g \in Guards(usersLock)' : UsersGuardAlive(g)'
   BY <1>1, <2>1, <2>2, <2>3 DEF UsersInv, UsersGuardAlive, UsersGuards
 <2> QED
   BY <2>2, <2>4 DEF UsersInv
<1> QED
  BY <1>2, <1>3, <1>4, <1>5, <1>6 DEF PersistStep

\* A notification stands in line from its receipt until the user is marked.
LEMMA UsersNotification ==
    ASSUME GInv, NEW l \in Listeners, NotificationStep(l)
    PROVE  UsersInv'
<1> USE GTypes DEF GInv
<1>1. UNCHANGED pc
  BY DEF NotificationStep, ReceiveNotification, MarkUser, SetHealth, control
<1>2. CASE ReceiveNotification(l)
 <2>1. note[l].at = "sent" /\ note' = [note EXCEPT ![l].at = "locking"]
   BY <1>2 DEF ReceiveNotification
 <2>2. ~UsersGuardAlive([by |-> l, site |-> "mark"])
   BY <2>1 DEF UsersGuardAlive
 <2>3. /\ Distinct(usersLock)'
       /\ Guards(usersLock)' =
             Guards(usersLock) \cup {[by |-> l, site |-> "mark"]}
   BY <1>2, <2>2, UsersJoin DEF ReceiveNotification
 <2>4. note'[l].at = "locking" /\ \A m \in Listeners \ {l} : note'[m] = note[m]
   BY <2>1 DEF Notes
 <2>5. \A g \in Guards(usersLock)' : UsersGuardAlive(g)'
   BY <1>1, <2>3, <2>4 DEF UsersInv, UsersGuardAlive
 <2> QED
   BY <2>3, <2>5 DEF UsersInv
<1>3. CASE MarkUser(l)
 <2>1. /\ Locked(usersLock, l, "mark")
       /\ usersLock' = Unlock(usersLock)
       /\ \A m \in Listeners \ {l} : note'[m] = note[m]
   BY <1>3 DEF MarkUser, SetHealth
 <2>2. /\ Distinct(usersLock)'
       /\ Guards(usersLock)' =
             Guards(usersLock) \ {[by |-> l, site |-> "mark"]}
   BY <2>1, UsersLeave
 <2>3. \A g \in Guards(usersLock) : g \in UsersGuards
  <3>1. usersLock \in Seq(UsersGuards)
    BY DEF TypeOK
  <3> QED
    BY <3>1 DEF Guards
 <2>4. \A g \in Guards(usersLock)' : UsersGuardAlive(g)'
   BY <1>1, <2>1, <2>2, <2>3 DEF UsersInv, UsersGuardAlive, UsersGuards
 <2> QED
   BY <2>2, <2>4 DEF UsersInv
<1> QED
  BY <1>2, <1>3 DEF NotificationStep

\* What the Executor does is none of the lines' business, but for the
\* notification it sends.
LEMMA LinesExecutor ==
    ASSUME GInv, NEW l \in Listeners, ExecutorRuns(l)
    PROVE  UsersInv' /\ ReservesInv'
<1> USE GTypes DEF GInv
<1>1. UNCHANGED <<pc, usersLock, reservesLock>>
  BY DEF ExecutorRuns, FanaticVars, control, locks
<1>2. \A m \in Listeners : note[m].at = "locking" => note'[m].at = "locking"
 <2>1. CASE CallLiquidatoor(l)
   BY <2>1 DEF CallLiquidatoor, RequestAt, NoteInv
 <2> QED
   BY <2>1
      DEF ExecutorRuns, ExecutorStep, RequestUserHealth, RequestPanics,
          RequestRead, RequestGivesUp, RequestNotified
<1>3. \A g \in Guards(usersLock) : UsersGuardAlive(g)'
  BY <1>1, <1>2 DEF UsersInv, UsersGuardAlive
<1>4. \A g \in Guards(reservesLock) : ReservesGuardAlive(g)'
  BY <1>1 DEF ReservesInv, ReservesGuardAlive
<1> QED
  BY <1>1, <1>3, <1>4, UsersStay, ReservesStay

\* A message that is received leaves the line for the users lock alone.
LEMMA UsersReceive == GInv /\ Receive => UsersInv'
<1> SUFFICES ASSUME GInv, Receive PROVE UsersInv'
  OBVIOUS
<1> USE GTypes DEF GInv
<1>1. UNCHANGED <<usersLock, note>>
  BY DEF Receive, UpdateReservePrice, UpdateReserveUser,
         DoSmthWithLiquidationCall, BeginPersist, locks, messages
<1>2. \A g \in Guards(usersLock) : UsersGuardAlive(g)'
  BY <1>1
     DEF Receive, UpdateReservePrice, UpdateReserveUser,
         DoSmthWithLiquidationCall, BeginPersist, Goto, UsersInv,
         UsersGuardAlive
<1> QED
  BY <1>1, <1>2, UsersStay

\* What a message that is received does to the line for the reserves lock.
LEMMA ReservesReceive == GInv /\ Receive => ReservesInv'
<1> SUFFICES ASSUME GInv, Receive PROVE ReservesInv'
  OBVIOUS
<1> USE GTypes DEF GInv
<1>1. ASSUME NEW r \in Reserves, NEW p \in Prices, UpdateReservePrice(r, p)
      PROVE  ReservesInv'
 <2>1. ~ReservesGuardAlive([by |-> "price", site |-> "setPrice"])
   BY <1>1 DEF UpdateReservePrice, Goto, ReservesGuardAlive
 <2>2. /\ Distinct(reservesLock)'
       /\ Guards(reservesLock)' =
             Guards(reservesLock) \cup {[by |-> "price", site |-> "setPrice"]}
   BY <1>1, <2>1, ReservesJoin DEF UpdateReservePrice
 <2>3. \A g \in Guards(reservesLock)' : ReservesGuardAlive(g)'
   BY <1>1, <2>2 DEF UpdateReservePrice, Goto, ReservesInv, ReservesGuardAlive
 <2> QED
   BY <2>2, <2>3 DEF ReservesInv
<1>2. ASSUME UNCHANGED reservesLock,
             \A t \in Tasks : pc[t] # "idle" => pc'[t] = pc[t]
      PROVE  ReservesInv'
 <2>1. \A g \in Guards(reservesLock) : ReservesGuardAlive(g)'
   BY <1>2 DEF ReservesInv, ReservesGuardAlive
 <2> QED
   BY <1>2, <2>1, ReservesStay
<1>3. CASE (\E r \in Reserves, u \in Users : UpdateReserveUser(r, u))
             \/ DoSmthWithLiquidationCall
             \/ (\E t \in Persisters : BeginPersist(t))
  BY <1>2, <1>3
     DEF UpdateReserveUser, DoSmthWithLiquidationCall, BeginPersist, Goto,
         locks
<1> QED
  BY <1>1, <1>3 DEF Receive

\* What the price handler does to that line.
LEMMA ReservesPrice == GInv /\ PriceStep => ReservesInv'
<1> SUFFICES ASSUME GInv, PriceStep PROVE ReservesInv'
  OBVIOUS
<1> USE GTypes DEF GInv
<1>0. \A g \in Guards(reservesLock) : g \in ReservesGuards
 <2>1. reservesLock \in Seq(ReservesGuards)
   BY DEF TypeOK
 <2> QED
   BY <2>1 DEF Guards
<1>1. CASE SetReservePrice
 <2> DEFINE q == Unlock(reservesLock)
 <2>1. /\ reservesLock \in Seq(ReservesGuards)
       /\ [by |-> "price", site |-> "scan"] \in ReservesGuards
       /\ Distinct(reservesLock)
       /\ Locked(reservesLock, "price", "setPrice")
       /\ reservesLock' = Lock(q, "price", "scan")
       /\ pc["price"] = "setPrice" /\ pc' = [pc EXCEPT !["price"] = "scan"]
   BY <1>1 DEF TypeOK, ReservesGuards, ReservesInv, SetReservePrice, Goto
 <2>2. /\ q \in Seq(ReservesGuards)
       /\ Distinct(q)
       /\ Guards(q) =
             Guards(reservesLock) \ {[by |-> "price", site |-> "setPrice"]}
   BY <2>1, UnlockType, UnlockLeaves
 <2>3. [by |-> "price", site |-> "scan"] \notin Guards(reservesLock)
   BY <2>1 DEF ReservesInv, ReservesGuardAlive
 <2> HIDE DEF q
 <2>4. /\ Distinct(Lock(q, "price", "scan"))
       /\ Guards(Lock(q, "price", "scan")) =
             Guards(q) \cup {[by |-> "price", site |-> "scan"]}
   BY <2>1, <2>2, <2>3, LockJoins
 <2>5. /\ Distinct(reservesLock)'
       /\ Guards(reservesLock)' =
             (Guards(reservesLock) \ {[by |-> "price", site |-> "setPrice"]})
                \cup {[by |-> "price", site |-> "scan"]}
   BY <2>1, <2>2, <2>4
 <2>6. \A g \in Guards(reservesLock)' : ReservesGuardAlive(g)'
   BY <1>0, <2>1, <2>5 DEF ReservesInv, ReservesGuardAlive, ReservesGuards
 <2> QED
   BY <2>5, <2>6 DEF ReservesInv
<1>2. CASE SkipUnknownReserve \/ AbandonScan \/ PanicInScan \/ EndScan
 <2>1. /\ pc["price"] \in {"scan", "rpc"} /\ pc'["price"] \in {"idle", "failed"}
       /\ \A t \in Tasks \ {"price"} : pc'[t] = pc[t]
       /\ Locked(reservesLock, "price", "scan")
       /\ reservesLock' = Unlock(reservesLock)
   BY <1>2
      DEF SkipUnknownReserve, AbandonScan, PanicInScan, EndScan, Return, Panic,
          Goto, DropScanGuards, IInv, HoldInv
 <2>2. /\ Distinct(reservesLock)'
       /\ Guards(reservesLock)' =
             Guards(reservesLock) \ {[by |-> "price", site |-> "scan"]}
   BY <2>1, ReservesLeave
 <2>3. \A g \in Guards(reservesLock)' : ReservesGuardAlive(g)'
   BY <1>0, <2>1, <2>2 DEF ReservesInv, ReservesGuardAlive, ReservesGuards
 <2> QED
   BY <2>2, <2>3 DEF ReservesInv
<1>3. CASE LockUsersForScan \/ CollectHighPrio \/ ScanUser \/ ScanAllUsers
             \/ ScanRequestAnswered \/ FollowerPanics("price")
 <2>1. /\ UNCHANGED reservesLock
       /\ \A t \in Tasks \ {"price"} : pc'[t] = pc[t]
       /\ \/ pc'["price"] = pc["price"]
          \/ /\ pc["price"] \in {"scan", "lockUsers", "rpc", "await"}
             /\ pc'["price"] \in {"lockUsers", "rpc", "await", "write"}
          \/ pc["price"] = "failed"
   BY <1>3
      DEF LockUsersForScan, CollectHighPrio, ScanUser, RequestFromScan,
          RecordFromScan, PassOverInScan, ScanAllUsers, ScanRequestAnswered,
          FollowerPanics, Goto, locks
 <2>2. \A g \in Guards(reservesLock) : ReservesGuardAlive(g)'
   BY <2>1 DEF ReservesInv, ReservesGuardAlive
 <2> QED
   BY <2>1, <2>2, ReservesStay
<1> QED
  BY <1>1, <1>2, <1>3 DEF PriceStep

\* What the user handler does to that line.
LEMMA ReservesUser == GInv /\ UserStep => ReservesInv'
<1> SUFFICES ASSUME GInv, UserStep PROVE ReservesInv'
  OBVIOUS
<1> USE GTypes DEF GInv
<1>1. CASE KeepUser \/ UserRequestAnswered
 <2>1. /\ pc["user"] \in {"read", "await"} /\ pc'["user"] = "add"
       /\ \A t \in Tasks \ {"user"} : pc'[t] = pc[t]
       /\ reservesLock' = Lock(reservesLock, "user", "add")
   BY <1>1 DEF KeepUser, UserRequestAnswered, Goto
 <2>2. ~ReservesGuardAlive([by |-> "user", site |-> "add"])
   BY <2>1 DEF ReservesGuardAlive
 <2>3. /\ Distinct(reservesLock)'
       /\ Guards(reservesLock)' =
             Guards(reservesLock) \cup {[by |-> "user", site |-> "add"]}
   BY <2>1, <2>2, ReservesJoin
 <2>4. \A g \in Guards(reservesLock)' : ReservesGuardAlive(g)'
   BY <2>1, <2>3 DEF ReservesInv, ReservesGuardAlive
 <2> QED
   BY <2>3, <2>4 DEF ReservesInv
<1>2. CASE IgnoreUser \/ PanicOnUser \/ ReadUserHealth \/ RequestForUser
             \/ DiscardUser \/ AddMember \/ InsertLiquidationCall
             \/ FollowerPanics("user")
 <2>1. /\ UNCHANGED reservesLock
       /\ \A t \in Tasks \ {"user"} : pc'[t] = pc[t]
       /\ \/ pc["user"] \notin {"add", "write"}
          \/ pc["user"] = "add" /\ pc'["user"] = "write"
   BY <1>2
      DEF IgnoreUser, PanicOnUser, ReadUserHealth, RequestForUser, DiscardUser,
          AddMember, InsertLiquidationCall, FollowerPanics, Return, Panic,
          Goto, locks
 <2>2. \A g \in Guards(reservesLock) : ReservesGuardAlive(g)'
   BY <2>1 DEF ReservesInv, ReservesGuardAlive
 <2> QED
   BY <2>1, <2>2, ReservesStay
<1> QED
  BY <1>1, <1>2 DEF UserStep

\* Every step keeps the two lines.
LEMMA LinesNext == GInv /\ [Next]_vars => UsersInv' /\ ReservesInv'
<1> SUFFICES ASSUME GInv, [Next]_vars PROVE UsersInv' /\ ReservesInv'
  OBVIOUS
<1> USE GTypes DEF GInv
<1>1. CASE UNCHANGED vars
 <2>1. UNCHANGED <<pc, note, usersLock, reservesLock>>
   BY <1>1 DEF vars, control, messages, locks
 <2> QED
   BY <2>1, UsersStay, ReservesStay
      DEF UsersInv, ReservesInv, UsersGuardAlive, ReservesGuardAlive
<1>2. ASSUME UNCHANGED reservesLock,
             \A l \in Listeners : pc'[l] = pc[l]
      PROVE  ReservesInv'
 <2>1. \A g \in Guards(reservesLock) : ReservesGuardAlive(g)'
   BY <1>2 DEF ReservesInv, ReservesGuardAlive
 <2> QED
   BY <1>2, <2>1, ReservesStay
<1>3. ASSUME NEW t \in Persisters, PersistStep(t)
      PROVE  ReservesInv'
  BY <1>2, <1>3
     DEF PersistStep, IndicesUnavailable, LockUsersToPersist, PersistBegin,
         UpsertUserData, PersistDone, Goto, locks
<1>4. ASSUME NEW l \in Listeners, NotificationStep(l)
      PROVE  ReservesInv'
  BY <1>2, <1>4
     DEF NotificationStep, ReceiveNotification, MarkUser, SetHealth, control
<1> QED
  BY <1>1, <1>3, <1>4, UsersPrice, UsersUser, UsersReceive, UsersPersist,
     UsersNotification, LinesExecutor, LinesRecord, ReservesPrice,
     ReservesUser, ReservesReceive, OnlyUserRecords DEF Next, Listeners

-----------------------------------------------------------------------------
\* What follows.

\* At the start nobody stands in line and nothing is in flight.
LEMMA GInvInit == Init => GInv
<1> SUFFICES ASSUME Init PROVE GInv
  OBVIOUS
<1>1. IInv
  BY InitInv
<1>2. NoteInv
  BY DEF Init, ExecutorInit, NoteInv, NoRequest, NoNote
<1>3. usersLock = << >> /\ reservesLock = << >>
  BY DEF Init, FanaticInit
<1>4. UsersInv /\ ReservesInv
 <2>1. Len(<< >>) = 0
   BY EmptySeq
 <2> QED
   BY <1>3, <2>1 DEF UsersInv, ReservesInv, Distinct, Guards
<1> QED
  BY <1>1, <1>2, <1>4 DEF GInv

\* The inductive invariant holds for ever.
LEMMA GInvariant == Spec => []GInv
<1>1. IInv /\ [Next]_vars => IInv'
  BY TypeNext, HoldNext, JobNext, MemberNext, TodoNext, SnapshotNext DEF IInv
<1>2. GInv /\ [Next]_vars => GInv'
  BY <1>1, NoteNext, LinesNext DEF GInv
<1> QED
  BY <1>2, GInvInit, PTL DEF Spec

\* Every guard that stands in line for a lock belongs to a future that is alive
\* and stands there once: no early return, panic or "?" of a handler leaves a
\* lock taken (fanatic.rs:121-152, 341-464, 471-538, 599-636).
THEOREM NoGuardLeaks == Spec => []NoLeakedGuard
<1>1. GInv => NoLeakedGuard
 <2> SUFFICES ASSUME GInv PROVE NoLeakedGuard
   OBVIOUS
 <2>1. \A i \in 1..Len(usersLock) : UsersGuardAlive(usersLock[i])
   BY DEF GInv, UsersInv, Guards
 <2>2. \A i \in 1..Len(reservesLock) : ReservesGuardAlive(reservesLock[i])
   BY DEF GInv, ReservesInv, Guards
 <2> QED
   BY <2>1, <2>2 DEF GInv, UsersInv, ReservesInv, Distinct, NoLeakedGuard
<1> QED
  BY <1>1, GInvariant, PTL

\* The handlers take the two locks in one order: a listener whose guard of the
\* users lock is alive does not stand in line for the reserves lock behind
\* someone else (fanatic.rs:373-376, 490-535).
THEOREM LocksAreOrdered == Spec => []LockOrder
<1>1. GInv => LockOrder
 <2> SUFFICES ASSUME GInv,
                     NEW task \in Listeners,
                     NEW site \in {"setPrice", "scan", "add"},
                     NEW held \in {"scan", "read", "write", "persist"},
                     Locked(usersLock, task, held),
                     NEW i \in 2..Len(reservesLock),
                     reservesLock[i] = [by |-> task, site |-> site]
              PROVE  FALSE
   BY DEF LockOrder
 <2> USE GTypes DEF GInv
 <2>1. /\ usersLock \in Seq(UsersGuards)
       /\ reservesLock \in Seq(ReservesGuards)
   BY DEF TypeOK
 <2>2. UsersGuardAlive([by |-> task, site |-> held])
   BY <2>1, BehindHead DEF UsersInv
 <2>3. ReservesGuardAlive([by |-> task, site |-> site])
  <3>1. i \in 1..Len(reservesLock)
    BY <2>1, LenProperties
  <3> QED
    BY <3>1 DEF ReservesInv, Guards
 <2>4. CASE task = "price"
  <3>1. site = "scan" /\ pc["price"] \in {"lockUsers", "rpc", "await", "write"}
    BY <2>2, <2>3, <2>4 DEF UsersGuardAlive, ReservesGuardAlive
  <3>2. Locked(reservesLock, "price", "scan")
    BY <3>1 DEF IInv, HoldInv
  <3> QED
    BY <2>1, <2>4, <3>1, <3>2, BehindHead DEF ReservesInv
 <2>5. CASE task = "user"
  <3>1. site = "add" /\ pc["user"] = "write"
    BY <2>2, <2>3, <2>5 DEF UsersGuardAlive, ReservesGuardAlive
  <3>2. Locked(reservesLock, "user", "add")
    BY <3>1 DEF IInv, HoldInv
  <3> QED
    BY <2>1, <2>5, <3>1, <3>2, BehindHead DEF ReservesInv
 <2> QED
   BY <2>4, <2>5
<1> QED
  BY <1>1, GInvariant, PTL

\* The Fanatic marks a user only while the listener that asked for its
\* liquidation waits for the answer (executor.rs:171-189, fanatic.rs:602-636).
THEOREM MarksOnlyWhileAwaited == Spec => []NoteWhileAwaited
<1>1. GInv => NoteWhileAwaited
  BY DEF GInv, NoteInv, NoteWhileAwaited
<1> QED
  BY <1>1, GInvariant, PTL
=============================================================================
