----------------------------- MODULE BotProofs -----------------------------
(* Proofs about Bot. *)
EXTENDS Bot, SequenceTheorems, TLAPS

-----------------------------------------------------------------------------
\* Lemmas on the lock queue.

\* Asking for a lock adds a guard to the line.
LEMMA LockType ==
    ASSUME NEW S, NEW q \in Seq(S), NEW t, NEW s, [by |-> t, site |-> s] \in S
    PROVE  Lock(q, t, s) \in Seq(S)
  BY AppendProperties DEF Lock

\* Dropping the guard that is alive leaves a line of guards.
LEMMA UnlockType ==
    ASSUME NEW S, NEW q \in Seq(S), NEW t, NEW s, Locked(q, t, s)
    PROVE  Unlock(q) \in Seq(S)
  BY HeadTailProperties DEF Unlock, Locked

\* Asking for a lock takes it from no one.
LEMMA LockKeepsHead ==
    ASSUME NEW S, NEW q \in Seq(S), NEW t, NEW s, NEW t2, NEW s2,
           Locked(q, t, s), [by |-> t2, site |-> s2] \in S
    PROVE  Locked(Lock(q, t2, s2), t, s)
<1> DEFINE e == [by |-> t2, site |-> s2]
<1>1. q # << >> /\ Len(q) \in Nat \ {0} /\ Head(q) = q[1]
  BY EmptySeq DEF Locked
<1>2. /\ Append(q, e) \in Seq(S)
      /\ Append(q, e) # << >>
      /\ Append(q, e)[1] = q[1]
  BY <1>1, AppendProperties
<1>3. Head(Append(q, e)) = q[1]
  BY <1>2
<1> QED
  BY <1>1, <1>2, <1>3 DEF Locked, Lock

\* A guard that is alive is the only one.
LEMMA OneGuard ==
    ASSUME NEW q, NEW t, NEW s, NEW t2, NEW s2,
           Locked(q, t, s), Locked(q, t2, s2)
    PROVE  t = t2 /\ s = s2
<1>1. Head(q) = [by |-> t, site |-> s] /\ Head(q) = [by |-> t2, site |-> s2]
  BY DEF Locked
<1> QED
  BY <1>1
-----------------------------------------------------------------------------
\* Lemmas on maps.

\* A map is a function from a part of S to T.
LEMMA MapsElim ==
    ASSUME NEW S, NEW T, NEW f \in Maps(S, T)
    PROVE  /\ DOMAIN f \subseteq S
           /\ f = [k \in DOMAIN f |-> f[k]]
           /\ \A k \in DOMAIN f : f[k] \in T
  BY DEF Maps

\* A function from a part of S to T is a map.
LEMMA MapsIntro ==
    ASSUME NEW S, NEW T, NEW D \in SUBSET S, NEW f \in [D -> T]
    PROVE  f \in Maps(S, T)
  BY DEF Maps

\* HashMap::insert adds one key, and changes the value of no other.
LEMMA InsertType ==
    ASSUME NEW S, NEW T, NEW f \in Maps(S, T), NEW k \in S, NEW v \in T
    PROVE  /\ Insert(f, k, v) \in Maps(S, T)
           /\ DOMAIN Insert(f, k, v) = DOMAIN f \cup {k}
           /\ Insert(f, k, v)[k] = v
           /\ \A x \in DOMAIN f : x # k => Insert(f, k, v)[x] = f[x]
<1>1. Insert(f, k, v) \in [DOMAIN f \cup {k} -> T]
  BY MapsElim DEF Insert
<1>2. DOMAIN f \cup {k} \in SUBSET S
  BY MapsElim
<1>3. Insert(f, k, v) \in Maps(S, T)
  BY <1>1, <1>2, MapsIntro
<1> QED
  BY <1>3 DEF Insert

-----------------------------------------------------------------------------
\* The inductive invariant.

\* Which handler has which guard alive.
HoldInv ==
    /\ pc["price"] \in {"lockUsers", "rpc", "await", "write"} =>
          Locked(reservesLock, "price", "scan")
    /\ pc["price"] \in {"rpc", "await", "write"} =>
          Locked(usersLock, "price", "scan")
    /\ pc["user"] = "write" => Locked(reservesLock, "user", "add")
    /\ \A t \in Persisters :
          pc[t] = "upsert" => Locked(usersLock, t, "persist")

\* What the local variables of a handler hold at each await.
JobInv ==
    /\ pc["price"] = "setPrice" => job["price"].price \in Prices
    /\ pc["price"] \in {"lockUsers", "rpc", "await", "write"} =>
          job["price"].reserve \in DOMAIN reserves
    /\ pc["price"] \in {"await", "write"} =>
          job["price"].user \in Users /\ job["price"].hf \in HealthMarks
    /\ pc["user"] \in {"rpc", "read", "await", "add", "write"} =>
          job["user"].user \in Users
    /\ pc["user"] = "read" => job["user"].hf \in Plausible
    /\ pc["user"] \in {"await", "add", "write"} =>
          job["user"].hf \in HealthMarks

\* The two books: a member without an entry is being written.
MemberInv ==
    \A r \in DOMAIN reserves : \A u \in reserves[r].users :
        u \in DOMAIN users \/ (pc["user"] = "write" /\ u = job["user"].user)

\* A persister only goes through users that have an entry, and has written
\* nothing before it begins.
TodoInv ==
    \A t \in Persisters :
        /\ todo[t] \subseteq DOMAIN users
        /\ pc[t] # "upsert" => saved[t] = {}

IInv ==
    /\ TypeOK
    /\ HoldInv
    /\ JobInv
    /\ MemberInv
    /\ TodoInv
    /\ ConsistentSnapshot

-----------------------------------------------------------------------------
\* Typing.

\* The books the Fanatic loads are well typed.
LEMMA InitType == Init => TypeOK
<1> SUFFICES ASSUME Init PROVE TypeOK
  OBVIOUS
<1> USE DEF Init, FanaticInit, ExecutorInit
<1> PICK positions \in [Reserves -> SUBSET DOMAIN rows], price \in [Reserves -> Prices] :
       LET held == {r \in Reserves : positions[r] # {}}
       IN  /\ users = [u \in UNION {positions[r] : r \in held} |-> rows[u]]
           /\ reserves = [r \in held |-> [users |-> positions[r], price |-> price[r]]]
  OBVIOUS
<1>1. DOMAIN rows \subseteq Users /\ \A u \in DOMAIN rows : rows[u] \in HealthMarks
  BY MapsElim
<1>2. users \in Maps(Users, HealthMarks)
 <2> DEFINE D == UNION {positions[r] : r \in {r \in Reserves : positions[r] # {}}}
 <2>1. D \subseteq DOMAIN rows
   OBVIOUS
 <2>2. users \in [D -> HealthMarks]
   BY <1>1, <2>1
 <2> HIDE DEF D
 <2> QED
   BY <1>1, <2>1, <2>2, MapsIntro
<1>3. reserves \in Maps(Reserves, ReserveData)
 <2> DEFINE D == {r \in Reserves : positions[r] # {}}
 <2>1. reserves \in [D -> ReserveData]
   BY <1>1 DEF ReserveData
 <2>2. D \in SUBSET Reserves
   OBVIOUS
 <2> HIDE DEF D
 <2> QED
   BY <2>1, <2>2, MapsIntro
<1>4. usersLock \in Seq(UsersGuards) /\ reservesLock \in Seq(ReservesGuards)
  BY EmptySeq
<1> QED
  BY <1>2, <1>3, <1>4
     DEF TypeOK, PCs, Jobs, NoJob, Requests, NoRequest, RequestPCs, Notes,
         NoNote, Outcomes

\* A request for a user of the books is well typed.
LEMMA SendRequestType ==
    ASSUME TypeOK, NEW l \in Listeners, NEW u \in Users, SendRequest(l, u)
    PROVE  request' \in [Listeners -> Requests] /\ note' \in [Listeners -> Notes]
<1>1. [pc |-> "rpc", user |-> u] \in Requests
  BY DEF Requests, RequestPCs
<1>2. NoNote \in Notes
  BY DEF NoNote, Notes, Outcomes
<1> QED
  BY <1>1, <1>2 DEF SendRequest, TypeOK

\* A handler that ends forgets its message.
LEMMA EndType ==
    ASSUME TypeOK, NEW l \in Listeners, NEW from,
           Return(l, from) \/ Panic(l, from)
    PROVE  job' \in [Listeners -> Jobs] /\ pc' \in [Tasks -> PCs]
<1>1. NoJob \in Jobs
  BY DEF NoJob, Jobs
<1>2. job' = [job EXCEPT ![l] = NoJob]
  BY DEF Return, Panic
<1>3. job' \in [Listeners -> Jobs]
  BY <1>1, <1>2 DEF TypeOK
<1>4. pc' = [pc EXCEPT ![l] = "idle"] \/ pc' = [pc EXCEPT ![l] = "failed"]
  BY DEF Return, Panic, Goto
<1> QED
  BY <1>3, <1>4 DEF TypeOK, PCs, Tasks

\* A job takes over the user and the health factor at hand.
LEMMA JobTakesUser ==
    ASSUME job \in [Listeners -> Jobs], NEW l \in Listeners,
           NEW u \in Users, NEW h \in HealthFactors
    PROVE  [job EXCEPT ![l] = [@ EXCEPT !.user = u, !.hf = h]]
              \in [Listeners -> Jobs]
<1>1. job[l] \in Jobs
  OBVIOUS
<1>2. [job[l] EXCEPT !.user = u, !.hf = h] \in Jobs
  BY <1>1 DEF Jobs
<1> QED
  BY <1>2

\* A job takes over the health factor at hand.
LEMMA JobTakesHealth ==
    ASSUME job \in [Listeners -> Jobs], NEW l \in Listeners,
           NEW h \in HealthFactors
    PROVE  [job EXCEPT ![l].hf = h] \in [Listeners -> Jobs]
<1>1. job[l] \in Jobs
  OBVIOUS
<1>2. [job[l] EXCEPT !.hf = h] \in Jobs
  BY <1>1 DEF Jobs
<1> QED
  BY <1>2

\* What the price handler does to the types.
LEMMA TypePrice == IInv /\ PriceStep => TypeOK'
<1> SUFFICES ASSUME IInv, PriceStep PROVE TypeOK'
  OBVIOUS
<1> USE DEF IInv, TypeOK, UsersGuards, ReservesGuards, Tasks, Listeners, PCs
<1>1. CASE SetReservePrice
 <2>1. reservesLock' \in Seq(ReservesGuards)
   BY <1>1, LockType, UnlockType DEF SetReservePrice
 <2>2. \A r \in DOMAIN reserves : reserves[r] \in ReserveData
   BY MapsElim
 <2>3. job["price"].price \in Prices
   BY <1>1 DEF SetReservePrice, Goto, JobInv
 <2>4. reserves' \in [DOMAIN reserves -> ReserveData]
   BY <1>1, <2>2, <2>3 DEF SetReservePrice, ReserveData
 <2>5. reserves' \in Maps(Reserves, ReserveData)
   BY <2>4, MapsElim, MapsIntro
 <2> QED
   BY <1>1, <2>1, <2>5 DEF SetReservePrice, Goto, tables, messages
<1>2. CASE SkipUnknownReserve
 <2>1. reservesLock' \in Seq(ReservesGuards)
   BY <1>2, UnlockType DEF SkipUnknownReserve
 <2> QED
   BY <1>2, <2>1, EndType DEF SkipUnknownReserve, books, tables, messages
<1>3. CASE LockUsersForScan
 <2>1. usersLock' \in Seq(UsersGuards)
   BY <1>3, LockType DEF LockUsersForScan
 <2> QED
   BY <1>3, <2>1 DEF LockUsersForScan, Goto, books, tables, messages
<1>4. CASE CollectHighPrio
 <2>1. DOMAIN users \subseteq Users
   BY MapsElim
 <2> QED
   BY <1>4, <2>1 DEF CollectHighPrio, Goto, books, locks, tables, messages
<1>5. CASE ScanUser
 <2> PICK u \in Users, h \in Plausible :
        RequestFromScan(u, h) \/ RecordFromScan(u, h) \/ PassOverInScan(u, h)
   BY <1>5 DEF ScanUser
 <2>1. CASE RequestFromScan(u, h)
  <3>1. request' \in [Listeners -> Requests] /\ note' \in [Listeners -> Notes]
    BY <2>1, SendRequestType DEF RequestFromScan
  <3>2. job' \in [Listeners -> Jobs]
    BY <2>1, JobTakesUser DEF RequestFromScan, Plausible
  <3>3. pc' \in [Tasks -> PCs] /\ todo' \in [Tasks -> SUBSET Users]
    BY <2>1 DEF RequestFromScan, Goto
  <3> QED
    BY <2>1, <3>1, <3>2, <3>3 DEF RequestFromScan, books, locks, tables
 <2>2. CASE RecordFromScan(u, h)
  <3>1. usersLock' \in Seq(UsersGuards)
    BY <2>2, LockType DEF RecordFromScan
  <3>2. job' \in [Listeners -> Jobs]
    BY <2>2, JobTakesUser DEF RecordFromScan, Plausible
  <3> QED
    BY <2>2, <3>1, <3>2 DEF RecordFromScan, Goto, books, tables, messages
 <2>3. CASE PassOverInScan(u, h)
   BY <2>3 DEF PassOverInScan, books, locks, tables, messages
 <2> QED
   BY <2>1, <2>2, <2>3
<1>6. CASE ScanAllUsers
 <2>1. reserves[job["price"].reserve] \in ReserveData
   BY <1>6, MapsElim DEF ScanAllUsers, JobInv
 <2> QED
   BY <1>6, <2>1
      DEF ScanAllUsers, books, locks, tables, messages, Members, ReserveData
<1>7. ASSUME Locked(reservesLock, "price", "scan"),
             Locked(usersLock, "price", "scan"), DropScanGuards
      PROVE  usersLock' \in Seq(UsersGuards) /\ reservesLock' \in Seq(ReservesGuards)
  BY <1>7, UnlockType DEF DropScanGuards
<1>8. pc["price"] = "rpc" /\ DropScanGuards =>
         usersLock' \in Seq(UsersGuards) /\ reservesLock' \in Seq(ReservesGuards)
  BY <1>7 DEF HoldInv
<1>9. CASE AbandonScan
  BY <1>8, <1>9, EndType DEF AbandonScan, Return, Goto, books, tables, messages
<1>10. CASE PanicInScan
  BY <1>8, <1>10, EndType DEF PanicInScan, Panic, Goto, books, tables, messages
<1>11. CASE EndScan
  BY <1>8, <1>11, EndType DEF EndScan, Return, Goto, books, tables, messages
<1>12. CASE ScanRequestAnswered
 <2>1. usersLock' \in Seq(UsersGuards)
   BY <1>12, LockType DEF ScanRequestAnswered
 <2> QED
   BY <1>12, <2>1
      DEF ScanRequestAnswered, Goto, books, tables, Requests, NoRequest,
          RequestPCs
<1>13. CASE FollowerPanics("price")
  BY <1>13 DEF FollowerPanics, Goto, books, locks, tables, messages
<1> QED
  BY <1>1, <1>2, <1>3, <1>4, <1>5, <1>6, <1>9, <1>10, <1>11, <1>12, <1>13
     DEF PriceStep

\* What the user handler does to the types, but for its last step.
LEMMA TypeUser == IInv /\ UserStep => TypeOK'
<1> SUFFICES ASSUME IInv, UserStep PROVE TypeOK'
  OBVIOUS
<1> USE DEF IInv, TypeOK, UsersGuards, ReservesGuards, Tasks, Listeners, PCs
<1>1. CASE IgnoreUser
  BY <1>1, EndType DEF IgnoreUser, books, locks, tables, messages
<1>2. CASE PanicOnUser
  BY <1>2, EndType DEF PanicOnUser, books, locks, tables, messages
<1>3. CASE ReadUserHealth
 <2>1. usersLock' \in Seq(UsersGuards)
   BY <1>3, LockType DEF ReadUserHealth
 <2> QED
  <3>1. job' \in [Listeners -> Jobs]
   <4> PICK h \in Plausible : job' = [job EXCEPT !["user"].hf = h]
     BY <1>3 DEF ReadUserHealth
   <4> QED
     BY JobTakesHealth DEF Plausible
  <3>2. pc' \in [Tasks -> PCs]
    BY <1>3 DEF ReadUserHealth, Goto
  <3> QED
    BY <1>3, <2>1, <3>1, <3>2 DEF ReadUserHealth, books, tables, messages
<1>4. CASE RequestForUser
 <2>1. usersLock' \in Seq(UsersGuards)
   BY <1>4, UnlockType DEF RequestForUser
 <2>2. request' \in [Listeners -> Requests] /\ note' \in [Listeners -> Notes]
   BY <1>4, SendRequestType DEF RequestForUser, JobInv, Goto
 <2> QED
   BY <1>4, <2>1, <2>2 DEF RequestForUser, Goto, books, tables
<1>5. CASE KeepUser
 <2>1. usersLock' \in Seq(UsersGuards) /\ reservesLock' \in Seq(ReservesGuards)
   BY <1>5, UnlockType, LockType DEF KeepUser
 <2> QED
   BY <1>5, <2>1 DEF KeepUser, Goto, books, tables, messages
<1>6. CASE DiscardUser
 <2>1. usersLock' \in Seq(UsersGuards)
   BY <1>6, UnlockType DEF DiscardUser
 <2> QED
   BY <1>6, <2>1, EndType DEF DiscardUser, books, tables, messages
<1>7. CASE UserRequestAnswered
 <2>1. reservesLock' \in Seq(ReservesGuards)
   BY <1>7, LockType DEF UserRequestAnswered
 <2> QED
   BY <1>7, <2>1
      DEF UserRequestAnswered, Goto, books, tables, Requests, NoRequest,
          RequestPCs
<1>8. CASE AddMember
 <2>1. usersLock' \in Seq(UsersGuards)
   BY <1>8, LockType DEF AddMember
 <2>2. \A r \in DOMAIN reserves : reserves[r] \in ReserveData
   BY MapsElim
 <2>3. job["user"].user \in Users
   BY <1>8 DEF AddMember, Goto, JobInv
 <2>4. reserves' \in [DOMAIN reserves -> ReserveData]
   BY <1>8, <2>2, <2>3 DEF AddMember, ReserveData
 <2>5. reserves' \in Maps(Reserves, ReserveData)
   BY <2>4, MapsElim, MapsIntro
 <2> QED
   BY <1>8, <2>1, <2>5 DEF AddMember, Goto, tables, messages
<1>9. CASE InsertLiquidationCall
 <2>1. job' \in [Listeners -> Jobs] /\ pc' \in [Tasks -> PCs]
   BY <1>9, EndType DEF InsertLiquidationCall
 <2> QED
   BY <1>9, <2>1 DEF InsertLiquidationCall, books, locks, tables, messages
<1>10. CASE FollowerPanics("user")
  BY <1>10 DEF FollowerPanics, Goto, books, locks, tables, messages
<1> QED
  BY <1>1, <1>2, <1>3, <1>4, <1>5, <1>6, <1>7, <1>8, <1>9, <1>10
     DEF UserStep

\* What an incoming message does to the types.
LEMMA TypeReceive == IInv /\ Receive => TypeOK'
<1> SUFFICES ASSUME IInv, Receive PROVE TypeOK'
  OBVIOUS
<1> USE DEF IInv, TypeOK, UsersGuards, ReservesGuards, Tasks, Listeners, PCs
<1>1. ASSUME NEW r \in Reserves, NEW p \in Prices, UpdateReservePrice(r, p)
      PROVE  TypeOK'
 <2>1. reservesLock' \in Seq(ReservesGuards)
   BY <1>1, LockType DEF UpdateReservePrice
 <2>2. job' \in [Listeners -> Jobs]
   BY <1>1 DEF UpdateReservePrice, Jobs, NoJob
 <2> QED
   BY <1>1, <2>1, <2>2 DEF UpdateReservePrice, Goto, books, tables, messages
<1>2. ASSUME NEW r \in Reserves, NEW u \in Users, UpdateReserveUser(r, u)
      PROVE  TypeOK'
 <2>1. job' \in [Listeners -> Jobs]
   BY <1>2 DEF UpdateReserveUser, Jobs, NoJob
 <2> QED
   BY <1>2, <2>1 DEF UpdateReserveUser, Goto, books, locks, tables, messages
<1>3. CASE DoSmthWithLiquidationCall
  BY <1>3
     DEF DoSmthWithLiquidationCall, Goto, books, locks, tables, messages
<1>4. ASSUME NEW t \in Persisters, BeginPersist(t) PROVE TypeOK'
  BY <1>4 DEF BeginPersist, Goto, books, locks, tables, messages
<1> QED
  BY <1>1, <1>2, <1>3, <1>4 DEF Receive

\* What a run of update_recent_users does to the types.
LEMMA TypePersist ==
    ASSUME IInv, NEW t \in Persisters, PersistStep(t)
    PROVE  TypeOK'
<1> USE DEF IInv, TypeOK, UsersGuards, Tasks, PCs
<1>1. CASE IndicesUnavailable(t)
  BY <1>1
     DEF IndicesUnavailable, PersistEnd, Goto, books, locks, tables, messages
<1>2. CASE LockUsersToPersist(t)
 <2>1. usersLock' \in Seq(UsersGuards)
   BY <1>2, LockType DEF LockUsersToPersist
 <2> QED
   BY <1>2, <2>1 DEF LockUsersToPersist, Goto, books, tables, messages
<1>3. CASE PersistBegin(t)
 <2>1. DOMAIN users \subseteq Users
   BY MapsElim
 <2> QED
   BY <1>3, <2>1 DEF PersistBegin, Goto, books, locks, tables, messages
<1>4. ASSUME NEW u \in Users, UpsertUserData(t, u) PROVE TypeOK'
 <2>1. users[u] \in HealthMarks
   BY <1>4, MapsElim DEF UpsertUserData, TodoInv
 <2>2. rows' \in Maps(Users, HealthMarks)
   BY <1>4, <2>1, InsertType DEF UpsertUserData
 <2> QED
   BY <1>4, <2>2 DEF UpsertUserData, books, locks, messages
<1>5. CASE PersistDone(t)
 <2>1. usersLock' \in Seq(UsersGuards)
   BY <1>5, UnlockType DEF PersistDone, Goto, HoldInv
 <2> QED
   BY <1>5, <2>1 DEF PersistDone, PersistEnd, Goto, books, messages
<1> QED
  BY <1>1, <1>2, <1>3, <1>4, <1>5 DEF PersistStep

\* What a notification does to the types.
LEMMA TypeNotification ==
    ASSUME IInv, NEW l \in Listeners, NotificationStep(l)
    PROVE  TypeOK'
<1> USE DEF IInv, TypeOK, UsersGuards, Tasks
<1>1. CASE ReceiveNotification(l)
 <2>1. usersLock' \in Seq(UsersGuards)
   BY <1>1, LockType DEF ReceiveNotification
 <2>2. note' \in [Listeners -> Notes]
   BY <1>1 DEF ReceiveNotification, Notes
 <2> QED
   BY <1>1, <2>1, <2>2 DEF ReceiveNotification, books, control, tables
<1>2. CASE MarkUser(l)
 <2>1. usersLock' \in Seq(UsersGuards)
   BY <1>2, UnlockType DEF MarkUser, SetHealth
 <2>2. note' \in [Listeners -> Notes]
   BY <1>2 DEF MarkUser, SetHealth, Notes
 <2>3. users' \in [DOMAIN users -> HealthMarks]
   BY <1>2, MapsElim DEF MarkUser, SetHealth, HealthMarks
 <2>4. users' \in Maps(Users, HealthMarks)
   BY <2>3, MapsElim, MapsIntro
 <2> QED
   BY <1>2, <2>1, <2>2, <2>4 DEF MarkUser, SetHealth, control, tables
<1> QED
  BY <1>1, <1>2 DEF NotificationStep

\* What the Executor does to the types.
LEMMA TypeExecutor ==
    ASSUME IInv, NEW l \in Listeners, ExecutorRuns(l)
    PROVE  TypeOK'
<1>1. ASSUME NEW from, NEW to \in RequestPCs, RequestAt(l, from, to)
      PROVE  request' \in [Listeners -> Requests]
  BY <1>1 DEF RequestAt, Requests, IInv, TypeOK
<1>2. /\ request' \in [Listeners -> Requests]
      /\ note' \in [Listeners -> Notes]
 <2> USE DEF RequestPCs, IInv, TypeOK
 <2>1. CASE RequestUserHealth(l)
   BY <1>1, <2>1 DEF RequestUserHealth
 <2>2. CASE RequestPanics(l)
   BY <1>1, <2>2 DEF RequestPanics
 <2>3. CASE RequestRead(l)
   BY <1>1, <2>3 DEF RequestRead, NextRead
 <2>4. CASE RequestGivesUp(l)
   BY <1>1, <2>4 DEF RequestGivesUp
 <2>5. CASE CallLiquidatoor(l)
   BY <1>1, <2>5 DEF CallLiquidatoor, Notes, Outcomes
 <2>6. CASE RequestNotified(l)
   BY <1>1, <2>6 DEF RequestNotified
 <2> QED
   BY <2>1, <2>2, <2>3, <2>4, <2>5, <2>6 DEF ExecutorRuns, ExecutorStep
<1> QED
  BY <1>2
     DEF ExecutorRuns, FanaticVars, books, locks, control, tables, IInv, TypeOK

\* The price handler never gets the users lock it asks for in a loop: its own
\* guard is alive.
LEMMA OnlyUserRecords == IInv => ~RecordHealth("price")
  BY OneGuard DEF RecordHealth, Goto, HoldInv, IInv

\* What the end of the user handler does to the types.
LEMMA TypeRecord ==
    ASSUME IInv, NEW l \in Listeners, RecordHealth(l)
    PROVE  TypeOK'
<1>0. /\ TypeOK
      /\ job["user"].user \in Users /\ job["user"].hf \in HealthMarks
  BY OnlyUserRecords DEF IInv, JobInv, RecordHealth, Return,
     Goto, Listeners
<1> USE DEF TypeOK, UsersGuards, ReservesGuards, Tasks, Listeners, PCs
<1>1. RecordHealth("user")
  BY OnlyUserRecords
<1>2. usersLock' \in Seq(UsersGuards) /\ reservesLock' \in Seq(ReservesGuards)
  BY <1>0, <1>1, UnlockType
     DEF RecordHealth, Return, Goto, HoldInv, IInv
<1>3. users' \in Maps(Users, HealthMarks)
 <2>1. users' = Insert(users, job["user"].user, job["user"].hf)
   BY <1>1 DEF RecordHealth
 <2>2. users \in Maps(Users, HealthMarks)
   BY <1>0
 <2> QED
   BY <1>0, <2>1, <2>2, InsertType
<1>4. job' \in [Listeners -> Jobs] /\ pc' \in [Tasks -> PCs]
  BY <1>0, <1>1, EndType DEF RecordHealth
<1>5. note' \in [Listeners -> Notes]
 <2>1. NoNote \in Notes
   BY DEF Notes, NoNote, Outcomes
 <2>2. note' = [note EXCEPT !["user"] = NoNote]
   BY <1>1 DEF RecordHealth
 <2> QED
   BY <1>0, <2>1, <2>2
<1> QED
  BY <1>0, <1>1, <1>2, <1>3, <1>4, <1>5 DEF RecordHealth, tables

\* Every step keeps the types.
LEMMA TypeNext == IInv /\ [Next]_vars => TypeOK'
<1> SUFFICES ASSUME IInv, [Next]_vars PROVE TypeOK'
  OBVIOUS
<1>1. CASE UNCHANGED vars
  BY <1>1 DEF vars, books, locks, control, messages, tables, IInv, TypeOK
<1> QED
  BY <1>1, TypePrice, TypeUser, TypeReceive, TypePersist, TypeNotification,
     TypeExecutor, TypeRecord DEF Next

-----------------------------------------------------------------------------
\* Guards that are alive stay alive.

\* The users lock stays with its holder when another guard is asked for.
LEMMA UsersHeadKept ==
    ASSUME TypeOK, NEW t, NEW s, Locked(usersLock, t, s), NEW t2 \in Tasks,
           NEW s2 \in {"scan", "write", "read", "mark", "persist"}
    PROVE  Locked(Lock(usersLock, t2, s2), t, s)
<1>1. [by |-> t2, site |-> s2] \in UsersGuards
  BY DEF UsersGuards
<1>2. usersLock \in Seq(UsersGuards)
  BY DEF TypeOK
<1> QED
  BY <1>1, <1>2, LockKeepsHead

\* The same for the reserves lock.
LEMMA ReservesHeadKept ==
    ASSUME TypeOK, NEW t, NEW s, Locked(reservesLock, t, s), NEW t2 \in Tasks,
           NEW s2 \in {"setPrice", "scan", "add"}
    PROVE  Locked(Lock(reservesLock, t2, s2), t, s)
<1>1. [by |-> t2, site |-> s2] \in ReservesGuards
  BY DEF ReservesGuards
<1>2. reservesLock \in Seq(ReservesGuards)
  BY DEF TypeOK
<1> QED
  BY <1>1, <1>2, LockKeepsHead

\* The price handler holds the guards its pc says.
LEMMA HoldPrice == IInv /\ PriceStep => HoldInv'
<1> SUFFICES ASSUME IInv, PriceStep PROVE HoldInv'
  OBVIOUS
<1> USE DEF IInv, HoldInv, Tasks, Listeners, Persisters
<1>0. TypeOK /\ pc \in [Tasks -> PCs] /\ \A t \in Persisters : t # "price" /\ t # "user"
  BY TicksAreNotHandlers DEF TypeOK
<1>1. CASE SetReservePrice
  BY <1>0, <1>1, OneGuard DEF SetReservePrice, Goto
<1>2. CASE SkipUnknownReserve
  BY <1>0, <1>2, OneGuard DEF SkipUnknownReserve, Return, Goto
<1>3. CASE LockUsersForScan
  BY <1>0, <1>3, UsersHeadKept DEF LockUsersForScan, Goto
<1>4. CASE CollectHighPrio
  BY <1>0, <1>4 DEF CollectHighPrio, Goto, locks
<1>5. CASE ScanUser
 <2> PICK u \in Users, h \in Plausible :
        RequestFromScan(u, h) \/ RecordFromScan(u, h) \/ PassOverInScan(u, h)
   BY <1>5 DEF ScanUser
 <2>1. CASE RequestFromScan(u, h)
   BY <1>0, <2>1 DEF RequestFromScan, Goto, locks
 <2>2. CASE RecordFromScan(u, h)
   BY <1>0, <2>2, UsersHeadKept DEF RecordFromScan, Goto
 <2>3. CASE PassOverInScan(u, h)
   BY <1>0, <2>3 DEF PassOverInScan, locks
 <2> QED
   BY <2>1, <2>2, <2>3
<1>6. CASE ScanAllUsers
  BY <1>0, <1>6 DEF ScanAllUsers, locks
<1>7. ASSUME pc["price"] = "rpc"
      PROVE  pc["user"] # "write" /\ \A t \in Persisters : pc[t] # "upsert"
  BY <1>0, <1>7, OneGuard
<1>8. CASE AbandonScan \/ PanicInScan \/ EndScan
  BY <1>0, <1>7, <1>8 DEF AbandonScan, PanicInScan, EndScan, Return, Panic, Goto
<1>9. CASE ScanRequestAnswered
  BY <1>0, <1>9, UsersHeadKept DEF ScanRequestAnswered, Goto
<1>10. CASE FollowerPanics("price")
  BY <1>0, <1>10 DEF FollowerPanics, Goto, locks
<1> QED
  BY <1>1, <1>2, <1>3, <1>4, <1>5, <1>6, <1>8, <1>9, <1>10 DEF PriceStep

\* The user handler holds the guards its pc says.
LEMMA HoldUser == IInv /\ UserStep => HoldInv'
<1> SUFFICES ASSUME IInv, UserStep PROVE HoldInv'
  OBVIOUS
<1> USE DEF IInv, HoldInv, Tasks, Listeners, Persisters
<1>0. TypeOK /\ pc \in [Tasks -> PCs] /\ \A t \in Persisters : t # "price" /\ t # "user"
  BY TicksAreNotHandlers DEF TypeOK
<1>1. CASE IgnoreUser \/ PanicOnUser \/ InsertLiquidationCall \/ FollowerPanics("user")
  BY <1>0, <1>1
     DEF IgnoreUser, PanicOnUser, InsertLiquidationCall, FollowerPanics,
         Return, Panic, Goto, locks
<1>2. CASE ReadUserHealth
  BY <1>0, <1>2, UsersHeadKept DEF ReadUserHealth, Goto
<1>3. CASE RequestForUser
  BY <1>0, <1>3, OneGuard DEF RequestForUser, Goto
<1>4. CASE KeepUser
  BY <1>0, <1>4, OneGuard, ReservesHeadKept DEF KeepUser, Goto
<1>5. CASE DiscardUser
  BY <1>0, <1>5, OneGuard DEF DiscardUser, Return, Goto
<1>6. CASE UserRequestAnswered
  BY <1>0, <1>6, ReservesHeadKept DEF UserRequestAnswered, Goto
<1>7. CASE AddMember
  BY <1>0, <1>7, UsersHeadKept DEF AddMember, Goto
<1> QED
  BY <1>1, <1>2, <1>3, <1>4, <1>5, <1>6, <1>7 DEF UserStep

\* The user handler writes the health factor and drops both guards.
LEMMA HoldRecord ==
    ASSUME IInv, NEW l \in Listeners, RecordHealth(l)
    PROVE  HoldInv'
<1> USE DEF IInv, HoldInv, Tasks, Listeners, Persisters
<1>0. TypeOK /\ pc \in [Tasks -> PCs] /\ \A t \in Persisters : t # "price" /\ t # "user"
  BY TicksAreNotHandlers DEF TypeOK
<1>1. RecordHealth("user")
  BY OnlyUserRecords
<1> QED
  BY <1>0, <1>1, OneGuard DEF RecordHealth, Return, Goto

\* A message that comes in takes no guard from anyone.
LEMMA HoldReceive == IInv /\ Receive => HoldInv'
<1> SUFFICES ASSUME IInv, Receive PROVE HoldInv'
  OBVIOUS
<1> USE DEF IInv, HoldInv, Tasks, Listeners, Persisters
<1>0. TypeOK /\ pc \in [Tasks -> PCs] /\ \A t \in Persisters : t # "price" /\ t # "user"
  BY TicksAreNotHandlers DEF TypeOK
<1>1. ASSUME NEW r \in Reserves, NEW p \in Prices, UpdateReservePrice(r, p)
      PROVE  HoldInv'
  BY <1>0, <1>1, ReservesHeadKept DEF UpdateReservePrice, Goto
<1>2. ASSUME NEW r \in Reserves, NEW u \in Users, UpdateReserveUser(r, u)
      PROVE  HoldInv'
  BY <1>0, <1>2 DEF UpdateReserveUser, Goto, locks
<1>3. CASE DoSmthWithLiquidationCall
  BY <1>0, <1>3 DEF DoSmthWithLiquidationCall, Goto, locks
<1>4. ASSUME NEW t \in Persisters, BeginPersist(t) PROVE HoldInv'
  BY <1>0, <1>4 DEF BeginPersist, Goto, locks
<1> QED
  BY <1>1, <1>2, <1>3, <1>4 DEF Receive

\* update_recent_users holds the users guard while it upserts.
LEMMA HoldPersist ==
    ASSUME IInv, NEW t \in Persisters, PersistStep(t)
    PROVE  HoldInv'
<1> USE DEF IInv, HoldInv, Tasks, Listeners
<1>0. /\ TypeOK /\ pc \in [Tasks -> PCs]
      /\ "price" # t /\ "user" # t
  BY TicksAreNotHandlers DEF TypeOK, Persisters
<1>1. CASE IndicesUnavailable(t)
  BY <1>0, <1>1 DEF IndicesUnavailable, PersistEnd, Goto, locks
<1>2. CASE LockUsersToPersist(t)
  BY <1>0, <1>2, UsersHeadKept DEF LockUsersToPersist, Goto
<1>3. CASE PersistBegin(t)
  BY <1>0, <1>3 DEF PersistBegin, Goto, locks
<1>4. ASSUME NEW u \in Users, UpsertUserData(t, u) PROVE HoldInv'
  BY <1>0, <1>4 DEF UpsertUserData, locks
<1>5. CASE PersistDone(t)
 <2>1. Locked(usersLock, t, "persist")
   BY <1>5 DEF PersistDone, Goto
 <2>2. pc["price"] \notin {"rpc", "await", "write"}
   BY <1>0, <2>1, OneGuard
 <2>3. \A x \in Persisters : pc[x] = "upsert" => x = t
   BY <2>1, OneGuard
 <2> QED
   BY <1>0, <1>5, <2>2, <2>3 DEF PersistDone, PersistEnd, Goto
<1> QED
  BY <1>1, <1>2, <1>3, <1>4, <1>5 DEF PersistStep

\* A notification takes the guard it asked for, and drops it.
LEMMA HoldNotification ==
    ASSUME IInv, NEW l \in Listeners, NotificationStep(l)
    PROVE  HoldInv'
<1> USE DEF IInv, HoldInv, Tasks
<1>1. CASE ReceiveNotification(l)
  BY <1>1, UsersHeadKept DEF ReceiveNotification, control
<1>2. CASE MarkUser(l)
  BY <1>2, OneGuard DEF MarkUser, SetHealth, control
<1> QED
  BY <1>1, <1>2 DEF NotificationStep

\* Every step keeps the guards.
LEMMA HoldNext == IInv /\ [Next]_vars => HoldInv'
<1> SUFFICES ASSUME IInv, [Next]_vars PROVE HoldInv'
  OBVIOUS
<1>1. CASE UNCHANGED vars
  BY <1>1 DEF vars, locks, control, IInv, HoldInv
<1>2. ASSUME NEW l \in Listeners, ExecutorRuns(l) PROVE HoldInv'
  BY <1>2 DEF ExecutorRuns, FanaticVars, locks, control, IInv, HoldInv
<1> QED
  BY <1>1, <1>2, HoldPrice, HoldUser, HoldRecord, HoldReceive, HoldPersist,
     HoldNotification DEF Next

-----------------------------------------------------------------------------
\* Local variables.

\* A health factor below 100.0 may be recorded.
LEMMA MarksArePlausible ==
    ASSUME NEW h \in Plausible
    PROVE  /\ Recordable(h) => h \in HealthMarks
           /\ Undercollateralized(h) => h \in HealthMarks
  BY HealthFactorsAreNat DEF Plausible, HealthMarks, Recordable, Undercollateralized

\* The price handler's locals belong to its message.
LEMMA JobPrice == IInv /\ PriceStep => JobInv'
<1> SUFFICES ASSUME IInv, PriceStep PROVE JobInv'
  OBVIOUS
<1> USE DEF IInv, JobInv, Tasks, Listeners
<1>0. pc \in [Tasks -> PCs] /\ job \in [Listeners -> Jobs]
  BY DEF TypeOK
<1>1. CASE SetReservePrice
  BY <1>0, <1>1 DEF SetReservePrice, Goto
<1>2. CASE LockUsersForScan
  BY <1>0, <1>2 DEF LockUsersForScan, Goto, books
<1>3. CASE CollectHighPrio
  BY <1>0, <1>3 DEF CollectHighPrio, Goto, books
<1>4. CASE ScanUser
 <2> PICK u \in Users, h \in Plausible :
        RequestFromScan(u, h) \/ RecordFromScan(u, h) \/ PassOverInScan(u, h)
   BY <1>4 DEF ScanUser
 <2>1. ASSUME Goto("price", "rpc", "await") \/ Goto("price", "rpc", "write"),
              job' = [job EXCEPT !["price"] = [@ EXCEPT !.user = u, !.hf = h]],
              h \in HealthMarks, UNCHANGED reserves
       PROVE  JobInv'
  <3>1. /\ job'["price"].user = u /\ job'["price"].hf = h
        /\ job'["price"].reserve = job["price"].reserve
        /\ job'["user"] = job["user"]
    BY <1>0, <2>1 DEF Jobs
  <3> QED
    BY <1>0, <2>1, <3>1 DEF Goto
 <2>2. CASE RequestFromScan(u, h)
   BY <2>1, <2>2, MarksArePlausible DEF RequestFromScan, books
 <2>3. CASE RecordFromScan(u, h)
   BY <2>1, <2>3, MarksArePlausible DEF RecordFromScan, books
 <2>4. CASE PassOverInScan(u, h)
   BY <2>4 DEF PassOverInScan, books
 <2> QED
   BY <2>2, <2>3, <2>4
<1>5. CASE ScanAllUsers
  BY <1>5 DEF ScanAllUsers, books
<1>6. CASE SkipUnknownReserve \/ AbandonScan \/ PanicInScan \/ EndScan
  BY <1>0, <1>6
     DEF SkipUnknownReserve, AbandonScan, PanicInScan, EndScan, Return, Panic,
         Goto, books
<1>7. CASE ScanRequestAnswered
  BY <1>0, <1>7 DEF ScanRequestAnswered, Goto, books
<1>8. CASE FollowerPanics("price")
  BY <1>0, <1>8 DEF FollowerPanics, Goto, books
<1> QED
  BY <1>1, <1>2, <1>3, <1>4, <1>5, <1>6, <1>7, <1>8 DEF PriceStep

\* The user handler's locals belong to its message.
LEMMA JobUser == IInv /\ UserStep => JobInv'
<1> SUFFICES ASSUME IInv, UserStep PROVE JobInv'
  OBVIOUS
<1> USE DEF IInv, JobInv, Tasks, Listeners
<1>0. pc \in [Tasks -> PCs] /\ job \in [Listeners -> Jobs]
  BY DEF TypeOK
<1>1. CASE \/ IgnoreUser \/ PanicOnUser \/ DiscardUser
           \/ InsertLiquidationCall \/ FollowerPanics("user")
  BY <1>0, <1>1
     DEF IgnoreUser, PanicOnUser, DiscardUser, InsertLiquidationCall,
         FollowerPanics, Return, Panic, Goto, books
<1>2. CASE ReadUserHealth
 <2> PICK h \in Plausible : job' = [job EXCEPT !["user"].hf = h]
   BY <1>2 DEF ReadUserHealth
 <2>1. /\ job'["user"].hf = h /\ job'["user"].user = job["user"].user
       /\ job'["price"] = job["price"]
   BY <1>0 DEF Jobs
 <2> QED
   BY <1>0, <1>2, <2>1 DEF ReadUserHealth, Goto, books
<1>3. CASE RequestForUser
  BY <1>0, <1>3, MarksArePlausible DEF RequestForUser, Goto, books
<1>4. CASE KeepUser
  BY <1>0, <1>4, MarksArePlausible DEF KeepUser, Goto, books
<1>5. CASE UserRequestAnswered
  BY <1>0, <1>5 DEF UserRequestAnswered, Goto, books
<1>6. CASE AddMember
  BY <1>0, <1>6 DEF AddMember, Goto
<1> QED
  BY <1>1, <1>2, <1>3, <1>4, <1>5, <1>6 DEF UserStep

\* The user handler ends: nothing is said of an idle one.
LEMMA JobRecord ==
    ASSUME IInv, NEW l \in Listeners, RecordHealth(l)
    PROVE  JobInv'
<1> USE DEF IInv, JobInv, Tasks, Listeners
<1>0. pc \in [Tasks -> PCs] /\ job \in [Listeners -> Jobs]
  BY DEF TypeOK
<1>1. RecordHealth("user")
  BY OnlyUserRecords
<1> QED
  BY <1>0, <1>1 DEF RecordHealth, Return, Goto

\* A new message fills the locals of its own listener.
LEMMA JobReceive == IInv /\ Receive => JobInv'
<1> SUFFICES ASSUME IInv, Receive PROVE JobInv'
  OBVIOUS
<1> USE DEF IInv, JobInv, Tasks, Listeners
<1>0. /\ pc \in [Tasks -> PCs] /\ job \in [Listeners -> Jobs]
      /\ \A t \in Persisters : t # "price" /\ t # "user"
  BY TicksAreNotHandlers DEF TypeOK, Persisters
<1>1. ASSUME NEW r \in Reserves, NEW p \in Prices, UpdateReservePrice(r, p)
      PROVE  JobInv'
  BY <1>0, <1>1 DEF UpdateReservePrice, Goto, NoJob, books
<1>2. ASSUME NEW r \in Reserves, NEW u \in Users, UpdateReserveUser(r, u)
      PROVE  JobInv'
  BY <1>0, <1>2 DEF UpdateReserveUser, Goto, NoJob, books
<1>3. CASE DoSmthWithLiquidationCall
  BY <1>0, <1>3 DEF DoSmthWithLiquidationCall, Goto, books
<1>4. ASSUME NEW t \in Persisters, BeginPersist(t) PROVE JobInv'
  BY <1>0, <1>4 DEF BeginPersist, Goto, books
<1> QED
  BY <1>1, <1>2, <1>3, <1>4 DEF Receive

\* A persister and a notification leave the listeners' variables alone.
LEMMA PersistFrame ==
    ASSUME TypeOK, NEW t \in Persisters, PersistStep(t)
    PROVE  /\ UNCHANGED <<users, reserves, job>>
           /\ pc'["price"] = pc["price"] /\ pc'["user"] = pc["user"]
           /\ \A x \in Persisters : x # t => pc'[x] = pc[x] /\ saved'[x] = saved[x]
<1>1. pc \in [Tasks -> PCs] /\ saved \in [Persisters -> SUBSET Users]
  BY DEF TypeOK
<1>2. /\ {"price", "user"} \subseteq Tasks \ {t} /\ Persisters \subseteq Tasks
  BY TicksAreNotHandlers DEF Tasks, Listeners, Persisters
<1> QED
  BY <1>1, <1>2
     DEF PersistStep, IndicesUnavailable, LockUsersToPersist, PersistBegin,
         UpsertUserData, PersistDone, Goto, books, tables

\* What a notification leaves alone.
LEMMA NotificationFrame ==
    ASSUME TypeOK, NEW l \in Listeners, NotificationStep(l)
    PROVE  /\ UNCHANGED <<reserves, job, pc, todo, rows, saved>>
           /\ DOMAIN users' = DOMAIN users
           /\ users' = users \/ Locked(usersLock, l, "mark")
  BY DEF NotificationStep, ReceiveNotification, MarkUser, SetHealth, books,
         control, tables

\* Every step keeps the locals.
LEMMA JobNext == IInv /\ [Next]_vars => JobInv'
<1> SUFFICES ASSUME IInv, [Next]_vars PROVE JobInv'
  OBVIOUS
<1> USE DEF IInv, JobInv
<1>1. CASE UNCHANGED vars
  BY <1>1 DEF vars, books, control
<1>2. ASSUME NEW l \in Listeners, ExecutorRuns(l) PROVE JobInv'
  BY <1>2 DEF ExecutorRuns, FanaticVars, books, control
<1>3. ASSUME NEW l \in Listeners, RecordHealth(l) PROVE JobInv'
  BY <1>3, JobRecord
<1>4. ASSUME NEW t \in Persisters, PersistStep(t) PROVE JobInv'
  BY <1>4, PersistFrame
<1>5. ASSUME NEW l \in Listeners, NotificationStep(l) PROVE JobInv'
  BY <1>5, NotificationFrame
<1> QED
  BY <1>1, <1>2, <1>3, <1>4, <1>5, JobPrice, JobUser, JobReceive DEF Next

-----------------------------------------------------------------------------
\* The books.

\* What the steps of the price handler leave alone.
LEMMA PriceFrame ==
    ASSUME IInv, PriceStep
    PROVE  /\ UNCHANGED <<users, rows, saved>>
           /\ \A t \in Tasks \ {"price"} : pc'[t] = pc[t] /\ todo'[t] = todo[t]
           /\ job'["user"] = job["user"]
           /\ DOMAIN reserves' = DOMAIN reserves
           /\ \A r \in DOMAIN reserves : reserves'[r].users = reserves[r].users
<1> USE DEF IInv, books, tables
<1>0. /\ pc \in [Tasks -> PCs] /\ job \in [Listeners -> Jobs]
      /\ todo \in [Tasks -> SUBSET Users]
      /\ "price" \in Listeners /\ "user" \in Listeners
  BY DEF TypeOK, Listeners
<1>1. CASE SetReservePrice
 <2>1. \A r \in DOMAIN reserves : reserves[r] \in ReserveData
   BY MapsElim DEF TypeOK
 <2> QED
   BY <1>0, <1>1, <2>1 DEF SetReservePrice, Goto, ReserveData
<1>2. CASE \/ SkipUnknownReserve \/ LockUsersForScan \/ AbandonScan
           \/ PanicInScan \/ EndScan \/ FollowerPanics("price")
  BY <1>0, <1>2
     DEF SkipUnknownReserve, LockUsersForScan, AbandonScan, PanicInScan,
         EndScan, FollowerPanics, Return, Panic, Goto
<1>3. CASE CollectHighPrio \/ ScanAllUsers \/ ScanRequestAnswered
  BY <1>0, <1>3
     DEF CollectHighPrio, ScanAllUsers, ScanRequestAnswered, Goto
<1>4. CASE ScanUser
  BY <1>0, <1>4
     DEF ScanUser, RequestFromScan, RecordFromScan, PassOverInScan, Goto
<1> QED
  BY <1>1, <1>2, <1>3, <1>4 DEF PriceStep

\* What the steps of the user handler leave alone, but for the one that writes.
LEMMA UserFrame ==
    ASSUME TypeOK, UserStep, ~AddMember
    PROVE  /\ UNCHANGED <<books, tables, todo>>
           /\ \A t \in Tasks \ {"user"} : pc'[t] = pc[t]
           /\ pc["user"] # "write"
<1>1. pc \in [Tasks -> PCs]
  BY DEF TypeOK
<1> QED
  BY <1>1
     DEF UserStep, IgnoreUser, PanicOnUser, ReadUserHealth, RequestForUser,
         KeepUser, DiscardUser, UserRequestAnswered, InsertLiquidationCall,
         FollowerPanics, Return, Panic, Goto

\* What an incoming message leaves alone.
LEMMA ReceiveFrame ==
    ASSUME TypeOK, Receive
    PROVE  /\ UNCHANGED <<books, tables, todo>>
           /\ pc["user"] = "write" =>
                 pc'["user"] = "write" /\ job'["user"] = job["user"]
           /\ \A t \in Persisters :
                 pc'[t] = pc[t] \/ (pc[t] = "idle" /\ pc'[t] = "indices")
<1>1. pc \in [Tasks -> PCs] /\ job \in [Listeners -> Jobs]
  BY DEF TypeOK
<1>2. \A t \in Persisters : t # "price" /\ t # "user"
  BY TicksAreNotHandlers DEF Persisters, Listeners
<1> QED
  BY <1>1, <1>2
     DEF Receive, UpdateReservePrice, UpdateReserveUser,
         DoSmthWithLiquidationCall, BeginPersist, Goto, Tasks, Listeners

\* What the user handler's last step writes: one entry of users.
LEMMA RecordUser ==
    ASSUME IInv, RecordHealth("user")
    PROVE  /\ DOMAIN users' = DOMAIN users \cup {job["user"].user}
           /\ UNCHANGED <<reserves, todo, rows, saved>>
           /\ \A t \in Tasks \ {"user"} : pc'[t] = pc[t]
           /\ Locked(usersLock, "user", "write")
<1>1. DOMAIN users' = DOMAIN users \cup {job["user"].user}
  BY DEF RecordHealth, Insert
<1>2. pc \in [Tasks -> PCs]
  BY DEF IInv, TypeOK
<1> QED
  BY <1>1, <1>2 DEF RecordHealth, Return, Goto, tables

\* Every step keeps the members of a reserve known, but for the one a
\* user handler is about to write.
LEMMA MemberNext == IInv /\ [Next]_vars => MemberInv'
<1> SUFFICES ASSUME IInv, [Next]_vars PROVE MemberInv'
  OBVIOUS
<1> USE DEF IInv, MemberInv
<1>0. TypeOK /\ "user" \in Tasks \ {"price"}
  BY DEF Tasks, Listeners
<1>1. CASE UNCHANGED vars
  BY <1>1 DEF vars, books, control
<1>2. CASE Receive
  BY <1>0, <1>2, ReceiveFrame DEF books
<1>3. CASE PriceStep
  BY <1>0, <1>3, PriceFrame
<1>4. CASE RecordHealth("user")
  BY <1>4, RecordUser
<1>5. CASE AddMember
 <2>1. \A r \in DOMAIN reserves : reserves[r] \in ReserveData
   BY <1>0, MapsElim DEF TypeOK
 <2>2. /\ DOMAIN reserves' = DOMAIN reserves
       /\ \A r \in DOMAIN reserves :
             reserves'[r].users \subseteq reserves[r].users \cup {job["user"].user}
   BY <1>5, <2>1 DEF AddMember, ReserveData
 <2>3. pc["user"] = "add" /\ pc'["user"] = "write"
   BY <1>0, <1>5 DEF AddMember, Goto, TypeOK
 <2> QED
   BY <1>5, <2>2, <2>3 DEF AddMember
<1>6. CASE UserStep /\ ~AddMember
  BY <1>0, <1>6, UserFrame DEF books
<1>7. ASSUME NEW t \in Persisters, PersistStep(t) PROVE MemberInv'
  BY <1>0, <1>7, PersistFrame
<1>8. ASSUME NEW l \in Listeners, NotificationStep(l) PROVE MemberInv'
  BY <1>0, <1>8, NotificationFrame
<1>9. ASSUME NEW l \in Listeners, ExecutorRuns(l) PROVE MemberInv'
  BY <1>9 DEF ExecutorRuns, FanaticVars, books, control
<1> QED
  BY <1>1, <1>2, <1>3, <1>4, <1>5, <1>6, <1>7, <1>8, <1>9, OnlyUserRecords
     DEF Next, Listeners

\* What a loop has left are users of the books.
LEMMA TodoNext == IInv /\ [Next]_vars => TodoInv'
<1> SUFFICES ASSUME IInv, [Next]_vars PROVE TodoInv'
  OBVIOUS
<1> USE DEF IInv, TodoInv
<1>0. /\ TypeOK /\ todo \in [Tasks -> SUBSET Users] /\ pc \in [Tasks -> PCs]
      /\ saved \in [Persisters -> SUBSET Users]
      /\ Persisters \subseteq Tasks \ {"price", "user"}
  BY TicksAreNotHandlers DEF Tasks, Listeners, Persisters, TypeOK
<1>1. CASE UNCHANGED vars
  BY <1>1 DEF vars, books, control, tables
<1>2. CASE Receive
  BY <1>0, <1>2, ReceiveFrame DEF books, tables
<1>3. CASE PriceStep
  BY <1>0, <1>3, PriceFrame
<1>4. CASE RecordHealth("user")
  BY <1>0, <1>4, RecordUser
<1>5. CASE AddMember
  BY <1>0, <1>5 DEF AddMember, Goto, tables
<1>6. CASE UserStep /\ ~AddMember
  BY <1>0, <1>6, UserFrame DEF books, tables
<1>7. ASSUME NEW t \in Persisters, PersistStep(t) PROVE TodoInv'
 <2>1. CASE PersistBegin(t)
   BY <1>0, <2>1 DEF PersistBegin, Goto, books, tables
 <2>2. CASE \E u \in Users : UpsertUserData(t, u)
   BY <1>0, <2>2 DEF UpsertUserData, books
 <2>3. CASE PersistDone(t)
   BY <1>0, <2>3 DEF PersistDone, Goto, books
 <2>4. CASE IndicesUnavailable(t) \/ LockUsersToPersist(t)
   BY <1>0, <2>4
      DEF IndicesUnavailable, LockUsersToPersist, PersistEnd, Goto, books, tables
 <2> QED
   BY <1>7, <2>1, <2>2, <2>3, <2>4 DEF PersistStep
<1>8. ASSUME NEW l \in Listeners, NotificationStep(l) PROVE TodoInv'
  BY <1>0, <1>8, NotificationFrame
<1>9. ASSUME NEW l \in Listeners, ExecutorRuns(l) PROVE TodoInv'
  BY <1>9 DEF ExecutorRuns, FanaticVars, books, control, tables
<1> QED
  BY <1>1, <1>2, <1>3, <1>4, <1>5, <1>6, <1>7, <1>8, <1>9, OnlyUserRecords
     DEF Next, Listeners

\* Every step keeps what has been upserted equal to memory.
LEMMA SnapshotNext == IInv /\ [Next]_vars => ConsistentSnapshot'
<1> SUFFICES ASSUME IInv, [Next]_vars PROVE ConsistentSnapshot'
  OBVIOUS
<1> USE DEF IInv, ConsistentSnapshot
<1>0. /\ TypeOK /\ pc \in [Tasks -> PCs] /\ saved \in [Persisters -> SUBSET Users]
      /\ Persisters \subseteq Tasks \ {"price", "user"}
  BY TicksAreNotHandlers DEF Tasks, Listeners, Persisters, TypeOK
<1>1. CASE UNCHANGED vars
  BY <1>1 DEF vars, books, control, tables
<1>2. CASE Receive
  BY <1>0, <1>2, ReceiveFrame DEF books, tables
<1>3. CASE PriceStep
  BY <1>0, <1>3, PriceFrame
<1>4. CASE RecordHealth("user")
 <2>1. \A t \in Persisters : pc[t] # "upsert"
   BY <1>4, RecordUser, OneGuard DEF HoldInv
 <2> QED
   BY <1>0, <1>4, <2>1, RecordUser
<1>5. CASE AddMember
  BY <1>0, <1>5 DEF AddMember, Goto, tables
<1>6. CASE UserStep /\ ~AddMember
  BY <1>0, <1>6, UserFrame DEF books, tables
<1>7. ASSUME NEW t \in Persisters, PersistStep(t) PROVE ConsistentSnapshot'
 <2>1. CASE PersistBegin(t)
   BY <1>0, <2>1 DEF PersistBegin, Goto, books, tables, TodoInv
 <2>2. ASSUME NEW u \in Users, UpsertUserData(t, u) PROVE ConsistentSnapshot'
  <3>1. \A x \in Persisters : pc[x] = "upsert" => x = t
    BY <2>2, OneGuard DEF HoldInv, UpsertUserData
  <3>2. u \in DOMAIN users /\ saved' = [saved EXCEPT ![t] = @ \cup {u}]
    BY <2>2 DEF UpsertUserData, TodoInv
  <3>3. rows' = Insert(rows, u, users[u]) /\ UNCHANGED <<users, pc>>
    BY <2>2 DEF UpsertUserData, books
  <3>4. /\ DOMAIN rows' = DOMAIN rows \cup {u} /\ rows'[u] = users[u]
        /\ \A x \in DOMAIN rows : x # u => rows'[x] = rows[x]
    BY <3>3 DEF Insert
  <3> QED
    BY <1>0, <3>1, <3>2, <3>3, <3>4
 <2>3. CASE PersistDone(t)
  <3>1. pc'[t] # "upsert"
    BY <1>0, <2>3 DEF PersistDone, PersistEnd, Goto
  <3> QED
    BY <1>0, <1>7, <2>3, <3>1, PersistFrame DEF PersistDone, books
 <2>4. CASE IndicesUnavailable(t) \/ LockUsersToPersist(t)
   BY <1>0, <2>4
      DEF IndicesUnavailable, LockUsersToPersist, PersistEnd, Goto, books, tables
 <2> QED
   BY <1>7, <2>1, <2>2, <2>3, <2>4 DEF PersistStep
<1>8. ASSUME NEW l \in Listeners, NotificationStep(l) PROVE ConsistentSnapshot'
  BY <1>0, <1>8, NotificationFrame, OneGuard DEF HoldInv
<1>9. ASSUME NEW l \in Listeners, ExecutorRuns(l) PROVE ConsistentSnapshot'
  BY <1>9 DEF ExecutorRuns, FanaticVars, books, control, tables
<1> QED
  BY <1>1, <1>2, <1>3, <1>4, <1>5, <1>6, <1>7, <1>8, <1>9, OnlyUserRecords
     DEF Next, Listeners

-----------------------------------------------------------------------------
\* The theorems.

\* The inductive invariant holds when the Fanatic has started.
LEMMA InitInv == Init => IInv
<1> SUFFICES ASSUME Init PROVE IInv
  OBVIOUS
<1> USE DEF Init, FanaticInit
<1>1. HoldInv /\ JobInv /\ ConsistentSnapshot
  BY TicksAreNotHandlers
     DEF HoldInv, JobInv, ConsistentSnapshot, Tasks, Listeners, Persisters
<1>2. MemberInv
 <2> PICK positions \in [Reserves -> SUBSET DOMAIN rows], price \in [Reserves -> Prices] :
        LET held == {r \in Reserves : positions[r] # {}}
        IN  /\ users = [u \in UNION {positions[r] : r \in held} |-> rows[u]]
            /\ reserves = [r \in held |-> [users |-> positions[r], price |-> price[r]]]
   OBVIOUS
 <2>1. \A r \in DOMAIN reserves : reserves[r].users \subseteq DOMAIN users
   OBVIOUS
 <2> QED
   BY <2>1 DEF MemberInv
<1>3. TodoInv
  BY DEF TodoInv, Tasks, Persisters
<1> QED
  BY <1>1, <1>2, <1>3, InitType DEF IInv

\* The inductive invariant holds for ever.
LEMMA Invariant == Spec => []IInv
<1>1. IInv /\ [Next]_vars => IInv'
  BY TypeNext, HoldNext, JobNext, MemberNext, TodoNext, SnapshotNext DEF IInv
<1> QED
  BY <1>1, InitInv, PTL DEF Spec

\* Every variable of the bot keeps its type: what the handlers write in the
\* books and the table is a health factor under 100.0 or the mark -2.0.
THEOREM TypeCorrect == Spec => []TypeOK
<1>1. IInv => TypeOK
  BY DEF IInv
<1> QED
  BY <1>1, Invariant, PTL

\* A scan finds an entry for every member of its reserve (fanatic.rs:376-384),
\* whatever UpdateReserveUser is doing (fanatic.rs:523-535).
THEOREM ScanFindsMembers == Spec => []MembersKnown
<1>1. IInv => MembersKnown
 <2> SUFFICES ASSUME IInv, pc["price"] \in {"rpc", "await", "write"}
              PROVE  Members \subseteq DOMAIN users
   BY DEF MembersKnown
 <2>1. pc["user"] # "write"
   BY OneGuard DEF IInv, HoldInv
 <2> QED
   BY <2>1 DEF IInv, JobInv, MemberInv, Members
<1> QED
  BY <1>1, Invariant, PTL

\* The rows update_recent_users has written are what memory holds until it drops
\* its guard (fanatic.rs:121-152).
THEOREM SnapshotIsConsistent == Spec => []ConsistentSnapshot
<1>1. IInv => ConsistentSnapshot
  BY DEF IInv
<1> QED
  BY <1>1, Invariant, PTL

\* From the first request it sends, or the first health factor it wants to
\* record, the price handler is stuck for good, and the bot's memory with it
\* (fanatic.rs:373-376 against 411 and 449).
THEOREM WedgeIsForever == Spec => WedgeFreezesBooks
<1>1. ASSUME IInv, [Next]_vars, Wedged
      PROVE  Wedged' /\ UNCHANGED <<books, rows>>
 <2> USE <1>1 DEF IInv, Wedged, books
 <2>0. /\ TypeOK /\ "price" \in Tasks \ {"user"}
       /\ pc["price"] \in {"await", "write"} /\ pc \in [Tasks -> PCs]
       /\ Locked(usersLock, "price", "scan")
       /\ Locked(reservesLock, "price", "scan")
       /\ \A t \in Persisters : t # "price"
   BY TicksAreNotHandlers DEF TypeOK, HoldInv, Tasks, Listeners, Persisters
 <2>1. CASE UNCHANGED vars
   BY <2>1 DEF vars, control, tables
 <2>2. CASE Receive
  <3>1. pc'["price"] = pc["price"]
    BY <2>0, <2>2
       DEF Receive, UpdateReservePrice, UpdateReserveUser,
           DoSmthWithLiquidationCall, BeginPersist, Goto
  <3> QED
    BY <2>0, <2>2, <3>1, ReceiveFrame DEF tables
 <2>3. CASE PriceStep
  <3>1. ScanRequestAnswered
    BY <2>0, <2>3, OnlyUserRecords
       DEF PriceStep, SetReservePrice, SkipUnknownReserve, LockUsersForScan,
           CollectHighPrio, ScanUser, RequestFromScan, RecordFromScan,
           PassOverInScan, ScanAllUsers, AbandonScan, PanicInScan, EndScan,
           FollowerPanics, Return, Panic, Goto
  <3> QED
    BY <2>0, <3>1 DEF ScanRequestAnswered, Goto, tables
 <2>4. CASE UserStep \/ RecordHealth("user")
  <3>1. ~AddMember /\ ~RecordHealth("user")
    BY <2>0, OneGuard DEF AddMember, RecordHealth
  <3> QED
    BY <2>0, <2>4, <3>1, UserFrame DEF tables
 <2>5. ASSUME NEW t \in Persisters, PersistStep(t)
       PROVE  Wedged' /\ UNCHANGED <<books, rows>>
  <3>1. pc[t] # "upsert"
    BY <2>0, OneGuard DEF HoldInv
  <3>2. UNCHANGED rows
    BY <2>5, <3>1
       DEF PersistStep, IndicesUnavailable, LockUsersToPersist, PersistBegin,
           UpsertUserData, PersistDone, Goto, tables
  <3> QED
    BY <2>0, <2>5, <3>2, PersistFrame
 <2>6. ASSUME NEW l \in Listeners, NotificationStep(l)
       PROVE  Wedged' /\ UNCHANGED <<books, rows>>
   BY <2>0, <2>6, NotificationFrame, OneGuard
 <2>7. ASSUME NEW l \in Listeners, ExecutorRuns(l)
       PROVE  Wedged' /\ UNCHANGED <<books, rows>>
   BY <2>7 DEF ExecutorRuns, FanaticVars, control, tables
 <2> QED
   BY <2>1, <2>2, <2>3, <2>4, <2>5, <2>6, <2>7, OnlyUserRecords
      DEF Next, Listeners
<1>2. IInv /\ [Next]_vars => (Wedged => Wedged' /\ UNCHANGED <<books, rows>>)
  BY <1>1
<1> QED
  BY <1>2, Invariant, PTL DEF Spec, WedgeFreezesBooks
=============================================================================
