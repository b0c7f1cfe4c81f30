------------------------- MODULE PersistenceProofs -------------------------
(* Proofs about Persistence. *)
EXTENDS Persistence, TLAPS

-----------------------------------------------------------------------------
\* The inductive invariant.

\* The users guard is alive in the run that goes through its users, and in no
\* other.
HolderInv == \A t \in Persisters : run[t].pc = "upsert" <=> holder = t

\* A run goes through users of the map, and has begun before now.
RunInv ==
    \A t \in Persisters :
        /\ run[t].pc = "upsert" => run[t].todo \subseteq DOMAIN users
        /\ run[t].start <= now

\* The interval fires within its period.
ClockInv == up => now <= nextTick /\ nextTick <= now + INTERVAL

\* What an open transaction has done: the rows of other users are untouched, and
\* the user's are of positions the chain has, those dealt with among them.
TxInv ==
    tx # NoTx =>
        /\ tx.user \in Users
        /\ holder # None /\ tx.user \in run[holder].todo
        /\ tx.left \subseteq tx.held
        /\ \A p \in tx.positions : p.user = tx.user \/ p \in positions
        /\ tx.held # {} =>
              \A p \in tx.positions : p.user = tx.user => p.reserve \in tx.held
        /\ \A r \in tx.held \ tx.left :
              [user |-> tx.user, reserve |-> r] \in tx.positions

\* Who is to be written was recorded after the last tick, or is in the window of
\* a run that has yet to look, or is among the users of one that has.
FlushInv ==
    up /\ ~failed =>
        \A u \in Dirty :
            \/ users[u].last >= nextTick - INTERVAL
            \/ \E t \in Persisters :
                  \/ run[t].pc = "indices" /\ Recent(t, u)
                  \/ run[t].pc = "upsert" /\ u \in run[t].todo

\* Who is to be written and is not among the users of a run that goes through
\* them was recorded before its window.
WindowInv ==
    \A t \in Persisters : run[t].pc = "upsert" =>
        \A u \in Dirty : u \in run[t].todo \/ ~Recent(t, u)

IInv ==
    /\ TypeOK
    /\ HolderInv
    /\ RunInv
    /\ ClockInv
    /\ TxInv
    /\ FlushInv
    /\ WindowInv
    /\ PositionsHaveStats

-----------------------------------------------------------------------------
\* Lemmas on the operators.

\* None is no user and no persister.
LEMMA NoneIsFresh ==
    None \notin Users /\ None \notin Persisters /\ "shutdown" \notin Ticks
  BY PersistenceAssumption DEF Persisters

\* DELETE leaves the rows of other users, and of the user's at most those of a
\* reserve that is in the list, when there is a list.
LEMMA DeleteShape ==
    ASSUME NEW rows, NEW u, NEW kept
    PROVE  /\ DeletePositions(rows, u, kept) \subseteq rows
           /\ kept # {} =>
                 \A p \in DeletePositions(rows, u, kept) :
                     p.user = u => p.reserve \in kept
           /\ \A p \in rows : p.user # u => p \in DeletePositions(rows, u, kept)
  BY DEF DeletePositions

\* What the variables hold, part by part.
LEMMA Types ==
    ASSUME TypeOK
    PROVE  /\ now \in Int /\ nextTick \in Int
           /\ \A u \in DOMAIN users : users[u].last \in Int
           /\ \A t \in Persisters :
                 /\ run[t].pc \in {"idle", "indices", "upsert"}
                 /\ run[t].start \in Int
                 /\ run[t].todo \subseteq Users
<1>1. now \in Int /\ nextTick \in Int
  BY PersistenceAssumption DEF TypeOK, INTERVAL
<1>2. \A u \in DOMAIN users : users[u].last \in Int
  BY <1>1 DEF TypeOK
<1>3. \A t \in Persisters :
         /\ run[t].pc \in {"idle", "indices", "upsert"}
         /\ run[t].start \in Int
         /\ run[t].todo \subseteq Users
  BY PersistenceAssumption DEF TypeOK
<1> QED
  BY <1>1, <1>2, <1>3

\* A run that begins, and one that is over.
LEMMA RunTypes ==
    ASSUME TypeOK, NEW t \in Persisters
    PROVE  /\ [run EXCEPT ![t] = [Idle EXCEPT !.pc = "indices", !.start = now]]
                 \in [Persisters -> [pc : {"idle", "indices", "upsert"},
                                     start : 0..MaxTime, todo : SUBSET Users]]
           /\ [run EXCEPT ![t] = Idle]
                 \in [Persisters -> [pc : {"idle", "indices", "upsert"},
                                     start : 0..MaxTime, todo : SUBSET Users]]
           /\ [s \in Persisters |-> Idle]
                 \in [Persisters -> [pc : {"idle", "indices", "upsert"},
                                     start : 0..MaxTime, todo : SUBSET Users]]
<1> DEFINE R == [pc : {"idle", "indices", "upsert"}, start : 0..MaxTime,
                 todo : SUBSET Users]
<1>1. Idle \in R
  BY PersistenceAssumption DEF Idle
<1>2. [Idle EXCEPT !.pc = "indices", !.start = now] \in R
  BY DEF Idle, TypeOK
<1>3. run \in [Persisters -> R]
  BY DEF TypeOK
<1> HIDE DEF R
<1>4. /\ [run EXCEPT ![t] = [Idle EXCEPT !.pc = "indices", !.start = now]]
            \in [Persisters -> R]
      /\ [run EXCEPT ![t] = Idle] \in [Persisters -> R]
      /\ [s \in Persisters |-> Idle] \in [Persisters -> R]
  BY <1>1, <1>2, <1>3
<1> QED
  BY <1>4 DEF R

\* No transaction is open: nothing is in it.
LEMMA NoTxType ==
    ASSUME TypeOK
    PROVE  NoTx \in [user : Users \cup {None}, held : SUBSET Reserves,
                     left : SUBSET Reserves, at : 0..now,
                     positions : SUBSET [user : Users, reserve : Listed]]
<1>1. 0 \in 0..now
  BY PersistenceAssumption DEF TypeOK
<1> QED
  BY <1>1 DEF NoTx

\* A run that is over is idle and holds nothing; the others stay as they are.
LEMMA EndsShape ==
    ASSUME TypeOK, HolderInv, NEW t \in Persisters, Ends(t)
    PROVE  /\ run'[t] = Idle /\ \A s \in Persisters \ {t} : run'[s] = run[s]
           /\ holder' # t
           /\ \A s \in Persisters \ {t} : holder' = s <=> holder = s
           /\ UNCHANGED <<now, nextTick, chain, books, tables>>
  BY NoneIsFresh DEF Ends, TypeOK

-----------------------------------------------------------------------------
\* Typing.

\* An empty database and an empty memory are well typed.
LEMMA InitInv == Init => IInv
<1> SUFFICES ASSUME Init PROVE IInv
  OBVIOUS
<1>0. DOMAIN users = {} /\ DOMAIN reserves = {} /\ DOMAIN stats = {}
  BY DEF Init
<1>1. TypeOK
 <2>1. /\ now \in 0..MaxTime /\ nextTick \in 0..(MaxTime + INTERVAL)
       /\ 0 \in 0..now
   BY PersistenceAssumption DEF Init, INTERVAL
 <2>2. up \in BOOLEAN /\ failed \in BOOLEAN
   BY DEF Init
 <2>3. /\ chain \in [Users -> SUBSET Reserves]
       /\ holder \in Persisters \cup {None}
       /\ positions \subseteq [user : Users, reserve : Listed]
   BY DEF Init
 <2>4. run \in [Persisters -> [pc : {"idle", "indices", "upsert"},
                               start : 0..MaxTime, todo : SUBSET Users]]
  <3>1. Idle \in [pc : {"idle", "indices", "upsert"}, start : 0..MaxTime,
                  todo : SUBSET Users]
    BY PersistenceAssumption DEF Idle
  <3> QED
    BY <3>1 DEF Init
 <2>5. tx \in [user : Users \cup {None}, held : SUBSET Reserves,
               left : SUBSET Reserves, at : 0..now,
               positions : SUBSET [user : Users, reserve : Listed]]
   BY <2>1 DEF Init, NoTx
 <2> QED
   BY <1>0, <2>1, <2>2, <2>3, <2>4, <2>5 DEF TypeOK
<1>2. HolderInv /\ RunInv /\ ClockInv /\ TxInv
 <2>1. \A t \in Persisters : run[t] = Idle
   BY DEF Init
 <2>2. HolderInv
   BY <2>1, NoneIsFresh DEF Init, HolderInv, Idle
 <2>3. RunInv
   BY <2>1 DEF Init, RunInv, Idle
 <2>4. ClockInv
   BY DEF Init, ClockInv, INTERVAL
 <2>5. TxInv
   BY DEF Init, TxInv
 <2> QED
   BY <2>2, <2>3, <2>4, <2>5
<1>3. FlushInv /\ WindowInv /\ PositionsHaveStats
  BY <1>0 DEF Init, FlushInv, WindowInv, PositionsHaveStats, Dirty
<1> QED
  BY <1>1, <1>2, <1>3 DEF IInv

\* Every step keeps the types.
LEMMA TypeNext == IInv /\ [Next]_vars => TypeOK'
<1> SUFFICES ASSUME IInv, [Next]_vars PROVE TypeOK'
  OBVIOUS
<1> USE DEF IInv
<1> DEFINE Txs == [user : Users \cup {None}, held : SUBSET Reserves,
                   left : SUBSET Reserves, at : 0..now,
                   positions : SUBSET [user : Users, reserve : Listed]]
           Runs == [pc : {"idle", "indices", "upsert"},
                    start : 0..MaxTime, todo : SUBSET Users]
<1>0. TypeOK /\ now \in Nat /\ now \in 0..now /\ now \in 0..MaxTime
  BY PersistenceAssumption DEF TypeOK
<1>1. CASE UNCHANGED vars
  BY <1>0, <1>1 DEF vars, clock, books, tables, runs, TypeOK
<1>2. ASSUME NEW u \in Users, NEW r \in Reserves, NEW h \in Health,
             RecordUser(u, r, h)
      PROVE  TypeOK'
 <2> DEFINE v == [hf |-> h, last |-> now]
 <2>1. v \in [hf : Health, last : 0..now]
   BY <1>0
 <2>2. users' = Insert(users, u, v)
   BY <1>2 DEF RecordUser
 <2> HIDE DEF v
 <2>3. /\ DOMAIN users' = DOMAIN users \cup {u}
       /\ users'[u] = v
       /\ \A x \in DOMAIN users : x # u => users'[x] = users[x]
   BY <2>2 DEF Insert
 <2>4. \A x \in DOMAIN users' : users'[x] \in [hf : Health, last : 0..now]
   BY <1>0, <2>1, <2>3 DEF TypeOK
 <2>5. /\ DOMAIN reserves' = DOMAIN reserves
       /\ \A x \in DOMAIN reserves' : reserves'[x] \subseteq Users
   BY <1>0, <1>2 DEF RecordUser, TypeOK
 <2> QED
   BY <1>0, <1>2, <2>3, <2>4, <2>5 DEF RecordUser, clock, tables, runs, TypeOK
<1>3. ASSUME NEW t \in Persisters, Begin(t),
             nextTick' \in 0..(MaxTime + INTERVAL)
      PROVE  TypeOK'
 <2>1. run' \in [Persisters -> Runs]
   BY <1>0, <1>3, RunTypes DEF Begin
 <2> QED
   BY <1>0, <1>3, <2>1 DEF Begin, books, tables, TypeOK
<1>4. ASSUME NEW t \in Ticks, TickFires(t) PROVE TypeOK'
 <2>1. now + INTERVAL \in 0..(MaxTime + INTERVAL)
   BY <1>0, PersistenceAssumption DEF INTERVAL
 <2> QED
   BY <1>3, <1>4, <2>1 DEF TickFires, Persisters
<1>5. CASE SignalComes
  BY <1>0, <1>3, <1>5 DEF SignalComes, Persisters, TypeOK
<1>6. ASSUME NEW t \in Persisters, LockUsers(t) PROVE TypeOK'
 <2>1. {u \in DOMAIN users : Recent(t, u)} \in SUBSET Users
   BY <1>0 DEF TypeOK
 <2>2. run' \in [Persisters -> Runs]
  <3> DEFINE todo == {u \in DOMAIN users : Recent(t, u)}
  <3>1. run' = [run EXCEPT ![t].pc = "upsert", ![t].todo = todo]
    BY <1>6 DEF LockUsers
  <3>2. todo \in SUBSET Users
    BY <2>1
  <3>3. run \in [Persisters -> Runs] /\ run[t] \in Runs
    BY <1>0 DEF TypeOK
  <3> HIDE DEF todo
  <3>4. [run[t] EXCEPT !.pc = "upsert", !.todo = todo] \in Runs
    BY <3>2, <3>3
  <3>5. run' = [run EXCEPT ![t] =
                   [run[t] EXCEPT !.pc = "upsert", !.todo = todo]]
    BY <3>1, <3>3
  <3> HIDE DEF Runs
  <3> QED
    BY <3>3, <3>4, <3>5
 <2> QED
   BY <1>0, <1>6, <2>2 DEF LockUsers, clock, books, tables, TypeOK
<1>7. ASSUME NEW t \in Persisters, NEW u \in Users, UpsertUserData(t, u)
      PROVE  TypeOK'
 <2>1. DeletePositions(positions, u, chain[u])
          \in SUBSET [user : Users, reserve : Listed]
   BY <1>0, DeleteShape DEF TypeOK
 <2>2. tx' \in Txs
   BY <1>0, <1>7, <2>1 DEF UpsertUserData, TypeOK
 <2> QED
   BY <1>0, <1>7, <2>2 DEF UpsertUserData, clock, books, tables, TypeOK
<1>8. ASSUME NEW r \in Reserves, UpsertPosition(r) PROVE TypeOK'
 <2>1. tx.user \in Users
  <3>1. tx # NoTx
    BY <1>8 DEF UpsertPosition, NoTx
  <3> QED
    BY <3>1 DEF TxInv
 <2>2. [user |-> tx.user, reserve |-> r] \in [user : Users, reserve : Listed]
   BY <1>8, <2>1 DEF UpsertPosition
 <2>3. tx' \in Txs
   BY <1>0, <1>8, <2>2 DEF UpsertPosition, TypeOK
 <2> QED
   BY <1>0, <1>8, <2>3 DEF UpsertPosition, clock, books, tables, TypeOK
<1>9. ASSUME NEW t \in Persisters, Commit(t) PROVE TypeOK'
 <2> DEFINE v == [hf |-> users[tx.user].hf, at |-> tx.at]
 <2>1. holder = t /\ tx # NoTx
   BY <1>9 DEF Commit
 <2>2. tx.user \in Users /\ tx.user \in DOMAIN users
   BY <2>1 DEF TxInv, HolderInv, RunInv
 <2>3. v \in [hf : Health, at : 0..now]
   BY <1>0, <2>2 DEF TypeOK
 <2>4. stats' = Insert(stats, tx.user, v)
   BY <1>9 DEF Commit
 <2> HIDE DEF v
 <2>5. /\ DOMAIN stats' \subseteq Users
       /\ \A u \in DOMAIN stats' : stats'[u] \in [hf : Health, at : 0..now]
  <3>1. /\ DOMAIN stats' = DOMAIN stats \cup {tx.user}
        /\ stats'[tx.user] = v
        /\ \A x \in DOMAIN stats : x # tx.user => stats'[x] = stats[x]
    BY <2>4 DEF Insert
  <3> QED
    BY <1>0, <2>2, <2>3, <3>1 DEF TypeOK
 <2>6. positions' \subseteq [user : Users, reserve : Listed]
   BY <1>0, <1>9 DEF Commit, TypeOK
 <2>7. run' \in [Persisters -> Runs]
   BY <1>0, <1>9 DEF Commit, TypeOK
 <2>8. tx' \in Txs
   BY <1>0, <1>9, NoTxType DEF Commit
 <2> QED
   BY <1>0, <1>9, <2>5, <2>6, <2>7, <2>8 DEF Commit, clock, books, TypeOK
<1>10. ASSUME NEW t \in Persisters, Ends(t), failed' \in BOOLEAN,
              tx' = tx \/ tx' = NoTx
       PROVE  TypeOK'
 <2>1. run' \in [Persisters -> Runs]
   BY <1>0, <1>10, RunTypes DEF Ends
 <2>2. tx' \in Txs
   BY <1>0, <1>10, NoTxType DEF TypeOK
 <2>3. holder' \in Persisters \cup {None} /\ up' \in BOOLEAN
   BY <1>0, <1>10 DEF Ends, TypeOK
 <2> QED
   BY <1>0, <1>10, <2>1, <2>2, <2>3 DEF Ends, books, tables, TypeOK
<1>11. ASSUME NEW t \in Persisters, Done(t) \/ Fails(t) PROVE TypeOK'
 <2>1. Ends(t) /\ (tx' = tx \/ tx' = NoTx)
   BY <1>11 DEF Done, Fails
 <2>2. failed' \in BOOLEAN
   BY <1>0, <1>11 DEF Done, Fails, TypeOK
 <2> QED
   BY <1>10, <2>1, <2>2
<1>12. ASSUME run' = [t \in Persisters |-> Idle], tx' = NoTx
       PROVE  run' \in [Persisters -> Runs] /\ tx' \in Txs
 <2>1. "shutdown" \in Persisters
   BY DEF Persisters
 <2> QED
   BY <1>0, <1>12, <2>1, RunTypes, NoTxType
<1>13. CASE Crash
 <2>1. run' \in [Persisters -> Runs] /\ tx' \in Txs
   BY <1>12, <1>13 DEF Crash
 <2> QED
   BY <1>0, <1>13, <2>1 DEF Crash, books, tables, TypeOK
<1>14. CASE Restart
 <2>1. run' \in [Persisters -> Runs] /\ tx' \in Txs
   BY <1>12, <1>14 DEF Restart
 <2>2. /\ DOMAIN users' \subseteq Users
       /\ \A u \in DOMAIN users' : users'[u] \in [hf : Health, last : 0..now]
   BY <1>0, <1>14 DEF Restart, LoadedUsers, Loaded, TypeOK
 <2>3. /\ DOMAIN reserves' \subseteq Listed
       /\ \A r \in DOMAIN reserves' : reserves'[r] \subseteq Users
  <3>1. \A p \in positions : p.reserve \in Listed
    BY <1>0 DEF TypeOK
  <3>2. Loaded \subseteq Users
    BY <1>0 DEF Loaded, TypeOK
  <3>3. reserves' = LoadedReserves
    BY <1>14 DEF Restart
  <3> QED
    BY <3>1, <3>2, <3>3 DEF LoadedReserves
 <2>4. nextTick' \in 0..(MaxTime + INTERVAL)
   BY <1>0, <1>14, PersistenceAssumption DEF Restart, INTERVAL
 <2> QED
   BY <1>0, <1>14, <2>1, <2>2, <2>3, <2>4 DEF Restart, tables, TypeOK
<1>15. ASSUME NEW u \in Users, ChainMoves(u) PROVE TypeOK'
  BY <1>0, <1>15 DEF ChainMoves, clock, books, tables, runs, TypeOK
<1>16. CASE TimePasses
 <2>1. now' \in 0..MaxTime /\ 0..now \subseteq 0..now'
   BY <1>0, <1>16, PersistenceAssumption DEF TimePasses
 <2>2. /\ \A u \in DOMAIN users : users[u] \in [hf : Health, last : 0..now']
       /\ \A u \in DOMAIN stats : stats[u] \in [hf : Health, at : 0..now']
   BY <1>0, <2>1 DEF TypeOK
 <2>3. tx \in [user : Users \cup {None}, held : SUBSET Reserves,
               left : SUBSET Reserves, at : 0..now',
               positions : SUBSET [user : Users, reserve : Listed]]
   BY <1>0, <2>1 DEF TypeOK
 <2> QED
   BY <1>0, <1>16, <2>1, <2>2, <2>3
      DEF TimePasses, books, tables, runs, TypeOK
<1> QED
  BY <1>1, <1>2, <1>4, <1>5, <1>6, <1>7, <1>8, <1>9, <1>11, <1>13, <1>14,
     <1>15, <1>16 DEF Next

-----------------------------------------------------------------------------
\* Runs, the guard and the clock.

\* A persister that begins, and what that changes.
LEMMA BeginShape ==
    ASSUME TypeOK, NEW t \in Persisters, Begin(t)
    PROVE  /\ up /\ run[t].pc = "idle"
           /\ run'[t].pc = "indices" /\ run'[t].start = now
           /\ \A s \in Persisters \ {t} : run'[s] = run[s]
           /\ UNCHANGED <<now, up, chain, books, tables, holder, tx, failed>>
  BY DEF Begin, TypeOK, Idle

\* A persister that has the guard, and what that changes.
LEMMA LockShape ==
    ASSUME TypeOK, NEW t \in Persisters, LockUsers(t)
    PROVE  /\ run[t].pc = "indices" /\ holder = None /\ holder' = t
           /\ run'[t].pc = "upsert" /\ run'[t].start = run[t].start
           /\ run'[t].todo = {u \in DOMAIN users : Recent(t, u)}
           /\ \A s \in Persisters \ {t} : run'[s] = run[s]
           /\ UNCHANGED <<clock, chain, books, tables, tx, failed>>
<1> DEFINE todo == {u \in DOMAIN users : Recent(t, u)}
<1>1. run' = [run EXCEPT ![t].pc = "upsert", ![t].todo = todo]
  BY DEF LockUsers
<1> HIDE DEF todo
<1>2. /\ run'[t].pc = "upsert" /\ run'[t].start = run[t].start
      /\ run'[t].todo = todo
      /\ \A s \in Persisters \ {t} : run'[s] = run[s]
  BY <1>1 DEF TypeOK
<1> QED
  BY <1>2 DEF LockUsers, todo

\* A transaction that commits, and what that changes.
LEMMA CommitShape ==
    ASSUME TypeOK, NEW t \in Persisters, Commit(t)
    PROVE  /\ holder = t /\ tx # NoTx /\ tx' = NoTx /\ tx.left = {}
           /\ positions' = tx.positions
           /\ stats' = Insert(stats, tx.user,
                              [hf |-> users[tx.user].hf, at |-> tx.at])
           /\ run'[t].pc = run[t].pc /\ run'[t].start = run[t].start
           /\ run'[t].todo = run[t].todo \ {tx.user}
           /\ \A s \in Persisters \ {t} : run'[s] = run[s]
           /\ UNCHANGED <<clock, chain, books, holder, failed>>
  BY DEF Commit, TypeOK

\* The steps that leave the runs and the guard alone.
LEMMA RunsStay ==
    ASSUME \/ \E u \in Users, r \in Reserves, h \in Health : RecordUser(u, r, h)
           \/ \E t \in Persisters, u \in Users : UpsertUserData(t, u)
           \/ \E r \in Reserves : UpsertPosition(r)
           \/ \E u \in Users : ChainMoves(u)
           \/ TimePasses
           \/ UNCHANGED vars
    PROVE  UNCHANGED <<run, holder, failed>>
  BY DEF RecordUser, UpsertUserData, UpsertPosition, ChainMoves, TimePasses,
         vars, runs

\* The guard is alive in the run that goes through its users, and in no other.
LEMMA HolderNext == IInv /\ [Next]_vars => HolderInv'
<1> SUFFICES ASSUME IInv, [Next]_vars PROVE HolderInv'
  OBVIOUS
<1> USE DEF IInv
<1>1. CASE UNCHANGED <<run, holder>>
  BY <1>1 DEF HolderInv
<1>2. ASSUME NEW t \in Persisters, Begin(t) PROVE HolderInv'
  BY <1>2, BeginShape DEF HolderInv
<1>3. ASSUME NEW t \in Persisters, LockUsers(t) PROVE HolderInv'
  BY <1>3, LockShape, NoneIsFresh DEF HolderInv
<1>4. ASSUME NEW t \in Persisters, Commit(t) PROVE HolderInv'
  BY <1>4, CommitShape DEF HolderInv
<1>5. ASSUME NEW t \in Persisters, Done(t) \/ Fails(t) PROVE HolderInv'
 <2>1. Ends(t)
   BY <1>5 DEF Done, Fails
 <2> QED
   BY <2>1, EndsShape DEF HolderInv, Idle
<1>6. CASE Crash \/ Restart
  BY <1>6, NoneIsFresh DEF Crash, Restart, HolderInv, Idle
<1> QED
  BY <1>1, <1>2, <1>3, <1>4, <1>5, <1>6, RunsStay
     DEF Next, TickFires, SignalComes, Persisters

\* The users of a run keep their entries, and a run has begun before now.
LEMMA RunNext == IInv /\ [Next]_vars => RunInv'
<1> SUFFICES ASSUME IInv, [Next]_vars PROVE RunInv'
  OBVIOUS
<1> USE Types DEF IInv
<1>0. TypeOK
  OBVIOUS
<1>1. CASE UNCHANGED <<run, users, now>>
  BY <1>1 DEF RunInv
<1>2. ASSUME NEW t \in Persisters, Begin(t) PROVE RunInv'
  BY <1>0, <1>2, BeginShape DEF RunInv, books
<1>3. ASSUME NEW t \in Persisters, LockUsers(t) PROVE RunInv'
  BY <1>0, <1>3, LockShape DEF RunInv, books, clock
<1>4. ASSUME NEW t \in Persisters, Commit(t) PROVE RunInv'
  BY <1>0, <1>4, CommitShape DEF RunInv, books, clock
<1>5. ASSUME NEW t \in Persisters, Done(t) \/ Fails(t) PROVE RunInv'
 <2>1. Ends(t)
   BY <1>5 DEF Done, Fails
 <2>2. 0 <= now
   BY <1>0 DEF TypeOK
 <2> QED
   BY <1>0, <2>1, <2>2, EndsShape DEF RunInv, Idle, books
<1>6. CASE Crash \/ Restart
 <2>1. \A t \in Persisters : run'[t].pc = "idle" /\ run'[t].start = 0
   BY <1>6 DEF Crash, Restart, Idle
 <2>2. 0 <= now /\ now' = now
   BY <1>0, <1>6 DEF TypeOK, Crash, Restart
 <2> QED
   BY <2>1, <2>2 DEF RunInv
<1>7. ASSUME NEW u \in Users, NEW r \in Reserves, NEW h \in Health,
             RecordUser(u, r, h)
      PROVE  RunInv'
 <2>1. \A t \in Persisters : run[t].pc # "upsert"
   BY <1>7, NoneIsFresh DEF RecordUser, HolderInv
 <2> QED
   BY <1>7, <2>1 DEF RecordUser, RunInv, runs, clock
<1>8. CASE TimePasses
 <2>1. now' = now + 1 /\ UNCHANGED <<run, users>>
   BY <1>8 DEF TimePasses, runs, books
 <2>2. \A t \in Persisters : run[t].start <= now'
   BY <1>0, <2>1 DEF RunInv
 <2> QED
   BY <2>1, <2>2 DEF RunInv
<1>9. CASE (\E t \in Persisters, u \in Users : UpsertUserData(t, u))
             \/ (\E r \in Reserves : UpsertPosition(r))
             \/ (\E u \in Users : ChainMoves(u)) \/ UNCHANGED vars
  BY <1>1, <1>9
     DEF UpsertUserData, UpsertPosition, ChainMoves, vars, runs, books, clock
<1> QED
  BY <1>2, <1>3, <1>4, <1>5, <1>6, <1>7, <1>8, <1>9
     DEF Next, TickFires, SignalComes, Persisters

\* The interval fires within its period.
LEMMA ClockNext == IInv /\ [Next]_vars => ClockInv'
<1> SUFFICES ASSUME IInv, [Next]_vars PROVE ClockInv'
  OBVIOUS
<1> USE DEF IInv
<1>0. now \in Int /\ nextTick \in Int
  BY Types
<1>1. CASE UNCHANGED <<now, nextTick>> /\ (up' => up)
  BY <1>1 DEF ClockInv
<1>2. ASSUME NEW t \in Ticks, TickFires(t) PROVE ClockInv'
  BY <1>0, <1>2 DEF TickFires, Begin, ClockInv, INTERVAL
<1>3. CASE Restart
  BY <1>0, <1>3 DEF Restart, ClockInv, INTERVAL
<1>4. CASE TimePasses
  BY <1>0, <1>4 DEF TimePasses, ClockInv, INTERVAL
<1>5. CASE SignalComes \/ Crash
  BY <1>1, <1>5 DEF SignalComes, Begin, Crash
<1>6. ASSUME NEW t \in Persisters, up,
             LockUsers(t) \/ Commit(t) \/ Done(t) \/ Fails(t)
      PROVE  ClockInv'
  BY <1>1, <1>6 DEF LockUsers, Commit, Done, Fails, Ends, clock
<1>7. CASE (\E u \in Users, r \in Reserves, h \in Health : RecordUser(u, r, h))
             \/ (\E t \in Persisters, u \in Users : UpsertUserData(t, u))
             \/ (\E r \in Reserves : UpsertPosition(r))
             \/ (\E u \in Users : ChainMoves(u)) \/ UNCHANGED vars
 <2>1. UNCHANGED <<now, nextTick, up>>
   BY <1>7
      DEF RecordUser, UpsertUserData, UpsertPosition, ChainMoves, vars, clock
 <2> QED
   BY <2>1 DEF ClockInv
<1> QED
  BY <1>2, <1>3, <1>4, <1>5, <1>6, <1>7 DEF Next

-----------------------------------------------------------------------------
\* The open transaction.

\* A transaction begins with the rows DELETE leaves.
LEMMA TxBegins ==
    ASSUME IInv, NEW t \in Persisters, NEW u \in Users, UpsertUserData(t, u)
    PROVE  TxInv'
<1> USE DEF IInv
<1>1. /\ tx' = [user |-> u, held |-> chain[u], left |-> chain[u], at |-> now,
                positions |-> DeletePositions(positions, u, chain[u])]
      /\ run[t].pc = "upsert" /\ u \in run[t].todo
      /\ UNCHANGED <<holder, run, positions>>
  BY DEF UpsertUserData, tables
<1>2. /\ tx'.user = u /\ tx'.held = chain[u] /\ tx'.left = chain[u]
      /\ tx'.positions = DeletePositions(positions, u, chain[u])
  BY <1>1
<1>3. holder = t /\ holder # None
  BY <1>1, NoneIsFresh DEF HolderInv
<1>4. /\ \A p \in tx'.positions : p \in positions
      /\ tx'.held # {} =>
            \A p \in tx'.positions : p.user = tx'.user => p.reserve \in tx'.held
  BY <1>2, DeleteShape
<1> QED
  BY <1>1, <1>2, <1>3, <1>4 DEF TxInv

\* A position that is written is one of those the chain has.
LEMMA TxWrites ==
    ASSUME IInv, NEW r \in Reserves, UpsertPosition(r)
    PROVE  TxInv'
<1> USE DEF IInv
<1>1. tx # NoTx /\ r \in tx.left
  BY DEF UpsertPosition, NoTx
<1>2. /\ tx'.user = tx.user /\ tx'.held = tx.held /\ tx'.left = tx.left \ {r}
      /\ tx'.positions = tx.positions \cup {[user |-> tx.user, reserve |-> r]}
      /\ UNCHANGED <<holder, run, positions>>
  BY DEF UpsertPosition, TypeOK, tables
<1>3. /\ tx.user \in Users
      /\ holder # None /\ tx.user \in run[holder].todo
      /\ tx.left \subseteq tx.held
      /\ \A p \in tx.positions : p.user = tx.user \/ p \in positions
      /\ \A p \in tx.positions : p.user = tx.user => p.reserve \in tx.held
      /\ \A x \in tx.held \ tx.left :
            [user |-> tx.user, reserve |-> x] \in tx.positions
  BY <1>1 DEF TxInv
<1>4. \A p \in tx'.positions : p.user = tx'.user \/ p \in positions'
  BY <1>2, <1>3
<1>5. \A p \in tx'.positions : p.user = tx'.user => p.reserve \in tx'.held
  BY <1>1, <1>2, <1>3
<1>6. \A x \in tx'.held \ tx'.left :
         [user |-> tx'.user, reserve |-> x] \in tx'.positions
  BY <1>2, <1>3
<1> QED
  BY <1>2, <1>3, <1>4, <1>5, <1>6 DEF TxInv

\* The open transaction has done what TxInv says.
LEMMA TxNext == IInv /\ [Next]_vars => TxInv'
<1> SUFFICES ASSUME IInv, [Next]_vars PROVE TxInv'
  OBVIOUS
<1> USE DEF IInv
<1>1. CASE UNCHANGED <<tx, holder, run, positions>>
  BY <1>1 DEF TxInv
<1>2. CASE tx' = NoTx
  BY <1>2 DEF TxInv
<1>3. ASSUME NEW t \in Persisters, Begin(t) PROVE TxInv'
 <2>1. /\ run[t].pc = "idle" /\ \A s \in Persisters \ {t} : run'[s] = run[s]
       /\ UNCHANGED <<holder, tx, positions>>
   BY <1>3, BeginShape DEF tables
 <2>2. tx # NoTx => holder \in Persisters \ {t}
   BY <2>1 DEF TxInv, HolderInv, TypeOK
 <2> QED
   BY <2>1, <2>2 DEF TxInv
<1>4. ASSUME NEW t \in Persisters, LockUsers(t) PROVE TxInv'
 <2>1. holder = None /\ tx' = tx
   BY <1>4 DEF LockUsers
 <2>2. tx = NoTx
   BY <2>1 DEF TxInv
 <2> QED
   BY <1>2, <2>1, <2>2
<1>5. ASSUME NEW t \in Persisters, Done(t) \/ Fails(t) PROVE TxInv'
 <2>1. Ends(t)
   BY <1>5 DEF Done, Fails
 <2>2. CASE holder = t
  <3>1. Fails(t) => tx' = NoTx
    BY <2>2 DEF Fails
  <3>2. Done(t) => tx = NoTx /\ tx' = tx
    BY <2>2 DEF Done, TxInv
  <3> QED
    BY <1>2, <1>5, <3>1, <3>2
 <2>3. CASE holder # t
  <3>1. UNCHANGED <<tx, holder, positions>>
    BY <1>5, <2>1, <2>3 DEF Done, Fails, Ends, tables
  <3>2. tx # NoTx => holder \in Persisters \ {t}
    BY <2>3 DEF TxInv, TypeOK
  <3>3. \A s \in Persisters \ {t} : run'[s] = run[s]
    BY <2>1, EndsShape
  <3> QED
    BY <3>1, <3>2, <3>3 DEF TxInv
 <2> QED
   BY <2>2, <2>3
<1>6. CASE (\E t \in Persisters : Commit(t)) \/ Crash \/ Restart
  BY <1>2, <1>6 DEF Commit, Crash, Restart
<1>7. CASE (\E u \in Users, r \in Reserves, h \in Health : RecordUser(u, r, h))
             \/ (\E u \in Users : ChainMoves(u)) \/ TimePasses
             \/ UNCHANGED vars
  BY <1>1, <1>7
     DEF RecordUser, ChainMoves, TimePasses, vars, runs, tables
<1> QED
  BY <1>3, <1>4, <1>5, <1>6, <1>7, TxBegins, TxWrites
     DEF Next, TickFires, SignalComes, Persisters

\* A row of positions comes with a row of stats.
LEMMA StatsNext == IInv /\ [Next]_vars => PositionsHaveStats'
<1> SUFFICES ASSUME IInv, [Next]_vars PROVE PositionsHaveStats'
  OBVIOUS
<1> USE DEF IInv
<1>1. CASE UNCHANGED tables
  BY <1>1 DEF tables, PositionsHaveStats
<1>2. ASSUME NEW t \in Persisters, Commit(t) PROVE PositionsHaveStats'
 <2>1. /\ tx # NoTx /\ positions' = tx.positions
       /\ DOMAIN stats' = DOMAIN stats \cup {tx.user}
   BY <1>2, CommitShape DEF Insert
 <2>2. \A p \in tx.positions : p.user = tx.user \/ p \in positions
   BY <2>1 DEF TxInv
 <2> QED
   BY <2>1, <2>2 DEF PositionsHaveStats
<1>3. ASSUME NEW t \in Persisters, LockUsers(t) \/ Done(t) \/ Fails(t)
      PROVE  UNCHANGED tables
  BY <1>3 DEF LockUsers, Done, Fails, Ends
<1>4. ASSUME NEW t \in Persisters, NEW u \in Users, UpsertUserData(t, u)
      PROVE  UNCHANGED tables
  BY <1>4 DEF UpsertUserData
<1> QED
  BY <1>1, <1>2, <1>3, <1>4
     DEF Next, RecordUser, TickFires, SignalComes, Begin, UpsertPosition,
         Crash, Restart, ChainMoves, TimePasses, vars

-----------------------------------------------------------------------------
\* What is in memory and not in the table.

\* The steps that leave memory, the table, the runs and the clock alone.
LEMMA FlushFrame ==
    ASSUME \/ \E t \in Persisters, u \in Users : UpsertUserData(t, u)
           \/ \E r \in Reserves : UpsertPosition(r)
           \/ \E u \in Users : ChainMoves(u)
           \/ TimePasses
           \/ UNCHANGED vars
    PROVE  UNCHANGED <<users, stats, run, up, failed, nextTick>>
  BY DEF UpsertUserData, UpsertPosition, ChainMoves, TimePasses, vars, clock,
         books, tables, runs

\* A commit takes its user from those to be written, and nobody else.
LEMMA DirtyCommit ==
    ASSUME IInv, NEW t \in Persisters, Commit(t)
    PROVE  Dirty' \subseteq Dirty \ {tx.user}
<1>1. /\ stats' = Insert(stats, tx.user,
                         [hf |-> users[tx.user].hf, at |-> tx.at])
      /\ users' = users
  BY CommitShape DEF IInv, books
<1>2. /\ tx.user \in DOMAIN stats' /\ stats'[tx.user].hf = users[tx.user].hf
      /\ DOMAIN stats' = DOMAIN stats \cup {tx.user}
      /\ \A u \in DOMAIN stats : u # tx.user => stats'[u] = stats[u]
  BY <1>1 DEF Insert
<1> QED
  BY <1>1, <1>2 DEF Dirty

\* Everything the bot loads is in the table.
LEMMA DirtyRestart ==
    ASSUME Restart
    PROVE  Dirty' = {}
<1>1. users' = LoadedUsers /\ stats' = stats
  BY DEF Restart, tables
<1> QED
  BY <1>1 DEF Dirty, LoadedUsers, Loaded

\* A handler makes its user one to be written, recorded now.
LEMMA DirtyRecord ==
    ASSUME NEW u, NEW r, NEW h, RecordUser(u, r, h)
    PROVE  /\ Dirty' \subseteq Dirty \cup {u}
           /\ users'[u].last = now
           /\ \A x \in Dirty : x # u => users'[x] = users[x]
<1>1. /\ users' = Insert(users, u, [hf |-> h, last |-> now])
      /\ stats' = stats
  BY DEF RecordUser, tables
<1>2. /\ DOMAIN users' = DOMAIN users \cup {u}
      /\ users'[u] = [hf |-> h, last |-> now]
      /\ \A x \in DOMAIN users : x # u => users'[x] = users[x]
  BY <1>1 DEF Insert
<1> QED
  BY <1>1, <1>2 DEF Dirty

\* Who is to be written is still seen by a run or the next tick.
LEMMA FlushNext == IInv /\ [Next]_vars => FlushInv'
<1> SUFFICES ASSUME IInv, [Next]_vars PROVE FlushInv'
  OBVIOUS
<1> USE DEF IInv
<1>0. TypeOK /\ now \in Int /\ nextTick \in Int
  BY Types
<1>1. CASE UNCHANGED <<users, stats, run, up, failed, nextTick>>
  BY <1>1 DEF FlushInv, Dirty, Recent
<1>2. ASSUME NEW u \in Users, NEW r \in Reserves, NEW h \in Health,
             RecordUser(u, r, h)
      PROVE  FlushInv'
 <2> SUFFICES ASSUME ~failed, NEW x \in Dirty'
              PROVE  \/ users'[x].last >= nextTick' - INTERVAL
                     \/ \E t \in Persisters :
                           \/ run'[t].pc = "indices" /\ Recent(t, x)'
                           \/ run'[t].pc = "upsert" /\ x \in run'[t].todo
   BY <1>2 DEF FlushInv, RecordUser, runs
 <2>1. up /\ UNCHANGED <<run, nextTick>>
   BY <1>2 DEF RecordUser, runs, clock
 <2>2. CASE x = u
  <3>1. users'[x].last = now
    BY <1>2, <2>2, DirtyRecord
  <3> QED
    BY <1>0, <2>1, <3>1 DEF ClockInv, INTERVAL
 <2>3. CASE x # u
  <3>1. x \in Dirty /\ users'[x] = users[x]
    BY <1>2, <2>3, DirtyRecord
  <3> QED
    BY <2>1, <3>1 DEF FlushInv, Recent
 <2> QED
   BY <2>2, <2>3
<1>3. ASSUME NEW t \in Persisters, Begin(t),
             \/ nextTick' = nextTick
             \/ nextTick = now /\ nextTick' = now + INTERVAL
      PROVE  FlushInv'
 <2> SUFFICES ASSUME ~failed, NEW x \in Dirty
              PROVE  \/ users[x].last >= nextTick' - INTERVAL
                     \/ \E s \in Persisters :
                           \/ run'[s].pc = "indices" /\ Recent(s, x)'
                           \/ run'[s].pc = "upsert" /\ x \in run'[s].todo
   BY <1>3, BeginShape DEF FlushInv, Dirty, books, tables
 <2>1. /\ up /\ run[t].pc = "idle" /\ run'[t].pc = "indices"
       /\ run'[t].start = now /\ users' = users
       /\ \A s \in Persisters \ {t} : run'[s] = run[s]
   BY <1>0, <1>3, BeginShape DEF books
 <2>2. CASE users[x].last >= nextTick - INTERVAL
  <3>1. users[x].last \in Int
    BY <1>0, Types DEF Dirty
  <3>2. nextTick = now => now - users[x].last < SECS
    BY <1>0, <2>2, <3>1 DEF INTERVAL, SECS
  <3>3. nextTick = now => Recent(t, x)'
    BY <2>1, <3>2 DEF Recent
  <3> QED
    BY <1>3, <2>1, <2>2, <3>3
 <2>3. ASSUME NEW s \in Persisters,
              \/ run[s].pc = "indices" /\ Recent(s, x)
              \/ run[s].pc = "upsert" /\ x \in run[s].todo
       PROVE  \/ run'[s].pc = "indices" /\ Recent(s, x)'
              \/ run'[s].pc = "upsert" /\ x \in run'[s].todo
  <3>1. s # t
    BY <2>1, <2>3
  <3> QED
    BY <2>1, <2>3, <3>1 DEF Recent
 <2> QED
   BY <2>1, <2>2, <2>3 DEF FlushInv
<1>4. ASSUME NEW t \in Persisters, LockUsers(t), up PROVE FlushInv'
 <2> SUFFICES ASSUME ~failed, NEW x \in Dirty
              PROVE  \/ users[x].last >= nextTick - INTERVAL
                     \/ \E s \in Persisters :
                           \/ run'[s].pc = "indices" /\ Recent(s, x)'
                           \/ run'[s].pc = "upsert" /\ x \in run'[s].todo
   BY <1>4, LockShape DEF FlushInv, Dirty, books, tables, clock
 <2>1. /\ run[t].pc = "indices" /\ run'[t].pc = "upsert" /\ users' = users
       /\ run'[t].todo = {u \in DOMAIN users : Recent(t, u)}
       /\ \A s \in Persisters \ {t} : run'[s] = run[s]
   BY <1>0, <1>4, LockShape DEF books
 <2>2. ASSUME NEW s \in Persisters,
              \/ run[s].pc = "indices" /\ Recent(s, x)
              \/ run[s].pc = "upsert" /\ x \in run[s].todo
       PROVE  \/ run'[s].pc = "indices" /\ Recent(s, x)'
              \/ run'[s].pc = "upsert" /\ x \in run'[s].todo
  <3>1. CASE s = t
    BY <2>1, <2>2, <3>1 DEF Dirty
  <3>2. CASE s # t
    BY <2>1, <2>2, <3>2 DEF Recent
  <3> QED
    BY <3>1, <3>2
 <2> QED
   BY <1>4, <2>2 DEF FlushInv
<1>5. ASSUME NEW t \in Persisters, Commit(t), up PROVE FlushInv'
 <2> SUFFICES ASSUME ~failed, NEW x \in Dirty, x # tx.user
              PROVE  \/ users[x].last >= nextTick - INTERVAL
                     \/ \E s \in Persisters :
                           \/ run'[s].pc = "indices" /\ Recent(s, x)'
                           \/ run'[s].pc = "upsert" /\ x \in run'[s].todo
   BY <1>5, CommitShape, DirtyCommit DEF FlushInv, books, clock
 <2>1. /\ run'[t].pc = run[t].pc /\ run'[t].start = run[t].start
       /\ run'[t].todo = run[t].todo \ {tx.user} /\ users' = users
       /\ \A s \in Persisters \ {t} : run'[s] = run[s]
   BY <1>0, <1>5, CommitShape DEF books
 <2>2. ASSUME NEW s \in Persisters,
              \/ run[s].pc = "indices" /\ Recent(s, x)
              \/ run[s].pc = "upsert" /\ x \in run[s].todo
       PROVE  \/ run'[s].pc = "indices" /\ Recent(s, x)'
              \/ run'[s].pc = "upsert" /\ x \in run'[s].todo
   BY <2>1, <2>2 DEF Recent
 <2> QED
   BY <1>5, <2>2 DEF FlushInv
<1>6. ASSUME NEW t \in Persisters, Done(t), up PROVE FlushInv'
 <2>0. Ends(t) /\ run[t].pc = "upsert" /\ run[t].todo = {} /\ failed' = failed
   BY <1>6 DEF Done
 <2>1. /\ \A s \in Persisters \ {t} : run'[s] = run[s]
       /\ UNCHANGED <<users, stats, nextTick>>
   BY <1>0, <2>0, EndsShape DEF books, tables
 <2> SUFFICES ASSUME ~failed, NEW x \in Dirty
              PROVE  \/ users[x].last >= nextTick - INTERVAL
                     \/ \E s \in Persisters :
                           \/ run'[s].pc = "indices" /\ Recent(s, x)'
                           \/ run'[s].pc = "upsert" /\ x \in run'[s].todo
   BY <2>0, <2>1 DEF FlushInv, Dirty
 <2>2. ASSUME NEW s \in Persisters,
              \/ run[s].pc = "indices" /\ Recent(s, x)
              \/ run[s].pc = "upsert" /\ x \in run[s].todo
       PROVE  \/ run'[s].pc = "indices" /\ Recent(s, x)'
              \/ run'[s].pc = "upsert" /\ x \in run'[s].todo
  <3>1. s # t
    BY <2>0, <2>2
  <3> QED
    BY <2>1, <2>2, <3>1 DEF Recent
 <2> QED
   BY <1>6, <2>2 DEF FlushInv
<1>7. CASE (\E t \in Persisters : Fails(t)) \/ Crash
  BY <1>7 DEF Fails, Crash, FlushInv
<1>8. CASE Restart
  BY <1>8, DirtyRestart DEF FlushInv
<1> QED
  BY <1>1, <1>2, <1>3, <1>4, <1>5, <1>6, <1>7, <1>8, FlushFrame
     DEF Next, TickFires, SignalComes, Persisters

\* Who is to be written and is not among the users of a run stays out of its
\* window.
LEMMA WindowNext == IInv /\ [Next]_vars => WindowInv'
<1> SUFFICES ASSUME IInv, [Next]_vars PROVE WindowInv'
  OBVIOUS
<1> USE DEF IInv
<1>0. TypeOK
  OBVIOUS
<1>1. CASE UNCHANGED <<users, stats, run, up, failed, nextTick>>
  BY <1>1 DEF WindowInv, Dirty, Recent
<1>2. ASSUME NEW u \in Users, NEW r \in Reserves, NEW h \in Health,
             RecordUser(u, r, h)
      PROVE  WindowInv'
 <2>1. \A t \in Persisters : run[t].pc # "upsert"
   BY <1>2, NoneIsFresh DEF RecordUser, HolderInv
 <2> QED
   BY <1>2, <2>1 DEF RecordUser, WindowInv, runs
<1>3. ASSUME NEW t \in Persisters, Begin(t) PROVE WindowInv'
 <2>1. /\ run'[t].pc = "indices" /\ UNCHANGED <<users, stats>>
       /\ \A s \in Persisters \ {t} : run'[s] = run[s]
   BY <1>0, <1>3, BeginShape DEF books, tables
 <2> QED
   BY <2>1 DEF WindowInv, Dirty, Recent
<1>4. ASSUME NEW t \in Persisters, LockUsers(t) PROVE WindowInv'
 <2>1. /\ holder = None /\ run'[t].start = run[t].start
       /\ run'[t].todo = {u \in DOMAIN users : Recent(t, u)}
       /\ UNCHANGED <<users, stats>>
       /\ \A s \in Persisters \ {t} : run'[s] = run[s]
   BY <1>0, <1>4, LockShape DEF books, tables
 <2>2. \A s \in Persisters \ {t} : run'[s].pc # "upsert"
   BY <2>1, NoneIsFresh DEF HolderInv
 <2>3. \A u \in Dirty' : u \in run'[t].todo \/ ~Recent(t, u)'
   BY <2>1 DEF Dirty, Recent
 <2> QED
   BY <2>2, <2>3 DEF WindowInv
<1>5. ASSUME NEW t \in Persisters, Commit(t) PROVE WindowInv'
 <2>1. /\ run'[t].pc = run[t].pc /\ run'[t].start = run[t].start
       /\ run'[t].todo = run[t].todo \ {tx.user} /\ users' = users
       /\ \A s \in Persisters \ {t} : run'[s] = run[s]
   BY <1>0, <1>5, CommitShape DEF books
 <2>2. Dirty' \subseteq Dirty \ {tx.user}
   BY <1>5, DirtyCommit
 <2> QED
   BY <2>1, <2>2 DEF WindowInv, Recent
<1>6. ASSUME NEW t \in Persisters, Done(t) \/ Fails(t) PROVE WindowInv'
 <2>1. Ends(t)
   BY <1>6 DEF Done, Fails
 <2>2. /\ run'[t].pc = "idle" /\ UNCHANGED <<users, stats>>
       /\ \A s \in Persisters \ {t} : run'[s] = run[s]
   BY <1>0, <2>1, EndsShape DEF Idle, books, tables
 <2> QED
   BY <2>2 DEF WindowInv, Dirty, Recent
<1>7. CASE Crash \/ Restart
  BY <1>7 DEF Crash, Restart, Idle, WindowInv
<1> QED
  BY <1>1, <1>2, <1>3, <1>4, <1>5, <1>6, <1>7, FlushFrame
     DEF Next, TickFires, SignalComes, Persisters

\* The inductive invariant holds for ever.
LEMMA Invariant == Spec => []IInv
<1>1. IInv /\ [Next]_vars => IInv'
  BY TypeNext, HolderNext, RunNext, ClockNext, TxNext, FlushNext, WindowNext,
     StatsNext DEF IInv
<1> QED
  BY <1>1, InitInv, PTL DEF Spec

-----------------------------------------------------------------------------
\* The theorems.

\* Every variable of the process and of the tables has its type, for any users,
\* reserves, persisters and clock: what is loaded at a start is of listed
\* reserves, and no time that is recorded lies ahead (database.rs:640-700,
\* fanatic.rs:100-150).
THEOREM TypeCorrect == Spec => []TypeOK
  BY Invariant, PTL DEF IInv

\* No statement that fails, no lost transaction and no crash leaves a user with
\* a row in positions and none in stats: the inner join at the next start drops
\* nobody (upsert_user_data, database.rs:620-691).
THEOREM RowsHaveStats == Spec => []PositionsHaveStats
  BY Invariant, PTL DEF IInv

\* Only a commit ends a transaction and leaves its run among its users.
LEMMA CommittedIsCommit ==
    ASSUME IInv, [Next]_vars, Committed
    PROVE  \E t \in Persisters : Commit(t)
<1> USE DEF IInv
<1>0. /\ tx # NoTx /\ tx' = NoTx /\ run'[holder].pc = "upsert"
      /\ holder \in Persisters /\ tx.user \in Users
  BY DEF Committed, TxInv, TypeOK
<1>1. tx' # tx
  BY <1>0
<1>2. ASSUME NEW t \in Persisters, Fails(t) PROVE FALSE
 <2>1. holder = t
   BY <1>1, <1>2 DEF Fails
 <2>2. run'[t] = Idle
   BY <1>2, EndsShape DEF Fails
 <2> QED
   BY <1>0, <2>1, <2>2 DEF Idle
<1>3. ASSUME NEW r \in Reserves, UpsertPosition(r) PROVE FALSE
 <2>1. tx'.user = tx.user
   BY <1>3 DEF UpsertPosition, TypeOK
 <2> QED
   BY <1>0, <2>1, NoneIsFresh DEF NoTx
<1>4. ~Crash /\ ~Restart
 <2>1. Crash \/ Restart => run'[holder] = Idle
   BY <1>0 DEF Crash, Restart
 <2> QED
   BY <1>0, <2>1 DEF Idle
<1>5. /\ ~\E u \in Users, r \in Reserves, h \in Health : RecordUser(u, r, h)
      /\ ~\E u \in Users : ChainMoves(u)
      /\ ~TimePasses /\ ~UNCHANGED vars
  BY <1>1 DEF RecordUser, ChainMoves, TimePasses, vars, runs
<1>6. ~SignalComes /\ ~\E t \in Ticks : TickFires(t)
  BY <1>1 DEF SignalComes, TickFires, Begin
<1>7. ASSUME NEW t \in Persisters,
             LockUsers(t) \/ Done(t) \/ \E u \in Users : UpsertUserData(t, u)
      PROVE  FALSE
  BY <1>0, <1>1, <1>7 DEF LockUsers, Done, UpsertUserData
<1> QED
  BY <1>2, <1>3, <1>4, <1>5, <1>6, <1>7 DEF Next

\* The rows of a user with positions are, after the commit, the positions the
\* chain had when they were read: what DELETE wrongly removes is inserted again
\* by the same transaction, for any number of reserves (database.rs:637-676).
THEOREM RowsAreReplaced == Spec => PositionsReplaced
<1>1. IInv /\ [Next]_vars =>
         [Committed /\ tx.held # {} => RowsAfter(tx.user) = tx.held]_vars
 <2> SUFFICES ASSUME IInv, [Next]_vars, Committed, tx.held # {}
              PROVE  RowsAfter(tx.user) = tx.held
   OBVIOUS
 <2> USE DEF IInv
 <2>1. tx # NoTx /\ tx.left = {} /\ positions' = tx.positions
   BY CommittedIsCommit DEF Commit
 <2>2. /\ \A p \in tx.positions : p.user = tx.user => p.reserve \in tx.held
       /\ \A r \in tx.held :
             [user |-> tx.user, reserve |-> r] \in tx.positions
   BY <2>1 DEF TxInv
 <2>3. RowsAfter(tx.user) \subseteq tx.held
   BY <2>1, <2>2 DEF RowsAfter
 <2>4. ASSUME NEW r \in tx.held PROVE r \in RowsAfter(tx.user)
  <3> DEFINE p == [user |-> tx.user, reserve |-> r]
  <3>1. p \in positions' /\ p.user = tx.user /\ p.reserve = r
    BY <2>1, <2>2
  <3> HIDE DEF p
  <3> QED
    BY <3>1 DEF RowsAfter
 <2> QED
   BY <2>3, <2>4
<1> QED
  BY <1>1, Invariant, PTL DEF Spec, PositionsReplaced

\* When the last run under way ends, and none has failed since the start, memory
\* and table agree.  A user who is to be written then would lie before the
\* window of the run that ends (WindowInv), so before the last tick, and would
\* be in the hands of another run (FlushInv); there is none (fanatic.rs:108-150).
THEOREM EveryRunFlushes == Spec => RunsFlush
<1>1. IInv /\ [Next]_vars =>
         [~Quiet /\ Quiet' /\ up /\ ~failed' /\ (\E t \in Persisters : Done(t))
             => Dirty' = {}]_vars
 <2> SUFFICES ASSUME IInv, Quiet', up, ~failed', NEW t \in Persisters, Done(t),
                     NEW x \in Dirty'
              PROVE  FALSE
   OBVIOUS
 <2> USE DEF IInv
 <2>0. Ends(t) /\ run[t].pc = "upsert" /\ run[t].todo = {} /\ failed' = failed
   BY DEF Done
 <2>1. /\ \A s \in Persisters \ {t} : run'[s] = run[s]
       /\ UNCHANGED <<users, stats>>
   BY <2>0, EndsShape DEF books, tables
 <2>2. x \in Dirty
   BY <2>1 DEF Dirty
 <2>3. ~Recent(t, x)
   BY <2>0, <2>2 DEF WindowInv
 <2>4. ~(users[x].last >= nextTick - INTERVAL)
  <3>1. /\ now \in Int /\ nextTick \in Int /\ users[x].last \in Int
        /\ run[t].start \in Int
    BY <2>2, Types DEF Dirty
  <3>2. run[t].start <= now /\ now <= nextTick
    BY DEF RunInv, ClockInv
  <3>3. run[t].start - users[x].last >= SECS
    BY <2>3, <3>1 DEF Recent, SECS
  <3> QED
    BY <3>1, <3>2, <3>3 DEF INTERVAL, SECS
 <2>5. PICK s \in Persisters :
          \/ run[s].pc = "indices" /\ Recent(s, x)
          \/ run[s].pc = "upsert" /\ x \in run[s].todo
   BY <2>0, <2>2, <2>4 DEF FlushInv
 <2>6. s # t
   BY <2>0, <2>5
 <2>7. run[s].pc = "idle"
   BY <2>1, <2>6 DEF Quiet
 <2> QED
   BY <2>5, <2>7
<1> QED
  BY <1>1, Invariant, PTL DEF Spec, RunsFlush
=============================================================================
