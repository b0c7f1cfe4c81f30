-------------------------- MODULE FreshnessProofs ---------------------------
(***************************************************************************)
(* More theorems about Oracle: its types, and that no row of a reserve     *)
(* ever goes back to an older price or index, for any number of reserves,  *)
(* feeds, upgrades, logs in line and restarts.                             *)
(***************************************************************************)
EXTENDS OracleProofs

-----------------------------------------------------------------------------
\* The inductive invariant, on top of OInv.

\* Before the listeners start nothing is in line for them.
LineInv == pc # "up" => mapping = << >> /\ answers = << >> /\ updates = << >>

\* The mapping and the rows tell the same of a reserve.
MappingInv == \A a \in DOMAIN mapping : rows[mapping[a]] = a

\* What the answer of a feed's proxy is.
Latest(f) == answer[<<f, phase[f]>>]

\* An aggregator that has been replaced stays behind.
PhaseInv ==
    \A f \in Feeds : \A p \in 1..phase[f] : answer[<<f, p>>] <= Latest(f)

\* The loop of _init_reserves: the price of a reserve it has left is known,
\* except of the one it is at.
FoundInv ==
    /\ todo \subseteq DOMAIN found
    /\ pc # "insert" => tx = {}
    /\ pc = "insert" => todo = {}
    /\ pc \in {"lookup", "insert"} =>
          \A r \in DOMAIN found \ todo : found[r].price # None
    /\ pc = "price" =>
          \E x \in DOMAIN found \ todo :
             \A r \in DOMAIN found \ todo : r # x => found[r].price # None

\* What the loop has read is not ahead of the chain.
FoundBehind ==
    \A r \in DOMAIN found :
        /\ found[r].index <= index[r]
        /\ found[r].price # None =>
              \A f \in DOMAIN found[r].price : found[r].price[f] <= Latest(f)

\* Nor is a row.
RowsBehind ==
    \A r \in DOMAIN stats :
        /\ stats[r].index <= index[r]
        /\ \A f \in DOMAIN stats[r].price : stats[r].price[f] <= Latest(f)

\* The logs the price listener has yet to deal with, by their addresses.
Pending == {answers[i] : i \in 1..Len(answers)}
              \cup {a \in {oracle.at} : oracle.pc \in {"read", "store"}}

\* No row is ahead of an aggregator that has a log in line: it was not replaced
\* when it emitted the log, so its answer was the feed's.
Covers(a) ==
    /\ a \in Aggregators /\ a[2] <= phase[a[1]]
    /\ \A r \in DOMAIN rows :
          rows[r] = a /\ a[1] \in DOMAIN stats[r].price =>
              stats[r].price[a[1]] <= answer[a]
PendingInv == \A a \in Pending : Covers(a)

\* The price that is about to be stored lies between the row and the chain.
StoreInv ==
    oracle.pc = "store" =>
        LET f == oracle.at[1]
            row == stats[mapping[oracle.at]].price
        IN  /\ DOMAIN oracle.price = {f}
            /\ oracle.price[f] <= answer[oracle.at]
            /\ f \in DOMAIN row => row[f] <= oracle.price[f]

\* The indices in line are of reserves, no older than the row's, in the order
\* they had on chain, and not ahead of it.
Update == [reserve : Reserves, index : 0..MaxIndex]
Timely(u) ==
    /\ u \in Update /\ u.index <= index[u.reserve]
    /\ u.reserve \in DOMAIN rows => stats[u.reserve].index <= u.index
UpdatesInv ==
    /\ updates \in Seq(Update)
    /\ \A i \in 1..Len(updates) :
          /\ Timely(updates[i])
          /\ \A j \in 1..i :
                updates[j].reserve = updates[i].reserve =>
                    updates[j].index <= updates[i].index
UpsertInv ==
    events.pc = "upsert" =>
        LET u == events.log IN
        /\ Timely(u)
        /\ \A i \in 1..Len(updates) :
              updates[i].reserve = u.reserve => u.index <= updates[i].index

FInv ==
    /\ OInv /\ TypeOK
    /\ LineInv /\ MappingInv
    /\ FoundInv /\ FoundBehind
    /\ PhaseInv /\ RowsBehind /\ PendingInv /\ StoreInv
    /\ UpdatesInv /\ UpsertInv

-----------------------------------------------------------------------------
\* Lemmas on the types.

\* The empty map is a map, and no leg has answered in it.
LEMMA EmptyMap == \A S, T : IsMap(<< >>, S, T)
<1> SUFFICES ASSUME NEW S, NEW T PROVE IsMap(<< >>, S, T)
  OBVIOUS
<1>1. DOMAIN << >> = {}
  OBVIOUS
<1>2. << >> \in [DOMAIN << >> -> T]
  BY <1>1
<1> QED
  BY <1>1, <1>2 DEF IsMap

\* The price without legs.
LEMMA EmptyPrice == << >> \in Prices
<1>1. << >> \in [{} -> 0..MaxRound]
  OBVIOUS
<1> QED
  BY <1>1 DEF Prices

\* A price has a round for each of its feeds.
LEMMA PriceShape ==
    ASSUME NEW p \in Prices
    PROVE  /\ DOMAIN p \subseteq Feeds
           /\ \A f \in DOMAIN p : p[f] \in 0..MaxRound
  BY DEF Prices

\* And whatever has one is a price.
LEMMA PriceIntro ==
    ASSUME NEW fs \in SUBSET Feeds, NEW p \in [fs -> 0..MaxRound]
    PROVE  p \in Prices
  BY DEF Prices

\* What the chain says is of the types.
LEMMA ChainTypes ==
    ASSUME TypeOK
    PROVE  /\ \A f \in Feeds : \A p \in 1..phase[f] :
                 <<f, p>> \in Aggregators /\ answer[<<f, p>>] \in 0..MaxRound
           /\ \A f \in Feeds :
                 /\ phase[f] \in 1..MaxPhase
                 /\ <<f, phase[f]>> \in Aggregators
                 /\ Latest(f) \in 0..MaxRound
           /\ \A r \in Reserves : index[r] \in 0..MaxIndex
           /\ \A a \in Aggregators : answer[a] \in 0..MaxRound
<1>1. \A f \in Feeds : phase[f] \in 1..MaxPhase
  BY DEF TypeOK
<1>2. \A f \in Feeds : \A p \in 1..phase[f] : <<f, p>> \in Aggregators
 <2> SUFFICES ASSUME NEW f \in Feeds, NEW p \in 1..phase[f]
              PROVE  <<f, p>> \in Aggregators
   OBVIOUS
 <2>1. p \in 1..MaxPhase
   BY <1>1, OracleAssumption
 <2> QED
   BY <2>1 DEF Aggregators
<1>3. \A f \in Feeds : <<f, phase[f]>> \in Aggregators
  BY <1>1 DEF Aggregators
<1>4. \A a \in Aggregators : answer[a] \in 0..MaxRound
  BY DEF TypeOK
<1>5. \A r \in Reserves : index[r] \in 0..MaxIndex
  BY DEF TypeOK
<1> QED
  BY <1>1, <1>2, <1>3, <1>4, <1>5 DEF Latest

\* The same as numbers, which is all that comparing them needs.
LEMMA ChainNumbers ==
    ASSUME TypeOK
    PROVE  /\ \A f \in Feeds : phase[f] \in Nat /\ Latest(f) \in Int
           /\ \A f \in Feeds : phase[f] \in 1..phase[f]
           /\ \A f \in Feeds : \A p \in 1..phase[f] :
                 <<f, p>> \in Aggregators /\ answer[<<f, p>>] \in Int
           /\ \A r \in Reserves : index[r] \in Int
<1>1. ASSUME NEW f \in Feeds
      PROVE  phase[f] \in Nat /\ phase[f] \in 1..phase[f]
 <2>1. phase[f] \in 1..MaxPhase /\ MaxPhase \in Nat
   BY ChainTypes, OracleAssumption
 <2> QED
   BY <2>1
<1>2. ASSUME NEW f \in Feeds PROVE Latest(f) \in Int
 <2>1. Latest(f) \in 0..MaxRound
   BY ChainTypes
 <2> QED
   BY <2>1
<1>3. ASSUME NEW f \in Feeds, NEW p \in 1..phase[f]
      PROVE  <<f, p>> \in Aggregators /\ answer[<<f, p>>] \in Int
 <2>1. <<f, p>> \in Aggregators /\ answer[<<f, p>>] \in 0..MaxRound
   BY ChainTypes
 <2> QED
   BY <2>1
<1>4. ASSUME NEW r \in Reserves PROVE index[r] \in Int
 <2>1. index[r] \in 0..MaxIndex
   BY ChainTypes
 <2> QED
   BY <2>1
<1> QED
  BY <1>1, <1>2, <1>3, <1>4

\* Rows are of the types.
LEMMA RowTypes ==
    ASSUME TypeOK, NEW r \in DOMAIN rows
    PROVE  /\ r \in Reserves /\ r \in DOMAIN stats
           /\ stats[r] \in Row
           /\ stats[r].index \in 0..MaxIndex
           /\ stats[r].price \in Prices
           /\ DOMAIN stats[r].price \subseteq Feeds
           /\ \A f \in DOMAIN stats[r].price : stats[r].price[f] \in 0..MaxRound
<1>1. r \in Reserves /\ r \in DOMAIN stats /\ stats[r] \in Row
  BY DEF TypeOK, IsMap
<1>2. stats[r].index \in 0..MaxIndex /\ stats[r].price \in Prices
  BY <1>1 DEF Row
<1> QED
  BY <1>1, <1>2, PriceShape

\* latestAnswer() is a round, of an aggregator and of a proxy.
LEMMA AnswerTypes ==
    ASSUME TypeOK
    PROVE  /\ \A a \in Addresses : LatestAnswer(a) \in 0..MaxRound
           /\ \A a \in Aggregators : LatestAnswer(a) = answer[a]
           /\ \A f \in Feeds : LatestAnswer(<<f, 0>>) = Latest(f)
<1>1. \A a \in Aggregators : LatestAnswer(a) = answer[a]
  BY DEF LatestAnswer, Aggregators
<1>2. \A f \in Feeds : LatestAnswer(<<f, 0>>) = Latest(f)
  BY DEF LatestAnswer, Latest
<1>3. ASSUME NEW a \in Addresses PROVE LatestAnswer(a) \in 0..MaxRound
 <2>1. a[1] \in Feeds /\ a = <<a[1], a[2]>> /\ a[2] \in 0..MaxPhase
   BY <1>3 DEF Addresses
 <2>2. CASE a[2] = 0
   BY <2>1, <2>2, <1>2, ChainTypes
 <2>3. CASE a[2] # 0
  <3>1. a \in Aggregators
    BY <2>1, <2>3, OracleAssumption DEF Aggregators
  <3> QED
    BY <3>1, <1>1, ChainTypes
 <2> QED
   BY <2>2, <2>3
<1> QED
  BY <1>1, <1>2, <1>3

\* What the bot reads is a price.
LEMMA ReadTypes ==
    ASSUME TypeOK
    PROVE  /\ \A a \in Addresses : AggregatorPrice(a) \in Prices
           /\ \A r \in Reserves : OraclePrice(r) \in Prices
                                  /\ LegSet(r) \subseteq Feeds
<1>1. ASSUME NEW a \in Addresses PROVE AggregatorPrice(a) \in Prices
 <2>1. {a[1]} \in SUBSET Feeds
   BY <1>1 DEF Addresses
 <2>2. AggregatorPrice(a) \in [{a[1]} -> 0..MaxRound]
   BY <1>1, AnswerTypes DEF AggregatorPrice
 <2> QED
   BY <2>1, <2>2, PriceIntro
<1>2. ASSUME NEW r \in Reserves
      PROVE  OraclePrice(r) \in Prices /\ LegSet(r) \subseteq Feeds
 <2>1. Legs[r] \in Seq(Feeds)
   BY <1>2, OracleAssumption
 <2>2. LegSet(r) \in SUBSET Feeds
   BY <2>1 DEF LegSet
 <2>3. \A f \in Feeds : LatestAnswer(<<f, 0>>) \in 0..MaxRound
   BY AnswerTypes, ChainTypes
 <2>4. OraclePrice(r) \in [LegSet(r) -> 0..MaxRound]
   BY <2>2, <2>3 DEF OraclePrice
 <2> QED
   BY <2>2, <2>4, PriceIntro
<1> QED
  BY <1>1, <1>2


-----------------------------------------------------------------------------
\* It holds at first.

\* The invariant holds before the first start.
LEMMA InitFInv == Init => FInv
<1> SUFFICES ASSUME Init PROVE FInv
  OBVIOUS
<1>0. /\ DOMAIN rows = {} /\ DOMAIN stats = {} /\ DOMAIN found = {}
      /\ DOMAIN mapping = {} /\ DOMAIN memory = {}
      /\ Len(answers) = 0 /\ Len(updates) = 0
  BY DEF Init
<1>1. TypeOK
 <2>1. /\ answer \in [Aggregators -> 0..MaxRound]
       /\ phase \in [Feeds -> 1..MaxPhase]
       /\ index \in [Reserves -> 0..MaxIndex]
       /\ starts \in 0..MaxStarts
   BY OracleAssumption DEF Init
 <2>2. /\ IsMap(rows, Reserves, Addresses \cup {None})
       /\ IsMap(stats, Reserves, Row) /\ DOMAIN stats = DOMAIN rows
       /\ IsMap(memory, Reserves, Prices)
       /\ IsMap(found, Reserves, [aggregator : Addresses \cup {None},
                                  price : Prices \cup {None},
                                  index : 0..MaxIndex])
       /\ IsMap(mapping, Addresses, Reserves)
   BY EmptyMap DEF Init
 <2>3. oracle \in [pc : {"off", "mapping", "subscribe", "wait", "read",
                         "store", "tell", "told", "stuck", "down"},
                   at : Addresses \cup {None}, price : Prices]
   BY EmptyPrice DEF Init, OracleOff
 <2>4. answers \in Seq(Aggregators) /\ Len(answers) <= Backlog
   BY OracleAssumption DEF Init
 <2>5. /\ pc \in {"off", "reserves", "node", "lookup", "price", "insert",
                  "ready", "up"}
       /\ events.pc \in {"off", "subscribe", "wait", "upsert", "down"}
   BY DEF Init, EventsOff
 <2>6. /\ moved \subseteq Feeds /\ lagged \in BOOLEAN
       /\ todo \subseteq Reserves /\ tx \subseteq DOMAIN found
   BY DEF Init
 <2> QED
   BY <2>1, <2>2, <2>3, <2>4, <2>5, <2>6 DEF TypeOK
<1>2. LineInv /\ MappingInv /\ FoundBehind /\ RowsBehind /\ UpdatesInv
  BY <1>0 DEF Init, LineInv, MappingInv, FoundBehind, RowsBehind, UpdatesInv
<1>3. FoundInv
  BY DEF Init, FoundInv
<1>4. PhaseInv
 <2>1. \A f \in Feeds : phase[f] = 1
   BY DEF Init
 <2>2. \A f \in Feeds, p \in 1..1 : p = 1
   OBVIOUS
 <2>3. \A f \in Feeds : answer[<<f, 1>>] \in Int
   BY <1>1, <2>1, ChainTypes
 <2> QED
   BY <2>1, <2>2, <2>3 DEF PhaseInv, Latest
<1>5. PendingInv /\ StoreInv /\ UpsertInv
  BY <1>0 DEF Init, PendingInv, Pending, StoreInv, UpsertInv, OracleOff,
              EventsOff
<1> QED
  BY <1>1, <1>2, <1>3, <1>4, <1>5, InitOInv DEF FInv

-----------------------------------------------------------------------------
\* What an action leaves alone.

\* The steps that neither move the chain nor touch a row.
LEMMA Frame ==
    /\ StartStep /\ ~CommitReserves =>
          UNCHANGED <<chain, tables, stream, updates>>
    /\ ProcessEnds \/ FollowerPanics => UNCHANGED <<chain, tables>>
    /\ PriceListenerStep /\ ~UpdateOraclePrice =>
          UNCHANGED <<chain, tables, boot, updated>>
    /\ FanaticHangs \/ SubscriptionEnds =>
          UNCHANGED <<chain, tables, boot, updated, memory, stream>>
    /\ EventListenerStep /\ ~UpsertReservesStats =>
          UNCHANGED <<chain, tables, boot, memory, oracle, stream>>
<1>1. StartStep /\ ~CommitReserves =>
          UNCHANGED <<chain, tables, stream, updates>>
  BY DEF StartStep, FanaticNew, GetReserves, GetReservesData, LookUpAggregator,
         ReadOraclePrice, UpsertReserve, StartListening, listeners, updated
<1>2. ProcessEnds \/ FollowerPanics => UNCHANGED <<chain, tables>>
  BY DEF ProcessEnds, FollowerPanics
<1>3. PriceListenerStep /\ ~UpdateOraclePrice =>
         UNCHANGED <<chain, tables, boot, updated>>
  BY DEF PriceListenerStep, GetAggregatorMapping, SubscribeLogs, TakeAnswer,
         ReadAnswer, UpdateReservePrice, FanaticAnswers
<1>4. FanaticHangs \/ SubscriptionEnds =>
         UNCHANGED <<chain, tables, boot, updated, memory, stream>>
  BY DEF FanaticHangs, SubscriptionEnds
<1>5. EventListenerStep /\ ~UpsertReservesStats =>
         UNCHANGED <<chain, tables, boot, memory, oracle, stream>>
  BY DEF EventListenerStep, SubscribeEvents, TakeUpdate, EventsEnd
<1> QED
  BY <1>1, <1>2, <1>3, <1>4, <1>5

\* A new round: one aggregator's answer grows, and if the listener hears it, it
\* is the last in line.
LEMMA RoundShape ==
    ASSUME TypeOK, NEW f \in Feeds, NewRound(f)
    PROVE  /\ answer[<<f, phase[f]>>] < MaxRound
           /\ answer' = [answer EXCEPT ![<<f, phase[f]>>] = @ + 1]
           /\ answers' \in Seq(Aggregators) /\ Len(answers') <= Backlog
           /\ \A i \in 1..Len(answers') :
                 \/ answers'[i] = <<f, phase[f]>>
                 \/ \E j \in 1..Len(answers) : answers'[i] = answers[j]
           /\ ~Listening => answers' = answers
           /\ lagged' \in BOOLEAN
           /\ moved' \subseteq Feeds
           /\ UNCHANGED <<phase, index, tables, memory, boot, oracle, mapping,
                          updated>>
<1> DEFINE a == <<f, phase[f]>>
<1>0. a \in Aggregators
  BY ChainTypes
<1>1. answers \in Seq(Aggregators) /\ Len(answers) \in Nat
      /\ Len(answers) <= Backlog /\ Backlog \in Nat \ {0}
  BY OracleAssumption DEF TypeOK
<1>2. moved' \subseteq Feeds
  BY DEF NewRound, TypeOK
<1>3. \/ UNCHANGED <<answers, lagged>>
      \/ Listening /\ Len(answers) < Backlog /\ answers' = Append(answers, a)
            /\ lagged' = lagged
      \/ Listening /\ ~(Len(answers) < Backlog) /\ lagged' = TRUE
            /\ answers' = Append(Tail(answers), a)
  BY DEF NewRound, AnswerUpdated, Heard
<1> HIDE DEF a
<1>4. CASE UNCHANGED <<answers, lagged>>
 <2>1. lagged' \in BOOLEAN
   BY <1>4 DEF TypeOK
 <2>2. answers' \in Seq(Aggregators) /\ Len(answers') <= Backlog
       /\ \A i \in 1..Len(answers') : answers'[i] = answers[i]
   BY <1>1, <1>4
 <2> QED
   BY <1>2, <1>4, <2>1, <2>2 DEF NewRound
<1>5. CASE Listening /\ Len(answers) < Backlog /\ answers' = Append(answers, a)
             /\ lagged' = lagged
 <2>1. lagged' \in BOOLEAN
   BY <1>5 DEF TypeOK
 <2>2. answers' \in Seq(Aggregators) /\ Len(answers') <= Backlog
   BY <1>0, <1>1, <1>5
 <2>3. \A i \in 1..Len(answers') :
          answers'[i] = a \/ \E j \in 1..Len(answers) : answers'[i] = answers[j]
   BY <1>0, <1>1, <1>5
 <2> QED
   BY <1>2, <1>5, <2>1, <2>2, <2>3 DEF NewRound, a
<1>6. CASE Listening /\ ~(Len(answers) < Backlog) /\ lagged' = TRUE
             /\ answers' = Append(Tail(answers), a)
 <2>1. /\ Tail(answers) \in Seq(Aggregators)
       /\ Len(Tail(answers)) = Len(answers) - 1
       /\ \A i \in 1..Len(answers) - 1 : Tail(answers)[i] = answers[i + 1]
   BY <1>1, <1>6
 <2>2. answers' \in Seq(Aggregators) /\ Len(answers') = Len(answers)
   BY <1>0, <1>1, <1>6, <2>1
 <2>3. \A i \in 1..Len(answers') :
          answers'[i] = a \/ \E j \in 1..Len(answers) : answers'[i] = answers[j]
   BY <1>0, <1>1, <1>6, <2>1, <2>2
 <2> QED
   BY <1>1, <1>2, <1>6, <2>2, <2>3 DEF NewRound, a
<1> QED
  BY <1>3, <1>4, <1>5, <1>6


\* A price is stored in one row.
LEMMA StoreShape ==
    ASSUME TypeOK, OInv, UpdateOraclePrice
    PROVE  LET r0 == mapping[oracle.at] IN
           /\ r0 \in DOMAIN rows
           /\ stats' = [r \in DOMAIN rows |->
                           [price |-> IF r = r0 THEN oracle.price
                                                ELSE stats[r].price,
                            index |-> stats[r].index]]
<1> DEFINE r0 == mapping[oracle.at]
<1>1. r0 \in DOMAIN rows
  BY DEF OInv, ShapeInv, UpdateOraclePrice
<1>2. /\ stats' = [stats EXCEPT ![r0].price = oracle.price]
      /\ stats = [r \in DOMAIN rows |-> [price |-> stats[r].price,
                                         index |-> stats[r].index]]
  BY DEF OInv, ShapeInv, UpdateOraclePrice
<1> HIDE DEF r0
<1>3. stats' = [r \in DOMAIN rows |->
                   [price |-> IF r = r0 THEN oracle.price ELSE stats[r].price,
                    index |-> stats[r].index]]
  BY <1>1, <1>2
<1> QED
  BY <1>1, <1>3 DEF r0

\* Indices are written to one row, or to none.
LEMMA UpsertShape ==
    ASSUME OInv, UpsertReservesStats
    PROVE  LET u == events.log IN
           \/ stats' = stats
           \/ /\ u.reserve \in DOMAIN rows
              /\ stats' = [r \in DOMAIN rows |->
                            [price |-> stats[r].price,
                             index |-> IF r = u.reserve THEN u.index
                                                        ELSE stats[r].index]]
<1> DEFINE r0 == events.log.reserve
           n == events.log.index
<1>1. /\ \/ stats' = stats
         \/ r0 \in DOMAIN rows /\ stats' = [stats EXCEPT ![r0].index = n]
      /\ stats = [r \in DOMAIN rows |-> [price |-> stats[r].price,
                                         index |-> stats[r].index]]
  BY DEF OInv, ShapeInv, UpsertReservesStats
<1> HIDE DEF r0, n
<1>2. \/ stats' = stats
      \/ /\ r0 \in DOMAIN rows
         /\ stats' = [r \in DOMAIN rows |->
                         [price |-> stats[r].price,
                          index |-> IF r = r0 THEN n ELSE stats[r].index]]
  BY <1>1
<1> QED
  BY <1>2 DEF r0, n

\* Whatever is in the form of a row is one.
LEMMA RowIntro ==
    ASSUME NEW p \in Prices, NEW n \in 0..MaxIndex
    PROVE  [price |-> p, index |-> n] \in Row
  BY DEF Row

-----------------------------------------------------------------------------
\* Typing.

Listener == [pc : {"off", "mapping", "subscribe", "wait", "read", "store",
                   "tell", "told", "stuck", "down"},
             at : Addresses \cup {None}, price : Prices]
Finding == [aggregator : Addresses \cup {None}, price : Prices \cup {None},
            index : 0..MaxIndex]

\* The parts of TypeOK, for the steps that change one of them.
ChainOK ==
    /\ answer \in [Aggregators -> 0..MaxRound]
    /\ phase \in [Feeds -> 1..MaxPhase]
    /\ index \in [Reserves -> 0..MaxIndex]
TablesOK ==
    /\ IsMap(rows, Reserves, Addresses \cup {None})
    /\ IsMap(stats, Reserves, Row) /\ DOMAIN stats = DOMAIN rows
BootOK ==
    /\ pc \in {"off", "reserves", "node", "lookup", "price", "insert", "ready",
               "up"}
    /\ starts \in 0..MaxStarts
    /\ todo \subseteq Reserves /\ tx \subseteq DOMAIN found
    /\ IsMap(found, Reserves, Finding)
StreamOK ==
    /\ IsMap(mapping, Addresses, Reserves)
    /\ answers \in Seq(Aggregators) /\ Len(answers) <= Backlog
    /\ moved \subseteq Feeds /\ lagged \in BOOLEAN
EventsOK == events.pc \in {"off", "subscribe", "wait", "upsert", "down"}

\* The type invariant, by groups of variables.
LEMMA TypeParts ==
    TypeOK <=> /\ ChainOK /\ TablesOK /\ IsMap(memory, Reserves, Prices)
               /\ BootOK /\ oracle \in Listener /\ StreamOK /\ EventsOK
  BY DEF TypeOK, ChainOK, TablesOK, BootOK, StreamOK,
          EventsOK, Listener, Finding

\* The same of the next state.
LEMMA TypePartsNext ==
    TypeOK' <=> /\ ChainOK' /\ TablesOK' /\ IsMap(memory, Reserves, Prices)'
                /\ BootOK' /\ (oracle \in Listener)' /\ StreamOK' /\ EventsOK'
  BY DEF TypeOK, ChainOK, TablesOK, BootOK, StreamOK,
          EventsOK, Listener, Finding

\* What is unchanged keeps its type.
LEMMA TypeStays ==
    ASSUME TypeOK
    PROVE  /\ UNCHANGED chain => ChainOK'
           /\ UNCHANGED tables => TablesOK'
           /\ UNCHANGED memory => IsMap(memory, Reserves, Prices)'
           /\ UNCHANGED boot => BootOK'
           /\ UNCHANGED oracle => (oracle \in Listener)'
           /\ UNCHANGED stream => StreamOK'
           /\ UNCHANGED events => EventsOK'
<1> USE TypeParts
<1>1. UNCHANGED chain => ChainOK'
  BY DEF chain, ChainOK
<1>2. UNCHANGED tables => TablesOK'
  BY DEF tables, TablesOK
<1>3. UNCHANGED memory => IsMap(memory, Reserves, Prices)'
  BY DEF IsMap
<1>4. UNCHANGED boot => BootOK'
  BY DEF boot, BootOK
<1>5. UNCHANGED oracle => (oracle \in Listener)'
  OBVIOUS
<1>6. UNCHANGED stream => StreamOK'
  BY DEF stream, StreamOK
<1>7. UNCHANGED events => EventsOK'
  BY DEF EventsOK
<1> QED
  BY <1>1, <1>2, <1>3, <1>4, <1>5, <1>6, <1>7

\* A listener that is not about to store has any of its places, and no price.
LEMMA ListenerOff ==
    \A p \in {"off", "mapping", "subscribe", "wait", "down"} :
        [OracleOff EXCEPT !.pc = p] \in Listener /\ OracleOff \in Listener
  BY EmptyPrice DEF OracleOff, Listener

\* The chain keeps its types.
LEMMA ChainTypeNext ==
    ASSUME FInv, ChainMoves
    PROVE  TypeOK'
<1> USE DEF FInv
<1>0. TypeOK /\ ChainOK /\ BootOK /\ StreamOK
  BY TypeParts
<1>1. ASSUME NEW f \in Feeds, NewRound(f) PROVE TypeOK'
 <2>1. /\ answer' = [answer EXCEPT ![<<f, phase[f]>>] = @ + 1]
       /\ answers' \in Seq(Aggregators) /\ Len(answers') <= Backlog
       /\ lagged' \in BOOLEAN
       /\ moved' \subseteq Feeds
       /\ answer[<<f, phase[f]>>] < MaxRound
       /\ UNCHANGED <<phase, index, tables, memory, boot, oracle, mapping,
                      updated>>
   BY <1>0, <1>1, RoundShape
 <2>2. answer[<<f, phase[f]>>] + 1 \in 0..MaxRound
   BY <1>0, <2>1, ChainTypes, OracleAssumption
 <2>3. ChainOK'
   BY <1>0, <2>1, <2>2 DEF ChainOK
 <2>4. StreamOK'
   BY <1>0, <2>1 DEF StreamOK
 <2> QED
   BY <1>0, <2>1, <2>3, <2>4, TypeStays, TypePartsNext DEF updated
<1>2. ASSUME NEW f \in Feeds, NewPhase(f) PROVE TypeOK'
 <2>1. /\ phase' = [phase EXCEPT ![f] = @ + 1]
       /\ answer' = [answer EXCEPT ![<<f, phase[f] + 1>>] =
                        LatestAnswer(<<f, 0>>)]
       /\ phase[f] < MaxPhase
       /\ UNCHANGED <<index, tables, memory, boot, oracle, stream, updated>>
   BY <1>2 DEF NewPhase, listeners
 <2>2. phase[f] + 1 \in 1..MaxPhase
  <3>1. phase[f] \in 1..MaxPhase /\ MaxPhase \in Nat
    BY <1>0, ChainTypes, OracleAssumption
  <3>2. phase[f] < MaxPhase
    BY <2>1
  <3> QED
    BY <3>1, <3>2
 <2>3. LatestAnswer(<<f, 0>>) \in 0..MaxRound
   BY <1>0, AnswerTypes, ChainTypes
 <2>4. ChainOK'
   BY <1>0, <2>1, <2>2, <2>3 DEF ChainOK
 <2> QED
   BY <1>0, <2>1, <2>4, TypeStays, TypePartsNext DEF updated
<1>3. ASSUME NEW r \in Reserves, ReserveDataUpdated(r) PROVE TypeOK'
 <2>1. /\ index[r] < MaxIndex /\ index' = [index EXCEPT ![r] = @ + 1]
       /\ UNCHANGED <<answer, phase, tables, memory, boot, oracle, stream,
                      events>>
   BY <1>3 DEF ReserveDataUpdated
 <2>2. index[r] + 1 \in 0..MaxIndex
   BY <1>0, <2>1, ChainTypes, OracleAssumption
 <2>3. ChainOK'
   BY <1>0, <2>1, <2>2 DEF ChainOK
 <2> QED
   BY <1>0, <2>1, <2>3, TypeStays, TypePartsNext
<1> QED
  BY <1>1, <1>2, <1>3 DEF ChainMoves


\* What the loop of _init_reserves finds is of the types.
LEMMA FoundTypes ==
    ASSUME TypeOK
    PROVE  /\ \A s \in SUBSET Reserves :
                 IsMap([r \in s |-> [aggregator |-> None, price |-> None,
                                     index |-> index[r]]], Reserves, Finding)
           /\ \A r \in Reserves : \A a \in Lookups(r) :
                 IsMap([found EXCEPT ![r].aggregator = a], Reserves, Finding)
           /\ \A r \in Reserves :
                 IsMap([found EXCEPT ![r].price = OraclePrice(r)], Reserves,
                       Finding)
<1>0. /\ DOMAIN found \subseteq Reserves /\ found \in [DOMAIN found -> Finding]
      /\ \A r \in Reserves : index[r] \in 0..MaxIndex
  BY TypeParts, ChainTypes DEF BootOK, IsMap
<1>1. ASSUME NEW s \in SUBSET Reserves
      PROVE  IsMap([r \in s |-> [aggregator |-> None, price |-> None,
                                 index |-> index[r]]], Reserves, Finding)
  BY <1>0 DEF IsMap, Finding
<1>2. ASSUME NEW r \in Reserves, NEW a \in Lookups(r)
      PROVE  IsMap([found EXCEPT ![r].aggregator = a], Reserves, Finding)
 <2>1. a \in Addresses \cup {None}
  <3>1. CASE a = None
    BY <3>1
  <3>2. CASE a # None
   <4> DEFINE feed == Legs[r][1]
   <4>1. Kind[r] # "fixed" /\ a = Resolved(r)
    <5>1. a \in (IF Kind[r] = "fixed" THEN {} ELSE {Resolved(r)})
      BY <3>2 DEF Lookups
    <5>2. Kind[r] # "fixed"
      BY <5>1
    <5> QED
      BY <5>1, <5>2
   <4>2. Legs[r] \in Seq(Feeds) /\ Legs[r] # << >>
    <5>1. Legs[r] \in Seq(Feeds)
      BY OracleAssumption
    <5>2. Legs[r] # << >>
      BY <4>1, OracleAssumption, Zenon
    <5> QED
      BY <5>1, <5>2
   <4>3. feed \in Feeds
     BY <4>2
   <4> HIDE DEF feed
   <4>4. phase[feed] \in 0..MaxPhase
    <5>1. phase[feed] \in 1..MaxPhase
      BY <4>3, ChainTypes
    <5> QED
      BY <5>1
   <4>5. 0 \in 0..MaxPhase
     BY OracleAssumption
   <4>6. a = <<feed, 0>> \/ a = <<feed, phase[feed]>>
     BY <4>1 DEF Resolved, feed
   <4> QED
     BY <4>3, <4>4, <4>5, <4>6 DEF Addresses
  <3> QED
    BY <3>1, <3>2
 <2>2. r \in DOMAIN found => [found[r] EXCEPT !.aggregator = a] \in Finding
   BY <1>0, <2>1 DEF Finding
 <2> QED
   BY <1>0, <2>2 DEF IsMap
<1>3. ASSUME NEW r \in Reserves
      PROVE  IsMap(
                [found EXCEPT ![r].price = OraclePrice(r)], Reserves, Finding)
 <2>1. OraclePrice(r) \in Prices
   BY ReadTypes
 <2>2. r \in DOMAIN found =>
            [found[r] EXCEPT !.price = OraclePrice(r)] \in Finding
   BY <1>0, <2>1 DEF Finding
 <2> QED
   BY <1>0, <2>2 DEF IsMap
<1> QED
  BY <1>1, <1>2, <1>3

\* The start keeps its types.
LEMMA StartTypeNext ==
    ASSUME FInv, StartStep
    PROVE  TypeOK'
<1> USE DEF FInv
<1>0. TypeOK /\ ChainOK /\ TablesOK /\ BootOK /\ StreamOK
  BY TypeParts
<1>1. CASE FanaticNew
 <2>1. /\ UNCHANGED <<chain, tables, todo, found, tx, listeners>>
       /\ starts' \in 0..MaxStarts /\ pc' = "reserves"
  <3>1. starts < MaxStarts /\ starts' = starts + 1 /\ starts \in 0..MaxStarts
    BY <1>0, <1>1 DEF FanaticNew, BootOK
  <3>2. starts' \in 0..MaxStarts
    BY <3>1, OracleAssumption
  <3> QED
    BY <1>1, <3>2 DEF FanaticNew
 <2>2. BootOK'
   BY <1>0, <2>1 DEF BootOK, IsMap
 <2>3. IsMap(memory, Reserves, Prices)'
  <3>1. PICK used \in SUBSET DOMAIN rows :
           memory' = [r \in used |-> stats[r].price]
    BY <1>1 DEF FanaticNew
  <3>2. \A r \in used : r \in Reserves /\ stats[r].price \in Prices
    BY <1>0, RowTypes
  <3> QED
    BY <3>1, <3>2 DEF IsMap
 <2> QED
   BY <1>0, <2>1, <2>2, <2>3, TypeStays, TypePartsNext DEF listeners, updated
<1>2. ASSUME UNCHANGED <<chain, tables, memory, starts, listeners>>,
             pc' \in {"node", "lookup", "price", "insert", "ready"},
             todo' \subseteq Reserves, tx' \subseteq DOMAIN found',
             IsMap(found, Reserves, Finding)'
      PROVE  TypeOK'
 <2>1. BootOK'
   BY <1>0, <1>2 DEF BootOK
 <2> QED
   BY <1>0, <1>2, <2>1, TypeStays, TypePartsNext DEF listeners, updated
<1>3. CASE GetReserves
 <2>1. UNCHANGED found => IsMap(found, Reserves, Finding)'
   BY <1>0 DEF BootOK, IsMap
 <2> QED
   BY <1>0, <1>2, <1>3, <2>1 DEF GetReserves, BootOK
<1>4. CASE GetReservesData
 <2>1. /\ UNCHANGED <<chain, tables, memory, starts, tx, listeners>>
       /\ pc' = "lookup" /\ todo' \in SUBSET Reserves /\ pc = "node"
       /\ found' = [r \in todo' |-> [aggregator |-> None, price |-> None,
                                     index |-> index[r]]]
   BY <1>4 DEF GetReservesData
 <2>2. tx' = {}
   BY <2>1 DEF FoundInv
 <2>3. IsMap(found, Reserves, Finding)'
   BY <1>0, <2>1, FoundTypes DEF IsMap
 <2> QED
   BY <1>2, <2>1, <2>2, <2>3
<1>5. ASSUME NEW r \in Reserves, LookUpAggregator(r) PROVE TypeOK'
 <2>1. /\ UNCHANGED <<chain, tables, memory, starts, tx, listeners>>
       /\ pc' = "price" /\ todo' = todo \ {r}
       /\ \E a \in Lookups(r) : found' = [found EXCEPT ![r].aggregator = a]
   BY <1>5 DEF LookUpAggregator
 <2>2. IsMap(found, Reserves, Finding)' /\ DOMAIN found' = DOMAIN found
   BY <1>0, <2>1, FoundTypes DEF IsMap
 <2> QED
   BY <1>0, <1>2, <2>1, <2>2 DEF BootOK
<1>6. ASSUME NEW r \in Reserves, ReadOraclePrice(r) PROVE TypeOK'
 <2>1. /\ UNCHANGED <<chain, tables, memory, starts, todo, tx, listeners>>
       /\ pc' \in {"insert", "lookup"}
       /\ found' = [found EXCEPT ![r].price = OraclePrice(r)]
   BY <1>6 DEF ReadOraclePrice
 <2>2. IsMap(found, Reserves, Finding)' /\ DOMAIN found' = DOMAIN found
   BY <1>0, <2>1, FoundTypes DEF IsMap
 <2> QED
   BY <1>0, <1>2, <2>1, <2>2 DEF BootOK
<1>7. ASSUME NEW r \in Reserves, UpsertReserve(r) PROVE TypeOK'
 <2>1. /\ UNCHANGED <<chain, tables, memory, pc, starts, todo,
                      found, listeners>>
       /\ pc = "insert" /\ tx # DOMAIN found /\ tx' = tx \cup {r}
       /\ r = First(DOMAIN found \ tx)
   BY <1>7 DEF UpsertReserve
 <2>2. DOMAIN found \ tx # {}
   BY <1>0, <2>1 DEF BootOK
 <2>3. r \in DOMAIN found
   BY <2>1, <2>2 DEF First
 <2>4. IsMap(found, Reserves, Finding)'
   BY <1>0, <2>1 DEF BootOK, IsMap
 <2> QED
   BY <1>0, <1>2, <2>1, <2>3, <2>4 DEF BootOK
<1>8. CASE CommitReserves
 <2>1. /\ UNCHANGED <<chain, memory, starts, todo, listeners>>
       /\ pc = "insert" /\ tx = DOMAIN found
       /\ rows' = [r \in tx |-> found[r].aggregator]
       /\ stats' = [r \in tx |->
                       [price |-> found[r].price, index |-> found[r].index]]
       /\ pc' = "ready" /\ found' = << >> /\ tx' = {}
   BY <1>8 DEF CommitReserves, Inserted
 <2>2. BootOK'
   BY <1>0, <2>1, EmptyMap DEF BootOK
 <2>3. \A r \in tx : /\ r \in Reserves
                     /\ found[r].aggregator \in Addresses \cup {None}
                     /\ found[r].price \in Prices
                     /\ found[r].index \in 0..MaxIndex
  <3>1. \A r \in tx : r \in Reserves /\ found[r] \in Finding
    BY <1>0, <2>1 DEF BootOK, IsMap
  <3>2. \A r \in tx : found[r].price # None
    BY <2>1 DEF FoundInv
  <3> QED
    BY <3>1, <3>2 DEF Finding
 <2>4. TablesOK'
  <3>1. \A r \in tx :
           [price |-> found[r].price, index |-> found[r].index] \in Row
    BY <2>3, RowIntro
  <3>2. IsMap(stats, Reserves, Row)'
    BY <2>1, <2>3, <3>1 DEF IsMap
  <3>3. IsMap(rows, Reserves, Addresses \cup {None})'
    BY <2>1, <2>3 DEF IsMap
  <3> QED
    BY <2>1, <3>2, <3>3 DEF TablesOK
 <2> QED
   BY <1>0, <2>1, <2>2, <2>4, TypeStays, TypePartsNext DEF listeners, updated
<1>9. CASE StartListening
 <2>1. /\ UNCHANGED <<chain, tables, memory, starts, todo, found, tx, stream>>
       /\ pc' = "up"
       /\ oracle' = [OracleOff EXCEPT !.pc = "mapping"]
       /\ events' = [EventsOff EXCEPT !.pc = "subscribe"]
   BY <1>9 DEF StartListening
 <2>2. BootOK'
   BY <1>0, <2>1 DEF BootOK, IsMap
 <2>3. (oracle \in Listener)'
   BY <2>1, ListenerOff
 <2>4. EventsOK'
   BY <2>1 DEF EventsOK, EventsOff
 <2> QED
   BY <1>0, <2>1, <2>2, <2>3, <2>4, TypeStays, TypePartsNext
<1> QED
  BY <1>1, <1>3, <1>4, <1>5, <1>6, <1>7, <1>8, <1>9 DEF StartStep


\* The end of the process, and of the Follower.
LEMMA EndTypeNext ==
    ASSUME FInv, ProcessEnds \/ FollowerPanics
    PROVE  TypeOK'
<1> USE DEF FInv
<1>0. TypeOK /\ BootOK /\ StreamOK
  BY TypeParts
<1>1. << >> \in Seq(Aggregators) /\ Len(<< >>) <= Backlog
  BY OracleAssumption
<1>2. CASE ProcessEnds
 <2>1. /\ UNCHANGED <<chain, tables, starts>>
       /\ pc' = "off" /\ todo' = {} /\ found' = << >> /\ tx' = {}
       /\ memory' = << >> /\ oracle' = OracleOff /\ mapping' = << >>
       /\ answers' = << >> /\ events' = EventsOff
       /\ moved' = {} /\ lagged' = FALSE
   BY <1>2 DEF ProcessEnds
 <2>2. BootOK' /\ IsMap(memory, Reserves, Prices)'
   BY <1>0, <2>1, EmptyMap DEF BootOK
 <2>3. IsMap(mapping, Addresses, Reserves)'
   BY <2>1, EmptyMap
 <2>4. StreamOK'
   BY <1>1, <2>1, <2>3 DEF StreamOK
 <2>5. (oracle \in Listener)' /\ EventsOK'
   BY <2>1, ListenerOff DEF EventsOK, EventsOff
 <2> QED
   BY <1>0, <2>1, <2>2, <2>4, <2>5, TypeStays, TypePartsNext
<1>3. CASE FollowerPanics
 <2>1. /\ UNCHANGED <<chain, tables, memory, boot, mapping, moved, lagged>>
       /\ oracle' = [OracleOff EXCEPT !.pc = "down"]
       /\ events' = [EventsOff EXCEPT !.pc = "down"]
       /\ answers' = << >>
   BY <1>3 DEF FollowerPanics
 <2>2. StreamOK'
   BY <1>0, <1>1, <2>1 DEF StreamOK, IsMap
 <2>3. (oracle \in Listener)' /\ EventsOK'
   BY <2>1, ListenerOff DEF EventsOK, EventsOff
 <2> QED
   BY <1>0, <2>1, <2>2, <2>3, TypeStays, TypePartsNext
<1> QED
  BY <1>2, <1>3

\* The price listener changes its place, and at most one thing besides.
LEMMA PriceTypeNext ==
    ASSUME FInv, PriceListenerStep \/ FanaticHangs \/ SubscriptionEnds
    PROVE  TypeOK'
<1> USE DEF FInv
<1>0. TypeOK /\ TablesOK /\ oracle \in Listener /\ StreamOK
  BY TypeParts
<1>1. \A p \in {"subscribe", "wait", "read", "store", "tell", "told", "stuck",
                "down"} :
         [oracle EXCEPT !.pc = p] \in Listener
  BY <1>0 DEF Listener
<1>2. CASE GetAggregatorMapping
 <2>1. /\ UNCHANGED <<chain, tables, memory, boot, answers, updated, moved,
                      lagged>>
       /\ oracle' = [oracle EXCEPT !.pc = "subscribe"]
       /\ mapping' \in Mappings
   BY <1>2 DEF GetAggregatorMapping
 <2>2. IsMap(mapping, Addresses, Reserves)'
  <3> DEFINE S == {rows[r] : r \in DOMAIN rows} \ {None}
  <3>1. mapping' \in [S -> DOMAIN rows]
    BY <2>1 DEF Mappings
  <3>2. S \subseteq Addresses /\ DOMAIN rows \subseteq Reserves
    BY <1>0 DEF TablesOK, IsMap
  <3> HIDE DEF S
  <3> QED
    BY <3>1, <3>2 DEF IsMap
 <2>3. StreamOK'
   BY <1>0, <2>1, <2>2 DEF StreamOK
 <2> QED
   BY <1>0, <1>1, <2>1, <2>3, TypeStays, TypePartsNext DEF updated
<1>3. CASE TakeAnswer
 <2>1. /\ UNCHANGED <<chain, tables, memory, boot, mapping, updated, moved,
                      lagged>>
       /\ answers # << >> /\ answers' = Tail(answers)
       /\ oracle' = [oracle EXCEPT !.pc = "read", !.at = Head(answers)]
   BY <1>3 DEF TakeAnswer
 <2>2. /\ answers \in Seq(Aggregators)
        /\ Len(answers) <= Backlog /\ Backlog \in Nat
   BY <1>0, OracleAssumption DEF StreamOK
 <2>3. /\ Head(answers) \in Aggregators
       /\ answers' \in Seq(Aggregators) /\ Len(answers') <= Backlog
   BY <2>1, <2>2
 <2>4. Head(answers) \in Addresses
   BY <2>3 DEF Aggregators, Addresses
 <2>5. (oracle \in Listener)'
   BY <1>0, <2>1, <2>4 DEF Listener
 <2>6. StreamOK'
   BY <1>0, <2>1, <2>3 DEF StreamOK, IsMap
 <2> QED
   BY <1>0, <2>1, <2>5, <2>6, TypeStays, TypePartsNext DEF updated
<1>4. CASE ReadAnswer
 <2>1. /\ UNCHANGED <<chain, tables, memory, boot, stream, updated>>
       /\ \/ /\ oracle.at \in DOMAIN mapping
             /\ oracle' = [oracle EXCEPT !.pc = "store",
                                         !.price = AggregatorPrice(oracle.at)]
          \/ oracle' = [oracle EXCEPT !.pc = "wait", !.at = None]
   BY <1>4 DEF ReadAnswer
 <2>2. oracle.at \in DOMAIN mapping => AggregatorPrice(oracle.at) \in Prices
   BY <1>0, ReadTypes DEF StreamOK, IsMap
 <2>3. (oracle \in Listener)'
  <3> DEFINE p == AggregatorPrice(oracle.at)
  <3>1. p \in Prices => [oracle EXCEPT !.pc = "store", !.price = p] \in Listener
   <4> HIDE DEF p
   <4> QED
     BY <1>0 DEF Listener
  <3>2. [oracle EXCEPT !.pc = "wait", !.at = None] \in Listener
    BY <1>0 DEF Listener
  <3> QED
    BY <2>1, <2>2, <3>1, <3>2
 <2> QED
   BY <1>0, <2>1, <2>3, TypeStays, TypePartsNext DEF updated
<1>5. CASE UpdateOraclePrice
 <2>1. /\ UNCHANGED <<chain, rows, memory, boot, stream, updated>>
       /\ oracle' = [oracle EXCEPT !.pc = "tell"]
   BY <1>5 DEF UpdateOraclePrice
 <2>2. /\ DOMAIN stats' = DOMAIN rows
       /\ \A r \in DOMAIN rows : stats'[r] =
             [price |-> IF r = mapping[oracle.at] THEN oracle.price
                                                  ELSE stats[r].price,
              index |-> stats[r].index]
       /\ stats' \in [DOMAIN rows -> {stats'[r] : r \in DOMAIN rows}]
   BY <1>0, <1>5, StoreShape
 <2>3. oracle.price \in Prices
   BY <1>0 DEF Listener
 <2>4. \A r \in DOMAIN rows : stats'[r] \in Row
   BY <1>0, <2>2, <2>3, RowTypes, RowIntro
 <2>5. TablesOK'
   BY <1>0, <2>1, <2>2, <2>4 DEF TablesOK, IsMap
 <2> QED
   BY <1>0, <1>1, <2>1, <2>5, TypeStays, TypePartsNext DEF updated
<1>6. CASE UpdateReservePrice
 <2>1. /\ UNCHANGED <<chain, tables, boot, stream, updated>>
       /\ oracle' = [oracle EXCEPT !.pc = "told"]
       /\ memory' = [r \in DOMAIN memory |->
                        IF r = mapping[oracle.at] THEN oracle.price
                                                  ELSE memory[r]]
   BY <1>6 DEF UpdateReservePrice
 <2>2. IsMap(memory, Reserves, Prices) /\ oracle.price \in Prices
   BY <1>0, TypeParts DEF Listener
 <2>3. IsMap(memory, Reserves, Prices)'
   BY <2>1, <2>2 DEF IsMap
 <2> QED
   BY <1>0, <1>1, <2>1, <2>3, TypeStays, TypePartsNext DEF updated
<1>7. CASE SubscribeLogs \/ FanaticAnswers \/ FanaticHangs \/ SubscriptionEnds
 <2>1. /\ UNCHANGED <<chain, tables, memory, boot, stream, updated>>
       /\ \/ oracle' = [oracle EXCEPT !.pc = "wait"]
          \/ oracle' = [oracle EXCEPT !.pc = "stuck"]
          \/ oracle' = [OracleOff EXCEPT !.pc = "wait"]
          \/ oracle' = [OracleOff EXCEPT !.pc = "down"]
   BY <1>7 DEF SubscribeLogs, FanaticAnswers, FanaticHangs, SubscriptionEnds
 <2>2. (oracle \in Listener)'
   BY <1>1, <2>1, ListenerOff
 <2> QED
   BY <1>0, <2>1, <2>2, TypeStays, TypePartsNext DEF updated
<1> QED
  BY <1>2, <1>3, <1>4, <1>5, <1>6, <1>7 DEF PriceListenerStep

\* The other listener writes indices that are on chain.
LEMMA EventTypeNext ==
    ASSUME FInv, EventListenerStep
    PROVE  TypeOK'
<1> USE DEF FInv
<1>0. TypeOK /\ TablesOK /\ EventsOK
  BY TypeParts
<1>1. /\ UNCHANGED <<chain, rows, memory, boot, oracle, stream>>
      /\ EventsOK'
 <2>1. UNCHANGED <<chain, rows, memory, boot, oracle, stream>>
   BY DEF EventListenerStep, SubscribeEvents, TakeUpdate, UpsertReservesStats,
          EventsEnd, tables
 <2>2. SubscribeEvents => EventsOK'
   BY <1>0 DEF SubscribeEvents, EventsOK, OInv, ShapeInv
 <2>3. TakeUpdate \/ UpsertReservesStats \/ EventsEnd => EventsOK'
   BY DEF TakeUpdate, UpsertReservesStats, EventsEnd, EventsOff, EventsOK
 <2> QED
   BY <2>1, <2>2, <2>3 DEF EventListenerStep
<1>2. TablesOK'
 <2>1. CASE UpsertReservesStats
  <3> DEFINE u == events.log
  <3>1. CASE stats' = stats
    BY <1>0, <1>1, <3>1 DEF TablesOK, IsMap
  <3>2. CASE stats' # stats
   <4>1. /\ u.reserve \in DOMAIN rows
         /\ DOMAIN stats' = DOMAIN rows
         /\ \A r \in DOMAIN rows : stats'[r] =
               [price |-> stats[r].price,
                index |-> IF r = u.reserve THEN u.index ELSE stats[r].index]
         /\ stats' \in [DOMAIN rows -> {stats'[r] : r \in DOMAIN rows}]
     BY <2>1, <3>2, UpsertShape
   <4>2. u.index \in 0..MaxIndex
    <5>1. u \in Update
      BY <2>1 DEF UpsertInv, Timely, UpsertReservesStats
    <5> HIDE DEF u
    <5> QED
      BY <5>1 DEF Update
   <4>3. \A r \in DOMAIN rows : stats'[r] \in Row
     BY <1>0, <4>1, <4>2, RowTypes, RowIntro
   <4> QED
     BY <1>0, <1>1, <4>1, <4>3 DEF TablesOK, IsMap
  <3> QED
    BY <3>1, <3>2
 <2>2. CASE ~UpsertReservesStats
   BY <1>0, <2>2, Frame, TypeStays
 <2> QED
   BY <2>1, <2>2
<1> QED
  BY <1>0, <1>1, <1>2, TypeStays, TypePartsNext

\* Every step keeps the types.
LEMMA TypeNext == FInv /\ [Next]_vars => TypeOK'
<1> SUFFICES ASSUME FInv, [Next]_vars PROVE TypeOK'
  OBVIOUS
<1>1. CASE UNCHANGED vars
 <2>1. UNCHANGED <<chain, tables, memory, boot, oracle, stream, events>>
   BY <1>1 DEF vars, listeners, updated
 <2> QED
   BY <2>1, TypeStays, TypePartsNext DEF FInv
<1>2. CASE Next
  BY <1>2, ChainTypeNext, StartTypeNext, EndTypeNext, PriceTypeNext,
     EventTypeNext DEF Next
<1> QED
  BY <1>1, <1>2


-----------------------------------------------------------------------------
\* The start.

\* Nobody is listening before the process is up.
LEMMA LineNext == FInv /\ [Next]_vars => LineInv'
<1> SUFFICES ASSUME FInv, [Next]_vars PROVE LineInv'
  OBVIOUS
<1>0. LineInv /\ (pc # "up" => oracle.pc = "off" /\ events.pc = "off")
  BY DEF FInv, OInv, FillInv
<1>1. CASE UNCHANGED <<pc, mapping, answers, updates>>
  BY <1>0, <1>1 DEF LineInv
<1>2. ASSUME NEW f \in Feeds, NewRound(f) PROVE LineInv'
 <2>1. /\ ~Listening => answers' = answers
       /\ UNCHANGED <<pc, mapping, updates>>
   BY <1>2, RoundShape DEF FInv, boot, updated
 <2> QED
   BY <1>0, <2>1 DEF LineInv, Listening
<1>3. ASSUME NEW r \in Reserves, ReserveDataUpdated(r) PROVE LineInv'
  BY <1>0, <1>3 DEF ReserveDataUpdated, boot, stream, LineInv
<1>4. CASE StartStep
 <2>1. pc # "up" /\ UNCHANGED <<mapping, answers, updates>>
   BY <1>4 DEF StartStep, FanaticNew, GetReserves, GetReservesData,
               CommitReserves, StartListening, LookUpAggregator,
               ReadOraclePrice, UpsertReserve, listeners, stream, updated
 <2> QED
   BY <1>0, <2>1 DEF LineInv
<1>5. CASE ProcessEnds
  BY <1>5 DEF ProcessEnds, LineInv
<1>6. CASE FollowerPanics \/ PriceListenerStep \/ FanaticHangs
              \/ SubscriptionEnds \/ EventListenerStep
 <2>1. pc = "up"
   BY <1>0, <1>6
      DEF FollowerPanics, PriceListenerStep, FanaticHangs, SubscriptionEnds,
          EventListenerStep, GetAggregatorMapping, SubscribeLogs, TakeAnswer,
          ReadAnswer, UpdateOraclePrice, UpdateReservePrice, FanaticAnswers,
          SubscribeEvents, TakeUpdate, UpsertReservesStats, EventsEnd
 <2>2. pc' = pc
   BY <1>6, Frame DEF FollowerPanics, UpdateOraclePrice,
           UpsertReservesStats, boot
 <2> QED
   BY <2>1, <2>2 DEF LineInv
<1>7. (\E f \in Feeds : NewPhase(f)) \/ UNCHANGED vars =>
         UNCHANGED <<pc, mapping, answers, updates>>
  BY DEF NewPhase, vars, boot, listeners, stream, updated
<1> QED
  BY <1>1, <1>2, <1>3, <1>4, <1>5, <1>6, <1>7 DEF Next, ChainMoves

\* The mapping is read from the rows, which only change when there is none.
LEMMA MappingNext == FInv /\ [Next]_vars => MappingInv'
<1> SUFFICES ASSUME FInv, [Next]_vars PROVE MappingInv'
  OBVIOUS
<1>0. MappingInv
  BY DEF FInv
<1>1. CASE UNCHANGED <<rows, mapping>>
  BY <1>0, <1>1 DEF MappingInv
<1>2. CASE GetAggregatorMapping
  BY <1>2 DEF GetAggregatorMapping, Mappings, MappingInv, tables
<1>3. CASE CommitReserves
 <2>1. mapping' = << >>
   BY <1>3 DEF CommitReserves, FInv, LineInv, listeners, stream
 <2> QED
   BY <2>1 DEF MappingInv
<1>4. CASE ProcessEnds
  BY <1>4 DEF ProcessEnds, MappingInv
<1>5. CASE ChainMoves \/ FollowerPanics \/ FanaticHangs \/ SubscriptionEnds
             \/ UNCHANGED vars
  BY <1>1, <1>5
     DEF ChainMoves, NewRound, NewPhase, ReserveDataUpdated, FollowerPanics,
         FanaticHangs, SubscriptionEnds, vars, tables, listeners, stream
<1>6. CASE StartStep /\ ~CommitReserves
  BY <1>1, <1>6, Frame DEF tables, stream
<1>7. CASE PriceListenerStep /\ ~GetAggregatorMapping
  BY <1>1, <1>7
     DEF PriceListenerStep, SubscribeLogs, TakeAnswer, ReadAnswer,
         UpdateOraclePrice, UpdateReservePrice, FanaticAnswers, tables, stream
<1>8. CASE EventListenerStep
  BY <1>1, <1>8
     DEF EventListenerStep, SubscribeEvents, TakeUpdate, UpsertReservesStats,
         EventsEnd, tables, stream
<1> QED
  BY <1>2, <1>3, <1>4, <1>5, <1>6, <1>7, <1>8 DEF Next

\* The steps that leave the loop of _init_reserves alone.
LEMMA BootFrame ==
    ASSUME [Next]_vars
    PROVE  \/ UNCHANGED <<todo, found, tx>> /\ UNCHANGED pc
           \/ StartStep
           \/ ProcessEnds
<1>1. ChainMoves \/ FollowerPanics \/ UNCHANGED vars => UNCHANGED boot
  BY DEF ChainMoves, NewRound, NewPhase, ReserveDataUpdated, FollowerPanics,
          vars
<1>2. PriceListenerStep \/ FanaticHangs \/ SubscriptionEnds => UNCHANGED boot
  BY Frame DEF UpdateOraclePrice
<1>3. EventListenerStep => UNCHANGED boot
  BY Frame DEF UpsertReservesStats
<1> QED
  BY <1>1, <1>2, <1>3 DEF Next, boot

\* One reserve of the list, the one whose aggregator was looked up last, has no
\* price yet.
LEMMA FoundNext == FInv /\ [Next]_vars => FoundInv'
<1> SUFFICES ASSUME FInv, [Next]_vars PROVE FoundInv'
  OBVIOUS
<1>0. TypeOK /\ FoundInv
  BY DEF FInv
<1>1. CASE UNCHANGED <<todo, found, tx>> /\ UNCHANGED pc
  BY <1>0, <1>1 DEF FoundInv
<1>2. CASE FanaticNew \/ GetReserves \/ StartListening
 <2>1. /\ UNCHANGED <<todo, found, tx>>
       /\ pc \in {"off", "reserves", "ready"}
       /\ pc' \in {"reserves", "node", "ready", "up"}
   BY <1>2 DEF FanaticNew, GetReserves, StartListening
 <2> QED
   BY <1>0, <2>1 DEF FoundInv
<1>3. CASE GetReservesData
 <2>1. /\ pc = "node" /\ pc' = "lookup" /\ tx' = tx
       /\ DOMAIN found' = todo'
   BY <1>3 DEF GetReservesData
 <2> QED
   BY <1>0, <2>1 DEF FoundInv
<1>4. ASSUME NEW r \in Reserves, LookUpAggregator(r) PROVE FoundInv'
 <2>1. /\ pc = "lookup" /\ todo # {} /\ r = First(todo)
       /\ pc' = "price" /\ todo' = todo \ {r} /\ tx' = tx
   BY <1>4 DEF LookUpAggregator
 <2>2. r \in todo /\ r \in DOMAIN found
   BY <1>0, <2>1 DEF First, FoundInv
 <2>3. /\ DOMAIN found' = DOMAIN found
       /\ \A x \in DOMAIN found : found'[x].price = found[x].price
  <3>1. PICK a \in Lookups(r) : found' = [found EXCEPT ![r].aggregator = a]
    BY <1>4 DEF LookUpAggregator
  <3>2. \A x \in DOMAIN found : found[x] \in Finding
    BY <1>0, TypeParts DEF BootOK, IsMap
  <3>3. [found[r] EXCEPT !.aggregator = a].price = found[r].price
    BY <2>2, <3>2 DEF Finding
  <3> QED
    BY <1>0, <2>2, <3>1, <3>3
 <2>4. \A x \in DOMAIN found \ todo : found[x].price # None
   BY <1>0, <2>1 DEF FoundInv
 <2>5. \A x \in DOMAIN found' \ todo' : x # r => found'[x].price # None
   BY <2>1, <2>3, <2>4
 <2>6. r \in DOMAIN found' \ todo'
   BY <2>1, <2>2, <2>3
 <2> QED
   BY <1>0, <2>1, <2>3, <2>5, <2>6 DEF FoundInv
<1>5. ASSUME NEW r \in Reserves, ReadOraclePrice(r) PROVE FoundInv'
 <2>1. /\ pc = "price" /\ r \in DOMAIN found \ todo /\ found[r].price = None
       /\ pc' = (IF todo = {} THEN "insert" ELSE "lookup")
       /\ todo' = todo /\ tx' = tx
       /\ found' = [found EXCEPT ![r].price = OraclePrice(r)]
   BY <1>5 DEF ReadOraclePrice
 <2>2. PICK x \in DOMAIN found \ todo :
          \A y \in DOMAIN found \ todo : y # x => found[y].price # None
   BY <1>0, <2>1 DEF FoundInv
 <2>3. x = r
   BY <2>1, <2>2
 <2>4. OraclePrice(r) # None
   BY <1>0, ReadTypes, NoneIsFresh
 <2>5. /\ DOMAIN found' = DOMAIN found
       /\ found'[r].price = OraclePrice(r)
       /\ \A y \in DOMAIN found : y # r => found'[y] = found[y]
  <3>1. found[r] \in Finding
    BY <1>0, <2>1, TypeParts DEF BootOK, IsMap
  <3>2. [found[r] EXCEPT !.price = OraclePrice(r)].price = OraclePrice(r)
    BY <3>1 DEF Finding
  <3> QED
    BY <2>1, <3>2
 <2>6. \A y \in DOMAIN found' \ todo' : found'[y].price # None
   BY <2>1, <2>2, <2>3, <2>4, <2>5
 <2> QED
   BY <1>0, <2>1, <2>5, <2>6 DEF FoundInv
<1>6. ASSUME NEW r \in Reserves, UpsertReserve(r) PROVE FoundInv'
 <2>1. pc = "insert" /\ UNCHANGED <<pc, todo, found>>
   BY <1>6 DEF UpsertReserve
 <2> QED
   BY <1>0, <2>1 DEF FoundInv
<1>7. CASE CommitReserves
 <2>1. pc = "insert" /\ pc' = "ready" /\ todo' = todo /\ tx' = {}
   BY <1>7 DEF CommitReserves
 <2> QED
   BY <1>0, <2>1 DEF FoundInv
<1>8. CASE ProcessEnds
 <2>1. pc' = "off" /\ todo' = {} /\ tx' = {}
   BY <1>8 DEF ProcessEnds
 <2> QED
   BY <2>1 DEF FoundInv
<1> QED
  BY <1>1, <1>2, <1>3, <1>4, <1>5, <1>6, <1>7, <1>8, BootFrame DEF StartStep


-----------------------------------------------------------------------------
\* The chain, and what is behind it.

\* What is on chain only moves when ChainMoves does.
LEMMA ChainFrame ==
    ASSUME [Next]_vars
    PROVE  ChainMoves \/ UNCHANGED chain
<1>1. StartStep => UNCHANGED chain
  BY Frame DEF CommitReserves
<1>2. PriceListenerStep => UNCHANGED chain
  BY Frame DEF UpdateOraclePrice
<1>3. EventListenerStep => UNCHANGED chain
  BY Frame DEF UpsertReservesStats
<1>4. UNCHANGED vars => UNCHANGED chain
  BY DEF vars
<1> QED
  BY <1>1, <1>2, <1>3, <1>4, Frame DEF Next

\* The proxy's new aggregator takes over its answer.
LEMMA PhaseShape ==
    ASSUME TypeOK, NEW f \in Feeds, NewPhase(f)
    PROVE  /\ phase'[f] = phase[f] + 1
           /\ \A g \in Feeds : g # f => phase'[g] = phase[g]
           /\ answer'[<<f, phase[f] + 1>>] = Latest(f)
           /\ \A a \in Aggregators :
                 a # <<f, phase[f] + 1>> => answer'[a] = answer[a]
           /\ UNCHANGED <<index, tables, memory, boot, listeners>>
<1>1. phase[f] \in 1..MaxPhase /\ phase[f] < MaxPhase /\ MaxPhase \in Nat
  BY ChainTypes, OracleAssumption DEF NewPhase
<1>2. phase[f] + 1 \in 1..MaxPhase
  BY <1>1
<1>3. <<f, phase[f] + 1>> \in Aggregators
  BY <1>2 DEF Aggregators
<1>4. LatestAnswer(<<f, 0>>) = Latest(f)
  BY AnswerTypes
<1> QED
  BY <1>3, <1>4 DEF NewPhase, TypeOK

\* Nothing on chain goes back, and no answer that an aggregator in use or out of
\* use has given.
LEMMA ChainGrows ==
    ASSUME TypeOK, PhaseInv, [Next]_vars
    PROVE  /\ \A f \in Feeds : Latest(f)' \in Int /\ Latest(f) <= Latest(f)'
           /\ \A f \in Feeds :
                 phase'[f] \in Int /\ phase[f] <= phase'[f]
           /\ \A f \in Feeds : \A p \in 1..phase[f] :
                 /\ answer'[<<f, p>>] \in Int
                 /\ answer[<<f, p>>] <= answer'[<<f, p>>]
           /\ \A r \in Reserves : index'[r] \in Int /\ index[r] <= index'[r]
<1>0. /\ \A f \in Feeds : phase[f] \in Nat /\ Latest(f) \in Int
      /\ \A f \in Feeds : phase[f] \in 1..phase[f]
      /\ \A f \in Feeds : \A p \in 1..phase[f] :
            <<f, p>> \in Aggregators /\ answer[<<f, p>>] \in Int
      /\ \A r \in Reserves : index[r] \in Int
  BY ChainNumbers
<1>1. CASE UNCHANGED chain
  BY <1>0, <1>1 DEF chain, Latest
<1>2. ASSUME NEW g \in Feeds, NewRound(g)
      PROVE  /\ \A f \in Feeds : Latest(f)' \in Int /\ Latest(f) <= Latest(f)'
             /\ \A f \in Feeds : \A p \in 1..phase[f] :
                   /\ answer'[<<f, p>>] \in Int
                   /\ answer[<<f, p>>] <= answer'[<<f, p>>]
             /\ UNCHANGED <<phase, index>>
 <2>1. /\ answer' = [answer EXCEPT ![<<g, phase[g]>>] = @ + 1]
       /\ UNCHANGED <<phase, index>>
   BY <1>2 DEF NewRound
 <2>2. ASSUME NEW f \in Feeds, NEW p \in 1..phase[f]
       PROVE  /\ answer'[<<f, p>>] \in Int
              /\ answer[<<f, p>>] <= answer'[<<f, p>>]
  <3>1. <<f, p>> \in Aggregators /\ answer[<<f, p>>] \in Int
    BY <1>0
  <3>2. \/ answer'[<<f, p>>] = answer[<<f, p>>]
        \/ answer'[<<f, p>>] = answer[<<f, p>>] + 1
    BY <2>1, <3>1 DEF TypeOK
  <3> QED
    BY <3>1, <3>2
 <2> QED
   BY <1>0, <2>1, <2>2 DEF Latest
<1>3. ASSUME NEW g \in Feeds, NewPhase(g)
      PROVE  /\ \A f \in Feeds : Latest(f)' \in Int /\ Latest(f) <= Latest(f)'
             /\ \A f \in Feeds : \A p \in 1..phase[f] :
                   answer'[<<f, p>>] = answer[<<f, p>>]
             /\ \A f \in Feeds : phase'[f] \in Int /\ phase[f] <= phase'[f]
             /\ UNCHANGED index
 <2>1. /\ phase'[g] = phase[g] + 1
       /\ \A f \in Feeds : f # g => phase'[f] = phase[f]
       /\ answer'[<<g, phase[g] + 1>>] = Latest(g)
       /\ \A a \in Aggregators :
             a # <<g, phase[g] + 1>> => answer'[a] = answer[a]
       /\ UNCHANGED index
   BY <1>3, PhaseShape
 <2>2. \A f \in Feeds : \A p \in 1..phase[f] : <<f, p>> # <<g, phase[g] + 1>>
   BY <1>0
 <2>3. \A f \in Feeds : \A p \in 1..phase[f] :
          answer'[<<f, p>>] = answer[<<f, p>>]
   BY <1>0, <2>1, <2>2
 <2>4. ASSUME NEW f \in Feeds PROVE Latest(f)' = Latest(f)
  <3>1. CASE f = g
    BY <2>1, <3>1 DEF Latest
  <3>2. CASE f # g
    BY <1>0, <2>1, <2>3, <3>2 DEF Latest
  <3> QED
    BY <3>1, <3>2
 <2> QED
   BY <1>0, <2>1, <2>3, <2>4
<1>4. ASSUME NEW r \in Reserves, ReserveDataUpdated(r)
      PROVE  /\ \A x \in Reserves : index'[x] \in Int /\ index[x] <= index'[x]
             /\ UNCHANGED <<answer, phase>>
 <2>1. /\ index' = [index EXCEPT ![r] = @ + 1]
       /\ UNCHANGED <<answer, phase>>
   BY <1>4 DEF ReserveDataUpdated
 <2> QED
   BY <1>0, <2>1 DEF TypeOK
<1>5. CASE \E g \in Feeds : NewRound(g)
  BY <1>0, <1>2, <1>5
<1>6. CASE \E g \in Feeds : NewPhase(g)
  BY <1>0, <1>3, <1>6
<1>7. CASE \E r \in Reserves : ReserveDataUpdated(r)
 <2>1. \A f \in Feeds : Latest(f)' = Latest(f)
   BY <1>4, <1>7 DEF Latest
 <2> QED
   BY <1>0, <1>4, <1>7, <2>1
<1> QED
  BY <1>1, <1>5, <1>6, <1>7, ChainFrame DEF ChainMoves

\* An aggregator that is replaced has no answer that is newer than its
\* successor's.
LEMMA PhaseNext == FInv /\ [Next]_vars => PhaseInv'
<1> SUFFICES ASSUME FInv, [Next]_vars PROVE PhaseInv'
  OBVIOUS
<1>0. /\ TypeOK /\ PhaseInv
      /\ \A f \in Feeds : phase[f] \in Nat /\ Latest(f) \in Int
      /\ \A f \in Feeds : \A p \in 1..phase[f] :
            <<f, p>> \in Aggregators /\ answer[<<f, p>>] \in Int
  BY ChainNumbers DEF FInv
<1>1. CASE UNCHANGED <<answer, phase>>
  BY <1>0, <1>1 DEF PhaseInv, Latest
<1>2. ASSUME NEW g \in Feeds, NewRound(g) PROVE PhaseInv'
 <2>1. /\ answer' = [answer EXCEPT ![<<g, phase[g]>>] = @ + 1]
       /\ phase' = phase
   BY <1>2 DEF NewRound
 <2>2. ASSUME NEW f \in Feeds, NEW p \in 1..phase[f]
       PROVE  answer'[<<f, p>>] <= Latest(f)'
  <3>1. answer[<<f, p>>] <= Latest(f) /\ <<f, phase[f]>> \in Aggregators
    BY <1>0, ChainTypes DEF PhaseInv
  <3>2. Latest(f)' = IF f = g THEN Latest(f) + 1 ELSE Latest(f)
    BY <1>0, <2>1, <3>1 DEF TypeOK, Latest
  <3>3. answer'[<<f, p>>] = IF f = g /\ p = phase[g] THEN answer[<<f, p>>] + 1
                                                  ELSE answer[<<f, p>>]
    BY <1>0, <2>1 DEF TypeOK
  <3> QED
    BY <1>0, <3>1, <3>2, <3>3
 <2> QED
   BY <2>1, <2>2 DEF PhaseInv
<1>3. ASSUME NEW g \in Feeds, NewPhase(g) PROVE PhaseInv'
 <2>1. /\ phase'[g] = phase[g] + 1
       /\ \A f \in Feeds : f # g => phase'[f] = phase[f]
       /\ answer'[<<g, phase[g] + 1>>] = Latest(g)
       /\ \A a \in Aggregators :
             a # <<g, phase[g] + 1>> => answer'[a] = answer[a]
   BY <1>0, <1>3, PhaseShape
 <2>2. ASSUME NEW f \in Feeds, NEW p \in 1..phase'[f]
       PROVE  answer'[<<f, p>>] <= Latest(f)'
  <3>1. CASE p \in 1..phase[f]
   <4>1. answer[<<f, p>>] <= Latest(f) /\ <<f, p>> # <<g, phase[g] + 1>>
     BY <1>0, <3>1 DEF PhaseInv
   <4>2. answer'[<<f, p>>] = answer[<<f, p>>]
     BY <1>0, <2>1, <3>1, <4>1
   <4>3. Latest(f) <= Latest(f)'
     BY <1>0, ChainGrows
   <4>4. Latest(f)' \in Int
     BY <1>0, ChainGrows
   <4> QED
     BY <1>0, <3>1, <4>1, <4>2, <4>3, <4>4
  <3>2. CASE p \notin 1..phase[f]
   <4>1. f = g /\ p = phase[g] + 1
     BY <1>0, <2>1, <2>2, <3>2
   <4>2. Latest(f)' \in Int /\ answer'[<<f, p>>] = Latest(f)'
     BY <1>0, <2>1, <4>1, ChainGrows DEF Latest
   <4> QED
     BY <4>2
  <3> QED
    BY <3>1, <3>2
 <2> QED
   BY <2>2 DEF PhaseInv
<1>4. (\E r \in Reserves : ReserveDataUpdated(r)) \/ UNCHANGED chain =>
         UNCHANGED <<answer, phase>>
  BY DEF ReserveDataUpdated, chain
<1> QED
  BY <1>1, <1>2, <1>3, <1>4, ChainFrame DEF ChainMoves


-----------------------------------------------------------------------------
\* Rows and findings stay behind the chain.

\* What is behind the chain stays behind it.
LEMMA BehindStays ==
    ASSUME TypeOK, PhaseInv, [Next]_vars
    PROVE  /\ \A p \in Prices :
                 (\A f \in DOMAIN p : p[f] <= Latest(f)) =>
                     \A f \in DOMAIN p : p[f] <= Latest(f)'
           /\ \A r \in Reserves : \A n \in 0..MaxIndex :
                 n <= index[r] => n <= index'[r]
<1>1. ASSUME NEW p \in Prices, \A f \in DOMAIN p : p[f] <= Latest(f),
             NEW f \in DOMAIN p
      PROVE  p[f] <= Latest(f)'
 <2>1. f \in Feeds /\ p[f] \in 0..MaxRound
   BY PriceShape
 <2>2. Latest(f) \in Int /\ Latest(f)' \in Int /\ Latest(f) <= Latest(f)'
   BY <2>1, ChainNumbers, ChainGrows
 <2>3. p[f] <= Latest(f)
   BY <1>1
 <2> QED
   BY <2>1, <2>2, <2>3
<1>2. ASSUME NEW r \in Reserves, NEW n \in 0..MaxIndex, n <= index[r]
      PROVE  n <= index'[r]
 <2>1. index[r] \in Int /\ index'[r] \in Int /\ index[r] <= index'[r]
   BY ChainNumbers, ChainGrows
 <2> QED
   BY <1>2, <2>1
<1> QED
  BY <1>1, <1>2

\* What the loop has found is of the types.
LEMMA FindingTypes ==
    ASSUME TypeOK, NEW r \in DOMAIN found
    PROVE  /\ r \in Reserves /\ found[r] \in Finding
           /\ found[r].index \in 0..MaxIndex
           /\ found[r].price # None => found[r].price \in Prices
<1>1. r \in Reserves /\ found[r] \in Finding
  BY TypeParts DEF BootOK, IsMap
<1> QED
  BY <1>1 DEF Finding

\* The findings are what the chain said when it was asked.
LEMMA FoundBehindNext == FInv /\ [Next]_vars => FoundBehind'
<1> SUFFICES ASSUME FInv, [Next]_vars PROVE FoundBehind'
  OBVIOUS
<1>0. TypeOK /\ PhaseInv /\ FoundBehind
  BY DEF FInv
<1>1. ASSUME DOMAIN found' = DOMAIN found,
             \A r \in DOMAIN found : found'[r].price = found[r].price
                                        /\ found'[r].index = found[r].index
      PROVE  FoundBehind'
 <2> SUFFICES ASSUME NEW r \in DOMAIN found
              PROVE  /\ found[r].index <= index'[r]
                     /\ found[r].price # None =>
                           \A f \in DOMAIN found[r].price :
                              found[r].price[f] <= Latest(f)'
   BY <1>1 DEF FoundBehind
 <2>1. found[r].index <= index'[r]
   BY <1>0, FindingTypes, BehindStays DEF FoundBehind
 <2>2. ASSUME found[r].price # None
       PROVE  \A f \in DOMAIN found[r].price :
                 found[r].price[f] <= Latest(f)'
  <3>1. /\ found[r].price \in Prices
        /\ \A f \in DOMAIN found[r].price : found[r].price[f] <= Latest(f)
    BY <1>0, <2>2, FindingTypes DEF FoundBehind
  <3> DEFINE p == found[r].price
  <3> HIDE DEF p
  <3>2. \A f \in DOMAIN p : p[f] <= Latest(f)'
    BY <1>0, <3>1, BehindStays DEF p
  <3> QED
    BY <3>2 DEF p
 <2> QED
   BY <2>1, <2>2
<1>2. CASE UNCHANGED found
  BY <1>1, <1>2
<1>3. CASE GetReservesData
 <2>1. /\ found' = [r \in todo' |-> [aggregator |-> None, price |-> None,
                                     index |-> index[r]]]
       /\ index' = index /\ todo' \subseteq Reserves
   BY <1>3 DEF GetReservesData, chain
 <2>2. \A r \in todo' : index[r] \in Int
   BY <1>0, <2>1, ChainNumbers
 <2> QED
   BY <2>1, <2>2 DEF FoundBehind
<1>4. ASSUME NEW r \in Reserves, LookUpAggregator(r) PROVE FoundBehind'
 <2>1. PICK a \in Lookups(r) : found' = [found EXCEPT ![r].aggregator = a]
   BY <1>4 DEF LookUpAggregator
 <2>2. r \in DOMAIN found =>
          /\ [found[r] EXCEPT !.aggregator = a].price = found[r].price
          /\ [found[r] EXCEPT !.aggregator = a].index = found[r].index
   BY <1>0, FindingTypes DEF Finding
 <2> QED
   BY <1>1, <2>1, <2>2
<1>5. ASSUME NEW r \in Reserves, ReadOraclePrice(r) PROVE FoundBehind'
 <2>1. /\ r \in DOMAIN found /\ UNCHANGED <<answer, phase, index>>
       /\ found' = [found EXCEPT ![r].price = OraclePrice(r)]
   BY <1>5 DEF ReadOraclePrice, chain
 <2>2. \A f \in DOMAIN OraclePrice(r) : OraclePrice(r)[f] <= Latest(f)
  <3>1. \A f \in LegSet(r) :
           f \in Feeds /\ OraclePrice(r)[f] = LatestAnswer(<<f, 0>>)
    BY <1>0, ReadTypes DEF OraclePrice
  <3>2. \A f \in Feeds : LatestAnswer(<<f, 0>>) = Latest(f) /\ Latest(f) \in Int
    BY <1>0, AnswerTypes, ChainNumbers
  <3>3. DOMAIN OraclePrice(r) = LegSet(r)
    BY DEF OraclePrice
  <3>4. ASSUME NEW f \in DOMAIN OraclePrice(r)
        PROVE  OraclePrice(r)[f] <= Latest(f)
   <4>1. OraclePrice(r)[f] = Latest(f) /\ Latest(f) \in Int
     BY <3>1, <3>2, <3>3
   <4> QED
     BY <4>1
  <3> QED
    BY <3>4
 <2>3. found[r] \in Finding
   BY <1>0, <2>1, FindingTypes
 <2> DEFINE p == OraclePrice(r)
 <2> HIDE DEF p
 <2>4. /\ [found[r] EXCEPT !.price = p].price = p
       /\ [found[r] EXCEPT !.price = p].index = found[r].index
   BY <2>3 DEF Finding
 <2>5. /\ DOMAIN found' = DOMAIN found
       /\ \A x \in DOMAIN found : x # r => found'[x] = found[x]
       /\ found'[r] = [found[r] EXCEPT !.price = p]
   BY <2>1 DEF p
 <2>6. \A f \in Feeds : Latest(f)' = Latest(f)
   BY <2>1 DEF Latest
 <2>7. \A f \in DOMAIN p : p[f] <= Latest(f)'
   BY <2>1, <2>2 DEF p, Latest
 <2>8. ASSUME NEW x \in DOMAIN found'
       PROVE  /\ found'[x].index <= index'[x]
              /\ found'[x].price # None =>
                    \A f \in DOMAIN found'[x].price :
                       found'[x].price[f] <= Latest(f)'
  <3>1. CASE x = r
   <4>1. found'[x].index = found[r].index /\ found'[x].price = p
     BY <2>4, <2>5, <3>1
   <4> QED
     BY <1>0, <2>1, <2>7, <3>1, <4>1 DEF FoundBehind
  <3>2. CASE x # r
   <4>1. found'[x] = found[x] /\ x \in DOMAIN found
     BY <2>5, <3>2
   <4> QED
     BY <1>0, <2>1, <4>1 DEF FoundBehind, Latest
  <3> QED
    BY <3>1, <3>2
 <2> QED
   BY <2>8 DEF FoundBehind
<1>6. CASE CommitReserves \/ ProcessEnds
 <2>1. found' = << >>
   BY <1>6 DEF CommitReserves, ProcessEnds
 <2> QED
   BY <2>1 DEF FoundBehind
<1>7. (\E r \in Reserves : UpsertReserve(r)) \/ FanaticNew \/ GetReserves
          \/ StartListening => UNCHANGED found
  BY DEF UpsertReserve, FanaticNew, GetReserves, StartListening
<1> QED
  BY <1>2, <1>3, <1>4, <1>5, <1>6, <1>7, BootFrame DEF StartStep

\* The steps that write to a row.
LEMMA TablesFrame ==
    ASSUME [Next]_vars
    PROVE  UNCHANGED tables \/ CommitReserves \/ UpdateOraclePrice
              \/ UpsertReservesStats
<1>1. ChainMoves \/ UNCHANGED vars => UNCHANGED tables
  BY DEF ChainMoves, NewRound, NewPhase, ReserveDataUpdated, vars
<1> QED
  BY <1>1, Frame DEF Next

\* No row is ahead of the chain.
LEMMA RowsNext == FInv /\ [Next]_vars => RowsBehind'
<1> SUFFICES ASSUME FInv, [Next]_vars PROVE RowsBehind'
  OBVIOUS
<1>0. TypeOK /\ OInv /\ PhaseInv /\ RowsBehind /\ DOMAIN stats = DOMAIN rows
  BY DEF FInv, TypeOK
<1>1. \A r \in DOMAIN rows :
         /\ stats[r].index <= index'[r]
         /\ \A f \in DOMAIN stats[r].price : stats[r].price[f] <= Latest(f)'
 <2> SUFFICES ASSUME NEW r \in DOMAIN rows
              PROVE  /\ stats[r].index <= index'[r]
                     /\ \A f \in DOMAIN stats[r].price :
                           stats[r].price[f] <= Latest(f)'
   OBVIOUS
 <2>1. /\ r \in Reserves /\ stats[r].index \in 0..MaxIndex
        /\ stats[r].price \in Prices
   BY <1>0, RowTypes
 <2>2. /\ stats[r].index <= index[r]
       /\ \A f \in DOMAIN stats[r].price : stats[r].price[f] <= Latest(f)
   BY <1>0 DEF RowsBehind
 <2> DEFINE p == stats[r].price
 <2> HIDE DEF p
 <2>3. \A f \in DOMAIN p : p[f] <= Latest(f)'
   BY <1>0, <2>1, <2>2, BehindStays DEF p
 <2>4. stats[r].index <= index'[r]
   BY <1>0, <2>1, <2>2, BehindStays
 <2> QED
   BY <2>3, <2>4 DEF p
<1>2. CASE UNCHANGED tables
  BY <1>0, <1>1, <1>2 DEF RowsBehind, tables
<1>3. CASE CommitReserves
 <2>1. /\ pc = "insert" /\ tx = DOMAIN found
        /\ UNCHANGED <<answer, phase, index>>
       /\ stats' = [r \in tx |->
                       [price |-> found[r].price, index |-> found[r].index]]
   BY <1>3 DEF CommitReserves, Inserted, chain
 <2>2. \A r \in tx :
          /\ found[r].index <= index[r]
          /\ \A f \in DOMAIN found[r].price : found[r].price[f] <= Latest(f)
   BY <2>1 DEF FInv, FoundInv, FoundBehind
 <2> QED
   BY <2>1, <2>2 DEF RowsBehind, Latest
<1>4. CASE UpdateOraclePrice
 <2>1. /\ DOMAIN stats' = DOMAIN rows
       /\ \A r \in DOMAIN rows :
             /\ stats'[r].index = stats[r].index
             /\ stats'[r].price = IF r = mapping[oracle.at] THEN oracle.price
                                                            ELSE stats[r].price
       /\ UNCHANGED <<answer, phase, index>> /\ oracle.pc = "store"
   BY <1>0, <1>4, StoreShape DEF UpdateOraclePrice, chain
 <2>2. \A f \in DOMAIN oracle.price : oracle.price[f] <= Latest(f)
  <3> DEFINE f == oracle.at[1]
  <3>1. /\ DOMAIN oracle.price = {f}
        /\ oracle.price[f] <= answer[oracle.at]
    BY <2>1 DEF FInv, StoreInv
  <3>2. Covers(oracle.at)
    BY <2>1 DEF FInv, PendingInv, Pending
  <3>3. /\ oracle.at = <<f, oracle.at[2]>> /\ f \in Feeds
        /\ oracle.at[2] \in 1..phase[f]
   <4>1. oracle.at \in Aggregators /\ oracle.at[2] <= phase[f]
     BY <3>2 DEF Covers
   <4>2. /\ oracle.at = <<f, oracle.at[2]>> /\ f \in Feeds
         /\ oracle.at[2] \in 1..MaxPhase
     BY <4>1 DEF Aggregators
   <4>3. phase[f] \in Nat
     BY <1>0, <4>2, ChainNumbers
   <4>4. \A n \in 1..MaxPhase, m \in Nat : n <= m => n \in 1..m
     OBVIOUS
   <4> QED
     BY <4>1, <4>2, <4>3, <4>4
  <3>4. answer[oracle.at] <= Latest(f)
    BY <1>0, <3>3 DEF PhaseInv
  <3>5. answer[oracle.at] \in Int /\ Latest(f) \in Int
    BY <1>0, <3>3, ChainNumbers
  <3>6. oracle.price[f] \in Int
   <4>1. oracle.price \in Prices
     BY <1>0, TypeParts DEF Listener
   <4>2. oracle.price[f] \in 0..MaxRound
     BY <3>1, <4>1, PriceShape
   <4> QED
     BY <4>2
  <3> QED
    BY <3>1, <3>4, <3>5, <3>6
 <2>3. \A r \in DOMAIN rows :
          \A f \in DOMAIN stats'[r].price : stats'[r].price[f] <= Latest(f)'
   BY <1>0, <2>1, <2>2 DEF RowsBehind, Latest
 <2>4. \A r \in DOMAIN rows : stats'[r].index <= index'[r]
   BY <1>1, <2>1
 <2> QED
   BY <2>1, <2>3, <2>4 DEF RowsBehind
<1>5. CASE UpsertReservesStats
 <2> DEFINE u == events.log
 <2>1. CASE stats' = stats
   BY <1>0, <1>1, <2>1 DEF RowsBehind
 <2>2. CASE stats' # stats
  <3>1. /\ DOMAIN stats' = DOMAIN rows
        /\ \A r \in DOMAIN rows :
              /\ stats'[r].price = stats[r].price
              /\ stats'[r].index = IF r = u.reserve THEN u.index
                                                    ELSE stats[r].index
        /\ UNCHANGED <<answer, phase, index>>
    BY <1>0, <1>5, <2>2, UpsertShape DEF UpsertReservesStats, chain
  <3>2. u.index <= index[u.reserve]
    BY <1>5 DEF FInv, UpsertInv, Timely, UpsertReservesStats
  <3> QED
    BY <1>1, <3>1, <3>2 DEF RowsBehind
 <2> QED
   BY <2>1, <2>2
<1> QED
  BY <1>2, <1>3, <1>4, <1>5, TablesFrame


-----------------------------------------------------------------------------
\* The price listener.

\* An aggregator that has spoken, taken apart.
LEMMA CoversShape ==
    ASSUME TypeOK, NEW a, Covers(a)
    PROVE  /\ a[1] \in Feeds /\ a = <<a[1], a[2]>> /\ a[2] \in 1..phase[a[1]]
           /\ a[2] \in Int /\ a \in Aggregators /\ answer[a] \in Int
<1>1. a \in Aggregators /\ a[2] <= phase[a[1]]
  BY DEF Covers
<1>2. a = <<a[1], a[2]>> /\ a[1] \in Feeds /\ a[2] \in 1..MaxPhase
  BY <1>1 DEF Aggregators
<1>3. phase[a[1]] \in Nat
  BY <1>2, ChainNumbers
<1>4. \A n \in 1..MaxPhase, m \in Nat : n <= m => n \in 1..m
  OBVIOUS
<1>5. a[2] \in 1..phase[a[1]]
  BY <1>1, <1>2, <1>3, <1>4
<1>6. answer[<<a[1], a[2]>>] \in Int
  BY <1>2, <1>5, ChainNumbers
<1> QED
  BY <1>1, <1>2, <1>5, <1>6

\* An aggregator with a log in line stays ahead of the rows, while these keep
\* their prices.
LEMMA CoversStays ==
    ASSUME FInv, [Next]_vars, NEW a, Covers(a), rows' = rows,
           \A r \in DOMAIN rows : stats'[r].price = stats[r].price
    PROVE  Covers(a)'
<1>0. TypeOK /\ PhaseInv
  BY DEF FInv
<1> DEFINE f == a[1]
           p == a[2]
<1>1. /\ f \in Feeds /\ a = <<f, p>> /\ p \in 1..phase[f] /\ p \in Int
      /\ a \in Aggregators /\ answer[a] \in Int
  BY <1>0, CoversShape
<1> HIDE DEF f, p
<1>2. answer'[a] \in Int /\ answer[a] <= answer'[a]
  BY <1>0, <1>1, ChainGrows
<1>3. p <= phase'[f]
 <2>1. phase'[f] \in Int /\ phase[f] <= phase'[f] /\ phase[f] \in Int
   BY <1>0, <1>1, ChainGrows, ChainNumbers
 <2> QED
   BY <1>1, <2>1
<1>4. ASSUME NEW r \in DOMAIN rows, rows[r] = a, f \in DOMAIN stats[r].price
      PROVE  stats[r].price[f] <= answer'[a]
 <2>1. stats[r].price[f] <= answer[a]
   BY <1>4 DEF Covers, f
 <2>2. stats[r].price[f] \in 0..MaxRound
   BY <1>0, <1>4, RowTypes
 <2>3. stats[r].price[f] \in Int
   BY <2>2
 <2> QED
   BY <1>1, <1>2, <2>1, <2>3
<1> QED
  BY <1>1, <1>3, <1>4 DEF Covers, f, p

\* The logs a step adds or removes.
LEMMA PendingInvStays ==
    ASSUME FInv, [Next]_vars, rows' = rows,
           \A r \in DOMAIN rows : stats'[r].price = stats[r].price,
           Pending' \subseteq Pending
    PROVE  PendingInv'
  BY CoversStays DEF FInv, PendingInv

\* While nothing is in line and the listener reads nothing, nothing is pending.
LEMMA NothingPending ==
    (answers' = << >> /\ oracle'.pc \notin {"read", "store"}) => PendingInv'
  BY DEF PendingInv, Pending

\* No row is ahead of an aggregator that has a log in line.
LEMMA PendingNext == FInv /\ [Next]_vars => PendingInv'
<1> SUFFICES ASSUME FInv, [Next]_vars PROVE PendingInv'
  OBVIOUS
<1>0. /\ TypeOK /\ OInv /\ PendingInv /\ RowsBehind /\ PhaseInv
      /\ answers \in Seq(Aggregators)
  BY DEF FInv, TypeOK
<1>1. ASSUME UNCHANGED tables,
             answers' = answers,
             UNCHANGED oracle \/ oracle'.pc \notin {"read", "store"}
      PROVE  PendingInv'
 <2>1. Pending' \subseteq Pending
   BY <1>1 DEF Pending
 <2> QED
   BY <1>1, <2>1, PendingInvStays DEF tables
<1>2. ASSUME NEW g \in Feeds, NewRound(g) PROVE PendingInv'
 <2>0. PICK b : b = <<g, phase[g]>>
   OBVIOUS
 <2>1. /\ \A i \in 1..Len(answers') :
             \/ answers'[i] = b
             \/ \E j \in 1..Len(answers) : answers'[i] = answers[j]
       /\ answer' = [answer EXCEPT ![b] = @ + 1]
       /\ UNCHANGED <<phase, rows, stats, oracle>>
   BY <1>0, <1>2, <2>0, RoundShape DEF tables
 <2>2. Pending' \subseteq Pending \cup {b}
   BY <2>1 DEF Pending
 <2>3. Covers(b)'
  <3>1. /\ b \in Aggregators /\ phase[g] \in Int
        /\ Latest(g) \in Int /\ answer'[b] = Latest(g) + 1
    BY <1>0, <2>0, <2>1, ChainTypes, ChainNumbers DEF TypeOK, Latest
  <3>2. ASSUME NEW r \in DOMAIN rows, g \in DOMAIN stats[r].price
        PROVE  stats[r].price[g] <= answer'[b]
   <4>1. r \in DOMAIN stats /\ stats[r].price[g] \in 0..MaxRound
     BY <1>0, <3>2, RowTypes
   <4>2. stats[r].price[g] <= Latest(g)
     BY <1>0, <3>2, <4>1 DEF RowsBehind
   <4>3. stats[r].price[g] \in Int
     BY <4>1
   <4> QED
     BY <3>1, <4>2, <4>3
  <3>3. b[1] = g /\ b[2] = phase[g]
    BY <2>0
  <3>4. phase'[g] = phase[g] /\ phase[g] <= phase[g]
    BY <2>1, <3>1
  <3> QED
    BY <2>1, <3>1, <3>2, <3>3, <3>4 DEF Covers
 <2>4. \A a \in Pending : Covers(a)'
   BY <1>0, <2>1, CoversStays DEF PendingInv
 <2> QED
   BY <2>2, <2>3, <2>4 DEF PendingInv
<1>3. CASE \/ \E g \in Feeds : NewPhase(g)
           \/ \E r \in Reserves : ReserveDataUpdated(r)
           \/ UNCHANGED vars
 <2>1. UNCHANGED <<tables, answers, oracle>>
   BY <1>3 DEF NewPhase, ReserveDataUpdated, vars, listeners, stream
 <2> QED
   BY <1>1, <2>1
<1>4. CASE StartStep
 <2>1. /\ answers' = answers
       /\ oracle' = oracle \/ oracle'.pc = "mapping"
       /\ pc # "up"
   BY <1>4 DEF StartStep, FanaticNew, GetReserves, GetReservesData,
               CommitReserves, StartListening, LookUpAggregator,
               ReadOraclePrice, UpsertReserve, listeners, stream, OracleOff
 <2>2. answers = << >> /\ oracle.pc = "off"
   BY <1>0, <2>1 DEF FInv, LineInv, OInv, FillInv
 <2>3. answers' = << >> /\ oracle'.pc \notin {"read", "store"}
   BY <2>1, <2>2
 <2> QED
   BY <2>3, NothingPending
<1>5. CASE ProcessEnds \/ FollowerPanics
 <2>1. answers' = << >> /\ oracle'.pc \notin {"read", "store"}
   BY <1>5 DEF ProcessEnds, FollowerPanics, OracleOff
 <2> QED
   BY <2>1, NothingPending
<1>6. CASE GetAggregatorMapping \/ SubscribeLogs \/ UpdateReservePrice
             \/ FanaticAnswers \/ FanaticHangs \/ SubscriptionEnds
 <2>1. /\ UNCHANGED <<tables, answers>>
       /\ oracle'.pc \notin {"read", "store"}
   BY <1>0, <1>6 DEF GetAggregatorMapping, SubscribeLogs, UpdateReservePrice,
                     FanaticAnswers, FanaticHangs, SubscriptionEnds, stream,
                     OInv, ShapeInv, OracleOff
 <2> QED
   BY <1>1, <2>1
<1>7. CASE TakeAnswer
 <2>1. /\ answers # << >> /\ answers' = Tail(answers) /\ rows' = rows
       /\ stats' = stats /\ oracle'.at = Head(answers)
   BY <1>0, <1>7 DEF TakeAnswer, tables, OInv, ShapeInv
 <2>2. /\ \A i \in 1..Len(answers') : \E j \in 1..Len(answers) :
             answers'[i] = answers[j]
       /\ \E j \in 1..Len(answers) : Head(answers) = answers[j]
  <3>1. /\ Len(answers') = Len(answers) - 1 /\ Len(answers) \in Nat
        /\ Len(answers) # 0
        /\ \A i \in 1..Len(answers) - 1 : answers'[i] = answers[i + 1]
        /\ Head(answers) = answers[1]
    BY <1>0, <2>1
  <3> QED
    BY <3>1
 <2>3. Pending' \subseteq Pending
   BY <2>1, <2>2 DEF Pending
 <2> QED
   BY <2>1, <2>3, PendingInvStays
<1>8. CASE ReadAnswer
 <2>1. /\ UNCHANGED <<rows, stats, answers>> /\ oracle.pc = "read"
       /\ oracle'.at = oracle.at \/ oracle'.pc = "wait"
   BY <1>0, <1>8 DEF ReadAnswer, tables, stream, OInv, ShapeInv
 <2>2. Pending' \subseteq Pending
   BY <2>1 DEF Pending
 <2> QED
   BY <2>1, <2>2, PendingInvStays
<1>9. CASE UpdateOraclePrice
 <2>1. /\ UNCHANGED <<rows, answers, answer, phase>> /\ oracle.pc = "store"
       /\ oracle'.pc = "tell"
   BY <1>0, <1>9 DEF UpdateOraclePrice, stream, chain, OInv, ShapeInv
 <2>2. Pending' \subseteq Pending
   BY <2>1 DEF Pending
 <2>3. \A r \in DOMAIN rows :
          stats'[r].price = IF r = mapping[oracle.at] THEN oracle.price
                                                      ELSE stats[r].price
   BY <1>0, <1>9, StoreShape
 <2>4. /\ rows[mapping[oracle.at]] = oracle.at
       /\ oracle.price[oracle.at[1]] <= answer[oracle.at]
   BY <1>0, <2>1 DEF FInv, MappingInv, StoreInv, OInv, ShapeInv
 <2>5. ASSUME NEW a \in Pending PROVE Covers(a)'
  <3>1. Covers(a)
    BY <1>0, <2>5 DEF PendingInv
  <3>2. ASSUME NEW r \in DOMAIN rows, rows[r] = a,
               a[1] \in DOMAIN stats'[r].price
        PROVE  stats'[r].price[a[1]] <= answer[a]
   <4>1. CASE r = mapping[oracle.at]
     BY <2>3, <2>4, <3>2, <4>1
   <4>2. CASE r # mapping[oracle.at]
     BY <2>3, <3>1, <3>2, <4>2 DEF Covers
   <4> QED
     BY <4>1, <4>2
  <3> QED
    BY <2>1, <3>1, <3>2 DEF Covers
 <2> QED
   BY <2>2, <2>5 DEF PendingInv
<1>10. CASE EventListenerStep /\ ~UpsertReservesStats
 <2>1. UNCHANGED <<tables, answers, oracle>>
   BY <1>10, Frame DEF stream
 <2> QED
   BY <1>1, <2>1
<1>11. CASE UpsertReservesStats
 <2>1. /\ UNCHANGED <<rows, answers, oracle>>
       /\ \A r \in DOMAIN rows : stats'[r].price = stats[r].price
  <3>1. UNCHANGED <<rows, answers, oracle>>
    BY <1>11 DEF UpsertReservesStats, stream
  <3>2. CASE stats' = stats
    BY <3>1, <3>2
  <3>3. CASE stats' # stats
    BY <1>0, <1>11, <3>1, <3>3, UpsertShape
  <3> QED
    BY <3>2, <3>3
 <2>2. Pending' \subseteq Pending
   BY <2>1 DEF Pending
 <2> QED
   BY <2>1, <2>2, PendingInvStays
<1> QED
  BY <1>2, <1>3, <1>4, <1>5, <1>6, <1>7, <1>8, <1>9, <1>10, <1>11
     DEF Next, ChainMoves, PriceListenerStep


\* The price that is read is at least as new as the row it is for, and the row
\* does not change before it is stored.
LEMMA StoreNext == FInv /\ [Next]_vars => StoreInv'
<1> SUFFICES ASSUME FInv, [Next]_vars PROVE StoreInv'
  OBVIOUS
<1>0. /\ TypeOK /\ OInv /\ PhaseInv
      /\ oracle.pc \in {"read", "store"} => Covers(oracle.at)
  BY DEF FInv, PendingInv, Pending
<1>1. ASSUME UNCHANGED <<oracle, mapping, rows>>,
             \A r \in DOMAIN rows : stats'[r].price = stats[r].price
      PROVE  StoreInv'
 <2> SUFFICES ASSUME oracle.pc = "store"
              PROVE  LET f == oracle.at[1]
                         row == stats'[mapping[oracle.at]].price
                     IN  /\ DOMAIN oracle.price = {f}
                         /\ oracle.price[f] <= answer'[oracle.at]
                         /\ f \in DOMAIN row => row[f] <= oracle.price[f]
   BY <1>1 DEF StoreInv
 <2> DEFINE f == oracle.at[1]
            r0 == mapping[oracle.at]
 <2>1. r0 \in DOMAIN rows
   BY <1>0 DEF OInv, ShapeInv
 <2>2. /\ DOMAIN oracle.price = {f} /\ oracle.price[f] <= answer[oracle.at]
       /\ f \in DOMAIN stats[r0].price => stats[r0].price[f] <= oracle.price[f]
   BY DEF FInv, StoreInv
 <2>3. /\ f \in Feeds /\ oracle.at = <<f, oracle.at[2]>>
       /\ oracle.at[2] \in 1..phase[f] /\ answer[oracle.at] \in Int
   BY <1>0, CoversShape
 <2>4. answer'[oracle.at] \in Int /\ answer[oracle.at] <= answer'[oracle.at]
   BY <1>0, <2>3, ChainGrows
 <2>5. oracle.price[f] \in Int
  <3>1. oracle.price \in Prices
    BY <1>0, TypeParts DEF Listener
  <3>2. oracle.price[f] \in 0..MaxRound
    BY <2>2, <3>1, PriceShape
  <3> QED
    BY <3>2
 <2>6. oracle.price[f] <= answer'[oracle.at]
   BY <2>2, <2>3, <2>4, <2>5
 <2>7. stats'[r0].price = stats[r0].price
   BY <1>1, <2>1
 <2> QED
   BY <2>2, <2>6, <2>7
<1>2. CASE oracle'.pc # "store"
  BY <1>2 DEF StoreInv
<1>3. CASE ReadAnswer
 <2> SUFFICES ASSUME oracle'.pc = "store" PROVE StoreInv'
   BY <1>2
 <2> DEFINE r0 == mapping[oracle.at]
 <2>1. /\ oracle.pc = "read" /\ oracle.at \in DOMAIN mapping
       /\ oracle'.at = oracle.at
       /\ oracle'.price = AggregatorPrice(oracle.at)
       /\ UNCHANGED <<answer, phase, rows, stats, mapping>>
   BY <1>0, <1>3 DEF ReadAnswer, chain, tables, stream, OInv, ShapeInv
 <2>2. Covers(oracle.at) /\ rows[r0] = oracle.at /\ r0 \in DOMAIN rows
   BY <1>0, <2>1 DEF FInv, MappingInv, OInv, ShapeInv
 <2>3. oracle.at \in Aggregators /\ answer[oracle.at] \in Int
   BY <1>0, <2>2, CoversShape
 <2>4. /\ DOMAIN oracle'.price = {oracle.at[1]}
       /\ oracle'.price[oracle.at[1]] = answer[oracle.at]
   BY <1>0, <2>1, <2>3, AnswerTypes DEF AggregatorPrice
 <2>5. oracle.at[1] \in DOMAIN stats[r0].price =>
          stats[r0].price[oracle.at[1]] <= answer[oracle.at]
   BY <2>2 DEF Covers
 <2>6. answer[oracle.at] <= answer[oracle.at]
   BY <2>3
 <2> QED
   BY <2>1, <2>4, <2>5, <2>6 DEF StoreInv
<1>4. CASE ChainMoves \/ UNCHANGED vars
 <2>1. UNCHANGED <<oracle, mapping, rows, stats>>
   BY <1>4 DEF ChainMoves, NewRound, NewPhase, ReserveDataUpdated, vars,
               tables, listeners, stream
 <2> QED
   BY <1>1, <2>1
<1>5. CASE StartStep
 <2>1. pc # "up" /\ (oracle' = oracle \/ oracle'.pc = "mapping")
   BY <1>5 DEF StartStep, FanaticNew, GetReserves, GetReservesData,
               CommitReserves, StartListening, LookUpAggregator,
               ReadOraclePrice, UpsertReserve, listeners, OracleOff
 <2>2. oracle.pc = "off"
   BY <1>0, <2>1 DEF OInv, FillInv
 <2> QED
   BY <1>2, <2>1, <2>2
<1>6. CASE ProcessEnds \/ FollowerPanics \/ FanaticHangs \/ SubscriptionEnds
             \/ (PriceListenerStep /\ ~ReadAnswer)
 <2>1. ProcessEnds \/ FollowerPanics \/ SubscriptionEnds \/ FanaticAnswers =>
          oracle'.pc # "store"
   BY DEF ProcessEnds, FollowerPanics, SubscriptionEnds, FanaticAnswers,
           OracleOff
 <2>2. oracle = [pc |-> oracle.pc, at |-> oracle.at, price |-> oracle.price]
   BY <1>0 DEF OInv, ShapeInv
 <2>3. GetAggregatorMapping \/ SubscribeLogs \/ FanaticHangs =>
          oracle'.pc # "store"
   BY <2>2 DEF GetAggregatorMapping, SubscribeLogs, FanaticHangs
 <2>4. TakeAnswer \/ UpdateOraclePrice \/ UpdateReservePrice =>
          oracle'.pc # "store"
   BY <2>2 DEF TakeAnswer, UpdateOraclePrice, UpdateReservePrice
 <2> QED
   BY <1>2, <1>6, <2>1, <2>3, <2>4 DEF PriceListenerStep
<1>7. CASE EventListenerStep
 <2>1. UNCHANGED <<rows, oracle, mapping>>
   BY <1>7 DEF EventListenerStep, SubscribeEvents, TakeUpdate, EventsEnd,
               UpsertReservesStats, tables, stream
 <2>2. \A r \in DOMAIN rows : stats'[r].price = stats[r].price
  <3>1. CASE stats' = stats
    BY <3>1
  <3>2. CASE stats' # stats
   <4>1. UpsertReservesStats
     BY <1>7, <3>2, Frame DEF tables
   <4> QED
     BY <1>0, <3>2, <4>1, UpsertShape
  <3> QED
    BY <3>1, <3>2
 <2> QED
   BY <1>1, <2>1, <2>2
<1> QED
  BY <1>3, <1>4, <1>5, <1>6, <1>7 DEF Next

-----------------------------------------------------------------------------
\* The other listener.

\* A record of indices stays timely while the row it is for keeps its own.
LEMMA TimelyStays ==
    ASSUME FInv, [Next]_vars, NEW u, Timely(u), rows' = rows,
           u.reserve \in DOMAIN rows =>
               stats'[u.reserve].index = stats[u.reserve].index
    PROVE  Timely(u)'
<1>1. u \in Update /\ u.reserve \in Reserves /\ u.index \in 0..MaxIndex
  BY DEF Timely, Update
<1>2. u.index <= index'[u.reserve]
  BY <1>1, BehindStays DEF FInv, Timely
<1> QED
  BY <1>1, <1>2 DEF Timely

\* And both listeners' records do while no index is written and none joins.
LEMMA LinesStay ==
    ASSUME FInv, [Next]_vars, rows' = rows, updates' = updates,
           \A r \in DOMAIN rows : stats'[r].index = stats[r].index
    PROVE  /\ UpdatesInv'
           /\ UNCHANGED events => UpsertInv'
<1>1. UpdatesInv'
 <2>1. \A i \in 1..Len(updates) : Timely(updates[i])'
  <3> SUFFICES ASSUME NEW i \in 1..Len(updates) PROVE Timely(updates[i])'
    OBVIOUS
  <3>1. PICK u : u = updates[i]
    OBVIOUS
  <3>2. Timely(u)'
    BY <3>1, TimelyStays DEF FInv, UpdatesInv
  <3>3. updates'[i] = u
    BY <3>1
  <3> QED
    BY <3>2, <3>3 DEF Timely
 <2> QED
   BY <2>1 DEF FInv, UpdatesInv
<1>2. ASSUME UNCHANGED events PROVE UpsertInv'
 <2> SUFFICES ASSUME events.pc = "upsert" PROVE UpsertInv'
   BY <1>2 DEF UpsertInv
 <2>1. PICK u : u = events.log
   OBVIOUS
 <2>2. Timely(u)'
   BY <2>1, TimelyStays DEF FInv, UpsertInv
 <2>3. \A i \in 1..Len(updates) :
          updates[i].reserve = u.reserve => u.index <= updates[i].index
   BY <2>1 DEF FInv, UpsertInv
 <2>4. events'.log = u
   BY <1>2, <2>1
 <2> QED
   BY <2>2, <2>3, <2>4 DEF UpsertInv, Timely
<1> QED
  BY <1>1, <1>2


\* The steps of the process that end the lines, and the start, which finds none.
LEMMA NoLines ==
    ASSUME updates' = << >>, events'.pc # "upsert"
    PROVE  UpdatesInv' /\ UpsertInv'
<1>1. << >> \in Seq(Update) /\ Len(<< >>) = 0
  OBVIOUS
<1> QED
  BY <1>1 DEF UpdatesInv, UpsertInv

\* The indices in line, and the one that is about to be written.
LEMMA UpdatesNext == FInv /\ [Next]_vars => UpdatesInv' /\ UpsertInv'
<1> SUFFICES ASSUME FInv, [Next]_vars PROVE UpdatesInv' /\ UpsertInv'
  OBVIOUS
<1>0. /\ TypeOK /\ OInv /\ RowsBehind /\ UpdatesInv /\ UpsertInv
      /\ updates \in Seq(Update)
      /\ \A i \in 1..Len(updates) : updates[i] \in Update
  BY DEF FInv, UpdatesInv, Timely
<1>1. ASSUME NEW r \in Reserves, ReserveDataUpdated(r)
      PROVE  UpdatesInv' /\ UpsertInv'
 <2>1. /\ index[r] < MaxIndex /\ index' = [index EXCEPT ![r] = @ + 1]
       /\ UNCHANGED <<rows, stats, events>>
       /\ \/ updates' = updates
          \/ updates' = Append(updates, [reserve |-> r, index |-> index[r] + 1])
   BY <1>1 DEF ReserveDataUpdated, tables
 <2>2. CASE updates' = updates
   BY <2>1, <2>2, LinesStay
 <2>3. CASE updates' # updates
  <3>1. PICK u : u = [reserve |-> r, index |-> index[r] + 1]
    OBVIOUS
  <3>2. index[r] \in 0..MaxIndex /\ index'[r] = index[r] + 1
    BY <1>0, <2>1, ChainTypes DEF TypeOK
  <3>3. u \in Update /\ u.reserve = r /\ u.index = index[r] + 1
   <4>1. index[r] + 1 \in 0..MaxIndex
     BY <2>1, <3>2, OracleAssumption
   <4> QED
     BY <3>1, <4>1 DEF Update
  <3>4. /\ updates' = Append(updates, u)
        /\ updates' \in Seq(Update)
        /\ Len(updates') = Len(updates) + 1 /\ Len(updates) \in Nat
        /\ \A i \in 1..Len(updates) : updates'[i] = updates[i]
        /\ updates'[Len(updates) + 1] = u
   <4>1. updates' = Append(updates, u)
     BY <2>1, <2>3, <3>1, Zenon
   <4> QED
     BY <1>0, <3>3, <4>1
  <3>5. Timely(u)'
   <4>1. r \in DOMAIN rows => stats[r].index <= u.index
    <5>1. ASSUME r \in DOMAIN rows
          PROVE  stats[r].index <= index[r] /\ stats[r].index \in 0..MaxIndex
      BY <1>0, <5>1, RowTypes DEF RowsBehind
    <5> QED
      BY <3>2, <3>3, <5>1
   <4>2. u.index <= index'[r]
     BY <3>2, <3>3
   <4> QED
     BY <2>1, <3>3, <4>1, <4>2 DEF Timely
  <3>6. \A v : Timely(v) => Timely(v)' /\ (v.reserve = r => v.index <= u.index)
   <4> SUFFICES ASSUME NEW v, Timely(v)
                PROVE  Timely(v)' /\ (v.reserve = r => v.index <= u.index)
     OBVIOUS
   <4>1. Timely(v)'
     BY <2>1, TimelyStays
   <4>2. v \in Update /\ v.index <= index[v.reserve]
     BY DEF Timely
   <4>3. v.index \in 0..MaxIndex
     BY <4>2 DEF Update
   <4>4. v.reserve = r => v.index <= u.index
     BY <3>2, <3>3, <4>2, <4>3
   <4> QED
     BY <4>1, <4>4
  <3>7. \A i \in 1..Len(updates) : Timely(updates[i])
    BY <1>0 DEF UpdatesInv
  <3>8. UpdatesInv'
   <4> SUFFICES ASSUME NEW i \in 1..Len(updates')
                PROVE  /\ Timely(updates[i])'
                       /\ \A j \in 1..i :
                             updates'[j].reserve = updates'[i].reserve =>
                                 updates'[j].index <= updates'[i].index
     BY <3>4 DEF UpdatesInv
   <4>1. CASE i \in 1..Len(updates)
    <5>1. /\ updates'[i] = updates[i]
          /\ \A j \in 1..i : updates'[j] = updates[j]
      BY <3>4, <4>1
    <5>2. PICK v : v = updates[i]
      OBVIOUS
    <5>3. Timely(v)'
      BY <3>6, <3>7, <4>1, <5>2
    <5>4. Timely(updates[i])'
      BY <5>1, <5>2, <5>3 DEF Timely
    <5> QED
      BY <1>0, <4>1, <5>1, <5>4 DEF UpdatesInv
   <4>2. CASE i = Len(updates) + 1
    <5>1. updates'[i] = u
      BY <3>4, <4>2
    <5>2. Timely(updates[i])'
      BY <3>5, <5>1 DEF Timely
    <5>3. ASSUME NEW j \in 1..i, updates'[j].reserve = u.reserve
          PROVE  updates'[j].index <= u.index
     <6>1. CASE j = i
      <7>1. u.index \in Int
        BY <3>3 DEF Update
      <7> QED
        BY <5>1, <6>1, <7>1
     <6>2. CASE j # i
      <7>1. j \in 1..Len(updates)
        BY <3>4, <4>2, <6>2
      <7>2. updates'[j] = updates[j] /\ Timely(updates[j])
        BY <3>4, <3>7, <7>1
      <7> QED
        BY <3>3, <3>6, <5>3, <7>2
     <6> QED
       BY <6>1, <6>2
    <5> QED
      BY <5>1, <5>2, <5>3
   <4> QED
     BY <3>4, <4>1, <4>2
  <3>9. UpsertInv'
   <4> SUFFICES ASSUME events.pc = "upsert" PROVE UpsertInv'
     BY <2>1 DEF UpsertInv
   <4>1. PICK v : v = events.log
     OBVIOUS
   <4>2. /\ Timely(v)
         /\ \A i \in 1..Len(updates) :
               updates[i].reserve = v.reserve => v.index <= updates[i].index
     BY <1>0, <4>1 DEF UpsertInv
   <4>3. Timely(v)' /\ (v.reserve = r => v.index <= u.index)
     BY <3>6, <4>2
   <4>4. \A i \in 1..Len(updates') :
            updates'[i].reserve = v.reserve => v.index <= updates'[i].index
    <5> SUFFICES ASSUME NEW i \in 1..Len(updates'),
                        updates'[i].reserve = v.reserve
                 PROVE  v.index <= updates'[i].index
      OBVIOUS
    <5>1. CASE i \in 1..Len(updates)
      BY <3>4, <4>2, <5>1
    <5>2. CASE i = Len(updates) + 1
      BY <3>3, <3>4, <4>3, <5>2
    <5> QED
      BY <3>4, <5>1, <5>2
   <4>5. events'.log = v
     BY <2>1, <4>1
   <4> QED
     BY <4>3, <4>4, <4>5 DEF UpsertInv, Timely
  <3> QED
    BY <3>8, <3>9
 <2> QED
   BY <2>2, <2>3
<1>2. CASE TakeUpdate
 <2>1. /\ updates # << >> /\ updates' = Tail(updates)
       /\ events' = [pc |-> "upsert", log |-> Head(updates)]
       /\ UNCHANGED <<rows, stats, index>>
   BY <1>2 DEF TakeUpdate, tables, chain
 <2>2. /\ Tail(updates) \in Seq(Update) /\ Head(updates) = updates[1]
       /\ Len(Tail(updates)) = Len(updates) - 1
       /\ Len(updates) \in Nat /\ Len(updates) # 0
       /\ \A i \in 1..Len(updates) - 1 : Tail(updates)[i] = updates[i + 1]
   BY <1>0, <2>1
 <2>3. \A v : Timely(v) => Timely(v)'
   BY <2>1 DEF Timely
 <2>4. \A i \in 1..Len(updates) :
          /\ Timely(updates[i])
          /\ \A j \in 1..i :
                updates[j].reserve = updates[i].reserve =>
                    updates[j].index <= updates[i].index
   BY <1>0 DEF UpdatesInv
 <2>5. UpdatesInv'
  <3> SUFFICES ASSUME NEW i \in 1..Len(updates')
               PROVE  /\ Timely(updates[i])'
                      /\ \A j \in 1..i :
                            updates'[j].reserve = updates'[i].reserve =>
                                updates'[j].index <= updates'[i].index
    BY <2>1, <2>2 DEF UpdatesInv
  <3>1. i + 1 \in 1..Len(updates) /\ updates'[i] = updates[i + 1]
    BY <2>1, <2>2
  <3>2. \A j \in 1..i : j + 1 \in 1..(i + 1) /\ updates'[j] = updates[j + 1]
    BY <2>1, <2>2
  <3>3. PICK v : v = updates[i + 1]
    OBVIOUS
  <3>4. Timely(v)'
    BY <2>3, <2>4, <3>1, <3>3
  <3>5. Timely(updates[i])'
    BY <3>1, <3>3, <3>4 DEF Timely
  <3>6. \A j \in 1..i :
           updates'[j].reserve = updates'[i].reserve =>
               updates'[j].index <= updates'[i].index
    BY <2>4, <3>1, <3>2
  <3> QED
    BY <3>5, <3>6
 <2>6. UpsertInv'
  <3>1. PICK v : v = updates[1]
    OBVIOUS
  <3>2. 1 \in 1..Len(updates) /\ \A i \in 1..Len(updates) : 1 \in 1..i
    BY <2>2
  <3>3. Timely(v)' /\ events'.log = v
    BY <2>1, <2>2, <2>3, <2>4, <3>1, <3>2
  <3>4. \A i \in 1..Len(updates') :
           i + 1 \in 1..Len(updates) /\ updates'[i] = updates[i + 1]
    BY <2>1, <2>2
  <3>5. \A i \in 1..Len(updates') :
           updates'[i].reserve = v.reserve => v.index <= updates'[i].index
    BY <2>4, <3>1, <3>2, <3>4
  <3> QED
    BY <3>3, <3>5 DEF UpsertInv, Timely
 <2> QED
   BY <2>5, <2>6
<1>3. CASE UpsertReservesStats
 <2>1. /\ UNCHANGED <<rows, updates, index>> /\ events.pc = "upsert"
       /\ events'.pc = "wait"
   BY <1>3 DEF UpsertReservesStats, chain, EventsOff
 <2>2. UpsertInv'
   BY <2>1 DEF UpsertInv
 <2>3. CASE stats' = stats
   BY <2>1, <2>2, <2>3, LinesStay
 <2>4. CASE stats' # stats
  <3>1. PICK u : u = events.log
    OBVIOUS
  <3>2. /\ u.reserve \in DOMAIN rows
        /\ \A r \in DOMAIN rows :
              stats'[r].index = IF r = u.reserve THEN u.index
                                                 ELSE stats[r].index
    BY <1>0, <1>3, <2>4, <3>1, UpsertShape
  <3>3. \A i \in 1..Len(updates) :
           updates[i].reserve = u.reserve => u.index <= updates[i].index
    BY <1>0, <2>1, <3>1 DEF UpsertInv
  <3>4. \A i \in 1..Len(updates) : Timely(updates[i])'
   <4> SUFFICES ASSUME NEW i \in 1..Len(updates) PROVE Timely(updates[i])'
     OBVIOUS
   <4>1. Timely(updates[i])
     BY <1>0 DEF UpdatesInv
   <4> QED
     BY <2>1, <3>2, <3>3, <4>1 DEF Timely
  <3>5. UpdatesInv'
    BY <1>0, <2>1, <3>4 DEF UpdatesInv
  <3> QED
    BY <2>2, <3>5
 <2> QED
   BY <2>3, <2>4
<1>4. CASE UpdateOraclePrice
 <2>1. /\ UNCHANGED <<rows, updates, events>>
       /\ \A r \in DOMAIN rows : stats'[r].index = stats[r].index
   BY <1>0, <1>4, StoreShape DEF UpdateOraclePrice, updated
 <2> QED
   BY <2>1, LinesStay
<1>5. CASE UNCHANGED tables /\ updates' = updates /\
              (events' = events \/ events'.pc # "upsert")
 <2>1. /\ rows' = rows
       /\ \A r \in DOMAIN rows : stats'[r].index = stats[r].index
   BY <1>5 DEF tables
 <2> QED
   BY <1>5, <2>1, LinesStay DEF UpsertInv
<1>6. CASE \/ \E f \in Feeds : NewRound(f) \/ NewPhase(f)
           \/ UNCHANGED vars
           \/ PriceListenerStep /\ ~UpdateOraclePrice
           \/ FanaticHangs \/ SubscriptionEnds
 <2>1. UNCHANGED <<tables, updates, events>>
   BY <1>6, Frame DEF NewRound, NewPhase, vars, listeners, updated
 <2> QED
   BY <1>5, <2>1
<1>7. CASE SubscribeEvents \/ EventsEnd
 <2>1. UNCHANGED <<tables, updates>> /\ events'.pc # "upsert"
   BY <1>0, <1>7 DEF SubscribeEvents, EventsEnd, EventsOff, OInv, ShapeInv
 <2> QED
   BY <1>5, <2>1
<1>8. CASE StartStep
 <2>1. /\ pc # "up" /\ updates' = updates
       /\ events' = events \/ events'.pc = "subscribe"
   BY <1>8 DEF StartStep, FanaticNew, GetReserves, GetReservesData,
               CommitReserves, StartListening, LookUpAggregator,
               ReadOraclePrice, UpsertReserve, listeners, updated, EventsOff
 <2>2. updates = << >> /\ events.pc = "off"
   BY <2>1 DEF FInv, LineInv, OInv, FillInv
 <2>3. updates' = << >> /\ events'.pc # "upsert"
   BY <2>1, <2>2
 <2> QED
   BY <2>3, NoLines
<1>9. CASE ProcessEnds \/ FollowerPanics
 <2>1. updates' = << >> /\ events'.pc # "upsert"
   BY <1>9 DEF ProcessEnds, FollowerPanics, EventsOff
 <2> QED
   BY <2>1, NoLines
<1> QED
  BY <1>1, <1>2, <1>3, <1>4, <1>6, <1>7, <1>8, <1>9
     DEF Next, ChainMoves, EventListenerStep

\* All of it holds for ever.
LEMMA FreshInvariant == Spec => []FInv
<1>1. FInv /\ [Next]_vars => FInv'
  BY StepOInv, TypeNext, LineNext, MappingNext, FoundNext, FoundBehindNext,
     PhaseNext, RowsNext, PendingNext, StoreNext, UpdatesNext DEF FInv
<1> QED
  BY <1>1, InitFInv, PTL DEF Spec

-----------------------------------------------------------------------------
\* The theorems.

\* Tables, memory, the loop that fills them and both listeners keep their types,
\* over any number of starts: in particular nothing enters the tables without a
\* price (fanatic.rs:222-338, database.rs:583-621, follower.rs:120-230).
THEOREM TypeCorrect == Spec => []TypeOK
<1>1. FInv => TypeOK
  BY DEF FInv
<1> QED
  BY <1>1, FreshInvariant, PTL

\* No row ever goes back to an older price or older indices: what a listener has
\* read is not older than the row when it writes, although a log may wait in
\* line, the aggregator may be replaced and the other listener writes the same
\* row (follower.rs:140-230, database.rs:456-489).
THEOREM RowsNeverOlder == Spec => NeverOlder
<1> DEFINE Newer ==
       \A r \in DOMAIN rows :
          /\ stats'[r].index >= stats[r].index
          /\ \A f \in DOMAIN stats[r].price \cap DOMAIN stats'[r].price :
                stats'[r].price[f] >= stats[r].price[f]
<1>1. FInv /\ [Next]_vars => [Newer]_vars
 <2> SUFFICES ASSUME FInv, [Next]_vars, NEW r \in DOMAIN rows
              PROVE  /\ stats'[r].index >= stats[r].index
                     /\ \A f \in
                            DOMAIN stats[r].price \cap DOMAIN stats'[r].price :
                           stats'[r].price[f] >= stats[r].price[f]
   OBVIOUS
 <2>0. TypeOK /\ OInv
   BY DEF FInv
 <2>1. /\ stats[r].index \in Int
       /\ \A f \in DOMAIN stats[r].price : stats[r].price[f] \in Int
  <3>1. /\ stats[r].index \in 0..MaxIndex
        /\ \A f \in DOMAIN stats[r].price : stats[r].price[f] \in 0..MaxRound
    BY <2>0, RowTypes
  <3> QED
    BY <3>1
 <2>2. CASE UNCHANGED tables
  <3>1. stats' = stats
    BY <2>2 DEF tables
  <3> QED
    BY <2>1, <3>1
 <2>3. CASE CommitReserves
  <3>1. pc = "insert"
    BY <2>3 DEF CommitReserves
  <3>2. DOMAIN rows = {}
    BY <2>0, <3>1 DEF OInv, FillInv
  <3> QED
    BY <3>2
 <2>4. CASE UpdateOraclePrice
  <3> DEFINE r0 == mapping[oracle.at]
  <3>1. /\ stats'[r].index = stats[r].index
        /\ stats'[r].price = IF r = r0 THEN oracle.price ELSE stats[r].price
    BY <2>0, <2>4, StoreShape
  <3>2. CASE r # r0
    BY <2>1, <3>1, <3>2
  <3>3. CASE r = r0
   <4> DEFINE f == oracle.at[1]
   <4>1. /\ DOMAIN oracle.price = {f}
         /\ f \in DOMAIN stats[r].price => stats[r].price[f] <= oracle.price[f]
     BY <2>4, <3>3 DEF FInv, StoreInv, UpdateOraclePrice
   <4>2. oracle.price[f] \in Int
    <5>1. oracle.price \in Prices
      BY <2>0, TypeParts DEF Listener
    <5>2. oracle.price[f] \in 0..MaxRound
      BY <4>1, <5>1, PriceShape
    <5> QED
      BY <5>2
   <4>3. \A g \in DOMAIN stats[r].price \cap DOMAIN oracle.price :
            oracle.price[g] >= stats[r].price[g]
     BY <2>1, <4>1, <4>2
   <4> QED
     BY <2>1, <3>1, <3>3, <4>3
  <3> QED
    BY <3>2, <3>3
 <2>5. CASE UpsertReservesStats
  <3>1. CASE stats' = stats
    BY <2>1, <3>1
  <3>2. CASE stats' # stats
   <4> DEFINE u == events.log
   <4>1. /\ stats'[r].price = stats[r].price
         /\ stats'[r].index = IF r = u.reserve THEN u.index ELSE stats[r].index
     BY <2>0, <2>5, <3>2, UpsertShape
   <4>2. Timely(u)
     BY <2>5 DEF FInv, UpsertInv, UpsertReservesStats
   <4>3. r = u.reserve => stats[r].index <= u.index /\ u.index \in Int
     BY <4>2 DEF Timely, Update
   <4> QED
     BY <2>1, <4>1, <4>3
  <3> QED
    BY <3>1, <3>2
 <2> QED
   BY <2>2, <2>3, <2>4, <2>5, TablesFrame
<1> QED
  BY <1>1, FreshInvariant, PTL DEF Spec, NeverOlder
=============================================================================
