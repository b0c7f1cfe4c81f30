------------------------------- MODULE Oracle -------------------------------
(***************************************************************************)
(* The price of a reserve, from Chainlink to the tables and to memory: the *)
(* first filling of the tables (actors/fanatic.rs, _init_reserves), the    *)
(* mapping from aggregators to reserves (messages/database.rs) and the two *)
(* listeners of the Follower, which write the price and the index of one   *)
(* row (actors/follower.rs).                                               *)
(*                                                                         *)
(* A feed is a Chainlink proxy.  Its answers come from the aggregator of   *)
(* its current phase, which is what emits AnswerUpdated; the proxy emits   *)
(* nothing and may be pointed to another aggregator.  An address is        *)
(* <<feed, phase>>, and <<feed, 0>> is the proxy itself.  A price is a     *)
(* function from the feeds it is made of to their rounds, so that two      *)
(* prices differ when one is older or leaves a feed out.  The exchange     *)
(* rate and the cap of an adapter are left out.                            *)
(***************************************************************************)
EXTENDS Integers, Sequences, FiniteSets

CONSTANTS
    Reserves,
    Feeds,
    Kind,      \* [Reserves -> Kinds]: the contract of a reserve's priceOracle
    Legs,      \* [Reserves -> Seq(Feeds)]: the feeds its price is made of
    Indexed,   \* bound: the reserves whose indices move
    Upgraded,  \* bound: the feeds whose aggregator is replaced
    MaxRound, MaxPhase, MaxIndex, MaxStarts,   \* bounds
    Backlog,   \* logs a subscription holds before it drops the oldest
    None

Kinds == {"ratecap", "peg", "proxy", "stable", "fixed"}

ASSUME OracleAssumption ==
    /\ Kind \in [Reserves -> Kinds]
    /\ \A r \in Reserves : Legs[r] \in Seq(Feeds)
    /\ \A r \in Reserves : Kind[r] # "fixed" => Legs[r] # << >>
    /\ Backlog \in Nat \ {0} /\ MaxPhase \in Nat \ {0}
    /\ MaxRound \in Nat /\ MaxIndex \in Nat /\ MaxStarts \in Nat

VARIABLES
    answer,   \* [aggregators -> rounds]: on chain
    phase,    \* [Feeds -> 1..MaxPhase]: on chain
    index,    \* [Reserves -> 0..MaxIndex]: on chain, the reserve's indices
    rows,     \* aavev3_reserves: [listed reserves -> aggregator_addr]
    stats,    \* aavev3_reserves_stats: [listed reserves -> [price, index]]
    memory,   \* Fanatic.reserves: [reserves with users -> price]
    pc,       \* where the process is in its start, or "up"
    starts,   \* how often it has been started
    todo,     \* the loop of _init_reserves: reserves not looked at yet
    found,    \* init_reserves: [reserve -> [aggregator, price, index]]
    tx,       \* the reserves whose statements the transaction has executed
    oracle,   \* the price listener: [pc, at, price]
    mapping,  \* its aggregators: [address -> reserve]
    answers,  \* its subscription: addresses of the logs in line
    events,   \* the other listener: [pc, log]
    updates,  \* its subscription: the ReserveDataUpdated in line
    moved,    \* history: feeds that have moved since the subscription
    lagged    \* history: the subscription has dropped a log

chain == <<answer, phase, index>>
tables == <<rows, stats>>
boot == <<pc, starts, todo, found, tx>>
stream == <<mapping, answers, moved, lagged>>   \* the price listener's
updated == <<events, updates>>                   \* the other one's
listeners == <<oracle, stream, updated>>
vars == <<chain, tables, memory, boot, listeners>>

Aggregators == Feeds \X (1..MaxPhase)
Addresses == Feeds \X (0..MaxPhase)
LegSet(r) == {Legs[r][i] : i \in 1..Len(Legs[r])}

Prices == UNION {[fs -> 0..MaxRound] : fs \in SUBSET Feeds}
Row == [price : Prices, index : 0..MaxIndex]
IsMap(m, S, T) == DOMAIN m \subseteq S /\ m \in [DOMAIN m -> T]

ASSUME NoneIsFresh == None \notin Prices

OracleOff == [pc |-> "off", at |-> None, price |-> << >>]
EventsOff == [pc |-> "off", log |-> None]

-----------------------------------------------------------------------------
\* The contracts the bot reads.

\* latestAnswer() of an aggregator, or of a proxy.
LatestAnswer(a) == IF a[2] = 0 THEN answer[<<a[1], phase[a[1]]>>] ELSE answer[a]

\* oracle_price: of a feed's address, and of a reserve's priceOracle.
AggregatorPrice(a) == [f \in {a[1]} |-> LatestAnswer(a)]
OraclePrice(r) == [f \in LegSet(r) |-> LatestAnswer(<<f, 0>>)]

\* The call that answers for this kind of priceOracle names a proxy, which is
\* asked for its aggregator, except in the first attempt.
Resolved(r) ==
    LET feed == Legs[r][1]
    IN  IF Kind[r] = "ratecap" THEN <<feed, 0>> ELSE <<feed, phase[feed]>>

\* aggregator_addr(..).await.ok(): the attempts follow each other, and a call
\* that fails for whatever reason is as good as a contract without the method.
Lookups(r) == {None} \cup (IF Kind[r] = "fixed" THEN {} ELSE {Resolved(r)})

-----------------------------------------------------------------------------
\* The chain moves, and its logs reach whoever has subscribed.

Listening == oracle.pc \in {"wait", "read", "store", "tell", "told", "stuck"}

\* A filter without addresses lets every address through.
Heard(a) == Listening /\ (DOMAIN mapping = {} \/ a \in DOMAIN mapping)

\* A reader that lags behind loses the oldest log, and is not told.
AnswerUpdated(a) ==
    IF ~Heard(a) THEN UNCHANGED <<answers, lagged>>
    ELSE IF Len(answers) < Backlog
    THEN answers' = Append(answers, a) /\ UNCHANGED lagged
    ELSE answers' = Append(Tail(answers), a) /\ lagged' = TRUE

NewRound(f) ==
    LET a == <<f, phase[f]>>
    IN  /\ answer[a] < MaxRound
        /\ answer' = [answer EXCEPT ![a] = @ + 1]
        /\ AnswerUpdated(a)
        /\ moved' = IF Listening THEN moved \cup {f} ELSE moved
        /\ UNCHANGED <<phase, index, tables, memory, boot, oracle, mapping,
                       updated>>

\* The proxy is pointed to its next aggregator, which goes on from the answer.
NewPhase(f) ==
    /\ f \in Upgraded /\ phase[f] < MaxPhase
    /\ phase' = [phase EXCEPT ![f] = @ + 1]
    /\ answer' = [answer EXCEPT ![<<f, phase[f] + 1>>] = LatestAnswer(<<f, 0>>)]
    /\ UNCHANGED <<index, tables, memory, boot, listeners>>

\* A transaction moves a reserve's indices, which the pool logs.
ReserveDataUpdated(r) ==
    /\ r \in Indexed /\ index[r] < MaxIndex
    /\ index' = [index EXCEPT ![r] = @ + 1]
    /\ updates' = IF events.pc \in {"wait", "upsert"}
                  THEN Append(updates, [reserve |-> r, index |-> index[r] + 1])
                  ELSE updates
    /\ UNCHANGED <<answer, phase, tables, memory, boot, oracle, stream,
                   events>>

ChainMoves ==
    \/ \E f \in Feeds : NewRound(f) \/ NewPhase(f)
    \/ \E r \in Reserves : ReserveDataUpdated(r)

-----------------------------------------------------------------------------
\* Fanatic::new and init.

\* GetReservesUsers: only reserves with users have an entry in memory.
FanaticNew ==
    /\ pc = "off" /\ starts < MaxStarts
    /\ pc' = "reserves" /\ starts' = starts + 1
    /\ \E used \in SUBSET DOMAIN rows :
          memory' = [r \in used |-> stats[r].price]
    /\ UNCHANGED <<chain, tables, todo, found, tx, listeners>>

\* The tables are filled once: later starts find them as they are.
GetReserves ==
    /\ pc = "reserves"
    /\ pc' = IF rows = << >> THEN "node" ELSE "ready"
    /\ UNCHANGED <<chain, tables, memory, starts, todo, found, tx, listeners>>

\* The market lists some reserves, perhaps not all there will ever be.
GetReservesData ==
    /\ pc = "node"
    /\ pc' = "lookup"
    /\ todo' \in SUBSET Reserves \ {{}}
    /\ found' = [r \in todo' |-> [aggregator |-> None, price |-> None,
                                  index |-> index[r]]]
    /\ UNCHANGED <<chain, tables, memory, starts, tx, listeners>>

\* The vectors keep the order of the node's answer.
First(S) == CHOOSE r \in S : TRUE

LookUpAggregator(r) ==
    /\ pc = "lookup" /\ todo # {} /\ r = First(todo)
    /\ pc' = "price"
    /\ todo' = todo \ {r}
    /\ \E a \in Lookups(r) : found' = [found EXCEPT ![r].aggregator = a]
    /\ UNCHANGED <<chain, tables, memory, starts, tx, listeners>>

\* The price of the reserve that was looked up last.
ReadOraclePrice(r) ==
    /\ pc = "price" /\ r \in DOMAIN found \ todo /\ found[r].price = None
    /\ pc' = IF todo = {} THEN "insert" ELSE "lookup"
    /\ found' = [found EXCEPT ![r].price = OraclePrice(r)]
    /\ UNCHANGED <<chain, tables, memory, starts, todo, tx, listeners>>

\* What the statements say of the reserves in S.
Inserted(S) ==
    /\ rows' = [r \in S |-> found[r].aggregator]
    /\ stats' = [r \in S |->
                    [price |-> found[r].price, index |-> found[r].index]]

\* Mutant of UpsertReserve: its statements go to the pool, not the transaction.
UpsertReserveOnPool(r) ==
    /\ pc = "insert" /\ tx # DOMAIN found /\ r = First(DOMAIN found \ tx)
    /\ tx' = tx \cup {r}
    /\ Inserted(tx')
    /\ UNCHANGED <<chain, memory, pc, starts, todo, found, listeners>>

\* The four statements of a reserve, unseen until the commit.
UpsertReserve(r) ==
    /\ pc = "insert" /\ tx # DOMAIN found /\ r = First(DOMAIN found \ tx)
    /\ tx' = tx \cup {r}
    /\ UNCHANGED <<chain, tables, memory, pc, starts, todo, found, listeners>>

CommitReserves ==
    /\ pc = "insert" /\ tx = DOMAIN found
    /\ Inserted(tx)
    /\ pc' = "ready" /\ found' = << >> /\ tx' = {}
    /\ UNCHANGED <<chain, memory, starts, todo, listeners>>

\* The process ends: a call or statement of the start fails (expect()), or it
\* is stopped or killed.  A transaction is rolled back.
ProcessEnds ==
    /\ pc # "off"
    /\ pc' = "off" /\ todo' = {} /\ found' = << >> /\ tx' = {}
    /\ memory' = << >>
    /\ oracle' = OracleOff /\ mapping' = << >> /\ answers' = << >>
    /\ events' = EventsOff /\ updates' = << >>
    /\ moved' = {} /\ lagged' = FALSE
    /\ UNCHANGED <<chain, tables, starts>>

\* Fanatic::started has the Follower start its two listeners.
StartListening ==
    /\ pc = "ready"
    /\ pc' = "up"
    /\ oracle' = [OracleOff EXCEPT !.pc = "mapping"]
    /\ events' = [EventsOff EXCEPT !.pc = "subscribe"]
    /\ UNCHANGED <<chain, tables, memory, starts, todo, found, tx, stream,
                   updates>>

StartStep ==
    \/ FanaticNew \/ GetReserves \/ GetReservesData \/ CommitReserves
    \/ StartListening
    \/ \E r \in Reserves :
          LookUpAggregator(r) \/ ReadOraclePrice(r) \/ UpsertReserve(r)

-----------------------------------------------------------------------------
\* listen_oracle_prices.

\* Mutant of Mappings: the query lets NULL through.
MappingsWithNull ==
    LET aggregators == {rows[r] : r \in DOMAIN rows}
    IN  {m \in [aggregators -> DOMAIN rows] :
            \A a \in aggregators : rows[m[a]] = a}

\* A HashMap: of the reserves that share an aggregator, one is left.
Mappings ==
    LET aggregators == {rows[r] : r \in DOMAIN rows} \ {None}
    IN  {m \in [aggregators -> DOMAIN rows] :
            \A a \in aggregators : rows[m[a]] = a}

GetAggregatorMapping ==
    /\ oracle.pc = "mapping"
    /\ oracle' = [oracle EXCEPT !.pc = "subscribe"]
    /\ mapping' \in Mappings
    /\ UNCHANGED <<chain, tables, memory, boot, answers, updated, moved,
                   lagged>>

SubscribeLogs ==
    /\ oracle.pc = "subscribe"
    /\ oracle' = [oracle EXCEPT !.pc = "wait"]
    /\ UNCHANGED <<chain, tables, memory, boot, stream, updated>>

\* stream.next()
TakeAnswer ==
    /\ oracle.pc = "wait" /\ answers # << >>
    /\ oracle' = [oracle EXCEPT !.pc = "read", !.at = Head(answers)]
    /\ answers' = Tail(answers)
    /\ UNCHANGED <<chain, tables, memory, boot, mapping, updated, moved,
                   lagged>>

\* Mutant of ReadAnswer: a call that fails is skipped, not unwrapped.
ReadAnswerOrSkip ==
    /\ oracle.pc = "read"
    /\ \/ /\ oracle.at \in DOMAIN mapping
          /\ oracle' = [oracle EXCEPT !.pc = "store",
                                      !.price = AggregatorPrice(oracle.at)]
       \/ oracle' = [oracle EXCEPT !.pc = "wait", !.at = None]
    /\ UNCHANGED <<chain, tables, memory, boot, stream, updated>>

\* oracle_price(event.address): what the aggregator answers now, which may be
\* newer than the log.  The mapping is consulted afterwards.
ReadAnswer ==
    /\ oracle.pc = "read"
    /\ oracle' = IF oracle.at \in DOMAIN mapping
                 THEN [oracle EXCEPT !.pc = "store",
                                     !.price = AggregatorPrice(oracle.at)]
                 ELSE [oracle EXCEPT !.pc = "wait", !.at = None]
    /\ UNCHANGED <<chain, tables, memory, boot, stream, updated>>

\* Mutant of UpdateOraclePrice: an error is logged and the Fanatic told anyway.
UpdateOraclePriceOrLog ==
    /\ oracle.pc = "store"
    /\ oracle' = [oracle EXCEPT !.pc = "tell"]
    /\ \/ stats' = [stats EXCEPT ![mapping[oracle.at]].price = oracle.price]
       \/ UNCHANGED stats
    /\ UNCHANGED <<chain, rows, memory, boot, stream, updated>>

UpdateOraclePrice ==
    /\ oracle.pc = "store"
    /\ oracle' = [oracle EXCEPT !.pc = "tell"]
    /\ stats' = [stats EXCEPT ![mapping[oracle.at]].price = oracle.price]
    /\ UNCHANGED <<chain, rows, memory, boot, stream, updated>>

\* UpdateReservePrice: the Fanatic sets the price, then scans.
UpdateReservePrice ==
    /\ oracle.pc = "tell"
    /\ oracle' = [oracle EXCEPT !.pc = "told"]
    /\ memory' = [r \in DOMAIN memory |->
                     IF r = mapping[oracle.at] THEN oracle.price ELSE memory[r]]
    /\ UNCHANGED <<chain, tables, boot, stream, updated>>

\* The Fanatic answers, or its handler hangs (Bot!Wedged).
FanaticAnswers ==
    /\ oracle.pc = "told"
    /\ oracle' = [OracleOff EXCEPT !.pc = "wait"]
    /\ UNCHANGED <<chain, tables, memory, boot, stream, updated>>

FanaticHangs ==
    /\ oracle.pc = "told" /\ mapping[oracle.at] \in DOMAIN memory
    /\ oracle' = [oracle EXCEPT !.pc = "stuck"]
    /\ UNCHANGED <<chain, tables, memory, boot, stream, updated>>

\* The stream has no next log: the listener's future ends in silence.
SubscriptionEnds ==
    /\ oracle.pc = "wait" /\ answers = << >>
    /\ oracle' = [OracleOff EXCEPT !.pc = "down"]
    /\ UNCHANGED <<chain, tables, memory, boot, stream, updated>>

PriceListenerStep ==
    \/ GetAggregatorMapping \/ SubscribeLogs \/ TakeAnswer \/ ReadAnswer
    \/ UpdateOraclePrice \/ UpdateReservePrice \/ FanaticAnswers

-----------------------------------------------------------------------------
\* listen_events, as far as reserves are concerned.

SubscribeEvents ==
    /\ events.pc = "subscribe"
    /\ events' = [events EXCEPT !.pc = "wait"]
    /\ UNCHANGED <<chain, tables, memory, boot, oracle, stream, updates>>

TakeUpdate ==
    /\ events.pc = "wait" /\ updates # << >>
    /\ events' = [pc |-> "upsert", log |-> Head(updates)]
    /\ updates' = Tail(updates)
    /\ UNCHANGED <<chain, tables, memory, boot, oracle, stream>>

\* Mutant of UpsertReservesStats: the row is written with the Fanatic's price.
UpsertStatsAndPrice ==
    /\ events.pc = "upsert"
    /\ events' = [EventsOff EXCEPT !.pc = "wait"]
    /\ LET r == events.log.reserve IN
       \/ /\ r \in DOMAIN rows
          /\ stats' = [stats EXCEPT ![r] =
                 [index |-> events.log.index,
                  price |-> IF r \in DOMAIN memory THEN memory[r] ELSE @.price]]
       \/ UNCHANGED stats
    /\ UNCHANGED <<chain, rows, memory, boot, oracle, stream, updates>>

\* Every column but the price; a reserve without a row breaks the foreign key.
\* An error is logged, and the next log taken.
UpsertReservesStats ==
    /\ events.pc = "upsert"
    /\ events' = [EventsOff EXCEPT !.pc = "wait"]
    /\ \/ /\ events.log.reserve \in DOMAIN rows
          /\ stats' = [stats EXCEPT
                          ![events.log.reserve].index = events.log.index]
       \/ UNCHANGED stats
    /\ UNCHANGED <<chain, rows, memory, boot, oracle, stream, updates>>

\* The stream has no next log.
EventsEnd ==
    /\ events.pc = "wait" /\ updates = << >>
    /\ events' = [EventsOff EXCEPT !.pc = "down"]
    /\ UNCHANGED <<chain, tables, memory, boot, oracle, stream, updates>>

EventListenerStep ==
    SubscribeEvents \/ TakeUpdate \/ UpsertReservesStats \/ EventsEnd

\* An unwrap() of one listener takes the Follower down, and both of them.
FollowerPanics ==
    /\ pc = "up"
    /\ oracle.pc # "down" \/ events.pc # "down"
    /\ oracle' = [OracleOff EXCEPT !.pc = "down"]
    /\ events' = [EventsOff EXCEPT !.pc = "down"]
    /\ answers' = << >> /\ updates' = << >>
    /\ UNCHANGED <<chain, tables, memory, boot, mapping, moved, lagged>>

-----------------------------------------------------------------------------
Init ==
    /\ answer = [a \in Aggregators |-> 0]
    /\ phase = [f \in Feeds |-> 1]
    /\ index = [r \in Reserves |-> 0]
    /\ rows = << >> /\ stats = << >> /\ memory = << >>
    /\ pc = "off" /\ starts = 0 /\ todo = {} /\ found = << >> /\ tx = {}
    /\ oracle = OracleOff /\ mapping = << >> /\ answers = << >>
    /\ events = EventsOff /\ updates = << >>
    /\ moved = {} /\ lagged = FALSE

Next ==
    \/ ChainMoves
    \/ StartStep \/ ProcessEnds
    \/ PriceListenerStep \/ FanaticHangs \/ SubscriptionEnds
    \/ EventListenerStep
    \/ FollowerPanics

Spec == Init /\ [][Next]_vars

\* The listener's future is polled, and what it awaits answers or fails.
\* Nothing makes the chain move, or the process start again.
FairSpec == Spec /\ WF_vars(PriceListenerStep)

-----------------------------------------------------------------------------
\* Type invariant.
TypeOK ==
    /\ answer \in [Aggregators -> 0..MaxRound]
    /\ phase \in [Feeds -> 1..MaxPhase]
    /\ index \in [Reserves -> 0..MaxIndex]
    /\ IsMap(rows, Reserves, Addresses \cup {None})
    /\ IsMap(stats, Reserves, Row) /\ DOMAIN stats = DOMAIN rows
    /\ IsMap(memory, Reserves, Prices)
    /\ pc \in {"off", "reserves", "node", "lookup", "price", "insert", "ready",
               "up"}
    /\ starts \in 0..MaxStarts
    /\ todo \subseteq Reserves /\ tx \subseteq DOMAIN found
    /\ IsMap(found, Reserves, [aggregator : Addresses \cup {None},
                               price : Prices \cup {None}, index : 0..MaxIndex])
    /\ oracle \in [pc : {"off", "mapping", "subscribe", "wait", "read", "store",
                         "tell", "told", "stuck", "down"},
                   at : Addresses \cup {None}, price : Prices]
    /\ IsMap(mapping, Addresses, Reserves)
    /\ answers \in Seq(Aggregators) /\ Len(answers) <= Backlog
    /\ events.pc \in {"off", "subscribe", "wait", "upsert", "down"}
    /\ moved \subseteq Feeds /\ lagged \in BOOLEAN

-----------------------------------------------------------------------------
\* The tables are filled at once: a process that dies while it fills them
\* leaves them empty, so that the next one starts over.  Nothing would list the
\* missing reserves afterwards, for the tables are not empty any more
\* (fanatic.rs:222; upsert_reserves, database.rs:583-621).
FilledAtOnce ==
    [][DOMAIN rows' # DOMAIN rows =>
          /\ DOMAIN rows = {}
          /\ pc = "insert" /\ DOMAIN rows' = DOMAIN found /\ pc' = "ready"]_vars

\* While the price listener waits for a log, the Fanatic calculates with the
\* prices of the table: the two writes of a price, with an await between them
\* and a panic or an end of the process at any moment, do not drift apart
\* (follower.rs:163-181).
MemoryAgrees ==
    oracle.pc = "wait" => \A r \in DOMAIN memory : memory[r] = stats[r].price

\* What a row says of its reserve never goes back: the price is read, stored and
\* passed on by one listener and the indices by another, in one row, over
\* restarts (database.rs:456-465, 480-489).
NeverOlder ==
    [][\A r \in DOMAIN rows :
          /\ stats'[r].index >= stats[r].index
          /\ \A f \in DOMAIN stats[r].price \cap DOMAIN stats'[r].price :
                stats'[r].price[f] >= stats[r].price[f]]_vars

\* A feed's new round, announced by an aggregator the listener has subscribed
\* to, reaches the table: as the price of the reserve the mapping names.
Announced(f) ==
    Listening /\ f \in moved /\ <<f, phase[f]>> \in DOMAIN mapping
Stored(f) ==
    stats[mapping[<<f, phase[f]>>]].price = AggregatorPrice(<<f, phase[f]>>)

\* The way out is a listener that has ended or hangs, or a log that was dropped.
RoundReachesTable ==
    \A f \in Feeds :
       Announced(f) ~>
          (~Announced(f) \/ Stored(f) \/ lagged \/ oracle.pc = "stuck")

-----------------------------------------------------------------------------
\* What the repository says of prices, and TLC refutes.

\* README.md:21, "all reserves's real time value is tracked by listening for
\* AnswerUpdated": when the listener has nothing left to do, a reserve whose price
\* has moved since it subscribed has that price in the table.
ValueTracked ==
    (oracle.pc = "wait" /\ answers = << >> /\ ~lagged) =>
        \A r \in DOMAIN rows :
           LegSet(r) \cap moved # {} => stats[r].price = OraclePrice(r)
=============================================================================
