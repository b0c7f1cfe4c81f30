---------------------------- MODULE OracleProofs ----------------------------
(***************************************************************************)
(* Theorems about Oracle, for any reserves, feeds, oracles and bounds: the *)
(* tables are filled at once, and the Fanatic calculates with the prices   *)
(* of the table.                                                           *)
(***************************************************************************)
EXTENDS Oracle, TLAPS

\* The tables as functions of the listed reserves, and the only thing of the
\* listener's own that matters: the mapping names listed reserves.
ShapeInv ==
    /\ stats = [r \in DOMAIN rows |-> [price |-> stats[r].price,
                                       index |-> stats[r].index]]
    /\ DOMAIN memory \subseteq DOMAIN rows
    /\ \A a \in DOMAIN mapping : mapping[a] \in DOMAIN rows
    /\ oracle = [pc |-> oracle.pc, at |-> oracle.at, price |-> oracle.price]
    /\ events = [pc |-> events.pc, log |-> events.log]
    /\ oracle.pc \in {"store", "tell", "told"} => oracle.at \in DOMAIN mapping

\* While the tables are filled they are empty, and so is memory.
FillInv ==
    /\ pc \in {"off", "reserves", "node", "lookup", "price", "insert", "ready",
               "up"}
    /\ pc \in {"node", "lookup", "price", "insert"} =>
          DOMAIN rows = {} /\ DOMAIN memory = {}
    /\ pc # "up" => oracle.pc = "off" /\ events.pc = "off"

\* Where memory and table agree: everywhere but between the two writes of a
\* price, and then in all reserves but one.
Agree(r) == memory[r] = stats[r].price
AgreeInv ==
    /\ oracle.pc \notin {"tell", "down"} => \A r \in DOMAIN memory : Agree(r)
    /\ oracle.pc = "tell" =>
          /\ stats[mapping[oracle.at]].price = oracle.price
          /\ \A r \in DOMAIN memory : r # mapping[oracle.at] => Agree(r)

OInv == ShapeInv /\ FillInv /\ AgreeInv

-----------------------------------------------------------------------------
\* The invariant holds of empty tables and an empty memory.
LEMMA InitOInv == Init => OInv
BY DEF Init, OInv, ShapeInv, FillInv, AgreeInv, Agree, OracleOff, EventsOff

\* The chain moves neither table nor memory.
LEMMA ChainOInv == OInv /\ ChainMoves => OInv'
BY DEF ChainMoves, NewRound, NewPhase, ReserveDataUpdated, AnswerUpdated,
       OInv, ShapeInv, FillInv, AgreeInv, Agree, tables, boot, listeners,
       stream, updated

\* A start loads memory from the table.
LEMMA NewOInv == OInv /\ FanaticNew => OInv'
BY DEF FanaticNew, OInv, ShapeInv, FillInv, AgreeInv, Agree, chain, tables,
       listeners, stream, updated

\* Tables that are filled were empty, and memory with them.
LEMMA CommitOInv == OInv /\ CommitReserves => OInv'
BY DEF CommitReserves, Inserted, OInv, ShapeInv, FillInv, AgreeInv, Agree,
       chain, tables, listeners, stream, updated

\* The other steps of the start.
LEMMA StartOInv ==
    ASSUME OInv, GetReserves \/ GetReservesData
                 \/ \E r \in Reserves : LookUpAggregator(r)
                       \/ ReadOraclePrice(r) \/ UpsertReserve(r)
    PROVE  OInv'
<1>1. /\ UNCHANGED <<tables, memory, listeners>>
      /\ pc' \in {"node", "ready", "lookup", "price", "insert"}
      /\ pc' # "ready" => pc # "reserves" \/ rows = << >>
      /\ pc \in {"reserves", "node", "lookup", "price", "insert"}
      /\ pc' = "ready" => pc = "reserves"
  BY DEF GetReserves, GetReservesData, LookUpAggregator, ReadOraclePrice,
         UpsertReserve
<1>2. rows = << >> => DOMAIN rows = {} /\ DOMAIN memory = {}
  BY DEF OInv, ShapeInv
<1>3. ShapeInv'
  BY <1>1 DEF OInv, ShapeInv, tables, listeners, stream, updated
<1>4. FillInv'
  BY <1>1, <1>2 DEF OInv, FillInv, tables, listeners, updated
<1>5. AgreeInv'
  BY <1>1 DEF OInv, AgreeInv, Agree, tables, listeners, stream
<1> QED
  BY <1>3, <1>4, <1>5 DEF OInv

\* Nothing has been written when the listeners are asked for.
LEMMA UpOInv == OInv /\ StartListening => OInv'
BY DEF StartListening, OInv, ShapeInv, FillInv, AgreeInv, Agree, chain,
       tables, stream, OracleOff, EventsOff

\* The end of the process takes memory, not the tables.
LEMMA EndOInv == OInv /\ ProcessEnds => OInv'
BY DEF ProcessEnds, OInv, ShapeInv, FillInv, AgreeInv, Agree, chain, tables,
       OracleOff, EventsOff

\* The mapping names listed reserves only.
LEMMA MappingOInv == OInv /\ GetAggregatorMapping => OInv'
<1> SUFFICES ASSUME OInv, GetAggregatorMapping PROVE OInv'
  OBVIOUS
<1>1. /\ UNCHANGED <<tables, memory, boot, events>>
      /\ oracle.pc = "mapping" /\ oracle' = [oracle EXCEPT !.pc = "subscribe"]
  BY DEF GetAggregatorMapping, updated
<1>2. \A a \in DOMAIN mapping' : mapping'[a] \in DOMAIN rows
  BY DEF GetAggregatorMapping, Mappings
<1>3. ShapeInv'
  BY <1>1, <1>2 DEF OInv, ShapeInv, tables
<1>4. FillInv'
  BY <1>1 DEF OInv, FillInv, tables, boot
<1>5. AgreeInv'
  BY <1>1 DEF OInv, AgreeInv, Agree, tables
<1> QED
  BY <1>3, <1>4, <1>5 DEF OInv

\* What the price listener does without writing.
LEMMA ListenOInv ==
    ASSUME OInv, SubscribeLogs \/ TakeAnswer \/ FanaticAnswers
                 \/ FanaticHangs \/ SubscriptionEnds
    PROVE  OInv'
<1>1. /\ UNCHANGED <<tables, memory, boot, events, mapping>>
      /\ oracle.pc \notin {"tell", "down", "off"}
      /\ oracle'.pc \notin {"store", "tell", "told"}
      /\ oracle' = [pc |-> oracle'.pc, at |-> oracle'.at,
                    price |-> oracle'.price]
  BY DEF OInv, ShapeInv, SubscribeLogs, TakeAnswer, FanaticAnswers,
         FanaticHangs, SubscriptionEnds, stream, updated, OracleOff
<1>2. ShapeInv'
  BY <1>1 DEF OInv, ShapeInv, tables
<1>3. FillInv'
  BY <1>1 DEF OInv, FillInv, tables, boot
<1>4. AgreeInv'
  BY <1>1 DEF OInv, AgreeInv, Agree, tables
<1> QED
  BY <1>2, <1>3, <1>4 DEF OInv

\* Reading an answer writes nothing.
LEMMA ReadOInv == OInv /\ ReadAnswer => OInv'
BY DEF ReadAnswer, OInv, ShapeInv, FillInv, AgreeInv, Agree, chain, tables,
       boot, stream, updated

\* The row is written: memory differs in that reserve at most.
LEMMA StoreOInv == OInv /\ UpdateOraclePrice => OInv'
<1> SUFFICES ASSUME OInv, UpdateOraclePrice PROVE OInv'
  OBVIOUS
<1> DEFINE r0 == mapping[oracle.at]
<1>1. /\ oracle.pc = "store" /\ r0 \in DOMAIN rows
      /\ UNCHANGED <<rows, memory, boot, events, mapping>>
      /\ oracle'.pc = "tell" /\ oracle'.at = oracle.at
      /\ oracle'.price = oracle.price
      /\ oracle' = [pc |-> oracle'.pc, at |-> oracle'.at,
                    price |-> oracle'.price]
  BY DEF OInv, ShapeInv, UpdateOraclePrice, stream, updated
<1>2. stats' = [r \in DOMAIN rows |->
                  [price |-> IF r = r0 THEN oracle.price ELSE stats[r].price,
                   index |-> stats[r].index]]
  BY <1>1 DEF OInv, ShapeInv, UpdateOraclePrice
<1>3. ShapeInv'
  BY <1>1, <1>2 DEF OInv, ShapeInv
<1>4. FillInv'
  BY <1>1 DEF OInv, FillInv, boot
<1>5. AgreeInv'
  BY <1>1, <1>2 DEF OInv, ShapeInv, AgreeInv, Agree
<1> QED
  BY <1>3, <1>4, <1>5 DEF OInv

\* Memory is written: it agrees with the table again.
LEMMA TellOInv == OInv /\ UpdateReservePrice => OInv'
<1> SUFFICES ASSUME OInv, UpdateReservePrice PROVE OInv'
  OBVIOUS
<1>1. /\ oracle.pc = "tell"
      /\ UNCHANGED <<tables, boot, events, mapping>>
      /\ oracle'.pc = "told" /\ oracle'.at = oracle.at
      /\ oracle' = [pc |-> oracle'.pc, at |-> oracle'.at,
                    price |-> oracle'.price]
      /\ memory' = [r \in DOMAIN memory |-> IF r = mapping[oracle.at]
                                            THEN oracle.price ELSE memory[r]]
  BY DEF OInv, ShapeInv, UpdateReservePrice, stream, updated
<1>2. ShapeInv'
  BY <1>1 DEF OInv, ShapeInv, AgreeInv, tables
<1>3. FillInv'
  BY <1>1 DEF OInv, FillInv, tables, boot
<1>4. AgreeInv'
  BY <1>1 DEF OInv, AgreeInv, Agree, tables
<1> QED
  BY <1>2, <1>3, <1>4 DEF OInv

\* The events listener writes indices, not prices.
LEMMA EventsOInv == OInv /\ EventListenerStep => OInv'
<1> SUFFICES ASSUME OInv, EventListenerStep PROVE OInv'
  OBVIOUS
<1>1. /\ UNCHANGED <<rows, memory, boot, oracle, mapping>>
      /\ events' = [pc |-> events'.pc, log |-> events'.log]
      /\ events.pc # "off"
  BY DEF OInv, ShapeInv, EventListenerStep, SubscribeEvents, TakeUpdate,
         UpsertReservesStats, EventsEnd, tables, stream, EventsOff
<1>2. stats' = [r \in DOMAIN rows |-> [price |-> stats[r].price,
                                       index |-> stats'[r].index]]
  <2>1. ASSUME NEW r0 \in DOMAIN rows,
               stats' = [stats EXCEPT ![r0].index = events.log.index]
        PROVE  stats' = [r \in DOMAIN rows |->
                            [price |-> stats[r].price,
                             index |-> IF r = r0 THEN events.log.index
                                                 ELSE stats[r].index]]
    BY <2>1 DEF OInv, ShapeInv
  <2>2. CASE stats' = stats
    BY <2>2 DEF OInv, ShapeInv
  <2>3. \/ stats' = stats
        \/ \E r0 \in DOMAIN rows :
              stats' = [stats EXCEPT ![r0].index = events.log.index]
    BY DEF EventListenerStep, SubscribeEvents, TakeUpdate, EventsEnd,
           UpsertReservesStats, tables
  <2> QED
    BY <2>1, <2>2, <2>3
<1>3. ShapeInv'
  BY <1>1, <1>2 DEF OInv, ShapeInv
<1>4. FillInv'
  BY <1>1 DEF OInv, FillInv, boot
<1>5. AgreeInv'
  <2>1. \A r \in DOMAIN rows : stats'[r].price = stats[r].price
    BY <1>2
  <2>2. /\ DOMAIN memory \subseteq DOMAIN rows
        /\ oracle.pc = "tell" => mapping[oracle.at] \in DOMAIN rows
    BY DEF OInv, ShapeInv
  <2> QED
    BY <1>1, <2>1, <2>2 DEF OInv, AgreeInv, Agree
<1> QED
  BY <1>3, <1>4, <1>5 DEF OInv

\* After a panic the price listener never waits again.
LEMMA PanicOInv == OInv /\ FollowerPanics => OInv'
BY DEF FollowerPanics, OInv, ShapeInv, FillInv, AgreeInv, Agree, chain,
       tables, boot, OracleOff, EventsOff

\* The invariant is inductive.
LEMMA StepOInv == OInv /\ [Next]_vars => OInv'
<1> SUFFICES ASSUME OInv, [Next]_vars PROVE OInv'
  OBVIOUS
<1>1. CASE UNCHANGED vars
  BY <1>1 DEF vars, chain, tables, boot, listeners, stream, updated, OInv,
              ShapeInv, FillInv, AgreeInv, Agree
<1>2. CASE StartStep
  BY <1>2, NewOInv, StartOInv, CommitOInv, UpOInv DEF StartStep
<1>3. CASE PriceListenerStep
  BY <1>3, MappingOInv, ListenOInv, ReadOInv, StoreOInv, TellOInv
     DEF PriceListenerStep
<1> QED
  BY <1>1, <1>2, <1>3, ChainOInv, EndOInv, ListenOInv, EventsOInv, PanicOInv
     DEF Next

\* The invariant holds for ever.
LEMMA OracleInvariant == Spec => []OInv
BY InitOInv, StepOInv, PTL DEF Spec

-----------------------------------------------------------------------------
\* The tables are filled by one commit, and only while they are empty.
THEOREM TablesFilledAtOnce == Spec => FilledAtOnce
<1> DEFINE Filled ==
       DOMAIN rows' # DOMAIN rows =>
          /\ DOMAIN rows = {}
          /\ pc = "insert" /\ DOMAIN rows' = DOMAIN found /\ pc' = "ready"
<1>1. OInv /\ [Next]_vars => [Filled]_vars
  <2> SUFFICES ASSUME OInv, Next PROVE Filled
    OBVIOUS
  <2>1. CASE CommitReserves
    BY <2>1 DEF CommitReserves, Inserted, OInv, FillInv
  <2>2. CASE StartStep /\ ~CommitReserves
    BY <2>2 DEF StartStep, FanaticNew, GetReserves, GetReservesData,
                LookUpAggregator, ReadOraclePrice, UpsertReserve,
                StartListening, tables
  <2>3. CASE ChainMoves \/ ProcessEnds \/ FollowerPanics
    BY <2>3 DEF ChainMoves, NewRound, NewPhase, ReserveDataUpdated,
                ProcessEnds, FollowerPanics, tables
  <2>4. CASE PriceListenerStep \/ FanaticHangs \/ SubscriptionEnds
    BY <2>4 DEF PriceListenerStep, GetAggregatorMapping, SubscribeLogs,
                TakeAnswer, ReadAnswer, UpdateOraclePrice, UpdateReservePrice,
                FanaticAnswers, FanaticHangs, SubscriptionEnds, tables
  <2>5. CASE EventListenerStep
    BY <2>5 DEF EventListenerStep, SubscribeEvents, TakeUpdate,
                UpsertReservesStats, EventsEnd, tables
  <2> QED
    BY <2>1, <2>2, <2>3, <2>4, <2>5 DEF Next
<1> QED
  BY <1>1, OracleInvariant, PTL DEF Spec, FilledAtOnce

\* Memory has the prices of the table whenever the price listener waits: every
\* way out between its two writes is one that does not come back to waiting.
THEOREM MemoryHasTablePrices == Spec => []MemoryAgrees
<1>1. OInv => MemoryAgrees
  BY DEF OInv, AgreeInv, Agree, MemoryAgrees
<1> QED
  BY <1>1, OracleInvariant, PTL
=============================================================================
