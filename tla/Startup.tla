------------------------------ MODULE Startup ------------------------------
(***************************************************************************)
(* The life of the actors: run.rs, and in actors/*.rs what started(), the  *)
(* mailboxes and every unwrap() of a send do.  main starts the actors one  *)
(* after the other; each has a mailbox and an address; a panic in an       *)
(* actor's own context ends it for good.  Nobody restarts an actor, and    *)
(* main looks at one of them again only when a signal comes.               *)
(*                                                                         *)
(* What a handler does is left to Fanatic and Executor.  Here its future   *)
(* answers, or panics and drops its answer, or stays stuck (wedged).       *)
(* The requests of the price and the user handler to the Executor, and its *)
(* notifications to the Fanatic, are sent by such futures: they are in     *)
(* Bot, and no mailbox here holds one.  The Database has none here either: *)
(* its handlers run in futures of their own, and it never dies.            *)
(***************************************************************************)
EXTENDS Naturals, Sequences

Actors == {"follower", "fanatic", "executor"}
Listeners == {"prices", "events"}   \* listen_oracle_prices, listen_events

\* Whoever awaits an answer: the two listeners, the future of Fanatic::started
\* and run().
Callers == Listeners \cup {"started", "main"}

\* The callers that are futures of an actor's context, and die with it.
Fibers == [follower |-> Listeners, fanatic |-> {"started"}, executor |-> {}]

VARIABLES
    main,          \* what run() does next; "stopped", "panicked" end the process
    signal,        \* a signal has come and run() has not taken it
    alive,         \* [Actors -> {"off", "up", "dead"}]
    box,           \* [Actors -> Seq([kind, from])]: the mailboxes
    reply,         \* [Callers -> {"none", "awaited", "ok", "closed"}]
    futures,       \* the callers whose message a future of the Fanatic handles
    wedged,        \* the future of an UpdateReservePrice is stuck, and the locks
    boot,          \* how many of its messages Fanatic::started has sent
    announced,     \* Executor::started has run
    fanaticAddr,   \* Follower.fanatic_addr is Some
    executorAddr,  \* Fanatic.executor_addr is Some
    listener,      \* [Listeners -> {"off", "opening", "listening", "sending"}]
    captured,      \* [Listeners -> BOOLEAN]: its clone of fanatic_addr is Some
    flush          \* how the Shutdown handler has ended: "none", "written", "failed"

outside == <<main, signal>>
mail == <<alive, box, reply>>
tasks == <<futures, wedged, flush>>
boots == <<boot, announced>>
addrs == <<fanaticAddr, executorAddr>>
listening == <<listener, captured>>
vars == <<outside, mail, tasks, boots, addrs, listening>>

\* Mutant of BootMessages: the address is sent last.
ListenFirst == <<"StartListeningForOraclePrices", "StartListeningForEvents",
                 "SendFanaticAddr">>

\* What Fanatic::started sends to the Follower, awaiting each answer.
BootMessages == <<"SendFanaticAddr", "StartListeningForOraclePrices",
                  "StartListeningForEvents">>

\* What the listeners send to the Fanatic.
Events == [prices |-> {"UpdateReservePrice"},
           events |-> {"UpdateReserveUser", "DoSmthWithLiquidationCall"}]

\* The messages whose handler unwraps executor_addr.
NeedsExecutor == {"UpdateReservePrice", "UpdateReserveUser"}

Message(kind, from) == [kind |-> kind, from |-> from]

Init ==
    /\ main = "follower" /\ signal = FALSE
    /\ alive = [a \in Actors |-> "off"]
    /\ box = [a \in Actors |-> << >>]
    /\ reply = [c \in Callers |-> "none"]
    /\ futures = {} /\ wedged = FALSE /\ flush = "none"
    /\ boot = 0 /\ announced = FALSE
    /\ fanaticAddr = FALSE /\ executorAddr = FALSE
    /\ listener = [l \in Listeners |-> "off"]
    /\ captured = [l \in Listeners |-> FALSE]

-----------------------------------------------------------------------------
\* Mailboxes.

\* addr.send(..).await begins.  The mailbox of a dead actor is closed.
Send(a, kind, c) ==
    IF alive[a] = "up"
    THEN /\ box' = [box EXCEPT ![a] = Append(@, Message(kind, c))]
         /\ reply' = [reply EXCEPT ![c] = "awaited"]
    ELSE /\ reply' = [reply EXCEPT ![c] = "closed"]
         /\ UNCHANGED box

\* Nobody awaits the answer any more: its sender has gone with its context.
Dropped(m) == \E b \in Actors : alive[b] = "dead" /\ m.from \in Fibers[b]

\* The oldest message of a: a dropped one is skipped, the others are handled;
\* and what answering one at once does.
HasMail(a) == alive[a] = "up" /\ box[a] # << >>

SkipDropped(a) ==
    /\ HasMail(a)
    /\ Dropped(Head(box[a]))
    /\ box' = [box EXCEPT ![a] = Tail(@)]
    /\ UNCHANGED <<outside, alive, reply, tasks, boots, addrs, listening>>

Takes(a, kind) ==
    /\ HasMail(a)
    /\ ~Dropped(Head(box[a]))
    /\ Head(box[a]).kind = kind

AnswerAtOnce(a) ==
    /\ box' = [box EXCEPT ![a] = Tail(@)]
    /\ reply' = [reply EXCEPT ![Head(box[a]).from] = "ok"]
    /\ UNCHANGED alive

\* Mutant of Dies: the callers in line are not told.
DiesSilently(a) ==
    /\ alive' = [alive EXCEPT ![a] = "dead"]
    /\ box' = [box EXCEPT ![a] = << >>]
    /\ reply' = [c \in Callers |-> IF c \in Fibers[a] THEN "none" ELSE reply[c]]

\* A panic in the context of a.  The mailbox is dropped, and with it the answer
\* of every caller in line, the one whose message is being handled included.
\* The futures of the context go too.  Futures of handlers are tasks and go on.
InLine(c, a) == \E i \in 1..Len(box[a]) : box[a][i].from = c

Dies(a) ==
    /\ alive' = [alive EXCEPT ![a] = "dead"]
    /\ box' = [box EXCEPT ![a] = << >>]
    /\ reply' = [c \in Callers |->
          IF c \in Fibers[a] THEN "none"
          ELSE IF reply[c] = "awaited" /\ InLine(c, a) THEN "closed"
          ELSE reply[c]]

-----------------------------------------------------------------------------
\* run()

Following == [follower |-> "fanatic", fanatic |-> "executor", executor |-> "select"]

\* X::new(..).await.expect(..).start(), in this order.
StartActor ==
    /\ main \in Actors
    /\ alive' = [alive EXCEPT ![main] = "up"]
    /\ main' = Following[main]
    /\ UNCHANGED <<signal, box, reply, tasks, boots, addrs, listening>>

\* A query or a call of X::new or of Fanatic::init fails.
ExpectFails ==
    /\ main \in Actors
    /\ main' = "panicked"
    /\ UNCHANGED <<signal, mail, tasks, boots, addrs, listening>>

\* Both signals are registered before anything else: an early one is kept.
SignalComes ==
    /\ ~signal
    /\ main \in Actors \cup {"select"}
    /\ signal' = TRUE
    /\ UNCHANGED <<main, mail, tasks, boots, addrs, listening>>

TakeSignal ==
    /\ main = "select" /\ signal
    /\ main' = "shutdown"
    /\ signal' = FALSE
    /\ Send("fanatic", "Shutdown", "main")
    /\ UNCHANGED <<alive, tasks, boots, addrs, listening>>

\* Mutant of ShutdownAnswered: the outcome of the send is ignored.
StopAnyhow ==
    /\ main = "shutdown" /\ reply["main"] \in {"ok", "closed"}
    /\ main' = "stopped"
    /\ UNCHANGED <<signal, mail, tasks, boots, addrs, listening>>

\* .await.unwrap().unwrap(), then System::current().stop().
ShutdownAnswered ==
    /\ main = "shutdown" /\ reply["main"] \in {"ok", "closed"}
    /\ main' = IF reply["main"] = "ok" THEN "stopped" ELSE "panicked"
    /\ UNCHANGED <<signal, mail, tasks, boots, addrs, listening>>

-----------------------------------------------------------------------------
\* Executor::started: do_send, whether or not the Fanatic is still there.
AnnounceExecutor ==
    /\ alive["executor"] = "up" /\ ~announced
    /\ announced' = TRUE
    /\ box' = IF alive["fanatic"] = "up"
              THEN [box EXCEPT !["fanatic"] =
                       Append(@, Message("SendExecutorAddr", "executor"))]
              ELSE box
    /\ UNCHANGED <<outside, alive, reply, tasks, boot, addrs, listening>>

-----------------------------------------------------------------------------
\* Fanatic

\* started(): the next message, once the one before has been answered.
FanaticStarted ==
    /\ alive["fanatic"] = "up"
    /\ boot < Len(BootMessages)
    /\ reply["started"] = (IF boot = 0 THEN "none" ELSE "ok")
    /\ boot' = boot + 1
    /\ Send("follower", BootMessages[boot + 1], "started")
    /\ UNCHANGED <<outside, alive, tasks, announced, addrs, listening>>

\* The Follower has died: the send is unwrapped in the Fanatic's context.
FanaticStartedPanics ==
    /\ alive["fanatic"] = "up"
    /\ reply["started"] = "closed"
    /\ Dies("fanatic")
    /\ UNCHANGED <<outside, tasks, boots, addrs, listening>>

\* Handler<SendExecutorAddr>: nobody waits for its answer.
FanaticTakesExecutorAddr ==
    /\ Takes("fanatic", "SendExecutorAddr")
    /\ executorAddr' = TRUE
    /\ box' = [box EXCEPT !["fanatic"] = Tail(@)]
    /\ UNCHANGED <<outside, alive, reply, tasks, boots, fanaticAddr, listening>>

\* self.executor_addr.clone().unwrap(), in handle() itself.
FanaticUnwrapsNone ==
    /\ \E kind \in NeedsExecutor : Takes("fanatic", kind)
    /\ ~executorAddr
    /\ Dies("fanatic")
    /\ UNCHANGED <<outside, tasks, boots, addrs, listening>>

\* Mutant of FanaticTakes: whatever the message is.
FanaticTakesAny ==
    /\ alive["fanatic"] = "up" /\ box["fanatic"] # << >>
    /\ futures' = futures \cup {Head(box["fanatic"]).from}
    /\ box' = [box EXCEPT !["fanatic"] = Tail(@)]
    /\ UNCHANGED <<outside, alive, reply, wedged, flush, boots, addrs, listening>>

\* Every other message is handled by a future.
FanaticTakes ==
    /\ \/ \E kind \in NeedsExecutor : Takes("fanatic", kind) /\ executorAddr
       \/ Takes("fanatic", "DoSmthWithLiquidationCall")
       \/ Takes("fanatic", "Shutdown")
    /\ futures' = futures \cup {Head(box["fanatic"]).from}
    /\ box' = [box EXCEPT !["fanatic"] = Tail(@)]
    /\ UNCHANGED <<outside, alive, reply, wedged, flush, boots, addrs, listening>>

\* The price handler asks for a lock it holds (Bot!Wedged).
Wedge ==
    /\ "prices" \in futures /\ ~wedged
    /\ wedged' = TRUE
    /\ UNCHANGED <<outside, mail, futures, flush, boots, addrs, listening>>

\* The future of a caller's message ends, with an answer or with a panic (or,
\* for a liquidation call, an error).  A handler of Shutdown answers Ok whether
\* or not update_recent_users has written the users.  A wedged bot may still
\* handle an event, and a Shutdown if the indices cannot be read, which are read
\* before the lock; it handles no price.
FutureEnds(c) ==
    /\ c \in futures
    /\ futures' = futures \ {c}
    /\ IF c = "main" THEN flush' \in {"written", "failed"} ELSE UNCHANGED flush
    /\ wedged => c = "events" \/ (c = "main" /\ flush' = "failed")
    /\ \E answer \in IF c = "main" THEN {"ok"} ELSE {"ok", "closed"} :
          reply' = IF reply[c] = "awaited" THEN [reply EXCEPT ![c] = answer]
                   ELSE reply
    /\ UNCHANGED <<outside, alive, box, wedged, boots, addrs, listening>>

-----------------------------------------------------------------------------
\* Follower

FollowerTakesAddr ==
    /\ Takes("follower", "SendFanaticAddr")
    /\ fanaticAddr' = TRUE
    /\ AnswerAtOnce("follower")
    /\ UNCHANGED <<outside, tasks, boots, executorAddr, listening>>

\* listen_oracle_prices, listen_events: fanatic_addr is cloned as it is now.
StartListening(l, kind) ==
    /\ Takes("follower", kind)
    /\ listener' = [listener EXCEPT ![l] = "opening"]
    /\ captured' = [captured EXCEPT ![l] = fanaticAddr]
    /\ AnswerAtOnce("follower")
    /\ UNCHANGED <<outside, tasks, boots, addrs>>

\* The listener has its aggregators and its subscription.
Opened(l) ==
    /\ alive["follower"] = "up"
    /\ listener[l] = "opening"
    /\ listener' = [listener EXCEPT ![l] = "listening"]
    /\ UNCHANGED <<outside, mail, tasks, boots, addrs, captured>>

\* A log comes and its price is stored: expect("no fanatic_addr found"), send.
LogComes(l) ==
    /\ alive["follower"] = "up"
    /\ listener[l] = "listening"
    /\ captured[l]
    /\ listener' = [listener EXCEPT ![l] = "sending"]
    /\ \E kind \in Events[l] : Send("fanatic", kind, l)
    /\ UNCHANGED <<outside, alive, tasks, boots, addrs, captured>>

\* The answer is there; the listener waits for the next log.
LogHandled(l) ==
    /\ alive["follower"] = "up"
    /\ listener[l] = "sending" /\ reply[l] = "ok"
    /\ listener' = [listener EXCEPT ![l] = "listening"]
    /\ UNCHANGED <<outside, mail, tasks, boots, addrs, captured>>

\* A panic in one listener ends the Follower and the other listener with it: a
\* query, the subscription or an oracle fails, or the answer is not Ok.
ListenerPanics(l) ==
    /\ alive["follower"] = "up"
    /\ \/ listener[l] \in {"opening", "listening"}
       \/ listener[l] = "sending" /\ reply[l] = "closed"
    /\ Dies("follower")
    /\ UNCHANGED <<outside, tasks, boots, addrs, listening>>

-----------------------------------------------------------------------------
\* The process lives until main returns or panics.
ProcessLives == main \notin {"stopped", "panicked"}

MainStep == StartActor \/ ExpectFails \/ TakeSignal \/ ShutdownAnswered

FanaticStep ==
    \/ FanaticStarted \/ FanaticStartedPanics
    \/ FanaticTakesExecutorAddr \/ FanaticUnwrapsNone \/ FanaticTakes
    \/ SkipDropped("fanatic")

FollowerStep ==
    \/ FollowerTakesAddr \/ SkipDropped("follower")
    \/ StartListening("prices", "StartListeningForOraclePrices")
    \/ StartListening("events", "StartListeningForEvents")

\* What a listener does without a new log.
ListenerStep(l) ==
    \/ Opened(l) \/ LogHandled(l)
    \/ listener[l] # "listening" /\ ListenerPanics(l)

Next ==
    /\ ProcessLives
    /\ \/ MainStep \/ SignalComes
       \/ AnnounceExecutor \/ FanaticStep \/ FollowerStep
       \/ Wedge
       \/ \E c \in Callers : FutureEnds(c)
       \/ \E l \in Listeners :
             Opened(l) \/ LogComes(l) \/ LogHandled(l) \/ ListenerPanics(l)

Spec == Init /\ [][Next]_vars

\* main, the contexts and the futures are polled until they end; queries and
\* calls answer or fail.  Logs and signals need not come, and nothing frees a
\* wedged bot.
Fairness ==
    /\ WF_vars(ProcessLives /\ MainStep)
    /\ WF_vars(ProcessLives /\ AnnounceExecutor)
    /\ WF_vars(ProcessLives /\ FanaticStep)
    /\ WF_vars(ProcessLives /\ FollowerStep)
    /\ \A c \in Callers : WF_vars(ProcessLives /\ ~wedged /\ FutureEnds(c))
    /\ \A l \in Listeners : WF_vars(ProcessLives /\ ListenerStep(l))

FairSpec == Spec /\ Fairness

-----------------------------------------------------------------------------
\* Type invariant.
TypeOK ==
    /\ main \in Actors \cup {"select", "shutdown", "stopped", "panicked"}
    /\ signal \in BOOLEAN
    /\ alive \in [Actors -> {"off", "up", "dead"}]
    /\ \A a \in Actors : \A i \in 1..Len(box[a]) :
          box[a][i] \in [kind : {"SendFanaticAddr", "SendExecutorAddr",
                                 "StartListeningForOraclePrices",
                                 "StartListeningForEvents", "Shutdown"}
                                   \cup Events["prices"] \cup Events["events"],
                         from : Callers \cup {"executor"}]
    /\ reply \in [Callers -> {"none", "awaited", "ok", "closed"}]
    /\ futures \subseteq Callers \ {"started"}
    /\ {wedged, announced, fanaticAddr, executorAddr} \subseteq BOOLEAN
    /\ flush \in {"none", "written", "failed"}
    /\ boot \in 0..3
    /\ listener \in [Listeners -> {"off", "opening", "listening", "sending"}]
    /\ captured \in [Listeners -> BOOLEAN]

\* The two expect("no fanatic_addr found") of the listeners never fire: each has
\* cloned the address when it was there, because started() awaits the answer
\* to SendFanaticAddr before it asks for a listener (fanatic.rs:60-67).
FanaticAddrKnown == \A l \in Listeners : listener[l] # "off" => captured[l]

\* None of the four callers awaits an answer that cannot come: it is in the
\* mailbox of an actor that is up, or a future handles it (which a wedged bot may
\* never let end: Bot says which handlers then hang).
AwaitedIsAnswerable ==
    \A c \in Callers : reply[c] = "awaited" =>
        \/ c \in futures
        \/ \E a \in Actors : alive[a] = "up" /\ InLine(c, a)

\* run() does not stop the system under the Shutdown handler: System::stop comes
\* after its answer, and an unanswered Shutdown panics instead (run.rs:91-92).
\* A stopped process has tried to write its users, no more: a try that failed is
\* answered like any other (fanatic.rs:585-592).
StopAwaitsFlush == main = "stopped" => flush # "none"

\* A signal ends the process, also one that comes while the actors are being
\* started, unless the price handler is wedged.
SignalEnds == signal ~> (~ProcessLives \/ wedged)

\* No listener waits for ever for a Fanatic that has died: its message was
\* taken and is answered by a future, or the Follower goes down as well.
DeathSpreads ==
    \A l \in Listeners :
        alive["fanatic"] = "dead" /\ listener[l] = "sending"
           ~> \/ listener[l] = "listening" \/ alive["follower"] = "dead"
              \/ wedged \/ ~ProcessLives

=============================================================================
