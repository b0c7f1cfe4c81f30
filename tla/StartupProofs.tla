---------------------------- MODULE StartupProofs ----------------------------
(***************************************************************************)
(* Theorems about Startup: who may be waiting for whom while the actors    *)
(* start, die and stop.                                                    *)
(***************************************************************************)
EXTENDS Startup, TLAPS

Kinds == {"SendFanaticAddr", "SendExecutorAddr",
          "StartListeningForOraclePrices", "StartListeningForEvents",
          "Shutdown"}
            \cup Events["prices"] \cup Events["events"]
Mails == [kind : Kinds, from : Callers \cup {"executor"}]

\* The mailboxes are sequences, and only those of running actors hold anything.
\* An actor that main has still to start is off.
ShapeInv ==
    /\ TypeOK
    /\ box \in [Actors -> Seq(Mails)]
    /\ \A a \in Actors : alive[a] # "up" => box[a] = << >>
    /\ main = "follower" => alive["follower"] = "off"
    /\ main \in {"follower", "fanatic"} => alive["fanatic"] = "off"
    /\ main \in Actors => alive["executor"] = "off"

\* Where each message may lie, and that its sender is waiting or has gone.
Gone(c) == \E a \in Actors : alive[a] = "dead" /\ c \in Fibers[a]

MailOK(a, m) ==
    /\ m.from \in Callers =>
          m.from \notin futures /\ (reply[m.from] = "awaited" \/ Gone(m.from))
    /\ m.from = "executor" =>
          a = "fanatic" /\ m.kind = "SendExecutorAddr" /\ announced
    /\ m.from = "started" =>
          /\ a = "follower" /\ boot \in 1..3 /\ m.kind = BootMessages[boot]
          /\ boot = 2 => listener["prices"] = "off"
          /\ boot = 3 => listener["events"] = "off"
    /\ m.from \in Listeners => a = "fanatic" /\ m.kind \in Events[m.from]
    /\ m.from = "main" => a = "fanatic" /\ m.kind = "Shutdown"

MailInv == \A a \in Actors : \A i \in 1..Len(box[a]) : MailOK(a, box[a][i])

\* What a caller's answer says of its own state, and that no listener is there
\* before started() has asked for it.
ReplyInv ==
    /\ \A c \in Callers : Gone(c) => reply[c] = "none"
    /\ \A c \in futures : reply[c] = "awaited" \/ Gone(c)
    /\ \A l \in Listeners : reply[l] = "awaited" => listener[l] = "sending"
    /\ main \in Actors \cup {"select"} => reply["main"] = "none"
    /\ boot = 0 => reply["started"] = "none"
    /\ boot < 2 => listener["prices"] = "off"
    /\ boot < 3 => listener["events"] = "off"

\* The Follower knows the Fanatic once its first message has been answered.
AddrInv ==
    /\ boot > 1 => fanaticAddr
    /\ boot = 1 /\ reply["started"] = "ok" => fanaticAddr

\* An answer to Shutdown comes from a handler that has ended.
StopInv ==
    /\ reply["main"] = "ok" => flush # "none"
    /\ StopAwaitsFlush

\* Each caller awaits the answer before it sends again, and the Executor sends
\* its address once.  (These are all the messages of Startup.  Those of the
\* futures, several of which may lie in one mailbox, are not among them.)
OneMessageEach ==
    \A a \in Actors : \A i, j \in 1..Len(box[a]) :
        box[a][i].from = box[a][j].from => i = j

IInv ==
    /\ ShapeInv /\ MailInv /\ ReplyInv /\ AddrInv /\ StopInv
    /\ FanaticAddrKnown /\ OneMessageEach /\ AwaitedIsAnswerable

-----------------------------------------------------------------------------
\* The two ends of a mailbox.

\* What Append does to each place of a mailbox.
LEMMA Arrives ==
    ASSUME box \in [Actors -> Seq(Mails)], NEW a \in Actors, NEW m \in Mails,
           box' = [box EXCEPT ![a] = Append(@, m)]
    PROVE  /\ box' \in [Actors -> Seq(Mails)]
           /\ \A b \in Actors \ {a} : box'[b] = box[b]
           /\ Len(box[a]) \in Nat
           /\ Len(box'[a]) = Len(box[a]) + 1
           /\ \A i \in 1..Len(box[a]) : box'[a][i] = box[a][i]
           /\ box'[a][Len(box[a]) + 1] = m
<1>1. box[a] \in Seq(Mails) /\ box'[a] = Append(box[a], m)
  OBVIOUS
<1>2. box'[a] \in Seq(Mails)
  BY <1>1
<1> QED
  BY <1>1, <1>2

\* What Tail does to each place of a mailbox.
LEMMA Leaves ==
    ASSUME box \in [Actors -> Seq(Mails)], NEW a \in Actors, box[a] # << >>,
           box' = [box EXCEPT ![a] = Tail(@)]
    PROVE  /\ box' \in [Actors -> Seq(Mails)]
           /\ \A b \in Actors \ {a} : box'[b] = box[b]
           /\ Len(box[a]) \in Nat \ {0}
           /\ Len(box'[a]) = Len(box[a]) - 1
           /\ \A i \in 1..Len(box'[a]) : box'[a][i] = box[a][i + 1]
           /\ Head(box[a]) = box[a][1] /\ box[a][1] \in Mails
<1>1. box[a] \in Seq(Mails) /\ box'[a] = Tail(box[a])
  OBVIOUS
<1>2. box'[a] \in Seq(Mails) /\ Len(box[a]) \in Nat \ {0}
  BY <1>1
<1> QED
  BY <1>1, <1>2

\* The head of a mailbox is one of its messages.
LEMMA HeadIsMail ==
    ASSUME IInv, NEW a \in Actors, HasMail(a)
    PROVE  /\ Head(box[a]) = box[a][1] /\ 1 \in 1..Len(box[a])
           /\ box[a][1] \in Mails /\ MailOK(a, box[a][1])
<1>1. box[a] \in Seq(Mails) /\ box[a] # << >>
  BY DEF HasMail, IInv, ShapeInv
<1>2. Len(box[a]) \in Nat \ {0}
  BY <1>1
<1> QED
  BY <1>1, <1>2 DEF IInv, MailInv

-----------------------------------------------------------------------------
\* Init, and each action in turn.

\* The invariant holds before the first actor starts.
LEMMA InitIInv == Init => IInv
<1> SUFFICES ASSUME Init PROVE IInv
  OBVIOUS
<1>1. \A a \in Actors : box[a] = << >> /\ Len(box[a]) = 0
  BY DEF Init
<1>2. \A c \in Callers : reply[c] = "none"
  BY DEF Init
<1>3. box \in [Actors -> Seq(Mails)]
  BY DEF Init
<1>4. TypeOK
  <2>1. /\ wedged = FALSE /\ announced = FALSE /\ fanaticAddr = FALSE
        /\ executorAddr = FALSE /\ flush = "none"
    BY DEF Init
  <2>2. ASSUME NEW a \in Actors, NEW i \in 1..Len(box[a])
        PROVE  FALSE
    <3>1. Len(box[a]) = 0
      BY <1>1
    <3> QED
      BY <3>1
  <2>3. main \in Actors /\ signal = FALSE /\ futures = {} /\ boot = 0
    BY DEF Init, Actors
  <2>4. /\ alive \in [Actors -> {"off", "up", "dead"}]
        /\ reply \in [Callers -> {"none", "awaited", "ok", "closed"}]
        /\ listener \in [Listeners -> {"off", "opening", "listening", "sending"}]
    BY DEF Init
  <2>5. captured \in [Listeners -> BOOLEAN]
    BY DEF Init
  <2>6. /\ {wedged, announced, fanaticAddr, executorAddr} \subseteq BOOLEAN
        /\ flush \in {"none", "written", "failed"}
        /\ signal \in BOOLEAN
    BY <2>1, <2>3
  <2>7. boot \in 0..3 /\ futures \subseteq Callers \ {"started"}
    BY <2>3
  <2> QED
    BY <2>2, <2>3, <2>4, <2>5, <2>6, <2>7 DEF TypeOK
<1>5. ShapeInv
  BY <1>1, <1>3, <1>4 DEF Init, ShapeInv, Actors
<1>6. MailInv /\ OneMessageEach
  BY <1>1 DEF MailInv, OneMessageEach
<1>7. ReplyInv
  <2>1. futures = {} /\ \A l \in Listeners : reply[l] # "awaited"
    BY <1>2 DEF Init, Callers
  <2>2. reply["main"] = "none" /\ reply["started"] = "none"
    BY <1>2 DEF Callers
  <2>3. listener["prices"] = "off" /\ listener["events"] = "off"
    BY DEF Init, Listeners
  <2> QED
    BY <1>2, <2>1, <2>2, <2>3 DEF ReplyInv
<1>8. AddrInv /\ StopInv /\ AwaitedIsAnswerable
  BY <1>2 DEF Init, AddrInv, StopInv, StopAwaitsFlush, Actors,
              AwaitedIsAnswerable, Callers, Listeners
<1>9. FanaticAddrKnown
  BY DEF Init, FanaticAddrKnown
<1> QED
  BY <1>5, <1>6, <1>7, <1>8, <1>9 DEF IInv

\* What neither sends, takes, answers nor kills.
Quiet == \/ StartActor \/ ExpectFails \/ SignalComes \/ ShutdownAnswered
         \/ Wedge
         \/ \E l \in Listeners : Opened(l) \/ LogHandled(l)

\* A step that leaves the mailboxes alone keeps their shape.
LEMMA QuietShape ==
    ASSUME IInv, Quiet
    PROVE  ShapeInv'
<1>1. /\ TypeOK /\ box' = box
      /\ box \in [Actors -> Seq(Mails)]
  BY DEF IInv, ShapeInv, Quiet, StartActor, ExpectFails, SignalComes, mail,
         ShutdownAnswered, Wedge, Opened, LogHandled
<1>2. CASE StartActor
  BY <1>1, <1>2 DEF IInv, ShapeInv, TypeOK, StartActor, Actors, Following,
     tasks, boots, addrs, listening
<1>3. CASE ExpectFails
  BY <1>1, <1>3 DEF IInv, ShapeInv, TypeOK, ExpectFails, Actors, tasks, mail,
     boots, addrs, listening
<1>4. CASE SignalComes
  BY <1>1, <1>4 DEF IInv, ShapeInv, TypeOK, SignalComes, Actors, tasks, mail,
     boots, addrs, listening
<1>5. CASE ShutdownAnswered
  BY <1>1, <1>5 DEF IInv, ShapeInv, TypeOK, ShutdownAnswered, Actors, tasks,
     mail, boots, addrs, listening
<1>6. CASE Wedge
  BY <1>1, <1>6 DEF IInv, ShapeInv, TypeOK, Wedge, Actors, outside, mail,
     boots, addrs, listening
<1>7. ASSUME NEW l \in Listeners, Opened(l) \/ LogHandled(l)
      PROVE  ShapeInv'
  <2>1. /\ UNCHANGED <<outside, mail, tasks, boots, addrs, captured>>
        /\ listener' = [listener EXCEPT ![l] = "listening"]
    BY <1>7 DEF Opened, LogHandled
  <2> QED
    BY <1>1, <2>1 DEF IInv, ShapeInv, TypeOK, Actors, outside,
       tasks, mail, boots, addrs
<1> QED
  BY <1>2, <1>3, <1>4, <1>5, <1>6, <1>7 DEF Quiet

\* A step that neither sends, takes nor kills keeps the invariant.
LEMMA QuietIInv ==
    ASSUME IInv, Quiet
    PROVE  IInv'
<1>1. UNCHANGED <<box, reply, futures, boots, addrs, captured, flush>>
  <2>1. CASE StartActor \/ ExpectFails \/ SignalComes \/ ShutdownAnswered
    BY <2>1 DEF StartActor, ExpectFails, SignalComes, ShutdownAnswered, mail,
       tasks, boots, addrs, listening
  <2>2. CASE Wedge \/ \E l \in Listeners : Opened(l) \/ LogHandled(l)
    BY <2>2 DEF Wedge, Opened, LogHandled, mail, tasks, listening
  <2> QED
    BY <2>1, <2>2 DEF Quiet
<1>2. /\ main' \in Actors \cup {"select"} => main \in Actors \cup {"select"}
      /\ main' = "stopped" => main = "stopped" \/ reply["main"] = "ok"
  <2>1. CASE StartActor
    BY <2>1 DEF StartActor, Actors, Following
  <2>3. CASE ExpectFails \/ SignalComes
    BY <2>3 DEF ExpectFails, SignalComes, Actors
  <2>4. CASE ShutdownAnswered
    BY <2>4 DEF ShutdownAnswered, Actors
  <2>2. CASE Wedge \/ \E l \in Listeners : Opened(l) \/ LogHandled(l)
    BY <2>2 DEF Wedge, Opened, LogHandled, outside
  <2> QED
    BY <2>1, <2>2, <2>3, <2>4 DEF Quiet
<1>3. \A a \in Actors : \/ alive'[a] = alive[a]
                        \/ alive[a] = "off" /\ alive'[a] = "up"
  <2>1. CASE StartActor
    BY <2>1 DEF StartActor, IInv, ShapeInv, TypeOK, Actors
  <2>2. CASE UNCHANGED alive
    BY <2>2
  <2> QED
    BY <2>1, <2>2 DEF Quiet, ExpectFails, SignalComes, ShutdownAnswered, Wedge,
       Opened, LogHandled, mail
<1>4. \A l \in Listeners : \/ listener'[l] = listener[l]
                           \/ listener[l] # "off" /\ reply[l] # "awaited"
  <2>1. ASSUME NEW l \in Listeners, Opened(l) \/ LogHandled(l),
               NEW k \in Listeners
        PROVE  \/ listener'[k] = listener[k]
               \/ listener[k] # "off" /\ reply[k] # "awaited"
    BY <2>1 DEF Opened, LogHandled, IInv, ShapeInv, TypeOK, ReplyInv
  <2>2. CASE UNCHANGED listener
    BY <2>2
  <2> QED
    BY <2>1, <2>2 DEF Quiet, StartActor, ExpectFails, SignalComes, Wedge,
       ShutdownAnswered, listening
<1>5. \A c : Gone(c)' = Gone(c)
  BY <1>3 DEF Gone
<1>6. MailInv'
  BY <1>1, <1>4, <1>5 DEF IInv, MailInv, MailOK, boots, Listeners
<1>7. ReplyInv'
  BY <1>1, <1>2, <1>4, <1>5 DEF IInv, ReplyInv, boots, Listeners
<1>8. AddrInv' /\ StopInv'
  BY <1>1, <1>2 DEF IInv, AddrInv, StopInv, StopAwaitsFlush, boots, addrs
<1>9. FanaticAddrKnown' /\ OneMessageEach'
  BY <1>1, <1>4 DEF IInv, FanaticAddrKnown, OneMessageEach
<1>10. AwaitedIsAnswerable'
  BY <1>1, <1>3 DEF IInv, AwaitedIsAnswerable, InLine
<1> QED
  BY QuietShape, <1>6, <1>7, <1>8, <1>9, <1>10 DEF IInv

-----------------------------------------------------------------------------
\* A caller that awaits nothing sends: no message of its own is in line.
LEMMA SendKeeps ==
    ASSUME IInv, NEW a \in Actors, NEW kind \in Kinds, NEW c \in Callers,
           Send(a, kind, c), reply[c] # "awaited", ~Gone(c)
    PROVE  /\ box' \in [Actors -> Seq(Mails)]
           /\ \A b \in Actors : \A i \in 1..Len(box'[b]) :
                 \/ /\ i \in 1..Len(box[b]) /\ box'[b][i] = box[b][i]
                    /\ box[b][i].from # c
                 \/ /\ b = a /\ alive[a] = "up"
                    /\ box'[b][i] = Message(kind, c)
           /\ \A b \in Actors : alive[b] # "up" => box'[b] = << >>
           /\ OneMessageEach'
           /\ UNCHANGED <<alive, futures>> => AwaitedIsAnswerable'
           /\ c \notin futures
<1>1. /\ \A b \in Actors : \A i \in 1..Len(box[b]) : box[b][i].from # c
      /\ c \notin futures
  BY DEF IInv, MailInv, MailOK, ReplyInv
<1>2. /\ box \in [Actors -> Seq(Mails)]
      /\ reply \in [Callers -> {"none", "awaited", "ok", "closed"}]
      /\ \A b \in Actors : alive[b] # "up" => box[b] = << >>
      /\ OneMessageEach /\ AwaitedIsAnswerable
  BY DEF IInv, ShapeInv, TypeOK
<1>3. CASE alive[a] = "up"
  <2>1. /\ box' = [box EXCEPT ![a] = Append(@, Message(kind, c))]
        /\ reply' = [reply EXCEPT ![c] = "awaited"]
    BY <1>3 DEF Send
  <2>2. Message(kind, c) \in Mails /\ Message(kind, c).from = c
    BY DEF Mails, Message
  <2>3. /\ box' \in [Actors -> Seq(Mails)]
        /\ \A b \in Actors \ {a} : box'[b] = box[b]
        /\ Len(box[a]) \in Nat
        /\ Len(box'[a]) = Len(box[a]) + 1
        /\ \A i \in 1..Len(box[a]) : box'[a][i] = box[a][i]
        /\ box'[a][Len(box[a]) + 1] = Message(kind, c)
    BY <1>2, <2>1, <2>2, Arrives
  <2>4. \A b \in Actors : \A i \in 1..Len(box'[b]) :
           \/ i \in 1..Len(box[b]) /\ box'[b][i] = box[b][i]
           \/ b = a /\ i = Len(box[a]) + 1
    BY <2>3
  <2>5. OneMessageEach'
    <3>1. ASSUME NEW i \in 1..Len(box'[a]), NEW j \in 1..Len(box'[a]),
                 box'[a][i].from = box'[a][j].from
          PROVE  i = j
      <4>1. CASE i \in 1..Len(box[a]) /\ j \in 1..Len(box[a])
        BY <1>2, <2>3, <3>1, <4>1 DEF OneMessageEach
      <4>2. CASE i = Len(box[a]) + 1 \/ j = Len(box[a]) + 1
        BY <1>1, <2>2, <2>3, <3>1, <4>2
      <4> QED
        BY <2>4, <4>1, <4>2
    <3> QED
      BY <1>2, <2>3, <3>1 DEF OneMessageEach
  <2>6. ASSUME UNCHANGED <<alive, futures>>
        PROVE  AwaitedIsAnswerable'
    <3>1. ASSUME NEW d \in Callers, reply'[d] = "awaited"
          PROVE  \/ d \in futures'
                 \/ \E b \in Actors : alive'[b] = "up" /\ InLine(d, b)'
      <4>1. CASE d = c
        BY <1>3, <2>2, <2>3, <2>6, <4>1 DEF InLine
      <4>2. CASE d # c
        <5>1. reply[d] = "awaited"
          BY <1>2, <2>1, <3>1, <4>2
        <5>2. \A b \in Actors : InLine(d, b) => InLine(d, b)'
          BY <2>3 DEF InLine
        <5> QED
          BY <1>2, <2>6, <5>1, <5>2 DEF AwaitedIsAnswerable
      <4> QED
        BY <4>1, <4>2
    <3> QED
      BY <3>1 DEF AwaitedIsAnswerable
  <2> QED
    BY <1>1, <1>2, <1>3, <2>3, <2>4, <2>5, <2>6
<1>4. CASE alive[a] # "up"
  <2>1. box' = box /\ reply' = [reply EXCEPT ![c] = "closed"]
    BY <1>4 DEF Send
  <2>2. OneMessageEach'
    BY <1>2, <2>1 DEF OneMessageEach
  <2>3. UNCHANGED <<alive, futures>> => AwaitedIsAnswerable'
    BY <1>2, <2>1 DEF AwaitedIsAnswerable, InLine
  <2> QED
    BY <1>1, <1>2, <2>1, <2>2, <2>3
<1> QED
  BY <1>3, <1>4

\* The head of a mailbox is taken: its sender has no other message in line.
LEMMA LeaveKeeps ==
    ASSUME IInv, NEW a \in Actors, HasMail(a),
           box' = [box EXCEPT ![a] = Tail(@)]
    PROVE  /\ box' \in [Actors -> Seq(Mails)]
           /\ \A b \in Actors : \A i \in 1..Len(box'[b]) :
                 \E j \in 1..Len(box[b]) :
                    /\ box'[b][i] = box[b][j]
                    /\ b = a => box[b][j].from # Head(box[a]).from
           /\ \A b \in Actors : alive[b] # "up" => box'[b] = << >>
           /\ \A b \in Actors : \A d : InLine(d, b) =>
                 InLine(d, b)' \/ (b = a /\ d = Head(box[a]).from)
           /\ OneMessageEach'
<1>1. /\ box \in [Actors -> Seq(Mails)] /\ box[a] # << >> /\ alive[a] = "up"
      /\ \A b \in Actors : alive[b] # "up" => box[b] = << >>
      /\ OneMessageEach
  BY DEF IInv, ShapeInv, HasMail
<1>2. /\ box' \in [Actors -> Seq(Mails)]
      /\ \A b \in Actors \ {a} : box'[b] = box[b]
      /\ Len(box[a]) \in Nat \ {0}
      /\ Len(box'[a]) = Len(box[a]) - 1
      /\ \A i \in 1..Len(box'[a]) : box'[a][i] = box[a][i + 1]
      /\ Head(box[a]) = box[a][1]
  BY <1>1, Leaves
<1>3. \A i \in 1..Len(box'[a]) :
         /\ i + 1 \in 1..Len(box[a])
         /\ box[a][i + 1].from # Head(box[a]).from
  BY <1>1, <1>2 DEF OneMessageEach
<1>4. ASSUME NEW b \in Actors, NEW i \in 1..Len(box'[b])
      PROVE  \E j \in 1..Len(box[b]) :
                /\ box'[b][i] = box[b][j]
                /\ b = a => box[b][j].from # Head(box[a]).from
  BY <1>2, <1>3
<1>5. ASSUME NEW b \in Actors, NEW d, InLine(d, b)
      PROVE  InLine(d, b)' \/ (b = a /\ d = Head(box[a]).from)
  <2>1. PICK i \in 1..Len(box[b]) : box[b][i].from = d
    BY <1>5 DEF InLine
  <2>2. CASE b # a
    BY <1>2, <2>1, <2>2 DEF InLine
  <2>3. CASE b = a /\ i = 1
    BY <1>2, <2>1, <2>3
  <2>4. CASE b = a /\ i # 1
    <3>1. i - 1 \in 1..Len(box'[a]) /\ box'[a][i - 1] = box[a][i]
      BY <1>2, <2>4
    <3> QED
      BY <2>1, <2>4, <3>1 DEF InLine
  <2> QED
    BY <2>2, <2>3, <2>4
<1>6. OneMessageEach'
  BY <1>1, <1>2, <1>3 DEF OneMessageEach
<1> QED
  BY <1>1, <1>2, <1>4, <1>5, <1>6

\* started() sends its next message.
LEMMA FanaticStartedIInv == IInv /\ FanaticStarted => IInv'
<1> SUFFICES ASSUME IInv, FanaticStarted
             PROVE  IInv'
  OBVIOUS
<1>1. /\ alive["fanatic"] = "up" /\ boot \in 0..2 /\ boot' = boot + 1
      /\ reply["started"] = IF boot = 0 THEN "none" ELSE "ok"
      /\ Send("follower", BootMessages[boot + 1], "started")
      /\ UNCHANGED <<outside, alive, tasks, announced, addrs, listening>>
  BY DEF FanaticStarted, BootMessages, IInv, ShapeInv, TypeOK
<1>2. BootMessages[boot + 1] \in Kinds /\ "follower" \in Actors
      /\ "started" \in Callers
  BY <1>1 DEF Kinds, BootMessages, Actors, Callers
<1>3. ~Gone("started") /\ reply["started"] # "awaited"
  BY <1>1 DEF Gone, Fibers, Actors, Listeners
<1>4. /\ reply' \in [Callers -> {"none", "awaited", "ok", "closed"}]
      /\ \A c \in Callers \ {"started"} : reply'[c] = reply[c]
      /\ reply'["started"] \in {"awaited", "closed"}
      /\ alive["follower"] = "up" => reply'["started"] = "awaited"
  <2>1. reply' = [reply EXCEPT !["started"] =
                    IF alive["follower"] = "up" THEN "awaited" ELSE "closed"]
    BY <1>1 DEF Send
  <2>2. reply \in [Callers -> {"none", "awaited", "ok", "closed"}]
    BY DEF IInv, ShapeInv, TypeOK
  <2> QED
    BY <1>2, <2>1, <2>2
<1>5. /\ box' \in [Actors -> Seq(Mails)]
      /\ \A b \in Actors : \A i \in 1..Len(box'[b]) :
            \/ /\ i \in 1..Len(box[b]) /\ box'[b][i] = box[b][i]
               /\ box[b][i].from # "started"
            \/ /\ b = "follower" /\ alive["follower"] = "up"
               /\ box'[b][i] = Message(BootMessages[boot + 1], "started")
      /\ \A b \in Actors : alive[b] # "up" => box'[b] = << >>
      /\ OneMessageEach'
      /\ UNCHANGED <<alive, futures>> => AwaitedIsAnswerable'
      /\ "started" \notin futures
  BY <1>1, <1>2, <1>3, SendKeeps
<1>6. \A c : Gone(c)' = Gone(c)
  BY <1>1 DEF Gone
<1>7. TypeOK'
  <2>1. \A b \in Actors : \A i \in 1..Len(box'[b]) : box'[b][i] \in Mails
    BY <1>5
  <2>2. boot' \in 0..3
    BY <1>1
  <2> QED
    BY <1>1, <1>4, <2>1, <2>2 DEF IInv, ShapeInv, TypeOK, Mails, Kinds, outside,
       tasks, addrs, listening
<1>8. ShapeInv'
  BY <1>1, <1>5, <1>7 DEF IInv, ShapeInv, outside
<1>9. MailInv'
  <2> SUFFICES ASSUME NEW b \in Actors, NEW i \in 1..Len(box'[b])
               PROVE  MailOK(b, box[b][i])'
    BY DEF MailInv
  <2>1. CASE i \in 1..Len(box[b]) /\ box'[b][i] = box[b][i]
             /\ box[b][i].from # "started"
    BY <1>1, <1>4, <1>6, <2>1 DEF IInv, MailInv, MailOK, tasks,
       listening
  <2>2. CASE b = "follower" /\ alive["follower"] = "up"
             /\ box'[b][i] = Message(BootMessages[boot + 1], "started")
    BY <1>1, <1>4, <1>5, <2>2 DEF IInv, ReplyInv, MailOK, Message, Listeners,
       tasks, listening, BootMessages
  <2> QED
    BY <1>5, <2>1, <2>2
<1>10. ReplyInv'
  <2>1. \A c \in Callers : Gone(c)' => reply'[c] = "none"
    BY <1>3, <1>4, <1>6 DEF IInv, ReplyInv
  <2>2. \A c \in futures' : reply'[c] = "awaited" \/ Gone(c)'
    BY <1>1, <1>4, <1>5, <1>6 DEF IInv, ShapeInv, TypeOK, ReplyInv, tasks
  <2>3. \A l \in Listeners : reply'[l] = "awaited" => listener'[l] = "sending"
    BY <1>1, <1>4 DEF IInv, ReplyInv, Callers, Listeners, listening
  <2>4. /\ main' \in Actors \cup {"select"} => reply'["main"] = "none"
        /\ boot' # 0
        /\ boot' < 2 => listener'["prices"] = "off"
        /\ boot' < 3 => listener'["events"] = "off"
    BY <1>1, <1>4 DEF IInv, ReplyInv, Callers, outside, listening
  <2> QED
    BY <2>1, <2>2, <2>3, <2>4 DEF ReplyInv
<1>11. AddrInv'
  BY <1>1, <1>4 DEF IInv, AddrInv, addrs
<1>12. StopInv' /\ FanaticAddrKnown'
  BY <1>1, <1>4 DEF IInv, StopInv, StopAwaitsFlush, FanaticAddrKnown,
     outside, tasks, listening, Callers
<1> QED
  BY <1>1, <1>5, <1>8, <1>9, <1>10, <1>11, <1>12 DEF IInv, tasks

\* A listener tells the Fanatic of a log.
LEMMA LogComesIInv ==
    ASSUME IInv, NEW l \in Listeners, LogComes(l)
    PROVE  IInv'
<1>1. PICK kind \in Events[l] :
         /\ alive["follower"] = "up" /\ listener[l] = "listening" /\ captured[l]
         /\ listener' = [listener EXCEPT ![l] = "sending"]
         /\ Send("fanatic", kind, l)
         /\ UNCHANGED <<outside, alive, tasks, boots, addrs, captured>>
  BY DEF LogComes
<1>2. kind \in Kinds /\ "fanatic" \in Actors /\ l \in Callers
      /\ l \notin {"main", "started", "executor"}
  BY DEF Kinds, Actors, Callers, Listeners
<1>3. ~Gone(l) /\ reply[l] # "awaited"
  BY <1>1 DEF Gone, Fibers, Actors, Listeners, IInv, ReplyInv
<1>4. /\ reply' \in [Callers -> {"none", "awaited", "ok", "closed"}]
      /\ \A c \in Callers \ {l} : reply'[c] = reply[c]
      /\ alive["fanatic"] = "up" => reply'[l] = "awaited"
  BY <1>1, <1>2 DEF Send, IInv, ShapeInv, TypeOK
<1>5. /\ box' \in [Actors -> Seq(Mails)]
      /\ \A b \in Actors : \A i \in 1..Len(box'[b]) :
            \/ /\ i \in 1..Len(box[b]) /\ box'[b][i] = box[b][i]
               /\ box[b][i].from # l
            \/ /\ b = "fanatic" /\ alive["fanatic"] = "up"
               /\ box'[b][i] = Message(kind, l)
      /\ \A b \in Actors : alive[b] # "up" => box'[b] = << >>
      /\ OneMessageEach'
      /\ UNCHANGED <<alive, futures>> => AwaitedIsAnswerable'
      /\ l \notin futures
  BY <1>1, <1>2, <1>3, SendKeeps
<1>6. \A c : Gone(c)' = Gone(c)
  BY <1>1 DEF Gone
<1>7. TypeOK'
  <2>1. \A b \in Actors : \A i \in 1..Len(box'[b]) : box'[b][i] \in Mails
    BY <1>5
  <2> QED
    BY <1>1, <1>4, <2>1 DEF IInv, ShapeInv, TypeOK, Mails, Kinds, outside,
       tasks, addrs, boots
<1>8. ShapeInv'
  BY <1>1, <1>5, <1>7 DEF IInv, ShapeInv, outside
<1>9. MailInv'
  <2> SUFFICES ASSUME NEW b \in Actors, NEW i \in 1..Len(box'[b])
               PROVE  MailOK(b, box[b][i])'
    BY DEF MailInv
  <2>1. CASE i \in 1..Len(box[b]) /\ box'[b][i] = box[b][i]
             /\ box[b][i].from # l
    BY <1>1, <1>4, <1>6, <2>1 DEF IInv, MailInv, MailOK, tasks, boots
  <2>2. CASE b = "fanatic" /\ alive["fanatic"] = "up"
             /\ box'[b][i] = Message(kind, l)
    BY <1>1, <1>2, <1>4, <1>5, <2>2 DEF MailOK, Message, tasks
  <2> QED
    BY <1>5, <2>1, <2>2
<1>10. ReplyInv'
  <2>1. \A c \in Callers : Gone(c)' => reply'[c] = "none"
    BY <1>3, <1>4, <1>6 DEF IInv, ReplyInv
  <2>2. \A c \in futures' : reply'[c] = "awaited" \/ Gone(c)'
    BY <1>1, <1>4, <1>5, <1>6 DEF IInv, ShapeInv, TypeOK, ReplyInv, tasks
  <2>3. ASSUME NEW k \in Listeners, reply'[k] = "awaited"
        PROVE  listener'[k] = "sending"
    BY <1>1, <1>4, <2>3 DEF IInv, ReplyInv, ShapeInv, TypeOK, Callers
  <2>4. /\ main' \in Actors \cup {"select"} => reply'["main"] = "none"
        /\ boot' = 0 => reply'["started"] = "none"
    BY <1>1, <1>2, <1>4 DEF IInv, ReplyInv, Callers, outside, boots
  <2>5. /\ boot' < 2 => listener'["prices"] = "off"
        /\ boot' < 3 => listener'["events"] = "off"
    BY <1>1 DEF IInv, ReplyInv, Listeners, boots
  <2> QED
    BY <2>1, <2>2, <2>3, <2>4, <2>5 DEF ReplyInv
<1>11. AddrInv'
  BY <1>1, <1>2, <1>4 DEF IInv, AddrInv, addrs, boots, Callers
<1>12. StopInv' /\ FanaticAddrKnown'
  BY <1>1, <1>2, <1>4 DEF IInv, StopInv, StopAwaitsFlush,
     FanaticAddrKnown, ShapeInv, TypeOK, outside, tasks, Callers
<1> QED
  BY <1>1, <1>5, <1>8, <1>9, <1>10, <1>11, <1>12 DEF IInv, tasks

\* run() asks the Fanatic to shut down.
LEMMA TakeSignalIInv == IInv /\ TakeSignal => IInv'
<1> SUFFICES ASSUME IInv, TakeSignal
             PROVE  IInv'
  OBVIOUS
<1>1. /\ main = "select" /\ main' = "shutdown" /\ signal' = FALSE
      /\ Send("fanatic", "Shutdown", "main")
      /\ UNCHANGED <<alive, tasks, boots, addrs, listening>>
  BY DEF TakeSignal
<1>2. "Shutdown" \in Kinds /\ "fanatic" \in Actors /\ "main" \in Callers
      /\ "main" \notin Listeners
  BY DEF Kinds, Actors, Callers, Listeners
<1>3. ~Gone("main") /\ reply["main"] = "none"
  BY <1>1 DEF Gone, Fibers, Actors, Listeners, IInv, ReplyInv
<1>4. /\ reply' \in [Callers -> {"none", "awaited", "ok", "closed"}]
      /\ \A c \in Callers \ {"main"} : reply'[c] = reply[c]
      /\ reply'["main"] \in {"awaited", "closed"}
      /\ alive["fanatic"] = "up" => reply'["main"] = "awaited"
  <2>1. reply' = [reply EXCEPT !["main"] =
                    IF alive["fanatic"] = "up" THEN "awaited" ELSE "closed"]
    BY <1>1 DEF Send
  <2>2. reply \in [Callers -> {"none", "awaited", "ok", "closed"}]
    BY DEF IInv, ShapeInv, TypeOK
  <2> QED
    BY <1>2, <2>1, <2>2
<1>5. /\ box' \in [Actors -> Seq(Mails)]
      /\ \A b \in Actors : \A i \in 1..Len(box'[b]) :
            \/ /\ i \in 1..Len(box[b]) /\ box'[b][i] = box[b][i]
               /\ box[b][i].from # "main"
            \/ /\ b = "fanatic" /\ alive["fanatic"] = "up"
               /\ box'[b][i] = Message("Shutdown", "main")
      /\ \A b \in Actors : alive[b] # "up" => box'[b] = << >>
      /\ OneMessageEach'
      /\ UNCHANGED <<alive, futures>> => AwaitedIsAnswerable'
      /\ "main" \notin futures
  BY <1>1, <1>2, <1>3, SendKeeps
<1>6. \A c : Gone(c)' = Gone(c)
  BY <1>1 DEF Gone
<1>7. TypeOK'
  <2>1. \A b \in Actors : \A i \in 1..Len(box'[b]) : box'[b][i] \in Mails
    BY <1>5
  <2>2. signal' \in BOOLEAN
    BY <1>1
  <2> QED
    BY <1>1, <1>4, <2>1, <2>2 DEF IInv, ShapeInv, TypeOK, Mails, Kinds,
       tasks, boots, addrs, listening
<1>8. ShapeInv'
  BY <1>1, <1>5, <1>7 DEF IInv, ShapeInv, Actors
<1>9. MailInv'
  <2> SUFFICES ASSUME NEW b \in Actors, NEW i \in 1..Len(box'[b])
               PROVE  MailOK(b, box[b][i])'
    BY DEF MailInv
  <2>1. CASE i \in 1..Len(box[b]) /\ box'[b][i] = box[b][i]
             /\ box[b][i].from # "main"
    BY <1>1, <1>4, <1>6, <2>1 DEF IInv, MailInv, MailOK, tasks, boots,
       listening
  <2>2. CASE b = "fanatic" /\ alive["fanatic"] = "up"
             /\ box'[b][i] = Message("Shutdown", "main")
    BY <1>1, <1>2, <1>4, <1>5, <2>2 DEF MailOK, Message, tasks
  <2> QED
    BY <1>5, <2>1, <2>2
<1>10. ReplyInv'
  <2>1. \A c \in Callers : Gone(c)' => reply'[c] = "none"
    BY <1>3, <1>4, <1>6 DEF IInv, ReplyInv
  <2>2. \A c \in futures' : reply'[c] = "awaited" \/ Gone(c)'
    BY <1>1, <1>4, <1>5, <1>6 DEF IInv, ShapeInv, TypeOK, ReplyInv, tasks
  <2>3. \A l \in Listeners : reply'[l] = "awaited" => listener'[l] = "sending"
    BY <1>1, <1>2, <1>4 DEF IInv, ReplyInv, Callers, listening
  <2>4. /\ main' \notin Actors \cup {"select"}
        /\ boot' = 0 => reply'["started"] = "none"
        /\ boot' < 2 => listener'["prices"] = "off"
        /\ boot' < 3 => listener'["events"] = "off"
    BY <1>1, <1>4 DEF IInv, ReplyInv, Callers, Actors, boots, listening
  <2> QED
    BY <2>1, <2>2, <2>3, <2>4 DEF ReplyInv
<1>11. AddrInv'
  BY <1>1, <1>4 DEF IInv, AddrInv, addrs, boots, Callers
<1>12. StopInv' /\ FanaticAddrKnown'
  BY <1>1, <1>4 DEF IInv, StopInv, StopAwaitsFlush, FanaticAddrKnown,
     tasks, listening
<1> QED
  BY <1>1, <1>5, <1>8, <1>9, <1>10, <1>11, <1>12 DEF IInv, tasks

\* Executor::started announces itself.
LEMMA AnnounceIInv == IInv /\ AnnounceExecutor => IInv'
<1> SUFFICES ASSUME IInv, AnnounceExecutor
             PROVE  IInv'
  OBVIOUS
<1> DEFINE hello == Message("SendExecutorAddr", "executor")
<1>1. /\ ~announced /\ announced'
      /\ announced' \in BOOLEAN
      /\ UNCHANGED <<outside, alive, reply, tasks, boot, addrs, listening>>
  BY DEF AnnounceExecutor
<1>2. hello \in Mails /\ hello.from = "executor" /\ "fanatic" \in Actors
      /\ hello.kind = "SendExecutorAddr" /\ "executor" \notin Callers
  BY DEF Message, Mails, Kinds, Actors, Callers, Listeners
<1>3. /\ box \in [Actors -> Seq(Mails)]
      /\ \A b \in Actors : alive[b] # "up" => box[b] = << >>
      /\ \A b \in Actors : \A i \in 1..Len(box[b]) : box[b][i].from # "executor"
  BY <1>1 DEF IInv, ShapeInv, MailInv, MailOK
<1>4. CASE alive["fanatic"] # "up"
  <2>1. box' = box
    BY <1>4 DEF AnnounceExecutor
  <2>2. MailInv'
    BY <1>1, <1>3, <2>1 DEF IInv, MailInv, MailOK, Gone, tasks,
       listening
  <2>3. ShapeInv'
    BY <1>1, <2>1 DEF IInv, ShapeInv, TypeOK, outside, tasks, addrs, listening
  <2>4. ReplyInv' /\ AddrInv' /\ StopInv'
    BY <1>1 DEF IInv, ReplyInv, AddrInv, StopInv, StopAwaitsFlush, Gone,
       outside, tasks, addrs, listening
  <2>5. FanaticAddrKnown' /\ OneMessageEach' /\ AwaitedIsAnswerable'
    BY <1>1, <2>1 DEF IInv, FanaticAddrKnown, OneMessageEach, InLine,
       AwaitedIsAnswerable, tasks, listening
  <2> QED
    BY <2>2, <2>3, <2>4, <2>5 DEF IInv
<1>5. CASE alive["fanatic"] = "up"
  <2>1. box' = [box EXCEPT !["fanatic"] = Append(@, hello)]
    BY <1>5 DEF AnnounceExecutor
  <2>2. /\ box' \in [Actors -> Seq(Mails)]
        /\ \A b \in Actors \ {"fanatic"} : box'[b] = box[b]
        /\ Len(box["fanatic"]) \in Nat
        /\ Len(box'["fanatic"]) = Len(box["fanatic"]) + 1
        /\ \A i \in 1..Len(box["fanatic"]) :
              box'["fanatic"][i] = box["fanatic"][i]
        /\ box'["fanatic"][Len(box["fanatic"]) + 1] = hello
    BY <1>2, <1>3, <2>1, Arrives
  <2>3. \A b \in Actors : \A i \in 1..Len(box'[b]) :
           \/ i \in 1..Len(box[b]) /\ box'[b][i] = box[b][i]
           \/ /\ b = "fanatic" /\ i = Len(box["fanatic"]) + 1
              /\ box'[b][i] = hello
    BY <2>2
  <2>4. MailInv'
    <3> SUFFICES ASSUME NEW b \in Actors, NEW i \in 1..Len(box'[b])
                 PROVE  MailOK(b, box[b][i])'
      BY DEF MailInv
    <3>1. CASE i \in 1..Len(box[b]) /\ box'[b][i] = box[b][i]
      BY <1>1, <1>3, <3>1 DEF IInv, MailInv, MailOK, Gone, tasks,
       listening
    <3>2. CASE b = "fanatic" /\ box'[b][i] = hello
      BY <1>1, <1>2, <3>2 DEF MailOK, Callers, Listeners
    <3> QED
      BY <2>3, <3>1, <3>2
  <2>5. TypeOK'
    <3>1. \A b \in Actors : \A i \in 1..Len(box'[b]) : box'[b][i] \in Mails
      BY <2>2
    <3> QED
      BY <1>1, <3>1 DEF IInv, ShapeInv, TypeOK, Mails, Kinds, outside, tasks,
         addrs, listening
  <2>6. ShapeInv'
    BY <1>1, <1>3, <1>5, <2>2, <2>5 DEF IInv, ShapeInv, outside
  <2>7. ReplyInv' /\ AddrInv' /\ StopInv' /\ FanaticAddrKnown'
    BY <1>1 DEF IInv, ReplyInv, AddrInv, StopInv, StopAwaitsFlush, Gone,
       FanaticAddrKnown, outside, tasks, addrs, listening
  <2>8. OneMessageEach'
    <3>1. ASSUME NEW i \in 1..Len(box'["fanatic"]),
                 NEW j \in 1..Len(box'["fanatic"]),
                 box'["fanatic"][i].from = box'["fanatic"][j].from
          PROVE  i = j
      <4>1. CASE i \in 1..Len(box["fanatic"]) /\ j \in 1..Len(box["fanatic"])
        BY <1>2, <2>2, <3>1, <4>1 DEF IInv, OneMessageEach
      <4>2. CASE i = Len(box["fanatic"]) + 1 \/ j = Len(box["fanatic"]) + 1
        BY <1>2, <1>3, <2>2, <3>1, <4>2
      <4> QED
        BY <1>2, <2>3, <4>1, <4>2
    <3> QED
      BY <1>2, <2>2, <3>1 DEF IInv, OneMessageEach
  <2>9. AwaitedIsAnswerable'
    <3>1. \A b \in Actors : \A d : InLine(d, b) => InLine(d, b)'
      BY <1>2, <2>2 DEF InLine
    <3> QED
      BY <1>1, <3>1 DEF IInv, AwaitedIsAnswerable, tasks
  <2> QED
    BY <2>4, <2>6, <2>7, <2>8, <2>9 DEF IInv
<1> QED
  BY <1>4, <1>5

\* A message nobody waits for, or one of the Executor, is taken out of the line.
LEMMA TakenIInv ==
    ASSUME IInv,
           FanaticTakesExecutorAddr \/ \E a \in Actors : SkipDropped(a)
    PROVE  IInv'
<1>1. PICK a \in Actors :
         /\ HasMail(a) /\ box' = [box EXCEPT ![a] = Tail(@)]
         /\ UNCHANGED <<outside, alive, reply, tasks, boots, fanaticAddr,
                        listening>>
         /\ executorAddr' \in {executorAddr, TRUE}
         /\ \/ Gone(Head(box[a]).from)
            \/ a = "fanatic" /\ Head(box[a]).kind = "SendExecutorAddr"
  <2>1. CASE FanaticTakesExecutorAddr
    BY <2>1 DEF FanaticTakesExecutorAddr, Takes, Actors
  <2>2. CASE \E a \in Actors : SkipDropped(a)
    BY <2>2 DEF SkipDropped, Dropped, Gone, addrs
  <2> QED
    BY <2>1, <2>2
<1>2. MailOK(a, Head(box[a])) /\ Head(box[a]) \in Mails
  BY <1>1, HeadIsMail
<1>3. \/ Head(box[a]).from \notin Callers
      \/ reply[Head(box[a]).from] = "none"
  <2>1. CASE Gone(Head(box[a]).from)
    BY <2>1 DEF IInv, ReplyInv
  <2>2. CASE a = "fanatic" /\ Head(box[a]).kind = "SendExecutorAddr"
    BY <1>2, <2>2 DEF MailOK, Mails, Callers, Listeners, Events
  <2> QED
    BY <1>1, <2>1, <2>2
<1>4. /\ box' \in [Actors -> Seq(Mails)]
      /\ \A b \in Actors : \A i \in 1..Len(box'[b]) :
            \E j \in 1..Len(box[b]) :
               /\ box'[b][i] = box[b][j]
               /\ b = a => box[b][j].from # Head(box[a]).from
      /\ \A b \in Actors : alive[b] # "up" => box'[b] = << >>
      /\ \A b \in Actors : \A d : InLine(d, b) =>
            InLine(d, b)' \/ (b = a /\ d = Head(box[a]).from)
      /\ OneMessageEach'
  BY <1>1, LeaveKeeps
<1>5. TypeOK'
  <2>1. \A b \in Actors : \A i \in 1..Len(box'[b]) : box'[b][i] \in Mails
    BY <1>4
  <2>2. /\ {wedged', announced', fanaticAddr', executorAddr'} \subseteq BOOLEAN
        /\ flush' \in {"none", "written", "failed"}
    BY <1>1 DEF IInv, ShapeInv, TypeOK, tasks, boots
  <2> QED
    BY <1>1, <2>1, <2>2 DEF IInv, ShapeInv, TypeOK, Mails, Kinds, outside,
       tasks, boots, listening
<1>6. ShapeInv'
  BY <1>1, <1>4, <1>5 DEF IInv, ShapeInv, outside
<1>7. MailInv'
  <2> SUFFICES ASSUME NEW b \in Actors, NEW i \in 1..Len(box'[b])
               PROVE  MailOK(b, box[b][i])'
    BY DEF MailInv
  <2>1. PICK j \in 1..Len(box[b]) : box'[b][i] = box[b][j]
    BY <1>4
  <2>2. MailOK(b, box[b][j])
    BY DEF IInv, MailInv
  <2> QED
    BY <1>1, <2>1, <2>2 DEF MailOK, Gone, tasks, boots, listening
<1>8. ReplyInv' /\ AddrInv' /\ StopInv' /\ FanaticAddrKnown'
  BY <1>1 DEF IInv, ReplyInv, AddrInv, StopInv, StopAwaitsFlush, Gone,
     FanaticAddrKnown, outside, tasks, boots, listening
<1>9. AwaitedIsAnswerable'
  BY <1>1, <1>3, <1>4 DEF IInv, AwaitedIsAnswerable, tasks
<1> QED
  BY <1>4, <1>6, <1>7, <1>8, <1>9 DEF IInv

\* A message of the Fanatic is given to a future.
LEMMA FanaticTakesIInv == IInv /\ FanaticTakes => IInv'
<1> SUFFICES ASSUME IInv, FanaticTakes
             PROVE  IInv'
  OBVIOUS
<1> DEFINE m == Head(box["fanatic"])
<1>1. /\ HasMail("fanatic") /\ box' = [box EXCEPT !["fanatic"] = Tail(@)]
      /\ futures' = futures \cup {m.from}
      /\ UNCHANGED <<outside, alive, reply, wedged, flush, boots, addrs,
                     listening>>
      /\ m.kind # "SendExecutorAddr"
      /\ "fanatic" \in Actors
  BY DEF FanaticTakes, Takes, NeedsExecutor, Actors
<1>2. MailOK("fanatic", m) /\ m \in Mails
  BY <1>1, HeadIsMail
<1>3. /\ m.from \in Callers \ {"started"}
      /\ reply[m.from] = "awaited" \/ Gone(m.from)
  BY <1>1, <1>2 DEF MailOK, Mails, Callers
<1>4. /\ box' \in [Actors -> Seq(Mails)]
      /\ \A b \in Actors : \A i \in 1..Len(box'[b]) :
            \E j \in 1..Len(box[b]) :
               /\ box'[b][i] = box[b][j]
               /\ b = "fanatic" => box[b][j].from # m.from
      /\ \A b \in Actors : alive[b] # "up" => box'[b] = << >>
      /\ \A b \in Actors : \A d : InLine(d, b) =>
            InLine(d, b)' \/ (b = "fanatic" /\ d = m.from)
      /\ OneMessageEach'
  BY <1>1, LeaveKeeps
<1>5. TypeOK'
  <2>1. \A b \in Actors : \A i \in 1..Len(box'[b]) : box'[b][i] \in Mails
    BY <1>4
  <2>2. futures' \subseteq Callers \ {"started"}
    BY <1>1, <1>3 DEF IInv, ShapeInv, TypeOK
  <2> QED
    BY <1>1, <2>1, <2>2 DEF IInv, ShapeInv, TypeOK, Mails, Kinds, outside,
       boots, addrs, listening
<1>6. ShapeInv'
  BY <1>1, <1>4, <1>5 DEF IInv, ShapeInv, outside
<1>7. MailInv'
  <2> SUFFICES ASSUME NEW b \in Actors, NEW i \in 1..Len(box'[b])
               PROVE  MailOK(b, box[b][i])'
    BY DEF MailInv
  <2>1. PICK j \in 1..Len(box[b]) :
           /\ box'[b][i] = box[b][j]
           /\ b = "fanatic" => box[b][j].from # m.from
    BY <1>4
  <2>2. MailOK(b, box[b][j])
    BY DEF IInv, MailInv
  <2>3. box[b][j].from # m.from
    BY <1>2, <1>3, <2>1, <2>2 DEF MailOK, Callers
  <2> QED
    BY <1>1, <2>1, <2>2, <2>3 DEF MailOK, Gone, boots, listening
<1>8. ReplyInv' /\ AddrInv' /\ StopInv' /\ FanaticAddrKnown'
  BY <1>1, <1>3 DEF IInv, ReplyInv, AddrInv, StopInv, StopAwaitsFlush,
     Gone, FanaticAddrKnown, outside, boots, addrs, listening
<1>9. AwaitedIsAnswerable'
  BY <1>1, <1>4 DEF IInv, AwaitedIsAnswerable
<1> QED
  BY <1>4, <1>6, <1>7, <1>8, <1>9 DEF IInv

\* The Follower answers started() and, asked for a listener, starts it.
LEMMA FollowerIInv ==
    ASSUME IInv,
           \/ FollowerTakesAddr
           \/ StartListening("prices", "StartListeningForOraclePrices")
           \/ StartListening("events", "StartListeningForEvents")
    PROVE  IInv'
<1> DEFINE m == Head(box["follower"])
<1>1. /\ HasMail("follower") /\ ~Dropped(m)
      /\ box' = [box EXCEPT !["follower"] = Tail(@)]
      /\ reply' = [reply EXCEPT ![m.from] = "ok"]
      /\ UNCHANGED <<alive, outside, tasks, boots, executorAddr>>
      /\ "follower" \in Actors
  BY DEF FollowerTakesAddr, StartListening, Takes, AnswerAtOnce, Actors, addrs
<1>2. MailOK("follower", m) /\ m \in Mails
  BY <1>1, HeadIsMail
<1>3. /\ m.from = "started" /\ m.kind = BootMessages[boot] /\ boot \in 1..3
      /\ "started" \in Callers /\ "started" \notin futures
  BY <1>2 DEF MailOK, Mails, Callers
<1>4. ~Gone("started")
  BY <1>1, <1>3 DEF Dropped, Gone
<1>5. /\ boot = 1 => fanaticAddr'
      /\ boot # 1 => fanaticAddr' = fanaticAddr
      /\ fanaticAddr' \in BOOLEAN
  <2>1. CASE FollowerTakesAddr
    <3>1. fanaticAddr' = TRUE /\ m.kind = "SendFanaticAddr"
      BY <2>1 DEF FollowerTakesAddr, Takes
    <3>2. boot = 1
      BY <1>3, <3>1 DEF BootMessages
    <3> QED
      BY <3>1, <3>2
  <2>2. CASE StartListening("prices", "StartListeningForOraclePrices")
             \/ StartListening("events", "StartListeningForEvents")
    <3>1. fanaticAddr' = fanaticAddr /\ m.kind # "SendFanaticAddr"
      BY <2>2 DEF StartListening, Takes, addrs
    <3>2. boot # 1
      BY <1>3, <3>1 DEF BootMessages
    <3>3. fanaticAddr \in BOOLEAN
      BY DEF IInv, ShapeInv, TypeOK
    <3> QED
      BY <3>1, <3>2, <3>3
  <2> QED
    BY <2>1, <2>2
<1>6. /\ \A l \in Listeners :
            \/ listener'[l] = listener[l] /\ captured'[l] = captured[l]
            \/ /\ (l = "prices" /\ boot = 2) \/ (l = "events" /\ boot = 3)
               /\ captured'[l] = fanaticAddr /\ listener'[l] = "opening"
      /\ listener' \in [Listeners -> {"off", "opening", "listening", "sending"}]
      /\ captured' \in [Listeners -> BOOLEAN]
  <2>1. /\ listener \in [Listeners -> {"off", "opening", "listening", "sending"}]
        /\ captured \in [Listeners -> BOOLEAN]
        /\ fanaticAddr \in BOOLEAN
    BY DEF IInv, ShapeInv, TypeOK
  <2>2. CASE FollowerTakesAddr
    BY <2>1, <2>2 DEF FollowerTakesAddr, listening
  <2>3. CASE StartListening("prices", "StartListeningForOraclePrices")
             \/ StartListening("events", "StartListeningForEvents")
    <3>1. PICK l \in Listeners :
             /\ listener' = [listener EXCEPT ![l] = "opening"]
             /\ captured' = [captured EXCEPT ![l] = fanaticAddr]
             /\ \/ l = "prices" /\ m.kind = "StartListeningForOraclePrices"
                \/ l = "events" /\ m.kind = "StartListeningForEvents"
      BY <2>3 DEF StartListening, Listeners, Takes
    <3>2. (l = "prices" /\ boot = 2) \/ (l = "events" /\ boot = 3)
      BY <1>3, <3>1 DEF BootMessages
    <3> QED
      BY <2>1, <3>1, <3>2
  <2> QED
    BY <2>2, <2>3
<1>7. /\ box' \in [Actors -> Seq(Mails)]
      /\ \A b \in Actors : \A i \in 1..Len(box'[b]) :
            \E j \in 1..Len(box[b]) :
               /\ box'[b][i] = box[b][j]
               /\ b = "follower" => box[b][j].from # "started"
      /\ \A b \in Actors : alive[b] # "up" => box'[b] = << >>
      /\ \A b \in Actors : \A d : InLine(d, b) =>
            InLine(d, b)' \/ (b = "follower" /\ d = "started")
      /\ OneMessageEach'
  <2>1. \A b \in Actors : \A i \in 1..Len(box'[b]) :
           \E j \in 1..Len(box[b]) :
              /\ box'[b][i] = box[b][j]
              /\ b = "follower" => box[b][j].from # m.from
    BY <1>1, LeaveKeeps
  <2>2. /\ box' \in [Actors -> Seq(Mails)]
        /\ \A b \in Actors : alive[b] # "up" => box'[b] = << >>
        /\ \A b \in Actors : \A d : InLine(d, b) =>
              InLine(d, b)' \/ (b = "follower" /\ d = m.from)
        /\ OneMessageEach'
    BY <1>1, LeaveKeeps
  <2> QED
    BY <1>3, <2>1, <2>2
<1>8. /\ reply' \in [Callers -> {"none", "awaited", "ok", "closed"}]
      /\ \A c \in Callers \ {"started"} : reply'[c] = reply[c]
      /\ reply'["started"] = "ok"
  BY <1>1, <1>3 DEF IInv, ShapeInv, TypeOK
<1>9. \A c : Gone(c)' = Gone(c)
  BY <1>1 DEF Gone
<1>10. TypeOK'
  <2>1. \A b \in Actors : \A i \in 1..Len(box'[b]) : box'[b][i] \in Mails
    BY <1>7
  <2>2. /\ {wedged', announced', fanaticAddr', executorAddr'} \subseteq BOOLEAN
        /\ flush' \in {"none", "written", "failed"}
    BY <1>1, <1>5 DEF IInv, ShapeInv, TypeOK, tasks, boots
  <2> QED
    BY <1>1, <1>6, <1>8, <2>1, <2>2 DEF IInv, ShapeInv, TypeOK, Mails, Kinds,
       outside, tasks, boots
<1>11. ShapeInv'
  BY <1>1, <1>7, <1>10 DEF IInv, ShapeInv, outside
<1>12. MailInv'
  <2> SUFFICES ASSUME NEW b \in Actors, NEW i \in 1..Len(box'[b])
               PROVE  MailOK(b, box[b][i])'
    BY DEF MailInv
  <2>1. PICK j \in 1..Len(box[b]) :
           /\ box'[b][i] = box[b][j]
           /\ b = "follower" => box[b][j].from # "started"
    BY <1>7
  <2>2. MailOK(b, box[b][j])
    BY DEF IInv, MailInv
  <2>3. box[b][j].from # "started"
    BY <2>1, <2>2 DEF MailOK
  <2> QED
    BY <1>1, <1>8, <1>9, <2>1, <2>2, <2>3 DEF MailOK, boots, tasks
<1>13. ReplyInv'
  <2>1. \A c \in Callers : Gone(c)' => reply'[c] = "none"
    BY <1>4, <1>8, <1>9 DEF IInv, ReplyInv
  <2>2. \A c \in futures' : reply'[c] = "awaited" \/ Gone(c)'
    BY <1>1, <1>3, <1>8, <1>9 DEF IInv, ShapeInv, TypeOK, ReplyInv, tasks
  <2>3. ASSUME NEW l \in Listeners, reply'[l] = "awaited"
        PROVE  listener'[l] = "sending"
    <3>1. l \in Callers /\ l # "started"
      BY DEF Callers, Listeners
    <3>2. listener[l] = "sending"
      BY <1>8, <2>3, <3>1 DEF IInv, ReplyInv
    <3>3. (l = "prices" /\ boot = 2) \/ (l = "events" /\ boot = 3)
             => listener[l] = "off"
      BY <1>2, <1>3 DEF MailOK
    <3> QED
      BY <1>6, <3>2, <3>3
  <2>4. main' \in Actors \cup {"select"} => reply'["main"] = "none"
    BY <1>1, <1>8 DEF IInv, ReplyInv, Callers, outside
  <2>5. /\ boot' = boot /\ boot \in 1..3
        /\ boot < 2 => listener'["prices"] = "off"
        /\ boot < 3 => listener'["events"] = "off"
    BY <1>1, <1>3, <1>6 DEF IInv, ReplyInv, boots, Listeners
  <2> QED
    BY <2>1, <2>2, <2>3, <2>4, <2>5 DEF ReplyInv
<1>14. AddrInv' /\ StopInv'
  BY <1>1, <1>3, <1>5, <1>8 DEF IInv, AddrInv, StopInv, StopAwaitsFlush,
     boots, tasks, outside, Callers
<1>15. FanaticAddrKnown'
  BY <1>3, <1>6 DEF IInv, FanaticAddrKnown, AddrInv
<1>16. AwaitedIsAnswerable'
  BY <1>1, <1>7, <1>8 DEF IInv, AwaitedIsAnswerable, tasks
<1> QED
  BY <1>7, <1>11, <1>12, <1>13, <1>14, <1>15, <1>16 DEF IInv

\* The future of a caller's message ends.
LEMMA FutureEndsIInv ==
    ASSUME IInv, NEW c \in Callers, FutureEnds(c)
    PROVE  IInv'
<1>1. /\ c \in futures /\ futures' = futures \ {c}
      /\ UNCHANGED <<outside, alive, box, wedged, boots, addrs, listening>>
  BY DEF FutureEnds
<1>2. /\ reply \in [Callers -> {"none", "awaited", "ok", "closed"}]
      /\ futures \subseteq Callers \ {"started"}
  BY DEF IInv, ShapeInv, TypeOK
<1>3. PICK answer \in {"ok", "closed"} :
         /\ reply' = IF reply[c] = "awaited"
                     THEN [reply EXCEPT ![c] = answer] ELSE reply
         /\ c = "main" => answer = "ok"
  BY DEF FutureEnds
<1>4. /\ reply' \in [Callers -> {"none", "awaited", "ok", "closed"}]
      /\ \A d \in Callers \ {c} : reply'[d] = reply[d]
      /\ reply'[c] # "awaited"
      /\ reply[c] # "awaited" => reply'[c] = reply[c]
  BY <1>2, <1>3
<1>5. \A d : Gone(d)' = Gone(d)
  BY <1>1 DEF Gone
<1>6. /\ flush \in {"none", "written", "failed"}
      /\ flush' \in {"none", "written", "failed"}
      /\ flush # "none" => flush' # "none"
      /\ c = "main" => flush' # "none"
  <2>1. flush \in {"none", "written", "failed"}
    BY DEF IInv, ShapeInv, TypeOK
  <2> QED
    BY <2>1 DEF FutureEnds
<1>7. TypeOK'
  <2>1. /\ {wedged', announced', fanaticAddr', executorAddr'} \subseteq BOOLEAN
        /\ flush' \in {"none", "written", "failed"}
    BY <1>1, <1>6 DEF IInv, ShapeInv, TypeOK, boots, addrs
  <2> QED
    BY <1>1, <1>2, <1>4, <2>1 DEF IInv, ShapeInv, TypeOK, outside, boots,
       listening
<1>8. ShapeInv'
  BY <1>1, <1>7 DEF IInv, ShapeInv, outside
<1>9. MailInv'
  <2> SUFFICES ASSUME NEW b \in Actors, NEW i \in 1..Len(box'[b])
               PROVE  MailOK(b, box[b][i])'
    BY DEF MailInv
  <2>1. MailOK(b, box[b][i])
    BY <1>1 DEF IInv, MailInv
  <2>2. box[b][i].from # c
    BY <1>1, <2>1 DEF MailOK
  <2> QED
    BY <1>1, <1>4, <1>5, <2>1, <2>2 DEF MailOK, boots, listening
<1>10. ReplyInv'
  <2>1. \A d \in Callers : Gone(d)' => reply'[d] = "none"
    BY <1>4, <1>5 DEF IInv, ReplyInv
  <2>2. \A d \in futures' : reply'[d] = "awaited" \/ Gone(d)'
    BY <1>1, <1>2, <1>4, <1>5 DEF IInv, ReplyInv
  <2>3. \A l \in Listeners : reply'[l] = "awaited" => listener'[l] = "sending"
    BY <1>1, <1>4 DEF IInv, ReplyInv, Callers, listening
  <2>4. main' \in Actors \cup {"select"} => reply'["main"] = "none"
    <3>1. reply["main"] = "none" => reply'["main"] = "none"
      BY <1>4 DEF Callers
    <3> QED
      BY <1>1, <3>1 DEF IInv, ReplyInv, outside
  <2>5. /\ boot' = 0 => reply'["started"] = "none"
        /\ boot' < 2 => listener'["prices"] = "off"
        /\ boot' < 3 => listener'["events"] = "off"
    BY <1>1, <1>2, <1>4 DEF IInv, ReplyInv, Callers, boots, listening
  <2> QED
    BY <2>1, <2>2, <2>3, <2>4, <2>5 DEF ReplyInv
<1>11. AddrInv'
  BY <1>1, <1>2, <1>4 DEF IInv, AddrInv, boots, addrs, Callers
<1>12. StopInv'
  <2>1. reply'["main"] = "ok" => flush' # "none"
    BY <1>4, <1>6 DEF IInv, StopInv, Callers
  <2> QED
    BY <1>1, <1>6, <2>1 DEF IInv, StopInv, StopAwaitsFlush, outside
<1>13. FanaticAddrKnown' /\ OneMessageEach'
  BY <1>1 DEF IInv, FanaticAddrKnown, OneMessageEach, listening
<1>14. AwaitedIsAnswerable'
  BY <1>1, <1>4 DEF IInv, AwaitedIsAnswerable, InLine
<1> QED
  BY <1>8, <1>9, <1>10, <1>11, <1>12, <1>13, <1>14 DEF IInv

\* A panic: the callers in line learn that there will be no answer, and the
\* futures of the context wait for none.
LEMMA DiesIInv ==
    ASSUME IInv, NEW a \in {"follower", "fanatic"}, alive[a] = "up", Dies(a),
           UNCHANGED <<outside, tasks, boots, addrs, listening>>
    PROVE  IInv'
<1>1. /\ a \in Actors /\ alive' = [alive EXCEPT ![a] = "dead"]
      /\ box' = [box EXCEPT ![a] = << >>]
      /\ reply' = [c \in Callers |->
            IF c \in Fibers[a] THEN "none"
            ELSE IF reply[c] = "awaited" /\ InLine(c, a) THEN "closed"
            ELSE reply[c]]
  BY DEF Dies, Actors
<1>2. /\ alive \in [Actors -> {"off", "up", "dead"}]
      /\ box \in [Actors -> Seq(Mails)]
      /\ reply \in [Callers -> {"none", "awaited", "ok", "closed"}]
      /\ futures \subseteq Callers \ {"started"}
      /\ \A b \in Actors : alive[b] # "up" => box[b] = << >>
  BY DEF IInv, ShapeInv, TypeOK
<1>3. /\ \A b \in Actors \ {a} : alive'[b] = alive[b] /\ box'[b] = box[b]
      /\ alive'[a] = "dead" /\ box'[a] = << >> /\ Len(box'[a]) = 0
      /\ box' \in [Actors -> Seq(Mails)]
      /\ alive' \in [Actors -> {"off", "up", "dead"}]
  BY <1>1, <1>2
<1>4. /\ \A c : Gone(c)' <=> Gone(c) \/ c \in Fibers[a]
      /\ \A c \in Callers : c \in Fibers[a] => reply'[c] = "none"
      /\ \A c \in Callers \ Fibers[a] :
            \/ reply'[c] = reply[c]
            \/ reply[c] = "awaited" /\ reply'[c] = "closed" /\ InLine(c, a)
      /\ \A c \in Callers : reply'[c] = "awaited" =>
            reply[c] = "awaited" /\ ~InLine(c, a)
      /\ reply' \in [Callers -> {"none", "awaited", "ok", "closed"}]
  BY <1>1, <1>2, <1>3 DEF Gone
<1>5. "main" \in Callers \ Fibers[a]
  BY DEF Callers, Fibers, Listeners
<1>6. TypeOK'
  <2>1. \A b \in Actors : \A i \in 1..Len(box'[b]) : box'[b][i] \in Mails
    BY <1>3
  <2> QED
    BY <1>3, <1>4, <2>1 DEF IInv, ShapeInv, TypeOK, Mails, Kinds, outside,
       tasks, boots, addrs, listening
<1>7. ShapeInv'
  <2>1. \A b \in Actors : alive'[b] # "up" => box'[b] = << >>
    BY <1>2, <1>3
  <2>2. \A b \in Actors : alive[b] = "off" => alive'[b] = "off"
    BY <1>3
  <2> QED
    BY <1>3, <1>6, <2>1, <2>2 DEF IInv, ShapeInv, Actors, outside
<1>8. MailInv'
  <2> SUFFICES ASSUME NEW b \in Actors, NEW i \in 1..Len(box'[b])
               PROVE  MailOK(b, box[b][i])'
    BY DEF MailInv
  <2>1. b # a /\ box'[b] = box[b]
    BY <1>3
  <2>2. MailOK(b, box[b][i])
    BY <2>1 DEF IInv, MailInv
  <2>3. box[b][i].from \in Callers \ Fibers[a]
           => reply'[box[b][i].from] = reply[box[b][i].from]
    <3>1. ASSUME NEW j \in 1..Len(box[a]), box[a][j].from = box[b][i].from,
                 box[b][i].from \in Callers
          PROVE  FALSE
      <4>1. MailOK(a, box[a][j])
        BY <1>1 DEF IInv, MailInv
      <4> QED
        BY <2>1, <2>2, <3>1, <4>1 DEF MailOK, Callers
    <3> QED
      BY <1>4, <3>1 DEF InLine
  <2> QED
    BY <1>4, <2>1, <2>2, <2>3 DEF MailOK, tasks, boots, listening
<1>9. ReplyInv'
  <2>1. \A c \in Callers : Gone(c)' => reply'[c] = "none"
    BY <1>4 DEF IInv, ReplyInv
  <2>2. ASSUME NEW c \in futures'
        PROVE  reply'[c] = "awaited" \/ Gone(c)'
    <3>1. c \in futures /\ c \in Callers
      BY <1>2, <2>2 DEF tasks
    <3>2. ~InLine(c, a)
      BY <1>1, <3>1 DEF InLine, IInv, MailInv, MailOK
    <3> QED
      BY <1>4, <3>1, <3>2 DEF IInv, ReplyInv
  <2>3. \A l \in Listeners : reply'[l] = "awaited" => listener'[l] = "sending"
    BY <1>4 DEF IInv, ReplyInv, Callers, listening
  <2>4. main' \in Actors \cup {"select"} => reply'["main"] = "none"
    BY <1>4, <1>5 DEF IInv, ReplyInv, outside
  <2>5. /\ boot' = 0 => reply'["started"] = "none"
        /\ boot' < 2 => listener'["prices"] = "off"
        /\ boot' < 3 => listener'["events"] = "off"
    BY <1>4 DEF IInv, ReplyInv, Callers, boots, listening
  <2> QED
    BY <2>1, <2>2, <2>3, <2>4, <2>5 DEF ReplyInv
<1>10. AddrInv' /\ StopInv'
  BY <1>4, <1>5 DEF IInv, AddrInv, StopInv, StopAwaitsFlush, outside,
     tasks, boots, addrs, Callers
<1>11. FanaticAddrKnown'
  BY DEF IInv, FanaticAddrKnown, listening
<1>12. OneMessageEach'
  <2>1. ASSUME NEW b \in Actors, NEW i \in 1..Len(box'[b]),
               NEW j \in 1..Len(box'[b]), box'[b][i].from = box'[b][j].from
        PROVE  i = j
    <3>1. b # a /\ box'[b] = box[b]
      BY <1>3
    <3> QED
      BY <2>1, <3>1 DEF IInv, OneMessageEach
  <2> QED
    BY <2>1 DEF OneMessageEach
<1>13. AwaitedIsAnswerable'
  <2> SUFFICES ASSUME NEW c \in Callers, reply'[c] = "awaited", c \notin futures
               PROVE  \E b \in Actors : alive'[b] = "up" /\ InLine(c, b)'
    BY DEF AwaitedIsAnswerable, tasks
  <2>1. PICK b \in Actors : alive[b] = "up" /\ InLine(c, b)
    BY <1>4 DEF IInv, AwaitedIsAnswerable
  <2>2. b # a
    BY <1>4, <2>1
  <2> QED
    BY <1>3, <2>1, <2>2 DEF InLine
<1> QED
  BY <1>7, <1>8, <1>9, <1>10, <1>11, <1>12, <1>13 DEF IInv

-----------------------------------------------------------------------------
\* The invariant is inductive: one case per action.
LEMMA NextIInv == IInv /\ [Next]_vars => IInv'
<1> SUFFICES ASSUME IInv, [Next]_vars
             PROVE  IInv'
  OBVIOUS
<1>1. CASE UNCHANGED vars
  BY <1>1 DEF vars, outside, mail, tasks, boots, addrs, listening, IInv,
     ShapeInv, TypeOK, MailInv, MailOK, ReplyInv, AddrInv, StopInv,
     StopAwaitsFlush, Gone, FanaticAddrKnown, OneMessageEach,
     AwaitedIsAnswerable, InLine
<1>2. CASE Quiet
  BY <1>2, QuietIInv
<1>3. CASE TakeSignal \/ AnnounceExecutor \/ FanaticStarted \/ FanaticTakes
  BY <1>3, TakeSignalIInv, AnnounceIInv, FanaticStartedIInv, FanaticTakesIInv
<1>4. CASE FanaticTakesExecutorAddr \/ \E a \in Actors : SkipDropped(a)
  BY <1>4, TakenIInv
<1>5. CASE FollowerTakesAddr
           \/ StartListening("prices", "StartListeningForOraclePrices")
           \/ StartListening("events", "StartListeningForEvents")
  BY <1>5, FollowerIInv
<1>6. CASE \E c \in Callers : FutureEnds(c)
  BY <1>6, FutureEndsIInv
<1>7. CASE \E l \in Listeners : LogComes(l)
  BY <1>7, LogComesIInv
<1>8. CASE FanaticStartedPanics \/ FanaticUnwrapsNone
  <2>1. /\ alive["fanatic"] = "up" /\ Dies("fanatic")
        /\ UNCHANGED <<outside, tasks, boots, addrs, listening>>
    BY <1>8 DEF FanaticStartedPanics, FanaticUnwrapsNone, Takes, HasMail
  <2> QED
    BY <2>1, DiesIInv
<1>9. CASE \E l \in Listeners : ListenerPanics(l)
  <2>1. /\ alive["follower"] = "up" /\ Dies("follower")
        /\ UNCHANGED <<outside, tasks, boots, addrs, listening>>
    BY <1>9 DEF ListenerPanics
  <2> QED
    BY <2>1, DiesIInv
<1> QED
  BY <1>1, <1>2, <1>3, <1>4, <1>5, <1>6, <1>7, <1>8, <1>9
     DEF Next, MainStep, FanaticStep, FollowerStep, Quiet, Actors

\* The invariant holds for ever.
LEMMA Invariant == Spec => []IInv
BY InitIInv, NextIInv, PTL DEF Spec

\* The variables keep their types; the box is a sequence of known messages.
THEOREM TypeCorrect == Spec => []TypeOK
<1>1. IInv => TypeOK
  BY DEF IInv, ShapeInv
<1> QED
  BY <1>1, Invariant, PTL

\* No listener ever finds its clone of fanatic_addr empty.
THEOREM ListenersKnowTheFanatic == Spec => []FanaticAddrKnown
<1>1. IInv => FanaticAddrKnown
  BY DEF IInv
<1> QED
  BY <1>1, Invariant, PTL

\* Whoever awaits an answer has a message in the mailbox of a running actor or
\* a future that handles it, whatever has panicked.
THEOREM NobodyWaitsInVain == Spec => []AwaitedIsAnswerable
<1>1. IInv => AwaitedIsAnswerable
  BY DEF IInv
<1> QED
  BY <1>1, Invariant, PTL

\* run() stops the system only after the Shutdown handler has ended.
THEOREM NoStopUnderFlush == Spec => []StopAwaitsFlush
<1>1. IInv => StopAwaitsFlush
  BY DEF IInv, StopInv
<1> QED
  BY <1>1, Invariant, PTL
=============================================================================
