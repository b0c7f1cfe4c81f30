------------------------------ MODULE Executor ------------------------------
(***************************************************************************)
(* The Executor actor (actors/executor.rs).  Every LiquidationRequest runs *)
(* in a future of its own: it reads the user's health factor, the reserve  *)
(* indices, the user's debt and collateral and the most liquid pool, calls *)
(* the bot contract and tells the Fanatic how that went.  The requests of  *)
(* the two listeners run concurrently and share nothing.                   *)
(***************************************************************************)
EXTENDS Actors

ExecutorVars == <<request, note>>

ExecutorInit ==
    /\ request = [l \in Listeners |-> NoRequest]
    /\ note = [l \in Listeners |-> NoNote]

RequestAt(l, from, to) ==
    /\ request[l].pc = from
    /\ request' = [request EXCEPT ![l].pc = to]

-----------------------------------------------------------------------------
\* The health factor is read again.  One above the cap is None: the handler
\* answers Ok and does nothing else.
RequestUserHealth(l) ==
    /\ \E h \in HealthFactors :
          RequestAt(l, "rpc", IF h \in Plausible THEN "indices" ELSE "replied")
    /\ UNCHANGED note

\* The RPC fails: health_factor unwraps the error and the future panics.  Its
\* sender gets a MailboxError.
RequestPanics(l) ==
    /\ RequestAt(l, "rpc", "replied")
    /\ UNCHANGED note

\* The reads that follow, in the order of the code.
NextRead == [indices |-> "data", data |-> "pool", pool |-> "call"]

RequestRead(l) ==
    /\ request[l].pc \in DOMAIN NextRead
    /\ RequestAt(l, request[l].pc, NextRead[request[l].pc])
    /\ UNCHANGED note

\* A read fails (an unreachable database or node, no debt, no collateral, no
\* pool): "?" answers Err, and the Fanatic is not told of a failed liquidation.
RequestGivesUp(l) ==
    /\ request[l].pc \in DOMAIN NextRead
    /\ RequestAt(l, request[l].pc, "replied")
    /\ UNCHANGED note

\* Mutant of CallLiquidatoor: the notification is sent and not awaited.
CallLiquidatoorDoSend(l) ==
    /\ RequestAt(l, "call", "replied")
    /\ \E outcome \in {"success", "failure"} :
          note' = [note EXCEPT ![l] = [outcome |-> outcome, at |-> "sent"]]

\* bot_contract.liquidatoor(..).call(), then a SuccessfulLiquidation or a
\* FailedLiquidation, whose answer the handler awaits.
CallLiquidatoor(l) ==
    /\ RequestAt(l, "call", "notify")
    /\ \E outcome \in {"success", "failure"} :
          note' = [note EXCEPT ![l] = [outcome |-> outcome, at |-> "sent"]]

\* The Fanatic has answered the notification: the handler answers Ok.  The note
\* stays readable until the listener's handler returns (history).
RequestNotified(l) ==
    /\ note[l].at = "done"
    /\ RequestAt(l, "notify", "replied")
    /\ UNCHANGED note

ExecutorStep(l) ==
    \/ RequestUserHealth(l)
    \/ RequestPanics(l)
    \/ RequestRead(l)
    \/ RequestGivesUp(l)
    \/ CallLiquidatoor(l)
    \/ RequestNotified(l)
=============================================================================
