------------------------------- MODULE Actors -------------------------------
(***************************************************************************)
(* What the Fanatic and the Executor actors share: the users and the       *)
(* health factors they exchange, and the messages between them.            *)
(*                                                                         *)
(* The Follower awaits the answer to each UpdateReservePrice and to each   *)
(* UpdateReserveUser before it takes the next log of the same stream, so   *)
(* the Fanatic runs at most one handler of each kind at a time: the        *)
(* listeners "price" and "user".  Each of them has at most one             *)
(* LiquidationRequest in flight (request), and the Executor at most one    *)
(* notification per request (note).                                        *)
(*                                                                         *)
(* Health factors are in hundredths; -200 stands for the -2.0 that marks a *)
(* liquidated user.                                                        *)
(***************************************************************************)
EXTENDS Integers

CONSTANTS
    Users,          \* addresses of borrowers
    HealthFactors,  \* what Pool.getUserAccountData may report
    None            \* no user, no reserve, no price

ASSUME HealthFactorsAreNat == HealthFactors \subseteq Nat

VARIABLES
    request,  \* [Listeners -> [pc, user]]: the Executor's handler run
    note      \* [Listeners -> [outcome, at]]: the Executor's notification

Listeners == {"price", "user"}

\* utils::health_factor answers None above this value ("sanity check").
SanityCap == 1000000
Plausible == {h \in HealthFactors : h <= SanityCap}

\* Below 1.0 a position can be liquidated.
Undercollateralized(h) == h < 100

RequestPCs == {"idle", "rpc", "indices", "data", "pool", "call", "notify",
               "replied"}
Requests == [pc : RequestPCs, user : Users \cup {None}]
NoRequest == [pc |-> "idle", user |-> None]

Outcomes == {"none", "success", "failure"}
Notes == [outcome : Outcomes, at : {"none", "sent", "locking", "done"}]
NoNote == [outcome |-> "none", at |-> "none"]

\* executor_addr.send(LiquidationRequest { user_address, .. }).await begins.
SendRequest(l, u) ==
    /\ request' = [request EXCEPT ![l] = [pc |-> "rpc", user |-> u]]
    /\ note' = [note EXCEPT ![l] = NoNote]
=============================================================================
