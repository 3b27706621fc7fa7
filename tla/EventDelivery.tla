---------------------------- MODULE EventDelivery ----------------------------
(***************************************************************************)
(* What the outbox promises of its events, whoever relays them and         *)
(* whatever fails on the way: the header of internal/store/mysql/outbox.go *)
(* and the states of EventStatus.  An event enters with its order; it is   *)
(* settled only after Kafka has it; it is given up only if Kafka never     *)
(* got it, which an event that was given up can still change.              *)
(*                                                                         *)
(* Nothing is said of relays, batches, attempts or failures: those are the *)
(* concern of OutboxRelay, which implements this.                          *)
(***************************************************************************)
CONSTANT Rows

VARIABLES
    status,     \* of each event: "none", "PENDING", "SENT" or "DEAD"
    published   \* events that Kafka has

promise == <<status, published>>

\* All of S, and nothing else, goes to state s.
Put(S, s) == status' = [i \in Rows |-> IF i \in S THEN s ELSE status[i]]

Init ==
    /\ status = [i \in Rows |-> "none"]
    /\ published = {}

\* Order committed = event committed.
Enter(i) ==
    /\ status[i] = "none"
    /\ Put({i}, "PENDING")
    /\ UNCHANGED published

\* At least once: an event may go out again, even when it is settled.
Publish(S) ==
    /\ \A i \in S : status[i] \in {"PENDING", "SENT"}
    /\ published' = published \cup S
    /\ UNCHANGED status

\* SENT only after Kafka's acknowledgement, and for good.
Settle(S) ==
    /\ S \subseteq published
    /\ \A i \in S : status[i] \in {"PENDING", "SENT"}
    /\ Put(S, "SENT")
    /\ UNCHANGED published

\* A bad message fails explicitly; a good one never does.
GiveUp(i) ==
    /\ status[i] = "PENDING"
    /\ i \notin published
    /\ Put({i}, "DEAD")
    /\ UNCHANGED published

\* What was given up can be taken up again.
TakeUp(S) ==
    /\ \A i \in S : status[i] = "DEAD"
    /\ Put(S, "PENDING")
    /\ UNCHANGED published

Next ==
    \/ \E i \in Rows : Enter(i) \/ GiveUp(i)
    \/ \E S \in SUBSET Rows : Publish(S) \/ Settle(S) \/ TakeUp(S)

Spec == Init /\ [][Next]_promise
=============================================================================
