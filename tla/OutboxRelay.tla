---------------------------- MODULE OutboxRelay ----------------------------
(***************************************************************************)
(* The outbox table (internal/store/mysql/outbox.go) and the relays that   *)
(* poll it and publish to Kafka (internal/relay/relay.go).                 *)
(*                                                                         *)
(* Rows enter PENDING when the transaction of their order commits, not     *)
(* always in the order of their ids.  A relay fetches a batch, counts a    *)
(* failed attempt for each row whose payload it cannot decode, publishes   *)
(* the others in one call and marks them SENT once Kafka acknowledged all  *)
(* of them.  Deployments run one relay, and two while an update rolls out. *)
(*                                                                         *)
(* published is the set of rows that have a message in Kafka: how many     *)
(* copies there are, and in which order, is the consumer's affair.         *)
(***************************************************************************)
EXTENDS Integers, FiniteSets

CONSTANTS
    Relays,       \* relay processes
    Rows,         \* ids of the outbox rows, numbers
    Undecodable,  \* rows whose payload json.Unmarshal rejects
    BatchSize,    \* Config.BatchSize
    MaxAttempts,  \* Config.MaxAttempts
    MaxFaults,    \* bound: how often something goes wrong
    MaxRequeues   \* bound: how often an operator requeues dead rows

ASSUME RowsAssumption == Rows \subseteq Nat
ASSUME UndecodableAssumption == Undecodable \subseteq Rows
ASSUME LimitsAssumption ==
    /\ BatchSize \in Nat \ {0}
    /\ MaxAttempts \in Nat \ {0}
    /\ MaxFaults \in Nat
    /\ MaxRequeues \in Nat

VARIABLES
    status,     \* of each row; "none" before its order commits
    attempts,   \* of each row
    published,  \* rows that Kafka has a message of
    pc,         \* where each relay is in drainOnce
    bad,        \* fetched rows it has still to count a failure for
    ids,        \* fetched rows it will publish and mark
    loaded,     \* attempts as MarkOutboxFailed read them
    faults,     \* failures so far
    requeues    \* requeues so far

table == <<status, attempts>>
local == <<pc, bad, ids, loaded>>
vars == <<table, published, local, faults, requeues>>

-----------------------------------------------------------------------------
Pending == {i \in Rows : status[i] = "PENDING"}

\* ORDER BY id ASC LIMIT n.
Oldest(S, n) == {i \in S : Cardinality({j \in S : j < i}) < n}
First(S) == CHOOSE i \in S : \A j \in S : i <= j

Fault ==
    /\ faults < MaxFaults
    /\ faults' = faults + 1

\* A return from drainOnce: the relay keeps nothing for the next round.
Return(p) ==
    /\ pc' = [pc EXCEPT ![p] = "idle"]
    /\ bad' = [bad EXCEPT ![p] = {}]
    /\ ids' = [ids EXCEPT ![p] = {}]
    /\ loaded' = [loaded EXCEPT ![p] = 0]

Init ==
    /\ status = [i \in Rows |-> "none"]
    /\ attempts = [i \in Rows |-> 0]
    /\ published = {}
    /\ pc = [p \in Relays |-> "idle"]
    /\ bad = [p \in Relays |-> {}]
    /\ ids = [p \in Relays |-> {}]
    /\ loaded = [p \in Relays |-> 0]
    /\ faults = 0
    /\ requeues = 0

\* writeOutbox, as the order's transaction commits.
WriteOutbox(i) ==
    /\ status[i] = "none"
    /\ status' = [status EXCEPT ![i] = "PENDING"]
    /\ UNCHANGED <<attempts, published, local, faults, requeues>>

\* FetchPendingOutbox and the decoding of what it returned.
Fetch(p) ==
    /\ pc[p] = "idle"
    /\ Pending # {}
    /\ pc' = [pc EXCEPT ![p] = "parse"]
    /\ bad' = [bad EXCEPT ![p] = Oldest(Pending, BatchSize) \cap Undecodable]
    /\ ids' = [ids EXCEPT ![p] = Oldest(Pending, BatchSize) \ Undecodable]
    /\ UNCHANGED <<table, published, loaded, faults, requeues>>

\* MarkOutboxFailed reads the row ...
LoadFailed(p) ==
    /\ pc[p] = "parse"
    /\ bad[p] # {}
    /\ pc' = [pc EXCEPT ![p] = "save"]
    /\ loaded' = [loaded EXCEPT ![p] = attempts[First(bad[p])]]
    /\ UNCHANGED <<table, published, bad, ids, faults, requeues>>

\* The status that goes with n failed attempts.
FailedStatus(n) == IF n >= MaxAttempts THEN "DEAD" ELSE "PENDING"

\* Slip: the attempt is counted in memory and not saved.
SlipSaveFailed(p) ==
    /\ pc[p] = "save"
    /\ LET i == First(bad[p]) IN
        /\ status' = [status EXCEPT ![i] = FailedStatus(loaded[p] + 1)]
        /\ bad' = [bad EXCEPT ![p] = @ \ {i}]
    /\ pc' = [pc EXCEPT ![p] = "parse"]
    /\ UNCHANGED <<attempts, published, ids, loaded, faults, requeues>>

\* ... and saves the whole row, whatever happened to it in between.
SaveFailed(p) ==
    /\ pc[p] = "save"
    /\ LET i == First(bad[p]) IN
        /\ attempts' = [attempts EXCEPT ![i] = loaded[p] + 1]
        /\ status' = [status EXCEPT ![i] = FailedStatus(loaded[p] + 1)]
        /\ bad' = [bad EXCEPT ![p] = @ \ {i}]
    /\ pc' = [pc EXCEPT ![p] = "parse"]
    /\ UNCHANGED <<published, ids, loaded, faults, requeues>>

\* Reading or saving fails: the loop goes on with the next row.
SkipRow(p) ==
    /\ Fault
    /\ bad[p] # {}
    /\ bad' = [bad EXCEPT ![p] = @ \ {First(bad[p])}]
    /\ pc' = [pc EXCEPT ![p] = "parse"]
    /\ UNCHANGED <<table, published, ids, loaded, requeues>>

\* Nothing to publish in this batch.
NothingToSend(p) ==
    /\ pc[p] = "parse"
    /\ bad[p] = {}
    /\ ids[p] = {}
    /\ Return(p)
    /\ UNCHANGED <<table, published, faults, requeues>>

\* ProduceBatch returns nil: every message is in Kafka.
ProduceOk(p) ==
    /\ pc[p] = "parse"
    /\ bad[p] = {}
    /\ ids[p] # {}
    /\ published' = published \cup ids[p]
    /\ pc' = [pc EXCEPT ![p] = "mark"]
    /\ UNCHANGED <<table, bad, ids, loaded, faults, requeues>>

\* Slip: the error is logged and the batch is marked all the same.
SlipProduceIgnored(p) ==
    /\ pc[p] = "parse"
    /\ bad[p] = {}
    /\ Fault
    /\ \E got \in SUBSET ids[p] : published' = published \cup got
    /\ pc' = [pc EXCEPT ![p] = "mark"]
    /\ UNCHANGED <<table, bad, ids, loaded, requeues>>

\* Slip: a Kafka failure uses up an attempt of every row of the batch.
SlipProduceCounted(p) ==
    /\ pc[p] = "parse"
    /\ bad[p] = {}
    /\ Fault
    /\ \E got \in SUBSET ids[p] : published' = published \cup got
    /\ attempts' = [i \in Rows |-> IF i \in ids[p] THEN attempts[i] + 1 ELSE attempts[i]]
    /\ status' = [i \in Rows |-> IF i \in ids[p] THEN FailedStatus(attempts[i] + 1)
                                                 ELSE status[i]]
    /\ Return(p)
    /\ UNCHANGED requeues

\* ProduceBatch returns an error: some of the messages may be in Kafka, and the
\* rows stay as they are.
ProduceFailed(p) ==
    /\ pc[p] = "parse"
    /\ bad[p] = {}
    /\ ids[p] # {}
    /\ Fault
    /\ \E got \in SUBSET ids[p] : published' = published \cup got
    /\ Return(p)
    /\ UNCHANGED <<table, requeues>>

\* MarkOutboxSentBatch, by id and whatever the status is by now.
MarkSent(p) ==
    /\ pc[p] = "mark"
    /\ status' = [i \in Rows |-> IF i \in ids[p] THEN "SENT" ELSE status[i]]
    /\ Return(p)
    /\ UNCHANGED <<attempts, published, faults, requeues>>

\* The round ends early: a statement fails, the 10 s are over, the process dies.
Abort(p) ==
    /\ pc[p] # "idle"
    /\ Fault
    /\ Return(p)
    /\ UNCHANGED <<table, published, requeues>>

\* Slip: the attempts are not reset.
SlipRequeueDead ==
    /\ requeues < MaxRequeues
    /\ \E i \in Rows : status[i] = "DEAD"
    /\ status' = [i \in Rows |-> IF status[i] = "DEAD" THEN "PENDING" ELSE status[i]]
    /\ requeues' = requeues + 1
    /\ UNCHANGED <<attempts, published, local, faults>>

\* An operator's RequeueDead.
RequeueDead ==
    /\ requeues < MaxRequeues
    /\ \E i \in Rows : status[i] = "DEAD"
    /\ status' = [i \in Rows |-> IF status[i] = "DEAD" THEN "PENDING" ELSE status[i]]
    /\ attempts' = [i \in Rows |-> IF status[i] = "DEAD" THEN 0 ELSE attempts[i]]
    /\ requeues' = requeues + 1
    /\ UNCHANGED <<published, local, faults>>

-----------------------------------------------------------------------------
\* drainOnce when nothing goes wrong.
Drain(p) ==
    \/ Fetch(p) \/ LoadFailed(p) \/ SaveFailed(p)
    \/ NothingToSend(p) \/ ProduceOk(p) \/ MarkSent(p)

Next ==
    \/ \E i \in Rows : WriteOutbox(i)
    \/ \E p \in Relays : Drain(p) \/ SkipRow(p) \/ ProduceFailed(p) \/ Abort(p)
    \/ RequeueDead

Spec == Init /\ [][Next]_vars

\* The ticker keeps firing and statements and writes return; once faults stop
\* (MaxFaults) Kafka acknowledges what it is sent.
FairSpec == Spec /\ \A p \in Relays : WF_vars(Drain(p))

-----------------------------------------------------------------------------
TypeOK ==
    /\ status \in [Rows -> {"none", "PENDING", "SENT", "DEAD"}]
    /\ attempts \in [Rows -> Nat]
    /\ published \subseteq Rows
    /\ pc \in [Relays -> {"idle", "parse", "save", "mark"}]
    /\ bad \in [Relays -> SUBSET Undecodable]
    /\ ids \in [Relays -> SUBSET (Rows \ Undecodable)]
    /\ loaded \in [Relays -> Nat]
    /\ faults \in 0 .. MaxFaults
    /\ requeues \in 0 .. MaxRequeues

\* A row is SENT only if Kafka acknowledged its message: a lost or partial
\* acknowledgement, a crash or a second relay never costs an event.
SentIsPublished == \A i \in Rows : status[i] = "SENT" => i \in published

\* A Kafka outage never parks an event: only rows that cannot be decoded end up
\* DEAD, and those are never published.
OnlyUndecodableDie ==
    \A i \in Rows :
        /\ status[i] = "DEAD" => i \in Undecodable
        /\ i \in published => i \notin Undecodable /\ status[i] \in {"PENDING", "SENT"}

\* SENT is final, although MarkOutboxFailed saves whole rows it read earlier and
\* MarkOutboxSentBatch looks at no status.
SentIsFinal == [][\A i \in Rows : status[i] = "SENT" => status'[i] = "SENT"]_vars

\* A row is given up exactly when its attempts are used up.  Two relays that read
\* the row before saving it, or one that saves what it read before a requeue, lose
\* or repeat attempts, but a row left PENDING always has some to go and a DEAD one
\* never does.
DeadMeansExhausted ==
    \A i \in Rows :
        /\ status[i] \in {"PENDING", "SENT"} => attempts[i] < MaxAttempts
        /\ status[i] = "DEAD" => attempts[i] >= MaxAttempts

\* relay.go:5-7: no row waits for ever.  What can be decoded is published and
\* marked in the end, even when rows that cannot fill the head of the batch; and
\* those fail explicitly.
EveryRowSettled ==
    \A i \in Rows : status[i] = "PENDING" ~>
                       status[i] = IF i \in Undecodable THEN "DEAD" ELSE "SENT"

-----------------------------------------------------------------------------
Delivery == INSTANCE EventDelivery

\* outbox.go:5-8: however many relays there are, whatever they read before the
\* others wrote, and wherever a round ends, the table and Kafka go through no step
\* that the promise of the outbox does not allow: no event SENT that Kafka does not
\* have, none DEAD that it has, and SENT for good.
ImplementsDelivery == Delivery!Spec
=============================================================================
