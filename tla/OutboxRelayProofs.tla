-------------------------- MODULE OutboxRelayProofs --------------------------
(***************************************************************************)
(* What is proved of OutboxRelay for any number of relays, any rows and    *)
(* limits, and any number of faults and requeues: its safety properties,   *)
(* that it implements EventDelivery, and what that is worth.               *)
(***************************************************************************)
EXTENDS OutboxRelay, WellFoundedInduction, TLAPS

\* What the relays have in hand fits the table: a row once fetched has been
\* committed, and what is about to be marked has been acknowledged.
HandsFitTable ==
    \A p \in Relays :
        /\ \A i \in bad[p] \cup ids[p] : status[i] # "none"
        /\ pc[p] = "mark" => ids[p] \subseteq published
        /\ pc[p] = "save" => bad[p] # {}

\* Decoding is all that can kill a row, and nothing undecodable is sent.
Kinds ==
    \A i \in Rows :
        /\ i \in Undecodable => status[i] # "SENT" /\ i \notin published
        /\ i \notin Undecodable => status[i] # "DEAD"
        /\ status[i] = "none" => i \notin published /\ attempts[i] = 0

IInv ==
    /\ TypeOK
    /\ HandsFitTable
    /\ Kinds
    /\ SentIsPublished
    /\ DeadMeansExhausted

\* The least of a set of numbers exists, so First is a member.
LEMMA FirstIsMember ==
    ASSUME NEW S \in SUBSET Nat, S # {} PROVE First(S) \in S
<1>1. \E i \in S : \A j \in S : ~(<<j, i>> \in OpToRel(<, Nat))
  <2> HIDE DEF OpToRel
  <2> QED BY NatLessThanWellFounded, WFMin
<1>2. \A i, j \in S : ~(<<j, i>> \in OpToRel(<, Nat)) => i <= j
  BY DEF OpToRel
<1>3. \E i \in S : \A j \in S : i <= j
  BY <1>1, <1>2
<1> QED BY <1>3 DEF First

-----------------------------------------------------------------------------
\* A relay that returns has nothing in hand, so the table fits.
LEMMA ReturnFits ==
    ASSUME IInv, NEW p \in Relays, Return(p),
           status' \in [Rows -> {"none", "PENDING", "SENT", "DEAD"}],
           \A i \in Rows : status[i] # "none" => status'[i] # "none",
           published \subseteq published', published' \subseteq Rows
    PROVE  /\ pc' \in [Relays -> {"idle", "parse", "save", "mark"}]
           /\ bad' \in [Relays -> SUBSET Undecodable]
           /\ ids' \in [Relays -> SUBSET (Rows \ Undecodable)]
           /\ loaded' \in [Relays -> Nat]
           /\ HandsFitTable'
BY UndecodableAssumption DEF IInv, TypeOK, HandsFitTable, Return

\* The conjuncts that speak of the table alone.
TableInv == Kinds /\ SentIsPublished /\ DeadMeansExhausted

LEMMA Inductive == IInv /\ [Next]_vars => IInv'
<1> SUFFICES ASSUME IInv, [Next]_vars PROVE IInv'
  OBVIOUS
<1> USE RowsAssumption, UndecodableAssumption, LimitsAssumption
<1>a. TypeOK /\ HandsFitTable /\ TableInv
  BY DEF IInv, TableInv
<1>b. ASSUME TypeOK', HandsFitTable', TableInv' PROVE IInv'
  BY <1>b DEF IInv, TableInv
<1>1. ASSUME NEW i \in Rows, WriteOutbox(i) PROVE IInv'
  <2>1. TypeOK'
    BY <1>1, <1>a DEF WriteOutbox, TypeOK, local
  <2>2. HandsFitTable'
    BY <1>1, <1>a DEF WriteOutbox, TypeOK, HandsFitTable, local
  <2>3. TableInv'
    BY <1>1, <1>a DEF WriteOutbox, TypeOK, TableInv, Kinds, SentIsPublished, DeadMeansExhausted
  <2> QED BY <2>1, <2>2, <2>3, <1>b
<1>2. ASSUME NEW p \in Relays, Fetch(p) PROVE IInv'
  <2>0. Oldest(Pending, BatchSize) \subseteq Pending
    BY DEF Oldest
  <2>1. TypeOK'
    BY <1>2, <1>a, <2>0 DEF Fetch, TypeOK, Pending, table
  <2>2. HandsFitTable'
    BY <1>2, <1>a, <2>0 DEF Fetch, TypeOK, HandsFitTable, Pending, table
  <2>3. TableInv'
    BY <1>2, <1>a DEF Fetch, TableInv, Kinds, SentIsPublished, DeadMeansExhausted, table
  <2> QED BY <2>1, <2>2, <2>3, <1>b
<1>3. ASSUME NEW p \in Relays, LoadFailed(p) PROVE IInv'
  <2>0. First(bad[p]) \in Rows
    BY <1>3, <1>a, FirstIsMember DEF LoadFailed, TypeOK
  <2>1. TypeOK'
    BY <1>3, <1>a, <2>0 DEF LoadFailed, TypeOK, table
  <2>2. HandsFitTable'
    BY <1>3, <1>a DEF LoadFailed, TypeOK, HandsFitTable, table
  <2>3. TableInv'
    BY <1>3, <1>a DEF LoadFailed, TableInv, Kinds, SentIsPublished, DeadMeansExhausted, table
  <2> QED BY <2>1, <2>2, <2>3, <1>b
<1>4. ASSUME NEW p \in Relays, SaveFailed(p) PROVE IInv'
  <2> DEFINE i == First(bad[p])
  <2>0. i \in bad[p] /\ i \in Undecodable /\ i \in Rows /\ loaded[p] \in Nat
    BY <1>4, <1>a, FirstIsMember DEF SaveFailed, TypeOK, HandsFitTable
  <2> HIDE DEF i
  <2>a. /\ attempts' = [attempts EXCEPT ![i] = loaded[p] + 1]
        /\ status' = [status EXCEPT ![i] = FailedStatus(loaded[p] + 1)]
        /\ bad' = [bad EXCEPT ![p] = @ \ {i}]
        /\ pc' = [pc EXCEPT ![p] = "parse"]
        /\ UNCHANGED <<published, ids, loaded, faults, requeues>>
    BY <1>4 DEF SaveFailed, i
  <2>1. TypeOK'
    BY <2>a, <1>a, <2>0 DEF TypeOK, FailedStatus
  <2>2. HandsFitTable'
    BY <2>a, <1>a, <2>0 DEF TypeOK, HandsFitTable, FailedStatus
  <2>3. TableInv'
    BY <2>a, <1>a, <2>0
    DEF TypeOK, TableInv, HandsFitTable, Kinds, SentIsPublished, DeadMeansExhausted, FailedStatus
  <2> QED BY <2>1, <2>2, <2>3, <1>b
<1>5. ASSUME NEW p \in Relays, SkipRow(p) PROVE IInv'
  <2>1. TypeOK'
    BY <1>5, <1>a DEF SkipRow, Fault, TypeOK, table
  <2>2. HandsFitTable'
    BY <1>5, <1>a DEF SkipRow, TypeOK, HandsFitTable, table
  <2>3. TableInv'
    BY <1>5, <1>a DEF SkipRow, TableInv, Kinds, SentIsPublished, DeadMeansExhausted, table
  <2> QED BY <2>1, <2>2, <2>3, <1>b
<1>6. ASSUME NEW p \in Relays, NothingToSend(p) \/ Abort(p) PROVE IInv'
  <2>0. Return(p) /\ UNCHANGED <<table, published, requeues>> /\ (UNCHANGED faults \/ Fault)
    BY <1>6 DEF NothingToSend, Abort
  <2>1. TypeOK' /\ HandsFitTable'
    BY <2>0, <1>a, ReturnFits DEF TypeOK, Fault, table
  <2>2. TableInv'
    BY <2>0, <1>a DEF TableInv, Kinds, SentIsPublished, DeadMeansExhausted, table
  <2> QED BY <2>1, <2>2, <1>b
<1>7. ASSUME NEW p \in Relays, ProduceOk(p) PROVE IInv'
  <2>1. TypeOK'
    BY <1>7, <1>a DEF ProduceOk, TypeOK, table
  <2>2. HandsFitTable'
    BY <1>7, <1>a DEF ProduceOk, TypeOK, HandsFitTable, table
  <2>3. TableInv'
    BY <1>7, <1>a
    DEF ProduceOk, TypeOK, TableInv, HandsFitTable, Kinds, SentIsPublished, DeadMeansExhausted, table
  <2> QED BY <2>1, <2>2, <2>3, <1>b
<1>8. ASSUME NEW p \in Relays, ProduceFailed(p) PROVE IInv'
  <2>0. PICK got \in SUBSET ids[p] : published' = published \cup got
    BY <1>8 DEF ProduceFailed
  <2>1. TypeOK' /\ HandsFitTable'
    BY <1>8, <2>0, <1>a, ReturnFits DEF ProduceFailed, TypeOK, Fault, table
  <2>2. TableInv'
    BY <1>8, <2>0, <1>a
    DEF ProduceFailed, TypeOK, TableInv, HandsFitTable, Kinds, SentIsPublished, DeadMeansExhausted, table
  <2> QED BY <2>1, <2>2, <1>b
<1>9. ASSUME NEW p \in Relays, MarkSent(p) PROVE IInv'
  <2>1. TypeOK' /\ HandsFitTable'
    BY <1>9, <1>a, ReturnFits DEF MarkSent, TypeOK
  <2>2. TableInv'
    BY <1>9, <1>a
    DEF MarkSent, TypeOK, TableInv, HandsFitTable, Kinds, SentIsPublished, DeadMeansExhausted
  <2> QED BY <2>1, <2>2, <1>b
<1>10. CASE RequeueDead
  <2>1. TypeOK'
    BY <1>10, <1>a DEF RequeueDead, TypeOK, local
  <2>2. HandsFitTable'
    BY <1>10, <1>a DEF RequeueDead, TypeOK, HandsFitTable, local
  <2>3. TableInv'
    BY <1>10, <1>a
    DEF RequeueDead, TypeOK, TableInv, Kinds, SentIsPublished, DeadMeansExhausted
  <2> QED BY <2>1, <2>2, <2>3, <1>b
<1>11. CASE UNCHANGED vars
  BY <1>11 DEF IInv, vars, table, local, TypeOK, HandsFitTable, Kinds, SentIsPublished,
               DeadMeansExhausted
<1> QED
  BY <1>1, <1>2, <1>3, <1>4, <1>5, <1>6, <1>7, <1>8, <1>9, <1>10, <1>11 DEF Next, Drain

LEMMA InductiveInvariant == Spec => []IInv
<1>1. Init => IInv
  BY RowsAssumption, UndecodableAssumption, LimitsAssumption
  DEF Init, IInv, TypeOK, HandsFitTable, Kinds, SentIsPublished, DeadMeansExhausted
<1> QED BY <1>1, Inductive, PTL DEF Spec

-----------------------------------------------------------------------------
\* The variables keep their types.
THEOREM TypeCorrect == Spec => []TypeOK
<1>1. IInv => TypeOK
  BY DEF IInv
<1> QED BY <1>1, InductiveInvariant, PTL

\* No row is marked SENT that Kafka has not acknowledged.
THEOREM SentSafe == Spec => []SentIsPublished
<1>1. IInv => SentIsPublished
  BY DEF IInv
<1> QED BY <1>1, InductiveInvariant, PTL

\* Only rows that cannot be decoded are given up, and those are never sent.
THEOREM DeadSafe == Spec => []OnlyUndecodableDie
<1>1. IInv => OnlyUndecodableDie
  BY DEF IInv, TypeOK, Kinds, OnlyUndecodableDie
<1> QED BY <1>1, InductiveInvariant, PTL

\* A row is DEAD exactly when its attempts are used up.
THEOREM AttemptsSafe == Spec => []DeadMeansExhausted
<1>1. IInv => DeadMeansExhausted
  BY DEF IInv
<1> QED BY <1>1, InductiveInvariant, PTL

\* No step takes a row out of SENT: a row that is marked was decoded, and
\* MarkOutboxFailed saves only rows that were not.
THEOREM SentStays == Spec => SentIsFinal
<1>1. IInv /\ [Next]_vars => [\A i \in Rows : status[i] = "SENT" => status'[i] = "SENT"]_vars
  <2> SUFFICES ASSUME IInv, Next, NEW i \in Rows, status[i] = "SENT"
               PROVE status'[i] = "SENT"
    OBVIOUS
  <2>t. TypeOK /\ i \notin Undecodable
    BY DEF IInv, Kinds
  <2>1. ASSUME NEW p \in Relays, SaveFailed(p) PROVE status'[i] = "SENT"
    <3>1. First(bad[p]) \in Undecodable
      BY <2>1, RowsAssumption, UndecodableAssumption, FirstIsMember
      DEF SaveFailed, IInv, TypeOK, HandsFitTable
    <3> QED BY <2>1, <2>t, <3>1 DEF SaveFailed, TypeOK
  <2>2. ASSUME NEW p \in Relays, Fetch(p) \/ LoadFailed(p) \/ NothingToSend(p) \/ ProduceOk(p)
                                \/ SkipRow(p) \/ ProduceFailed(p) \/ Abort(p)
        PROVE status'[i] = "SENT"
    BY <2>2 DEF Fetch, LoadFailed, NothingToSend, ProduceOk, SkipRow, ProduceFailed, Abort, table
  <2>3. ASSUME NEW p \in Relays, MarkSent(p) PROVE status'[i] = "SENT"
    BY <2>3 DEF MarkSent
  <2>4. ASSUME NEW j \in Rows, WriteOutbox(j) PROVE status'[i] = "SENT"
    BY <2>4, <2>t DEF WriteOutbox, TypeOK
  <2>5. CASE RequeueDead
    BY <2>5 DEF RequeueDead
  <2> QED BY <2>1, <2>2, <2>3, <2>4, <2>5 DEF Next, Drain
<1> QED BY <1>1, InductiveInvariant, PTL DEF Spec, SentIsFinal

-----------------------------------------------------------------------------
\* The relays do what the outbox promises

\* Steps that neither write the table nor publish.
LEMMA Unseen == ASSUME UNCHANGED <<status, published>> PROVE UNCHANGED Delivery!promise
BY DEF Delivery!promise

LEMMA WriteEnters ==
    ASSUME IInv, NEW i \in Rows, WriteOutbox(i) PROVE Delivery!Enter(i)
<1>1. status' = [j \in Rows |-> IF j \in {i} THEN "PENDING" ELSE status[j]]
  BY DEF WriteOutbox, IInv, TypeOK
<1> QED BY <1>1 DEF WriteOutbox, Delivery!Enter, Delivery!Put

\* A row is fetched before it is published, and one that can be decoded is not
\* given up meanwhile.
LEMMA IdsGoOut ==
    ASSUME IInv, NEW p \in Relays, NEW i \in ids[p]
    PROVE  status[i] \in {"PENDING", "SENT"}
BY DEF IInv, TypeOK, HandsFitTable, Kinds

LEMMA ProducePublishes ==
    ASSUME IInv, NEW p \in Relays, ProduceOk(p) \/ ProduceFailed(p)
    PROVE  \E S \in SUBSET Rows : Delivery!Publish(S)
<1>1. PICK S \in SUBSET ids[p] : published' = published \cup S
  BY DEF ProduceOk, ProduceFailed
<1>2. S \in SUBSET Rows /\ \A i \in S : status[i] \in {"PENDING", "SENT"}
  BY IdsGoOut DEF IInv, TypeOK
<1>3. UNCHANGED status
  BY DEF ProduceOk, ProduceFailed, table
<1> QED BY <1>1, <1>2, <1>3 DEF Delivery!Publish

LEMMA MarkSettles ==
    ASSUME IInv, NEW p \in Relays, MarkSent(p)
    PROVE  \E S \in SUBSET Rows : Delivery!Settle(S)
<1>1. ids[p] \in SUBSET Rows /\ ids[p] \subseteq published
  BY DEF IInv, TypeOK, HandsFitTable, MarkSent
<1>2. Delivery!Settle(ids[p])
  BY <1>1, IdsGoOut DEF MarkSent, Delivery!Settle, Delivery!Put
<1> QED BY <1>1, <1>2

\* A saved row stays where it was, is given up, or comes back from DEAD when the
\* relay had read it before another one gave it up or an operator requeued it.
LEMMA SaveGivesUp ==
    ASSUME IInv, NEW p \in Relays, SaveFailed(p)
    PROVE  [Delivery!Next]_(Delivery!promise)
<1> DEFINE i == First(bad[p])
           s == FailedStatus(loaded[p] + 1)
<1>1. i \in Rows /\ i \in Undecodable /\ i \in bad[p]
  BY RowsAssumption, UndecodableAssumption, FirstIsMember
     DEF SaveFailed, IInv, TypeOK, HandsFitTable
<1>2. status' = [status EXCEPT ![i] = s] /\ UNCHANGED published /\ s \in {"DEAD", "PENDING"}
  BY DEF SaveFailed, FailedStatus
<1> HIDE DEF i, s
<1>3. i \notin published /\ status[i] \in {"PENDING", "DEAD"} /\ status \in [Rows ->
        {"none", "PENDING", "SENT", "DEAD"}]
  BY <1>1 DEF IInv, TypeOK, Kinds, HandsFitTable
<1>4. status' = [j \in Rows |-> IF j \in {i} THEN s ELSE status[j]]
  BY <1>2, <1>3
<1>5. CASE s = status[i]
  <2>1. status' = status
    BY <1>2, <1>3, <1>5
  <2> QED BY <1>2, <2>1, Unseen
<1>6. CASE status[i] = "PENDING" /\ s = "DEAD"
  <2>1. Delivery!GiveUp(i)
    BY <1>2, <1>3, <1>4, <1>6 DEF Delivery!GiveUp, Delivery!Put
  <2> QED BY <1>1, <2>1 DEF Delivery!Next
<1>7. CASE status[i] = "DEAD" /\ s = "PENDING"
  <2>1. Delivery!TakeUp({i})
    BY <1>2, <1>3, <1>4, <1>7 DEF Delivery!TakeUp, Delivery!Put
  <2>2. {i} \in SUBSET Rows
    BY <1>1
  <2> QED BY <2>1, <2>2 DEF Delivery!Next
<1> QED BY <1>2, <1>3, <1>5, <1>6, <1>7

LEMMA RequeueTakesUp ==
    ASSUME RequeueDead PROVE \E S \in SUBSET Rows : Delivery!TakeUp(S)
<1> DEFINE S == {i \in Rows : status[i] = "DEAD"}
<1>1. status' = [i \in Rows |-> IF i \in S THEN "PENDING" ELSE status[i]]
  BY DEF RequeueDead
<1>2. S \in SUBSET Rows /\ (\A i \in S : status[i] = "DEAD") /\ UNCHANGED published
  BY DEF RequeueDead
<1> HIDE DEF S
<1>3. Delivery!TakeUp(S)
  BY <1>1, <1>2 DEF Delivery!TakeUp, Delivery!Put
<1> QED BY <1>2, <1>3

LEMMA StepDelivers == IInv /\ [Next]_vars => [Delivery!Next]_(Delivery!promise)
<1> SUFFICES ASSUME IInv, [Next]_vars PROVE [Delivery!Next]_(Delivery!promise)
  OBVIOUS
<1>1. CASE UNCHANGED vars
  BY <1>1, Unseen DEF vars, table
<1>2. ASSUME NEW i \in Rows, WriteOutbox(i) PROVE Delivery!Next
  BY <1>2, WriteEnters DEF Delivery!Next
<1>3. ASSUME NEW p \in Relays, \/ Fetch(p) \/ LoadFailed(p) \/ SkipRow(p)
                               \/ NothingToSend(p) \/ Abort(p)
      PROVE  UNCHANGED Delivery!promise
  BY <1>3, Unseen DEF Fetch, LoadFailed, SkipRow, NothingToSend, Abort, table
<1>4. ASSUME NEW p \in Relays, ProduceOk(p) \/ ProduceFailed(p) PROVE Delivery!Next
  BY <1>4, ProducePublishes DEF Delivery!Next
<1>5. ASSUME NEW p \in Relays, MarkSent(p) PROVE Delivery!Next
  BY <1>5, MarkSettles DEF Delivery!Next
<1>6. CASE RequeueDead
  BY <1>6, RequeueTakesUp DEF Delivery!Next
<1> QED BY <1>1, <1>2, <1>3, <1>4, <1>5, <1>6, SaveGivesUp DEF Next, Drain

\* Any number of relays that poll, fail, die and overwrite each other's rows take
\* the table and Kafka through the steps that the outbox promises, and no others.
THEOREM Refinement == Spec => ImplementsDelivery
<1>1. Init => Delivery!Init
  BY DEF Init, Delivery!Init
<1> QED BY <1>1, StepDelivers, InductiveInvariant, PTL
        DEF Spec, ImplementsDelivery, Delivery!Spec

-----------------------------------------------------------------------------
\* What the promise is worth, to whoever relies on EventDelivery and on no relay

PromiseKept ==
    /\ status \in [Rows -> {"none", "PENDING", "SENT", "DEAD"}]
    /\ \A i \in Rows :
          /\ status[i] = "SENT" => i \in published
          /\ i \in published => status[i] \in {"PENDING", "SENT"}

LEMMA PromiseStep ==
    ASSUME PromiseKept, Delivery!Next
    PROVE  PromiseKept' /\ \A i \in Rows : status[i] = "SENT" => status'[i] = "SENT"
<1> DEFINE Moved(S, s) == /\ status' \in [Rows -> {"none", "PENDING", "SENT", "DEAD"}]
                          /\ \A j \in Rows : status'[j] = IF j \in S THEN s ELSE status[j]
<1>1. ASSUME NEW S \in SUBSET Rows, NEW s \in {"PENDING", "SENT", "DEAD"}, Delivery!Put(S, s)
      PROVE  Moved(S, s)
  BY <1>1 DEF Delivery!Put, PromiseKept
<1>2. ASSUME NEW i \in Rows, Delivery!Enter(i)
      PROVE  PromiseKept' /\ \A j \in Rows : status[j] = "SENT" => status'[j] = "SENT"
  <2>1. Moved({i}, "PENDING")
    BY <1>1, <1>2 DEF Delivery!Enter
  <2> QED BY <1>2, <2>1 DEF Delivery!Enter, PromiseKept
<1>3. ASSUME NEW i \in Rows, Delivery!GiveUp(i)
      PROVE  PromiseKept' /\ \A j \in Rows : status[j] = "SENT" => status'[j] = "SENT"
  <2>1. Moved({i}, "DEAD")
    BY <1>1, <1>3 DEF Delivery!GiveUp
  <2> QED BY <1>3, <2>1 DEF Delivery!GiveUp, PromiseKept
<1>4. ASSUME NEW S \in SUBSET Rows, Delivery!Publish(S)
      PROVE  PromiseKept' /\ \A j \in Rows : status[j] = "SENT" => status'[j] = "SENT"
  BY <1>4 DEF Delivery!Publish, PromiseKept
<1>5. ASSUME NEW S \in SUBSET Rows, Delivery!Settle(S)
      PROVE  PromiseKept' /\ \A j \in Rows : status[j] = "SENT" => status'[j] = "SENT"
  <2>1. Moved(S, "SENT")
    BY <1>1, <1>5 DEF Delivery!Settle
  <2> QED BY <1>5, <2>1 DEF Delivery!Settle, PromiseKept
<1>6. ASSUME NEW S \in SUBSET Rows, Delivery!TakeUp(S)
      PROVE  PromiseKept' /\ \A j \in Rows : status[j] = "SENT" => status'[j] = "SENT"
  <2>1. Moved(S, "PENDING")
    BY <1>1, <1>6 DEF Delivery!TakeUp
  <2> QED BY <1>6, <2>1 DEF Delivery!TakeUp, PromiseKept
<1> QED BY <1>2, <1>3, <1>4, <1>5, <1>6 DEF Delivery!Next

\* The abstract specification alone gives at-least-once: nothing is settled that
\* Kafka does not have, what it has is never given up, and settled is for good.
THEOREM PromiseMeansAtLeastOnce == ImplementsDelivery => []PromiseKept /\ SentIsFinal
<1>1. Delivery!Init => PromiseKept
  BY DEF Delivery!Init, PromiseKept
<1>2. PromiseKept /\ [Delivery!Next]_(Delivery!promise) =>
          PromiseKept' /\ [\A i \in Rows : status[i] = "SENT" => status'[i] = "SENT"]_vars
  <2>1. ASSUME PromiseKept, UNCHANGED Delivery!promise
        PROVE  PromiseKept' /\ \A i \in Rows : status[i] = "SENT" => status'[i] = "SENT"
    BY <2>1 DEF Delivery!promise, PromiseKept
  <2> QED BY <2>1, PromiseStep
<1> QED BY <1>1, <1>2, PTL DEF ImplementsDelivery, Delivery!Spec, SentIsFinal
=============================================================================
