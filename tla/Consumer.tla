------------------------------ MODULE Consumer ------------------------------
(***************************************************************************)
(* The consumer process (internal/consumer/processor.go): a reader fills a *)
(* bounded channel, workers collect batches and write each in one          *)
(* transaction (ProcessInboxBatch), a committer advances a watermark over  *)
(* the finished messages and commits it to Kafka now and then.             *)
(*                                                                         *)
(* One partition is modelled; the committer treats partitions alike and    *)
(* apart.  The partition is a fixed log: offset o holds log[o], an event   *)
(* or Poison, and the same event may stand at several offsets (the relay   *)
(* sends again).  A message the reader has in hand while the channel is    *)
(* full counts as not fetched.  A batch that fails is retried for ever:    *)
(* until it succeeds nothing changes, so there is no action for it.        *)
(***************************************************************************)
EXTENDS Integers, FiniteSets, Sequences

CONSTANTS
    Workers,        \* Config.Concurrency goroutines
    MaxInflight,    \* capacity of workCh and of doneCh
    BatchSize,      \* Config.BatchSize
    Events,         \* event ids
    Poison,         \* a message json.Unmarshal rejects
    log,            \* the partition: offsets 0 .. Size - 1
    MaxCrashes,     \* bound: crashes of the process
    MaxShutdowns,   \* bound: SIGTERMs
    MaxRebalances   \* bound: times the partition goes to another member and back

Offsets == DOMAIN log
Size == Cardinality(Offsets)

ASSUME LogAssumption ==
    /\ Size \in Nat \ {0} /\ Offsets = 0 .. (Size - 1)
    /\ log \in [Offsets -> Events \cup {Poison}]
ASSUME PoisonAssumption == Poison \notin Events
ASSUME WorkersAssumption == Workers # {}
ASSUME SizesAssumption == MaxInflight \in Nat \ {0} /\ BatchSize \in Nat \ {0}

VARIABLES
    \* in Kafka and in the database
    committed,   \* the group's offset: the next message of a new member
    inbox,       \* events written, each with its notification
    \* in the process
    cancelled,   \* ctx of Run
    fetchPos,    \* next offset the reader gets
    workCh,      \* reader to workers
    wpc,         \* where each worker is: "collect", "txn", "send" or "exit"
    batch,       \* messages each worker has in hand
    sent,        \* how many of them it has sent to doneCh
    doneCh,      \* workers to committer
    next,        \* partitionState.nextToCommit
    done,        \* partitionState.done
    toCommit,    \* committer.toCommit
    \* bookkeeping
    base,        \* first message this process finished, Size if none
    crashes, shutdowns, rebalances

queues == <<workCh, wpc, batch, sent>>
marks == <<next, done, toCommit, base>>
bounds == <<crashes, shutdowns, rebalances>>
vars == <<committed, inbox, cancelled, fetchPos, queues, doneCh, marks, bounds>>

-----------------------------------------------------------------------------
Elements(q) == {q[i] : i \in DOMAIN q}
EventsOf(q) == {log[o] : o \in Elements(q)} \ {Poison}

\* Whatever the process keeps in memory is gone, and the reader starts at the
\* committed offset (FirstOffset if there is none).
FreshProcess ==
    /\ cancelled' = FALSE
    /\ fetchPos' = committed
    /\ workCh' = <<>>
    /\ wpc' = [w \in Workers |-> "collect"]
    /\ batch' = [w \in Workers |-> <<>>]
    /\ sent' = [w \in Workers |-> 0]
    /\ doneCh' = <<>>
    /\ next' = 0
    /\ done' = {}
    /\ toCommit' = {}
    /\ base' = Size

Init ==
    /\ committed = 0
    /\ inbox = {}
    /\ cancelled = FALSE
    /\ fetchPos = 0
    /\ workCh = <<>>
    /\ wpc = [w \in Workers |-> "collect"]
    /\ batch = [w \in Workers |-> <<>>]
    /\ sent = [w \in Workers |-> 0]
    /\ doneCh = <<>>
    /\ next = 0
    /\ done = {}
    /\ toCommit = {}
    /\ base = Size
    /\ crashes = 0
    /\ shutdowns = 0
    /\ rebalances = 0

-----------------------------------------------------------------------------
\* The reader fetches and hands over.  Its selects may miss a cancelled ctx.
Fetch ==
    /\ fetchPos < Size
    /\ Len(workCh) < MaxInflight
    /\ workCh' = Append(workCh, fetchPos)
    /\ fetchPos' = fetchPos + 1
    /\ UNCHANGED <<committed, inbox, cancelled, wpc, batch, sent, doneCh, marks, bounds>>

\* A worker adds a message to its batch; a full batch is flushed.
Take(w) ==
    /\ wpc[w] = "collect"
    /\ workCh # <<>>
    /\ batch' = [batch EXCEPT ![w] = Append(@, Head(workCh))]
    /\ workCh' = Tail(workCh)
    /\ wpc' = [wpc EXCEPT ![w] = IF Len(batch[w]) + 1 >= BatchSize THEN "txn" ELSE @]
    /\ UNCHANGED <<committed, inbox, cancelled, fetchPos, sent, doneCh, marks, bounds>>

\* The BatchWait timer flushes what there is.
TimerFlush(w) ==
    /\ wpc[w] = "collect"
    /\ batch[w] # <<>>
    /\ wpc' = [wpc EXCEPT ![w] = "txn"]
    /\ UNCHANGED <<committed, inbox, cancelled, fetchPos, workCh, batch, sent, doneCh,
                   marks, bounds>>

\* Slip: an error of the transaction is logged and the batch counts as finished.
SlipProcessIgnored(w) ==
    /\ wpc[w] = "txn"
    /\ inbox' = inbox \/ inbox' = inbox \cup EventsOf(batch[w])
    /\ wpc' = [wpc EXCEPT ![w] = "send"]
    /\ UNCHANGED <<committed, cancelled, fetchPos, workCh, batch, sent, doneCh, marks, bounds>>

\* Slip: a batch whose transaction fails is dropped.
SlipProcessDropped(w) ==
    /\ wpc[w] = "txn"
    /\ \/ /\ inbox' = inbox \cup EventsOf(batch[w])
          /\ wpc' = [wpc EXCEPT ![w] = "send"]
          /\ UNCHANGED batch
       \/ /\ wpc' = [wpc EXCEPT ![w] = "collect"]
          /\ batch' = [batch EXCEPT ![w] = <<>>]
          /\ UNCHANGED inbox
    /\ UNCHANGED <<committed, cancelled, fetchPos, workCh, sent, doneCh, marks, bounds>>

\* processBatch: the transaction inserts what is new and ignores the rest; poison
\* is left out of it.
Process(w) ==
    /\ wpc[w] = "txn"
    /\ inbox' = inbox \cup EventsOf(batch[w])
    /\ wpc' = [wpc EXCEPT ![w] = "send"]
    /\ UNCHANGED <<committed, cancelled, fetchPos, workCh, batch, sent, doneCh, marks, bounds>>

\* processBatch returns because ctx is cancelled, its transaction undone.
Abandon(w) ==
    /\ wpc[w] = "txn"
    /\ cancelled
    /\ wpc' = [wpc EXCEPT ![w] = "send"]
    /\ UNCHANGED <<committed, inbox, cancelled, fetchPos, workCh, batch, sent, doneCh,
                   marks, bounds>>

\* Slip: poison is skipped for good, and the committer never hears of it.
SlipSend(w) ==
    /\ wpc[w] = "send"
    /\ Len(doneCh) < MaxInflight
    /\ LET o == batch[w][sent[w] + 1] IN
        doneCh' = IF log[o] = Poison THEN doneCh ELSE Append(doneCh, o)
    /\ IF sent[w] + 1 = Len(batch[w])
       THEN /\ sent' = [sent EXCEPT ![w] = 0]
            /\ batch' = [batch EXCEPT ![w] = <<>>]
            /\ wpc' = [wpc EXCEPT ![w] = "collect"]
       ELSE /\ sent' = [sent EXCEPT ![w] = @ + 1]
            /\ UNCHANGED <<batch, wpc>>
    /\ UNCHANGED <<committed, inbox, cancelled, fetchPos, workCh, marks, bounds>>

\* flush reports the messages of the batch one by one, whatever processBatch did.
Send(w) ==
    /\ wpc[w] = "send"
    /\ Len(doneCh) < MaxInflight
    /\ doneCh' = Append(doneCh, batch[w][sent[w] + 1])
    /\ IF sent[w] + 1 = Len(batch[w])
       THEN /\ sent' = [sent EXCEPT ![w] = 0]
            /\ batch' = [batch EXCEPT ![w] = <<>>]
            /\ wpc' = [wpc EXCEPT ![w] = "collect"]
       ELSE /\ sent' = [sent EXCEPT ![w] = @ + 1]
            /\ UNCHANGED <<batch, wpc>>
    /\ UNCHANGED <<committed, inbox, cancelled, fetchPos, workCh, marks, bounds>>

\* ctx.Done() wins a select: in the loop the worker returns, in flush it goes
\* back to the loop with the batch as it was.
WorkerStops(w) ==
    /\ cancelled
    /\ \/ /\ wpc[w] = "collect"
          /\ wpc' = [wpc EXCEPT ![w] = "exit"]
       \/ /\ wpc[w] = "send"
          /\ wpc' = [wpc EXCEPT ![w] = "collect"]
    /\ sent' = [sent EXCEPT ![w] = 0]
    /\ UNCHANGED <<committed, inbox, cancelled, fetchPos, workCh, batch, doneCh, marks, bounds>>

-----------------------------------------------------------------------------
\* nextToCommit = 0 stands for "no message of the partition finished yet", and the
\* first one that does sets the watermark.
Watermark(o) == IF next = 0 THEN o ELSE next

\* Slip: every finished message may be committed at once.
SlipRunFrom(n, D) == D

\* The unbroken run of finished messages that starts at n.
RunFrom(n, D) == {i \in D : \A j \in n .. i : j \in D}

\* Slip: a message below the watermark is kept all the same.
SlipAdvance(o) ==
    LET D == done \cup {o}
        run == RunFrom(Watermark(o), D)
    IN  /\ next' = Watermark(o) + Cardinality(run)
        /\ done' = D \ run
        /\ toCommit' = toCommit \cup run

\* markDone with offset o finished.
Advance(o) ==
    IF o < Watermark(o)
    THEN UNCHANGED <<next, done, toCommit>>
    ELSE LET D == done \cup {o}
             run == RunFrom(Watermark(o), D)
         IN  /\ next' = Watermark(o) + Cardinality(run)
             /\ done' = D \ run
             /\ toCommit' = toCommit \cup run

MarkDone ==
    /\ doneCh # <<>>
    /\ Advance(Head(doneCh))
    /\ doneCh' = Tail(doneCh)
    /\ base' = IF base = Size THEN Head(doneCh) ELSE base
    /\ UNCHANGED <<committed, inbox, cancelled, fetchPos, queues, bounds>>

\* CommitMessages commits one past the highest offset it is given.  A cancelled
\* ctx does not keep it from taking effect; an error puts the messages back, and
\* the commit may have taken effect.
Highest(S) == CHOOSE o \in S : \A p \in S : p <= o

Flush ==
    /\ toCommit # {}
    /\ committed' = Highest(toCommit) + 1
    /\ \/ toCommit' = {}
       \/ UNCHANGED toCommit
    /\ UNCHANGED <<inbox, cancelled, fetchPos, queues, doneCh, next, done, base, bounds>>

-----------------------------------------------------------------------------
Crash ==
    /\ crashes < MaxCrashes
    /\ crashes' = crashes + 1
    /\ FreshProcess
    /\ UNCHANGED <<committed, inbox, shutdowns, rebalances>>

\* SIGTERM: runCancel.
Cancel ==
    /\ shutdowns < MaxShutdowns
    /\ ~cancelled
    /\ shutdowns' = shutdowns + 1
    /\ cancelled' = TRUE
    /\ UNCHANGED <<committed, inbox, fetchPos, queues, doneCh, marks, crashes, rebalances>>

\* main returns without waiting for Run, and a new process takes over.
Replaced ==
    /\ cancelled
    /\ FreshProcess
    /\ UNCHANGED <<committed, inbox, bounds>>

\* The group takes the partition away and gives it back; another member may have
\* worked through some messages in between.  The reader goes on from the committed
\* offset; the Processor is not told.
Rebalance ==
    /\ rebalances < MaxRebalances
    /\ ~cancelled
    /\ rebalances' = rebalances + 1
    /\ \E to \in committed .. Size :
        /\ committed' = to
        /\ inbox' = inbox \cup ({log[o] : o \in committed .. (to - 1)} \ {Poison})
        /\ fetchPos' = to
    /\ UNCHANGED <<cancelled, queues, doneCh, marks, crashes, shutdowns>>

-----------------------------------------------------------------------------
Work(w) == Take(w) \/ TimerFlush(w) \/ Process(w) \/ Send(w)

Next ==
    \/ Fetch \/ MarkDone \/ Flush
    \/ \E w \in Workers : Work(w) \/ Abandon(w) \/ WorkerStops(w)
    \/ Crash \/ Cancel \/ Replaced \/ Rebalance

Spec == Init /\ [][Next]_vars

\* Goroutines are scheduled, timers fire, the database and Kafka answer in the
\* end, and a process told to stop is replaced.
FairSpec ==
    /\ Spec
    /\ WF_vars(Fetch) /\ WF_vars(MarkDone) /\ WF_vars(Flush /\ toCommit' = {})
    /\ \A w \in Workers : WF_vars(Work(w))
    /\ WF_vars(Replaced)

-----------------------------------------------------------------------------
TypeOK ==
    /\ committed \in 0 .. Size
    /\ inbox \subseteq Events
    /\ cancelled \in BOOLEAN
    /\ fetchPos \in 0 .. Size
    /\ workCh \in Seq(Offsets) /\ Len(workCh) <= MaxInflight
    /\ wpc \in [Workers -> {"collect", "txn", "send", "exit"}]
    /\ \A w \in Workers : batch[w] \in Seq(Offsets) /\ sent[w] \in 0 .. Len(batch[w])
    /\ doneCh \in Seq(Offsets) /\ Len(doneCh) <= MaxInflight
    /\ next \in 0 .. Size
    /\ done \subseteq Offsets /\ (\A o \in done : o > next)
    /\ toCommit \subseteq Offsets /\ (\A o \in toCommit : o < next)

Finished(o) == log[o] = Poison \/ log[o] \in inbox

\* "Commit ... only after the message's transaction succeeded": no offset is
\* committed past a message that is not in the inbox, so a crash loses nothing.
CommittedIsProcessed == \A o \in Offsets : o < committed => Finished(o)

\* From the first message a process finishes, the watermark passes nothing
\* unfinished, whatever order the workers finish in.
WatermarkIsContiguous ==
    ~cancelled => \A o \in Offsets : base <= o /\ o < next => Finished(o)

InProgress(o) ==
    \/ o >= fetchPos
    \/ o \in Elements(workCh) \cup Elements(doneCh)
    \/ \E w \in Workers : o \in Elements(batch[w])

\* The message that holds finished ones back is on its way: the watermark cannot
\* wait for something that will not come.
NothingStranded == ~cancelled /\ done # {} => InProgress(next)

\* The reader has room, the committer has news or something to commit, or a worker
\* has something in hand that it need not wait with.
Moves ==
    \/ fetchPos < Size /\ Len(workCh) < MaxInflight
    \/ doneCh # <<>>
    \/ toCommit # {}
    \/ \E w \in Workers :
        \/ wpc[w] = "collect" /\ (workCh # <<>> \/ batch[w] # <<>>)
        \/ wpc[w] = "txn"
        \/ wpc[w] = "send" /\ Len(doneCh) < MaxInflight

\* Reader, workers and committer never wait for one another all at once while
\* there is lag, however small the two channels: the pipeline cannot come to rest
\* on a message it has dropped or forgotten to commit.
PipelineMoves == ~cancelled /\ committed < Size => Moves

\* The lag goes to zero and stays there: the group's offset reaches the end of
\* the log, whatever failed on the way.
LagDrains == <>[](committed = Size)

\* Every event is in the inbox in the end.
EverythingProcessed == \A o \in Offsets : <>Finished(o)
=============================================================================
