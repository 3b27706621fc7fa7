---------------------------- MODULE ConsumerProofs ----------------------------
(***************************************************************************)
(* What is proved of Consumer for any log, workers, channels and batches:  *)
(* its types; that from the first finished message on the watermark passes *)
(* nothing unfinished; that without a rebalance it waits for nothing that  *)
(* will not come, the pipeline comes to rest only at the end of the log    *)
(* and the group's offset never goes back; and that one worker without a   *)
(* shutdown commits nothing that is not in the inbox.                      *)
(***************************************************************************)
EXTENDS Consumer, FiniteSetTheorems, WellFoundedInduction, TLAPS

\* What the places of the workers and of the watermark say of one another.
Shapes ==
    /\ batch \in [Workers -> Seq(Offsets)] /\ sent \in [Workers -> Nat]
    /\ \A w \in Workers : wpc[w] = "collect" => sent[w] = 0
    /\ \A w \in Workers : wpc[w] \in {"txn", "send"} => sent[w] < Len(batch[w])
    /\ base \in 0 .. Size
    /\ next = 0 => base = Size /\ done = {}
    /\ next # 0 => base < next

Types == TypeOK /\ Shapes

\* Whatever a worker has reported is in the inbox, or cannot be.
Reported ==
    ~cancelled =>
        /\ \A o \in Elements(doneCh) \cup done : Finished(o)
        /\ \A w \in Workers : wpc[w] = "send" =>
              \A i \in 1 .. Len(batch[w]) : Finished(batch[w][i])
        /\ WatermarkIsContiguous

\* What a worker has in hand and has not reported.
Waiting(w) == {batch[w][i] : i \in (sent[w] + 1) .. Len(batch[w])}
Held == Elements(workCh) \cup Elements(doneCh) \cup UNION {Waiting(w) : w \in Workers}

\* Without a rebalance what the process holds has no gaps.
Gapless ==
    /\ rebalances = 0
    /\ ~cancelled =>
        /\ base = Size => \A o \in Held : \A p \in o .. (fetchPos - 1) : p \in Held
        /\ \A p \in base .. (fetchPos - 1) : p \in Held \cup done \/ p < next

\* The next message that worker w reports.
Front(w) ==
    IF doneCh # <<>> THEN Head(doneCh) ELSE
    IF batch[w] # <<>> THEN batch[w][sent[w] + 1] ELSE
    IF workCh # <<>> THEN Head(workCh) ELSE fetchPos

\* One worker begins where the committed offset stands, and skips nothing.
InOrder(w) ==
    /\ shutdowns = 0 /\ ~cancelled
    /\ CommittedIsProcessed
    /\ \A o \in Offsets : o < (IF base = Size THEN Front(w) ELSE base) => Finished(o)

-----------------------------------------------------------------------------
LEMMA LeastExists ==
    ASSUME NEW S \in SUBSET Nat, S # {} PROVE \E i \in S : \A j \in S : i <= j
<1>1. \E i \in S : \A j \in S : ~(<<j, i>> \in OpToRel(<, Nat))
  <2> HIDE DEF OpToRel
  <2> QED BY NatLessThanWellFounded, WFMin
<1>2. \A i, j \in S : ~(<<j, i>> \in OpToRel(<, Nat)) => i <= j
  BY DEF OpToRel
<1> QED BY <1>1, <1>2

LEMMA SizeType == Size \in Nat \ {0} /\ Offsets = 0 .. (Size - 1)
BY LogAssumption

\* CommitMessages commits one past a message it was given, and past all of them.
LEMMA HighestExists ==
    ASSUME NEW S \in SUBSET Offsets, S # {}
    PROVE  Highest(S) \in S /\ \A p \in S : p <= Highest(S)
<1>1. S \subseteq 0 .. (Size - 1) /\ Size \in Nat
  BY SizeType
<1> DEFINE Above == {n \in Nat : \A p \in S : p <= n}
<1>2. Size \in Above
  BY <1>1
<1>3. PICK n \in Above : \A m \in Above : n <= m
  <2>1. Above \in SUBSET Nat /\ Above # {}
    BY <1>2
  <2> HIDE DEF Above
  <2> QED BY <2>1, LeastExists
<1>4. n \in S
  <2>1. SUFFICES ASSUME n \notin S PROVE FALSE
    OBVIOUS
  <2>2. \A p \in S : p < n
    BY <1>1, <2>1
  <2>3. PICK q \in S : TRUE
    OBVIOUS
  <2>4. n \in Nat /\ q \in Nat /\ q < n
    BY <1>1, <2>2, <2>3
  <2>5. n - 1 \in Nat /\ \A p \in S : p <= n - 1
    BY <1>1, <2>2, <2>4
  <2>6. n - 1 \in Above
    BY <2>5
  <2> QED BY <1>3, <2>4, <2>6
<1>5. \E o \in S : \A p \in S : p <= o
  BY <1>4
<1> QED BY <1>5 DEF Highest

\* The run of finished messages is an interval that ends before the first
\* message that is not finished.
LEMMA RunIsInterval ==
    ASSUME NEW D \in SUBSET Offsets, NEW n \in Nat, \A i \in D : n <= i
    PROVE  \E m \in Nat : /\ n <= m /\ m \notin D
                          /\ RunFrom(n, D) = n .. (m - 1)
                          /\ Cardinality(RunFrom(n, D)) = m - n
<1>1. D \subseteq 0 .. (Size - 1) /\ Size \in Nat
  BY SizeType
<1> DEFINE Out == {m \in Nat : n <= m /\ m \notin D}
<1>2. n + Size \in Out
  BY <1>1
<1>3. PICK m \in Out : \A l \in Out : m <= l
  <2>1. Out \in SUBSET Nat /\ Out # {}
    BY <1>2
  <2> HIDE DEF Out
  <2> QED BY <2>1, LeastExists
<1>4. m \in Nat /\ n <= m /\ m \notin D
  OBVIOUS
<1>5. \A j \in n .. (m - 1) : j \in D
  BY <1>3, <1>4
<1>6. RunFrom(n, D) = n .. (m - 1)
  <2>1. ASSUME NEW i \in RunFrom(n, D) PROVE i \in n .. (m - 1)
    <3>1. i \in D /\ i \in Nat /\ n <= i /\ \A j \in n .. i : j \in D
      BY <1>1 DEF RunFrom
    <3> QED BY <1>4, <3>1
  <2>2. ASSUME NEW i \in n .. (m - 1) PROVE i \in RunFrom(n, D)
    <3>1. i \in D /\ \A j \in n .. i : j \in n .. (m - 1)
      BY <1>4, <1>5
    <3> QED BY <1>5, <3>1 DEF RunFrom
  <2> QED BY <2>1, <2>2
<1>7. Cardinality(n .. (m - 1)) = m - n
  <2>1. Cardinality(n .. (m - 1)) = IF n > m - 1 THEN 0 ELSE (m - 1) - n + 1
    BY <1>4, FS_Interval
  <2> QED BY <1>4, <2>1
<1> QED BY <1>4, <1>6, <1>7

-----------------------------------------------------------------------------
LEMMA ElementsOfAppend ==
    ASSUME NEW S, NEW q \in Seq(S), NEW x \in S
    PROVE  /\ Append(q, x) \in Seq(S) /\ Len(Append(q, x)) = Len(q) + 1
           /\ Elements(Append(q, x)) = Elements(q) \cup {x}
<1> DEFINE r == Append(q, x)
<1>1. /\ r \in Seq(S) /\ Len(r) = Len(q) + 1 /\ Len(q) \in Nat
      /\ DOMAIN r = 1 .. Len(r) /\ DOMAIN q = 1 .. Len(q)
      /\ \A i \in 1 .. Len(q) : r[i] = q[i]
      /\ r[Len(q) + 1] = x
  OBVIOUS
<1> HIDE DEF r
<1>2. Elements(r) = Elements(q) \cup {x}
  BY <1>1 DEF Elements
<1> QED BY <1>1, <1>2 DEF r

LEMMA ElementsOfTail ==
    ASSUME NEW S, NEW q \in Seq(S), q # <<>>
    PROVE  /\ Head(q) \in S /\ Tail(q) \in Seq(S) /\ Len(Tail(q)) = Len(q) - 1
           /\ Elements(q) = {Head(q)} \cup Elements(Tail(q))
<1> DEFINE r == Tail(q)
<1>1. /\ Len(q) \in Nat \ {0} /\ r \in Seq(S) /\ Len(r) = Len(q) - 1
      /\ DOMAIN r = 1 .. Len(r) /\ DOMAIN q = 1 .. Len(q)
      /\ \A i \in 1 .. Len(r) : r[i] = q[i + 1]
      /\ Head(q) = q[1] /\ q[1] \in S
  OBVIOUS
<1> HIDE DEF r
<1>2. \A i \in 1 .. Len(q) : i = 1 \/ (i - 1 \in 1 .. Len(r) /\ q[i] = r[i - 1])
  BY <1>1
<1>3. \A i \in 1 .. Len(r) : i + 1 \in 1 .. Len(q) /\ q[i + 1] = r[i]
  BY <1>1
<1>4. 1 \in 1 .. Len(q)
  BY <1>1
<1>5. Elements(q) = {q[i] : i \in 1 .. Len(q)} /\ Elements(r) = {r[i] : i \in 1 .. Len(r)}
  BY <1>1 DEF Elements
<1>6. Elements(q) = {q[1]} \cup Elements(r)
  <2>1. ASSUME NEW x \in Elements(q) PROVE x \in {q[1]} \cup Elements(r)
    <3>1. PICK i \in 1 .. Len(q) : x = q[i]
      BY <1>5, <2>1
    <3> QED BY <1>2, <1>5, <3>1
  <2>2. ASSUME NEW x \in {q[1]} \cup Elements(r) PROVE x \in Elements(q)
    BY <1>3, <1>4, <1>5, <2>2
  <2> QED BY <2>1, <2>2
<1> QED BY <1>1, <1>6 DEF r

LEMMA ElementsType ==
    ASSUME NEW S, NEW q \in Seq(S)
    PROVE  Elements(q) \subseteq S /\ (q = <<>> => Elements(q) = {})
BY DEF Elements

\* markDone: a message below the watermark changes nothing; any other joins the
\* finished ones, and the watermark moves up to the first that is missing.
LEMMA AdvanceIsRun ==
    ASSUME Types, NEW o \in Offsets, Advance(o)
    PROVE  \/ o < next /\ UNCHANGED <<next, done, toCommit>>
           \/ /\ Watermark(o) <= o /\ Watermark(o) <= next'
              /\ next' \in 1 .. Size /\ (next = 0 => o < next')
              /\ next' \notin done \cup {o}
              /\ \A i \in Watermark(o) .. (next' - 1) : i \in done \cup {o}
              /\ done' = (done \cup {o}) \ (Watermark(o) .. (next' - 1))
              /\ toCommit' = toCommit \cup (Watermark(o) .. (next' - 1))
<1> DEFINE n == Watermark(o)
           D == done \cup {o}
<1>1. /\ Size \in Nat \ {0} /\ Offsets = 0 .. (Size - 1) /\ next \in 0 .. Size
      /\ done \subseteq Offsets /\ (\A i \in done : i > next)
      /\ n = (IF next = 0 THEN o ELSE next) /\ (next = 0 => done = {})
  BY SizeType DEF Types, TypeOK, Shapes, Watermark
<1>2. CASE o < n
  BY <1>1, <1>2 DEF Advance
<1>3. CASE ~(o < n)
  <2>1. /\ next' = n + Cardinality(RunFrom(n, D))
        /\ done' = D \ RunFrom(n, D)
        /\ toCommit' = toCommit \cup RunFrom(n, D)
    BY <1>3 DEF Advance
  <2>2. n \in Nat /\ n <= o /\ n <= Size /\ D \in SUBSET Offsets /\ (\A i \in D : n <= i)
    BY <1>1, <1>3
  <2>3. PICK m \in Nat : /\ n <= m /\ m \notin D /\ RunFrom(n, D) = n .. (m - 1)
                         /\ Cardinality(RunFrom(n, D)) = m - n
    <3> HIDE DEF n, D
    <3> QED BY <2>2, RunIsInterval
  <2>4. next' = m
    <3> HIDE DEF n, D
    <3> QED BY <2>1, <2>2, <2>3
  <2>5. \A i \in n .. (m - 1) : i \in D
    BY <2>3 DEF RunFrom
  <2>6. next = 0 => o < m
    BY <1>1, <2>3
  <2>7. m <= Size /\ 1 <= m
    <3>1. m = n \/ m - 1 \in D
      BY <2>2, <2>3, <2>5
    <3> QED BY <1>1, <2>2, <2>6, <3>1
  <2> HIDE DEF n, D
  <2>8. /\ n <= o /\ n <= next' /\ next' \in 1 .. Size /\ (next = 0 => o < next')
        /\ next' \notin D /\ (\A i \in n .. (next' - 1) : i \in D)
        /\ done' = D \ (n .. (next' - 1)) /\ toCommit' = toCommit \cup (n .. (next' - 1))
    BY <2>1, <2>2, <2>3, <2>4, <2>5, <2>6, <2>7
  <2> QED BY <2>8 DEF n, D
<1> QED BY <1>2, <1>3
-----------------------------------------------------------------------------
\* Type correctness

LEMMA TypesInit == Init => Types
<1> SUFFICES ASSUME Init PROVE Types
  OBVIOUS
<1>1. \A w \in Workers : /\ wpc[w] = "collect" /\ sent[w] = 0
                         /\ batch[w] \in Seq(Offsets) /\ Len(batch[w]) = 0
  BY DEF Init
<1>2. workCh \in Seq(Offsets) /\ doneCh \in Seq(Offsets) /\ Len(workCh) = 0 /\ Len(doneCh) = 0
  BY DEF Init
<1>3. /\ wpc \in [Workers -> {"collect", "txn", "send", "exit"}]
      /\ batch \in [Workers -> Seq(Offsets)] /\ sent \in [Workers -> Nat]
  BY DEF Init
<1>4. TypeOK
  <2>1. \A w \in Workers : batch[w] \in Seq(Offsets) /\ sent[w] \in 0 .. Len(batch[w])
    BY <1>1
  <2>2. Len(workCh) <= MaxInflight /\ Len(doneCh) <= MaxInflight
    BY <1>2, SizesAssumption
  <2>3. /\ committed = 0 /\ inbox = {} /\ fetchPos = 0 /\ next = 0
        /\ done = {} /\ toCommit = {}
    BY DEF Init
  <2>4. cancelled \in BOOLEAN
    BY DEF Init
  <2>5. 0 \in 0 .. Size
    BY SizeType
  <2> QED BY <1>2, <1>3, <2>1, <2>2, <2>3, <2>4, <2>5 DEF TypeOK
<1> QED BY <1>1, <1>3, <1>4, SizeType DEF Init, Types, Shapes

LEMMA FreshTypes == ASSUME Types, FreshProcess, UNCHANGED <<committed, inbox>> PROVE Types'
<1>1. \A w \in Workers : /\ wpc'[w] = "collect" /\ sent'[w] = 0
                         /\ batch'[w] \in Seq(Offsets) /\ Len(batch'[w]) = 0
  BY DEF FreshProcess
<1>2. /\ workCh' \in Seq(Offsets) /\ doneCh' \in Seq(Offsets)
      /\ Len(workCh') = 0 /\ Len(doneCh') = 0
  BY DEF FreshProcess
<1>3. /\ wpc' \in [Workers -> {"collect", "txn", "send", "exit"}]
      /\ batch' \in [Workers -> Seq(Offsets)] /\ sent' \in [Workers -> Nat]
  BY DEF FreshProcess
<1>4. TypeOK'
  <2>1. \A w \in Workers : batch'[w] \in Seq(Offsets) /\ sent'[w] \in 0 .. Len(batch'[w])
    BY <1>1
  <2>2. Len(workCh') <= MaxInflight /\ Len(doneCh') <= MaxInflight
    BY <1>2, SizesAssumption
  <2>3. /\ committed' \in 0 .. Size /\ fetchPos' \in 0 .. Size /\ inbox' \subseteq Events
        /\ next' = 0 /\ done' = {} /\ toCommit' = {}
    BY DEF FreshProcess, Types, TypeOK
  <2>4. cancelled' \in BOOLEAN
    BY DEF FreshProcess
  <2>5. 0 \in 0 .. Size
    BY SizeType
  <2> QED BY <1>2, <1>3, <2>1, <2>2, <2>3, <2>4, <2>5 DEF TypeOK
<1> QED BY <1>1, <1>3, <1>4, SizeType DEF FreshProcess, Types, Shapes

LEMMA FetchTypes == ASSUME Types, Fetch PROVE Types'
<1>1. fetchPos \in Offsets /\ workCh \in Seq(Offsets)
  BY SizeType DEF Types, TypeOK, Fetch
<1>2. workCh' \in Seq(Offsets) /\ Len(workCh') <= MaxInflight
  BY <1>1, ElementsOfAppend, SizesAssumption DEF Types, TypeOK, Fetch
<1>3. fetchPos' \in 0 .. Size
  BY SizeType DEF Types, TypeOK, Fetch
<1> QED BY <1>2, <1>3 DEF Types, TypeOK, Shapes, Fetch, marks, bounds

LEMMA TakeTypes == ASSUME Types, NEW w \in Workers, Take(w) PROVE Types'
<1>1. Head(workCh) \in Offsets /\ Tail(workCh) \in Seq(Offsets)
      /\ Len(Tail(workCh)) = Len(workCh) - 1
  BY ElementsOfTail DEF Types, TypeOK, Take
<1>2. batch[w] \in Seq(Offsets) /\ Len(batch[w]) \in Nat /\ sent[w] = 0
  BY DEF Types, TypeOK, Shapes, Take
<1>3. /\ Append(batch[w], Head(workCh)) \in Seq(Offsets)
      /\ Len(Append(batch[w], Head(workCh))) = Len(batch[w]) + 1
  BY <1>1, <1>2, ElementsOfAppend
<1>4. /\ batch' \in [Workers -> Seq(Offsets)] /\ Len(batch'[w]) = Len(batch[w]) + 1
      /\ \A v \in Workers : v # w => batch'[v] = batch[v]
  BY <1>3 DEF Types, Shapes, Take
<1>5. /\ wpc' \in [Workers -> {"collect", "txn", "send", "exit"}]
      /\ \A v \in Workers : v # w => wpc'[v] = wpc[v]
  BY DEF Types, TypeOK, Take
<1>6. workCh' \in Seq(Offsets) /\ Len(workCh') <= MaxInflight
  BY <1>1, SizesAssumption DEF Types, TypeOK, Take
<1>7. \A v \in Workers : batch'[v] \in Seq(Offsets) /\ sent'[v] \in 0 .. Len(batch'[v])
  BY <1>2, <1>4 DEF Types, TypeOK, Take
<1>8. TypeOK'
  BY <1>5, <1>6, <1>7 DEF Types, TypeOK, Take, marks
<1>9. \A v \in Workers : wpc'[v] = "collect" => sent'[v] = 0
  BY <1>2, <1>5 DEF Types, Shapes, Take
<1>10. \A v \in Workers : wpc'[v] \in {"txn", "send"} => sent'[v] < Len(batch'[v])
  BY <1>2, <1>4, <1>5 DEF Types, Shapes, Take
<1> QED BY <1>4, <1>8, <1>9, <1>10 DEF Types, Shapes, Take, marks

\* The steps of a worker that change nothing but where it is.
LEMMA MoveTypes ==
    ASSUME Types, NEW w \in Workers, NEW place \in {"collect", "txn", "send", "exit"},
           wpc' = [wpc EXCEPT ![w] = place],
           inbox' \subseteq Events,
           sent' = sent \/ (sent' = [sent EXCEPT ![w] = 0] /\ batch[w] # <<>>)
                        \/ (sent' = [sent EXCEPT ![w] = 0] /\ place = "exit"),
           place = "collect" => sent'[w] = 0,
           place \in {"txn", "send"} => sent' = sent /\ sent[w] < Len(batch[w]),
           UNCHANGED <<committed, cancelled, fetchPos, workCh, batch, doneCh, marks>>
    PROVE  Types'
<1>1. /\ wpc' \in [Workers -> {"collect", "txn", "send", "exit"}] /\ wpc'[w] = place
      /\ \A v \in Workers : v # w => wpc'[v] = wpc[v]
  BY DEF Types, TypeOK
<1>2. /\ sent' \in [Workers -> Nat] /\ sent'[w] \in {sent[w], 0}
      /\ \A v \in Workers : v # w => sent'[v] = sent[v]
  BY DEF Types, Shapes
<1>3. \A v \in Workers : batch'[v] \in Seq(Offsets) /\ sent'[v] \in 0 .. Len(batch'[v])
  <2>1. SUFFICES ASSUME NEW v \in Workers
                 PROVE  batch'[v] \in Seq(Offsets) /\ sent'[v] \in 0 .. Len(batch'[v])
    OBVIOUS
  <2>2. batch[v] \in Seq(Offsets) /\ sent[v] \in 0 .. Len(batch[v]) /\ Len(batch[v]) \in Nat
    BY DEF Types, TypeOK
  <2>3. batch'[v] = batch[v] /\ sent'[v] \in {sent[v], 0}
    BY <1>2
  <2> QED BY <2>2, <2>3
<1>4. TypeOK'
  BY <1>1, <1>3 DEF Types, TypeOK, marks
<1>5. \A v \in Workers : wpc'[v] = "collect" => sent'[v] = 0
  BY <1>1, <1>2 DEF Types, Shapes
<1>6. \A v \in Workers : wpc'[v] \in {"txn", "send"} => sent'[v] < Len(batch'[v])
  BY <1>1, <1>2 DEF Types, Shapes
<1> QED BY <1>2, <1>4, <1>5, <1>6 DEF Types, Shapes, marks

LEMMA TimerFlushTypes == ASSUME Types, NEW w \in Workers, TimerFlush(w) PROVE Types'
<1>1. sent[w] = 0 /\ 0 < Len(batch[w])
  BY DEF Types, TypeOK, Shapes, TimerFlush
<1> QED BY <1>1, MoveTypes DEF TimerFlush, Types, TypeOK

LEMMA ProcessTypes == ASSUME Types, NEW w \in Workers, Process(w) PROVE Types'
<1>1. sent[w] < Len(batch[w])
  BY DEF Types, Shapes, Process
<1>2. EventsOf(batch[w]) \subseteq Events
  BY ElementsType, LogAssumption DEF Types, TypeOK, EventsOf
<1>3. inbox' \subseteq Events
  BY <1>2 DEF Types, TypeOK, Process
<1> QED BY <1>1, <1>3, MoveTypes DEF Process

LEMMA AbandonTypes == ASSUME Types, NEW w \in Workers, Abandon(w) PROVE Types'
<1>1. sent[w] < Len(batch[w])
  BY DEF Types, Shapes, Abandon
<1> QED BY <1>1, MoveTypes DEF Abandon, Types, TypeOK

LEMMA WorkerStopsTypes == ASSUME Types, NEW w \in Workers, WorkerStops(w) PROVE Types'
<1>1. sent'[w] = 0
  BY DEF Types, Shapes, WorkerStops
<1>2. CASE wpc[w] = "collect" /\ wpc' = [wpc EXCEPT ![w] = "exit"]
  BY <1>1, <1>2, MoveTypes DEF WorkerStops, Types, TypeOK
<1>3. CASE wpc[w] = "send" /\ wpc' = [wpc EXCEPT ![w] = "collect"]
  <2>1. batch[w] # <<>>
    BY <1>3 DEF Types, TypeOK, Shapes
  <2> QED BY <1>1, <1>3, <2>1, MoveTypes DEF WorkerStops, Types, TypeOK
<1> QED BY <1>2, <1>3 DEF WorkerStops

\* What a worker reports, and how.
LEMMA SendReports ==
    ASSUME Types, NEW w \in Workers, Send(w)
    PROVE  /\ sent[w] + 1 \in 1 .. Len(batch[w]) /\ batch[w][sent[w] + 1] \in Offsets
           /\ doneCh' \in Seq(Offsets) /\ Len(doneCh') = Len(doneCh) + 1
           /\ Elements(doneCh') = Elements(doneCh) \cup {batch[w][sent[w] + 1]}
<1>1. /\ batch[w] \in Seq(Offsets) /\ sent[w] \in Nat /\ sent[w] < Len(batch[w])
      /\ Len(batch[w]) \in Nat /\ doneCh \in Seq(Offsets)
  BY DEF Types, TypeOK, Shapes, Send
<1>2. sent[w] + 1 \in 1 .. Len(batch[w]) /\ batch[w][sent[w] + 1] \in Offsets
  BY <1>1
<1>3. doneCh' = Append(doneCh, batch[w][sent[w] + 1])
  BY DEF Send
<1> QED BY <1>1, <1>2, <1>3, ElementsOfAppend

LEMMA SendTypes == ASSUME Types, NEW w \in Workers, Send(w) PROVE Types'
<1>1. doneCh' \in Seq(Offsets) /\ Len(doneCh') <= MaxInflight
  <2>1. Len(doneCh) \in Nat /\ Len(doneCh) < MaxInflight /\ MaxInflight \in Nat
    BY SizesAssumption DEF Types, TypeOK, Send
  <2>2. doneCh' \in Seq(Offsets) /\ Len(doneCh') = Len(doneCh) + 1
    BY SendReports
  <2> QED BY <2>1, <2>2
<1>2. /\ batch[w] \in Seq(Offsets) /\ sent[w] \in Nat /\ sent[w] < Len(batch[w])
      /\ Len(batch[w]) \in Nat
  BY DEF Types, TypeOK, Shapes, Send
<1>3. \/ /\ sent' = [sent EXCEPT ![w] = 0] /\ batch' = [batch EXCEPT ![w] = <<>>]
         /\ wpc' = [wpc EXCEPT ![w] = "collect"]
      \/ /\ sent' = [sent EXCEPT ![w] = @ + 1] /\ sent[w] + 1 # Len(batch[w])
         /\ batch' = batch /\ wpc' = wpc
  BY DEF Send
<1>f. /\ wpc \in [Workers -> {"collect", "txn", "send", "exit"}] /\ wpc[w] = "send"
      /\ batch \in [Workers -> Seq(Offsets)] /\ sent \in [Workers -> Nat]
  BY DEF Types, TypeOK, Shapes, Send
<1>g. /\ \A v \in Workers : v # w => batch'[v] = batch[v] /\ sent'[v] = sent[v]
                                      /\ wpc'[v] = wpc[v]
      /\ wpc' \in [Workers -> {"collect", "txn", "send", "exit"}]
      /\ batch' \in [Workers -> Seq(Offsets)] /\ sent' \in [Workers -> Nat]
  <2>1. <<>> \in Seq(Offsets) /\ sent[w] + 1 \in Nat
    BY <1>2
  <2>2. CASE /\ sent' = [sent EXCEPT ![w] = 0] /\ batch' = [batch EXCEPT ![w] = <<>>]
             /\ wpc' = [wpc EXCEPT ![w] = "collect"]
    BY <1>f, <2>1, <2>2
  <2>3. CASE /\ sent' = [sent EXCEPT ![w] = @ + 1] /\ batch' = batch /\ wpc' = wpc
    BY <1>f, <2>1, <2>3
  <2> QED BY <1>3, <2>2, <2>3
<1>4. \/ sent'[w] = 0 /\ batch'[w] = <<>> /\ wpc'[w] = "collect"
      \/ /\ sent'[w] = sent[w] + 1 /\ sent[w] + 1 # Len(batch[w])
         /\ batch'[w] = batch[w] /\ wpc'[w] = "send"
  BY <1>3, <1>f
<1>5. \A v \in Workers : batch'[v] \in Seq(Offsets) /\ sent'[v] \in 0 .. Len(batch'[v])
  <2>1. ASSUME NEW v \in Workers, v # w PROVE sent'[v] \in 0 .. Len(batch'[v])
    BY <1>g, <2>1 DEF Types, TypeOK
  <2>2. sent'[w] \in 0 .. Len(batch'[w])
    BY <1>2, <1>4
  <2> QED BY <1>g, <2>1, <2>2
<1>6. TypeOK'
  BY <1>1, <1>g, <1>5 DEF Types, TypeOK, Send, marks
<1>7. \A v \in Workers : wpc'[v] = "collect" => sent'[v] = 0
  BY <1>2, <1>g, <1>4 DEF Types, Shapes
<1>8. \A v \in Workers : wpc'[v] \in {"txn", "send"} => sent'[v] < Len(batch'[v])
  <2>1. ASSUME NEW v \in Workers, v # w, wpc'[v] \in {"txn", "send"}
        PROVE  sent'[v] < Len(batch'[v])
    BY <1>g, <2>1 DEF Types, Shapes
  <2>2. wpc'[w] \in {"txn", "send"} => sent'[w] < Len(batch'[w])
    BY <1>2, <1>4
  <2> QED BY <2>1, <2>2
<1> QED BY <1>g, <1>6, <1>7, <1>8 DEF Types, Shapes, Send, marks

LEMMA MarkDoneTypes == ASSUME Types, MarkDone PROVE Types'
<1> DEFINE o == Head(doneCh)
<1>1. o \in Offsets /\ Tail(doneCh) \in Seq(Offsets) /\ Len(Tail(doneCh)) = Len(doneCh) - 1
  BY ElementsOfTail DEF Types, TypeOK, MarkDone
<1>2. doneCh' \in Seq(Offsets) /\ Len(doneCh') <= MaxInflight
  BY <1>1, SizesAssumption DEF Types, TypeOK, MarkDone
<1>3. \/ o < next /\ UNCHANGED <<next, done, toCommit>>
      \/ /\ Watermark(o) <= o /\ Watermark(o) <= next'
         /\ next' \in 1 .. Size /\ (next = 0 => o < next')
         /\ next' \notin done \cup {o}
         /\ \A i \in Watermark(o) .. (next' - 1) : i \in done \cup {o}
         /\ done' = (done \cup {o}) \ (Watermark(o) .. (next' - 1))
         /\ toCommit' = toCommit \cup (Watermark(o) .. (next' - 1))
  <2> HIDE DEF o
  <2> QED BY <1>1, AdvanceIsRun DEF MarkDone, o
<1>4. /\ Size \in Nat \ {0} /\ Offsets = 0 .. (Size - 1) /\ next \in 0 .. Size
      /\ done \subseteq Offsets /\ (\A i \in done : i > next)
      /\ toCommit \subseteq Offsets /\ (\A i \in toCommit : i < next)
      /\ Watermark(o) = (IF next = 0 THEN o ELSE next)
      /\ base \in 0 .. Size /\ (next = 0 => base = Size /\ done = {})
      /\ (next # 0 => base < next)
      /\ base' = (IF base = Size THEN o ELSE base)
  BY SizeType DEF Types, TypeOK, Shapes, Watermark, MarkDone
<1> HIDE DEF o
<1>5. /\ next' \in 0 .. Size /\ done' \subseteq Offsets /\ toCommit' \subseteq Offsets
      /\ base' \in 0 .. Size
  <2>1. CASE o < next /\ UNCHANGED <<next, done, toCommit>>
    BY <1>1, <1>4, <2>1
  <2>2. CASE ~(o < next /\ UNCHANGED <<next, done, toCommit>>)
    <3>1. /\ next' \in 0 .. Size /\ done' \subseteq done \cup {o}
          /\ toCommit' \subseteq toCommit \cup (done \cup {o})
      BY <1>3, <1>4, <2>2
    <3> QED BY <1>1, <1>4, <3>1
  <2> QED BY <2>1, <2>2
<1>6. (\A i \in done' : i > next') /\ (\A i \in toCommit' : i < next')
  <2>1. CASE o < next /\ UNCHANGED <<next, done, toCommit>>
    BY <1>4, <2>1
  <2>2. CASE ~(o < next /\ UNCHANGED <<next, done, toCommit>>)
    <3>1. \A i \in done \cup {o} : i \in Nat /\ Watermark(o) <= i
      BY <1>1, <1>3, <1>4, <2>2
    <3>w. Watermark(o) \in Nat /\ Watermark(o) <= next' /\ next' \in Nat /\ next <= next'
      BY <1>1, <1>3, <1>4, <2>2
    <3>2. ASSUME NEW i \in done' PROVE i > next'
      <4>1. i \in done \cup {o} /\ i \notin Watermark(o) .. (next' - 1) /\ i # next'
        BY <1>3, <2>2
      <4> QED BY <3>1, <3>w, <4>1
    <3>3. ASSUME NEW i \in toCommit' PROVE i < next'
      <4>1. i \in toCommit \/ i \in Watermark(o) .. (next' - 1)
        BY <1>3, <2>2
      <4>2. i \in toCommit => i \in Nat /\ i < next
        BY <1>4
      <4> QED BY <1>4, <3>w, <4>1, <4>2
    <3> QED BY <3>2, <3>3
  <2> QED BY <2>1, <2>2
<1>7. next' # 0 /\ base' < next'
  BY <1>1, <1>3, <1>4
<1> QED BY <1>2, <1>5, <1>6, <1>7 DEF Types, TypeOK, Shapes, MarkDone, queues

LEMMA FlushTypes == ASSUME Types, Flush PROVE Types'
<1>1. Highest(toCommit) \in Offsets
  BY HighestExists DEF Types, TypeOK, Flush
<1>2. committed' \in 0 .. Size
  BY <1>1, SizeType DEF Flush
<1>3. toCommit' \in {{}, toCommit}
  BY DEF Flush
<1> QED BY <1>2, <1>3 DEF Types, TypeOK, Shapes, Flush, queues

LEMMA RebalanceTypes == ASSUME Types, Rebalance PROVE Types'
<1>1. PICK to \in committed .. Size :
        /\ committed' = to
        /\ inbox' = inbox \cup ({log[o] : o \in committed .. (to - 1)} \ {Poison})
        /\ fetchPos' = to
  BY DEF Rebalance
<1>2. committed \in Nat /\ to \in 0 .. Size /\ committed .. (to - 1) \subseteq Offsets
  BY SizeType DEF Types, TypeOK
<1>3. inbox' \subseteq Events
  BY <1>1, <1>2, LogAssumption DEF Types, TypeOK
<1> QED BY <1>1, <1>2, <1>3 DEF Types, TypeOK, Shapes, Rebalance, queues, marks

LEMMA TypesNext == ASSUME Types, [Next]_vars PROVE Types'
<1>1. CASE UNCHANGED vars
  BY <1>1 DEF Types, TypeOK, Shapes, vars, queues, marks
<1>2. CASE Crash \/ Replaced
  BY <1>2, FreshTypes DEF Crash, Replaced
<1>3. CASE Cancel
  BY <1>3 DEF Cancel, Types, TypeOK, Shapes, queues, marks
<1>4. ASSUME NEW w \in Workers, Work(w) \/ Abandon(w) \/ WorkerStops(w) PROVE Types'
  BY <1>4, TakeTypes, TimerFlushTypes, ProcessTypes, SendTypes, AbandonTypes,
     WorkerStopsTypes DEF Work
<1> QED BY <1>1, <1>2, <1>3, <1>4, FetchTypes, MarkDoneTypes, FlushTypes, RebalanceTypes
        DEF Next

\* Every variable of the consumer keeps its type: channels within their capacity,
\* what is to be committed below the watermark, what waits above it.
THEOREM TypeCorrect == Spec => []TypeOK
<1>1. Spec => []Types
  BY TypesInit, TypesNext, PTL DEF Spec
<1>2. Types => TypeOK
  BY DEF Types
<1> QED BY <1>1, <1>2, PTL
-----------------------------------------------------------------------------
\* What is finished stays so

LEMMA BatchFinished ==
    ASSUME Types, NEW w \in Workers, Process(w), NEW i \in 1 .. Len(batch[w])
    PROVE  Finished(batch[w][i])'
<1>1. batch[w] \in Seq(Offsets) /\ batch[w][i] \in Elements(batch[w])
  BY DEF Types, TypeOK, Elements
<1>2. log[batch[w][i]] = Poison \/ log[batch[w][i]] \in EventsOf(batch[w])
  BY <1>1 DEF EventsOf
<1> QED BY <1>2 DEF Process, Finished

LEMMA InboxGrows ==
    ASSUME Types, [Next]_vars, NEW o \in Offsets, Finished(o) PROVE Finished(o)'
<1>1. inbox \subseteq inbox'
  <2>1. ASSUME NEW w \in Workers, Work(w) \/ Abandon(w) \/ WorkerStops(w)
        PROVE  inbox \subseteq inbox'
    BY <2>1 DEF Work, Take, TimerFlush, Process, Send, Abandon, WorkerStops
  <2> QED BY <2>1 DEF Next, vars, Fetch, MarkDone, Flush, Crash, Cancel, Replaced, Rebalance
<1> QED BY <1>1 DEF Finished

\* Where nothing is reported, taken from the committer or begun anew.
LEMMA ReportedKept ==
    ASSUME Types, Reported, [Next]_vars, UNCHANGED <<cancelled, doneCh, next, done, base>>,
           \A w \in Workers : wpc'[w] = "send" =>
              wpc[w] = "send" /\ batch'[w] = batch[w]
    PROVE  Reported'
<1>1. \A o \in Offsets : Finished(o) => Finished(o)'
  BY InboxGrows
<1>2. Elements(doneCh) \cup done \subseteq Offsets
  BY ElementsType DEF Types, TypeOK
<1>3. \A w \in Workers : \A i \in 1 .. Len(batch[w]) : batch[w][i] \in Offsets
  BY DEF Types, TypeOK
<1>4. ASSUME ~cancelled'
      PROVE  \A o \in Elements(doneCh') \cup done' : Finished(o)'
  BY <1>1, <1>2, <1>4 DEF Reported
<1>5. ASSUME ~cancelled', NEW w \in Workers, wpc'[w] = "send", NEW i \in 1 .. Len(batch'[w])
      PROVE  Finished(batch[w][i])'
  <2>1. batch'[w] = batch[w] /\ i \in 1 .. Len(batch[w]) /\ Finished(batch[w][i])
    BY <1>5 DEF Reported
  <2> QED BY <1>1, <1>3, <2>1 DEF Finished
<1>6. WatermarkIsContiguous'
  BY <1>1 DEF Reported, WatermarkIsContiguous
<1> QED BY <1>4, <1>5, <1>6 DEF Reported

LEMMA ProcessReported == ASSUME Types, Reported, NEW w \in Workers, Process(w) PROVE Reported'
<1>1. [Next]_vars
  BY DEF Next, Work
<1>2. \A o \in Offsets : Finished(o) => Finished(o)'
  BY <1>1, InboxGrows
<1>3. Elements(doneCh) \cup done \subseteq Offsets
  BY ElementsType DEF Types, TypeOK
<1>4. ASSUME ~cancelled' PROVE \A o \in Elements(doneCh') \cup done' : Finished(o)'
  BY <1>2, <1>3, <1>4 DEF Reported, Process, marks
<1>5. ASSUME ~cancelled', NEW v \in Workers, wpc'[v] = "send", NEW i \in 1 .. Len(batch'[v])
      PROVE  Finished(batch[v][i])'
  <2>1. batch' = batch
    BY DEF Process
  <2>2. CASE v = w
    BY <1>5, <2>1, <2>2, BatchFinished
  <2>3. CASE v # w
    <3>1. wpc[v] = "send" /\ ~cancelled
      BY <1>5, <2>3 DEF Process, Types, TypeOK
    <3>2. batch[v][i] \in Offsets /\ Finished(batch[v][i])
      BY <1>5, <2>1, <3>1 DEF Reported, Types, TypeOK
    <3> QED BY <1>2, <2>1, <3>2 DEF Finished
  <2> QED BY <2>2, <2>3
<1>6. WatermarkIsContiguous'
  BY <1>2 DEF Reported, WatermarkIsContiguous, Process, marks
<1> QED BY <1>4, <1>5, <1>6 DEF Reported

LEMMA SendReported == ASSUME Types, Reported, NEW w \in Workers, Send(w) PROVE Reported'
<1>1. UNCHANGED <<inbox, cancelled, next, done, base>>
  BY DEF Send, marks
<1>2. \A o \in Offsets : Finished(o)' = Finished(o)
  BY <1>1 DEF Finished
<1>3. /\ sent[w] + 1 \in 1 .. Len(batch[w]) /\ batch[w][sent[w] + 1] \in Offsets
      /\ Elements(doneCh') = Elements(doneCh) \cup {batch[w][sent[w] + 1]}
  BY SendReports
<1>4. Elements(doneCh) \cup done \subseteq Offsets
  BY ElementsType DEF Types, TypeOK
<1>5. ASSUME ~cancelled' PROVE \A o \in Elements(doneCh') \cup done' : Finished(o)'
  <2>1. Finished(batch[w][sent[w] + 1])
    BY <1>1, <1>3, <1>5 DEF Reported, Send
  <2> QED BY <1>1, <1>2, <1>3, <1>4, <1>5, <2>1 DEF Reported
<1>6. ASSUME ~cancelled', NEW v \in Workers, wpc'[v] = "send", NEW i \in 1 .. Len(batch'[v])
      PROVE  Finished(batch[v][i])'
  <2>1. wpc[v] = "send" /\ batch'[v] = batch[v]
    <3>1. \/ /\ batch' = [batch EXCEPT ![w] = <<>>]
             /\ wpc' = [wpc EXCEPT ![w] = "collect"]
          \/ batch' = batch /\ wpc' = wpc
      BY DEF Send
    <3> QED BY <1>6, <3>1 DEF Types, TypeOK, Shapes
  <2>2. batch[v][i] \in Offsets /\ Finished(batch[v][i])
    BY <1>1, <1>6, <2>1 DEF Reported, Types, TypeOK
  <2> QED BY <1>1, <2>1, <2>2 DEF Finished
<1>7. WatermarkIsContiguous'
  BY <1>1, <1>2 DEF Reported, WatermarkIsContiguous
<1> QED BY <1>5, <1>6, <1>7 DEF Reported

\* What the committer takes from the channel, and what becomes of it.
LEMMA MarkDoneTakes ==
    ASSUME Types, MarkDone, NEW o, o = Head(doneCh)
    PROVE  /\ o \in Offsets /\ Elements(doneCh) = {o} \cup Elements(doneCh')
           /\ base' = (IF base = Size THEN o ELSE base)
           /\ \/ o < next /\ UNCHANGED <<next, done, toCommit>>
              \/ /\ Watermark(o) <= o /\ Watermark(o) <= next'
                 /\ next' \in 1 .. Size /\ (next = 0 => o < next')
                 /\ next' \notin done \cup {o}
                 /\ \A i \in Watermark(o) .. (next' - 1) : i \in done \cup {o}
                 /\ done' = (done \cup {o}) \ (Watermark(o) .. (next' - 1))
                 /\ toCommit' = toCommit \cup (Watermark(o) .. (next' - 1))
<1>1. o \in Offsets /\ Elements(doneCh) = {o} \cup Elements(doneCh')
  BY ElementsOfTail DEF Types, TypeOK, MarkDone
<1>2. Advance(o)
  BY DEF MarkDone
<1> QED BY <1>1, <1>2, AdvanceIsRun DEF MarkDone

LEMMA MarkDoneReported == ASSUME Types, Reported, MarkDone PROVE Reported'
<1> DEFINE o == Head(doneCh)
<1>1. /\ o \in Offsets /\ Elements(doneCh) = {o} \cup Elements(doneCh')
      /\ base' = (IF base = Size THEN o ELSE base)
      /\ \/ o < next /\ UNCHANGED <<next, done, toCommit>>
         \/ /\ Watermark(o) <= o /\ Watermark(o) <= next'
            /\ next' \in 1 .. Size /\ (next = 0 => o < next')
            /\ next' \notin done \cup {o}
            /\ \A i \in Watermark(o) .. (next' - 1) : i \in done \cup {o}
            /\ done' = (done \cup {o}) \ (Watermark(o) .. (next' - 1))
            /\ toCommit' = toCommit \cup (Watermark(o) .. (next' - 1))
  BY MarkDoneTakes
<1> HIDE DEF o
<1>2. UNCHANGED <<inbox, cancelled, wpc, batch>>
  BY DEF MarkDone, queues
<1>3. \A p \in Offsets : Finished(p)' = Finished(p)
  BY <1>2 DEF Finished
<1>4. Elements(doneCh) \cup done \subseteq Offsets
  BY ElementsType DEF Types, TypeOK
<1>5. ASSUME ~cancelled' PROVE \A p \in Elements(doneCh') \cup done' : Finished(p)'
  BY <1>1, <1>2, <1>3, <1>4, <1>5 DEF Reported
<1>6. ASSUME ~cancelled', NEW v \in Workers, wpc'[v] = "send", NEW i \in 1 .. Len(batch'[v])
      PROVE  Finished(batch[v][i])'
  BY <1>2, <1>6 DEF Reported, Finished
<1>7. WatermarkIsContiguous'
  <2>1. SUFFICES ASSUME ~cancelled', NEW p \in Offsets, base' <= p, p < next' PROVE Finished(p)
    BY <1>3 DEF WatermarkIsContiguous
  <2>2. /\ p \in Nat /\ o \in Nat /\ next \in 0 .. Size /\ Size \in Nat /\ base \in 0 .. Size
        /\ (next = 0 => base = Size /\ done = {}) /\ (next # 0 => base < next)
        /\ Watermark(o) = (IF next = 0 THEN o ELSE next)
    BY <1>1, SizeType DEF Types, TypeOK, Shapes, Watermark
  <2>3. Finished(o) /\ \A i \in done : Finished(i)
    BY <1>1, <1>2, <2>1 DEF Reported
  <2>4. CASE base <= p /\ p < next
    BY <1>2, <2>1, <2>4 DEF Reported, WatermarkIsContiguous
  <2>5. CASE ~(base <= p /\ p < next)
    <3>1. p \in Watermark(o) .. (next' - 1)
      BY <1>1, <2>1, <2>2, <2>5
    <3> QED BY <1>1, <2>2, <2>3, <2>5, <3>1
  <2> QED BY <2>4, <2>5
<1> QED BY <1>5, <1>6, <1>7 DEF Reported

LEMMA FreshReported == ASSUME Types, FreshProcess PROVE Reported'
<1>1. Elements(doneCh') = {} /\ done' = {} /\ next' = 0 /\ base' = Size
  BY DEF FreshProcess, Elements
<1>2. \A w \in Workers : wpc'[w] # "send"
  BY DEF FreshProcess
<1>3. WatermarkIsContiguous'
  BY <1>1, SizeType DEF WatermarkIsContiguous
<1> QED BY <1>1, <1>2, <1>3 DEF Reported

LEMMA ReportedInit == Init => Reported
<1> SUFFICES ASSUME Init PROVE Reported
  OBVIOUS
<1>1. Elements(doneCh) = {} /\ done = {} /\ next = 0 /\ base = Size
  BY DEF Init, Elements
<1>2. \A w \in Workers : wpc[w] # "send"
  BY DEF Init
<1>3. WatermarkIsContiguous
  BY <1>1, SizeType DEF WatermarkIsContiguous
<1> QED BY <1>1, <1>2, <1>3 DEF Reported

LEMMA ReportedNext == ASSUME Types, Reported, [Next]_vars PROVE Reported'
<1>1. CASE Fetch \/ Flush \/ Rebalance \/ UNCHANGED vars
  BY <1>1, ReportedKept DEF Fetch, Flush, Rebalance, vars, queues, marks
<1>2. CASE Crash \/ Replaced
  BY <1>2, FreshReported DEF Crash, Replaced
<1>3. CASE Cancel
  BY <1>3 DEF Cancel, Reported
<1>4. ASSUME NEW w \in Workers, Abandon(w) \/ WorkerStops(w) PROVE Reported'
  BY <1>4 DEF Abandon, WorkerStops, Reported
<1>5. ASSUME NEW w \in Workers, Take(w) PROVE Reported'
  <2>1. \A v \in Workers : wpc'[v] = "send" => wpc[v] = "send" /\ batch'[v] = batch[v]
    BY <1>5 DEF Take, Types, TypeOK, Shapes
  <2> QED BY <1>5, <2>1, ReportedKept DEF Take, marks
<1>6. ASSUME NEW w \in Workers, TimerFlush(w) PROVE Reported'
  <2>1. \A v \in Workers : wpc'[v] = "send" => wpc[v] = "send" /\ batch'[v] = batch[v]
    BY <1>6 DEF TimerFlush, Types, TypeOK
  <2> QED BY <1>6, <2>1, ReportedKept DEF TimerFlush, marks
<1> QED BY <1>1, <1>2, <1>3, <1>4, <1>5, <1>6, ProcessReported, SendReported, MarkDoneReported
        DEF Next, Work

LEMMA SpecReported == Spec => [](Types /\ Reported)
<1>1. Init => Types /\ Reported
  BY TypesInit, ReportedInit
<1>2. Types /\ Reported /\ [Next]_vars => (Types /\ Reported)'
  BY TypesNext, ReportedNext
<1> QED BY <1>1, <1>2, PTL DEF Spec

\* "A watermark per partition, which never passes an unfinished message": with
\* any number of workers it holds from the first message on that a process has
\* finished.
THEOREM WatermarkSafe == Spec => []WatermarkIsContiguous
<1>1. Types /\ Reported => WatermarkIsContiguous
  BY DEF Reported, WatermarkIsContiguous
<1> QED BY <1>1, SpecReported, PTL
-----------------------------------------------------------------------------
\* Nothing is stranded

\* Where what the process holds moves between its queues only.
LEMMA GaplessKept ==
    ASSUME Gapless, Held' = Held, UNCHANGED <<cancelled, fetchPos, next, done, base, rebalances>>
    PROVE  Gapless'
BY DEF Gapless

LEMMA FetchGapless == ASSUME Types, Gapless, Fetch PROVE Gapless'
<1>1. fetchPos \in Offsets /\ workCh \in Seq(Offsets) /\ fetchPos \in Nat
  BY SizeType DEF Types, TypeOK, Fetch
<1>2. Elements(workCh') = Elements(workCh) \cup {fetchPos}
  BY <1>1, ElementsOfAppend DEF Fetch
<1>3. \A w \in Workers : Waiting(w)' = Waiting(w)
  BY DEF Waiting, Fetch
<1>4. Held' = Held \cup {fetchPos}
  BY <1>2, <1>3 DEF Held, Fetch
<1>5. Held \subseteq Nat /\ base \in Nat
  <2>1. Elements(workCh) \cup Elements(doneCh) \subseteq Nat
    BY SizeType, ElementsType DEF Types, TypeOK
  <2>2. \A w \in Workers : Waiting(w) \subseteq Nat
    <3>1. SUFFICES ASSUME NEW w \in Workers, NEW i \in (sent[w] + 1) .. Len(batch[w])
                   PROVE  batch[w][i] \in Nat
      BY DEF Waiting
    <3>2. batch[w] \in Seq(Offsets) /\ sent[w] \in Nat
      BY DEF Types, TypeOK, Shapes
    <3>3. batch[w][i] \in Offsets
      BY <3>2
    <3> QED BY <3>3, SizeType
  <2> QED BY <2>1, <2>2, SizeType DEF Held, Types, Shapes
<1>6. /\ fetchPos' = fetchPos + 1
      /\ UNCHANGED <<cancelled, next, done, base, rebalances>>
  BY DEF Fetch, marks, bounds
<1>7. ASSUME ~cancelled', base' = Size, NEW o \in Held', NEW p \in o .. (fetchPos' - 1)
      PROVE  p \in Held'
  <2>1. p = fetchPos \/ (o \in Held /\ p \in o .. (fetchPos - 1))
    BY <1>1, <1>4, <1>5, <1>6, <1>7
  <2> QED BY <1>4, <1>6, <1>7, <2>1 DEF Gapless
<1>8. ASSUME ~cancelled', NEW p \in base' .. (fetchPos' - 1)
      PROVE  p \in Held' \cup done' \/ p < next'
  <2>1. p = fetchPos \/ p \in base .. (fetchPos - 1)
    BY <1>1, <1>5, <1>6, <1>8
  <2> QED BY <1>4, <1>6, <1>8, <2>1 DEF Gapless
<1> QED BY <1>6, <1>7, <1>8 DEF Gapless

LEMMA TakeHolds == ASSUME Types, NEW w \in Workers, Take(w) PROVE Held' = Held
<1>1. Elements(workCh) = {Head(workCh)} \cup Elements(workCh') /\ Head(workCh) \in Offsets
  BY ElementsOfTail DEF Types, TypeOK, Take
<1>2. batch[w] \in Seq(Offsets) /\ sent[w] = 0 /\ batch \in [Workers -> Seq(Offsets)]
  BY DEF Types, TypeOK, Shapes, Take
<1>3. batch'[w] = Append(batch[w], Head(workCh)) /\ sent' = sent
  BY <1>2 DEF Take
<1>4. Waiting(w) = Elements(batch[w]) /\ Waiting(w)' = Elements(batch'[w])
  <2>1. DOMAIN batch[w] = 1 .. Len(batch[w])
    BY <1>2
  <2>2. batch'[w] \in Seq(Offsets)
    BY <1>1, <1>2, <1>3, ElementsOfAppend
  <2>3. DOMAIN batch'[w] = 1 .. Len(batch'[w])
    BY <2>2
  <2>4. sent[w] + 1 = 1 /\ sent'[w] + 1 = 1
    BY <1>2, <1>3
  <2> QED BY <2>1, <2>3, <2>4 DEF Waiting, Elements
<1>5. Waiting(w)' = Waiting(w) \cup {Head(workCh)}
  BY <1>1, <1>2, <1>3, <1>4, ElementsOfAppend
<1>6. \A v \in Workers : v # w => Waiting(v)' = Waiting(v)
  <2>1. \A v \in Workers : v # w => batch'[v] = batch[v] /\ sent'[v] = sent[v]
    BY <1>2 DEF Take
  <2> QED BY <2>1 DEF Waiting
<1>7. doneCh' = doneCh
  BY DEF Take
<1> QED BY <1>1, <1>5, <1>6, <1>7 DEF Held

LEMMA SendHolds == ASSUME Types, NEW w \in Workers, Send(w) PROVE Held' = Held
<1> DEFINE x == batch[w][sent[w] + 1]
<1>1. /\ sent[w] + 1 \in 1 .. Len(batch[w])
      /\ Elements(doneCh') = Elements(doneCh) \cup {x}
  BY SendReports
<1>2. /\ Len(batch[w]) \in Nat /\ sent[w] \in Nat
      /\ batch \in [Workers -> Seq(Offsets)] /\ sent \in [Workers -> Nat]
  BY DEF Types, TypeOK, Shapes
<1>3. \/ /\ sent' = [sent EXCEPT ![w] = 0] /\ batch' = [batch EXCEPT ![w] = <<>>]
         /\ sent[w] + 1 = Len(batch[w])
      \/ sent' = [sent EXCEPT ![w] = @ + 1] /\ batch' = batch
  BY DEF Send
<1>4. Waiting(w) = Waiting(w)' \cup {x}
  <2>1. CASE /\ sent' = [sent EXCEPT ![w] = 0] /\ batch' = [batch EXCEPT ![w] = <<>>]
             /\ sent[w] + 1 = Len(batch[w])
    <3>1. sent'[w] = 0 /\ Len(batch'[w]) = 0
      BY <1>2, <2>1
    <3>2. Waiting(w)' = {}
      BY <3>1 DEF Waiting
    <3>3. (sent[w] + 1) .. Len(batch[w]) = {sent[w] + 1}
      BY <1>2, <2>1
    <3>4. Waiting(w) = {x}
      BY <3>3 DEF Waiting
    <3> QED BY <3>2, <3>4
  <2>2. CASE sent' = [sent EXCEPT ![w] = @ + 1] /\ batch' = batch
    <3>1. sent'[w] = sent[w] + 1
      BY <1>2, <2>2
    <3>2. (sent[w] + 1) .. Len(batch[w])
          = {sent[w] + 1} \cup ((sent'[w] + 1) .. Len(batch'[w]))
      BY <1>1, <1>2, <2>2, <3>1
    <3> QED BY <2>2, <3>2 DEF Waiting
  <2> QED BY <1>3, <2>1, <2>2
<1>5. \A v \in Workers : v # w => Waiting(v)' = Waiting(v)
  <2>1. \A v \in Workers : v # w => batch'[v] = batch[v] /\ sent'[v] = sent[v]
    BY <1>2, <1>3
  <2> QED BY <2>1 DEF Waiting
<1>6. workCh' = workCh
  BY DEF Send
<1> HIDE DEF x
<1> QED BY <1>1, <1>4, <1>5, <1>6 DEF Held

LEMMA MarkDoneGapless == ASSUME Types, Gapless, MarkDone PROVE Gapless'
<1> DEFINE o == Head(doneCh)
<1>1. /\ o \in Offsets /\ Elements(doneCh) = {o} \cup Elements(doneCh')
      /\ base' = (IF base = Size THEN o ELSE base)
      /\ \/ o < next /\ UNCHANGED <<next, done, toCommit>>
         \/ /\ Watermark(o) <= o /\ Watermark(o) <= next'
            /\ next' \in 1 .. Size /\ (next = 0 => o < next')
            /\ next' \notin done \cup {o}
            /\ \A i \in Watermark(o) .. (next' - 1) : i \in done \cup {o}
            /\ done' = (done \cup {o}) \ (Watermark(o) .. (next' - 1))
            /\ toCommit' = toCommit \cup (Watermark(o) .. (next' - 1))
  BY MarkDoneTakes
<1> HIDE DEF o
<1>2. UNCHANGED <<cancelled, fetchPos, workCh, batch, sent, rebalances>>
  BY DEF MarkDone, queues, bounds
<1>3. Held = Held' \cup {o}
  <2>1. \A w \in Workers : Waiting(w)' = Waiting(w)
    BY <1>2 DEF Waiting
  <2> QED BY <1>1, <1>2, <2>1 DEF Held
<1>4. /\ o \in Nat /\ Size \in Nat /\ base \in 0 .. Size /\ fetchPos \in 0 .. Size
      /\ next \in 0 .. Size /\ done \subseteq Nat
      /\ Watermark(o) = (IF next = 0 THEN o ELSE next)
      /\ (next = 0 => base = Size) /\ (next # 0 => base < next)
  BY <1>1, SizeType DEF Types, TypeOK, Shapes, Watermark
<1>5. SUFFICES ASSUME ~cancelled', NEW p \in base' .. (fetchPos' - 1)
               PROVE  p \in Held' \cup done' \/ p < next'
  <2>1. base' # Size
    BY <1>1, <1>4, SizeType
  <2> QED BY <1>2, <1>5, <2>1 DEF Gapless
<1>6. p \in Nat /\ (p \in Held \cup done \/ p < next)
  <2>1. CASE base = Size
    BY <1>1, <1>2, <1>3, <1>4, <1>5, <2>1 DEF Gapless
  <2>2. CASE base # Size
    BY <1>1, <1>2, <1>4, <1>5, <2>2 DEF Gapless
  <2> QED BY <2>1, <2>2
<1>7. next <= next'
  BY <1>1, <1>4
<1>8. \A q \in done \cup {o} : q \in done' \/ q < next'
  BY <1>1, <1>4
<1>9. next' \in Nat
  BY <1>1, <1>4
<1> QED BY <1>3, <1>4, <1>6, <1>7, <1>8, <1>9

LEMMA EmptyInterval == \A a, b \in Int : a <= b => b .. (a - 1) = {}
OBVIOUS

LEMMA FreshGapless ==
    ASSUME Types, Gapless, FreshProcess, UNCHANGED <<committed, rebalances>> PROVE Gapless'
<1>1. \A w \in Workers : Waiting(w)' = {}
  <2>1. \A w \in Workers : Len(batch'[w]) = 0 /\ sent'[w] = 0
    BY DEF FreshProcess
  <2> QED BY <2>1 DEF Waiting
<1>2. Held' = {}
  BY <1>1 DEF Held, Elements, FreshProcess
<1>3. base' = Size /\ fetchPos' \in 0 .. Size /\ Size \in Nat
  BY SizeType DEF FreshProcess, Types, TypeOK
<1>4. Size \in Int /\ fetchPos' \in Int /\ fetchPos' <= Size
  BY <1>3
<1>5. base' .. (fetchPos' - 1) = {}
  BY <1>3, <1>4, EmptyInterval
<1> QED BY <1>2, <1>5 DEF Gapless

LEMMA GaplessInit == Init => Gapless
<1> SUFFICES ASSUME Init PROVE Gapless
  OBVIOUS
<1>1. \A w \in Workers : Waiting(w) = {}
  <2>1. \A w \in Workers : Len(batch[w]) = 0 /\ sent[w] = 0
    BY DEF Init
  <2> QED BY <2>1 DEF Waiting
<1>2. Held = {}
  BY <1>1 DEF Held, Elements, Init
<1>3. base = Size /\ fetchPos = 0 /\ Size \in Nat /\ rebalances = 0
  BY SizeType DEF Init
<1>4. base .. (fetchPos - 1) = {}
  BY <1>3
<1> QED BY <1>2, <1>3, <1>4 DEF Gapless

LEMMA GaplessNext ==
    ASSUME MaxRebalances = 0, Types, Gapless, [Next]_vars PROVE Gapless'
<1>1. CASE Flush \/ UNCHANGED vars
  <2>1. UNCHANGED <<workCh, doneCh, batch, sent>>
    BY <1>1 DEF Flush, vars, queues
  <2>2. Held' = Held
    BY <2>1 DEF Held, Waiting
  <2> QED BY <1>1, <2>2, GaplessKept DEF Flush, vars, marks, bounds
<1>2. CASE Crash \/ Replaced
  BY <1>2, FreshGapless DEF Crash, Replaced, bounds
<1>3. CASE Cancel
  BY <1>3 DEF Cancel, Gapless
<1>4. ASSUME NEW w \in Workers, Abandon(w) \/ WorkerStops(w) PROVE Gapless'
  BY <1>4 DEF Abandon, WorkerStops, Gapless, bounds
<1>5. ASSUME NEW w \in Workers, TimerFlush(w) \/ Process(w) PROVE Gapless'
  <2>1. UNCHANGED <<workCh, doneCh, batch, sent>>
    BY <1>5 DEF TimerFlush, Process
  <2>2. Held' = Held
    BY <2>1 DEF Held, Waiting
  <2> QED BY <1>5, <2>2, GaplessKept DEF TimerFlush, Process, marks, bounds
<1>6. ASSUME NEW w \in Workers, Take(w) PROVE Gapless'
  BY <1>6, TakeHolds, GaplessKept DEF Take, marks, bounds
<1>7. ASSUME NEW w \in Workers, Send(w) PROVE Gapless'
  BY <1>7, SendHolds, GaplessKept DEF Send, marks, bounds
<1>8. ~Rebalance
  BY DEF Rebalance, Gapless
<1> QED BY <1>1, <1>2, <1>3, <1>4, <1>5, <1>6, <1>7, <1>8, FetchGapless, MarkDoneGapless
        DEF Next, Work

\* The message that holds finished ones back is on its way.  Without a rebalance
\* the watermark waits for nothing that will not come, for any workers and log.
THEOREM NothingStrandedSafe ==
    ASSUME MaxRebalances = 0 PROVE Spec => []NothingStranded
<1>1. Init => Types /\ Gapless
  BY TypesInit, GaplessInit
<1>2. Types /\ Gapless /\ [Next]_vars => (Types /\ Gapless)'
  BY TypesNext, GaplessNext
<1>3. Types /\ Gapless => NothingStranded
  <2>1. SUFFICES ASSUME Types, Gapless, ~cancelled, done # {}, ~(next >= fetchPos)
                 PROVE  InProgress(next)
    BY DEF NothingStranded, InProgress
  <2>2. next # 0 /\ next \in Nat /\ base \in Nat /\ base < next /\ next \notin done
    <3>1. next \in Nat /\ next \notin done
      BY <2>1, SizeType DEF Types, TypeOK
    <3>2. base \in Nat /\ next # 0 /\ base < next
      BY <2>1, SizeType DEF Types, Shapes
    <3> QED BY <3>1, <3>2
  <2>3. fetchPos \in Nat
    BY <2>1, SizeType DEF Types, TypeOK
  <2>4. next \in base .. (fetchPos - 1)
    BY <2>1, <2>2, <2>3
  <2>5. next \in Held
    BY <2>1, <2>2, <2>4 DEF Gapless
  <2>6. \A w \in Workers : Waiting(w) \subseteq Elements(batch[w])
    <3>1. SUFFICES ASSUME NEW w \in Workers, NEW i \in (sent[w] + 1) .. Len(batch[w])
                   PROVE  batch[w][i] \in Elements(batch[w])
      BY DEF Waiting
    <3>2. batch[w] \in Seq(Offsets) /\ sent[w] \in Nat
      BY <2>1 DEF Types, TypeOK, Shapes
    <3>3. i \in DOMAIN batch[w]
      BY <3>2
    <3> QED BY <3>3 DEF Elements
  <2> QED BY <2>5, <2>6 DEF Held, InProgress
<1> QED BY <1>1, <1>2, <1>3, PTL DEF Spec
-----------------------------------------------------------------------------
\* The pipeline comes to rest only at the end of the log

\* Everything in the process, reported or not.
InHand == Elements(workCh) \cup Elements(doneCh) \cup UNION {Elements(batch[w]) : w \in Workers}

\* Kafka has what the watermark reached, or toCommit has the last message of it;
\* before the first message is finished, the process has all there is from the
\* committed offset on.
Marks ==
    /\ toCommit = {} /\ next # 0 => committed = next
    /\ toCommit # {} => next - 1 \in toCommit
    /\ next # 0 => committed <= next
    /\ next = 0 => fetchPos >= committed /\ \A o \in InHand : o >= committed

\* Until it is told to stop, no worker leaves.
Unread ==
    /\ rebalances = 0
    /\ ~cancelled =>
        /\ next = 0 => \A o \in committed .. (fetchPos - 1) : o \in Held
        /\ \A w \in Workers : wpc[w] # "exit"

LEMMA MarksKept ==
    ASSUME Marks, UNCHANGED <<committed, fetchPos, next, toCommit>>, InHand' \subseteq InHand
    PROVE  Marks'
BY DEF Marks

LEMMA FetchMarks == ASSUME Types, Marks, Fetch PROVE Marks'
<1>1. fetchPos \in Offsets /\ workCh \in Seq(Offsets) /\ fetchPos \in Nat /\ committed \in Nat
  BY SizeType DEF Types, TypeOK, Fetch
<1>2. Elements(workCh') = Elements(workCh) \cup {fetchPos}
  BY <1>1, ElementsOfAppend DEF Fetch
<1>3. UNCHANGED <<committed, next, toCommit, doneCh, batch>> /\ fetchPos' = fetchPos + 1
  BY DEF Fetch, marks
<1>4. InHand' = InHand \cup {fetchPos}
  BY <1>2, <1>3 DEF InHand
<1> QED BY <1>1, <1>3, <1>4 DEF Marks

LEMMA TakeMarks == ASSUME Types, Marks, NEW w \in Workers, Take(w) PROVE Marks'
<1>1. Elements(workCh) = {Head(workCh)} \cup Elements(workCh') /\ Head(workCh) \in Offsets
  BY ElementsOfTail DEF Types, TypeOK, Take
<1>2. batch[w] \in Seq(Offsets) /\ batch \in [Workers -> Seq(Offsets)]
  BY DEF Types, TypeOK, Shapes
<1>3. /\ batch'[w] = Append(batch[w], Head(workCh))
      /\ \A v \in Workers : v # w => batch'[v] = batch[v]
  BY <1>2 DEF Take
<1>4. Elements(batch'[w]) = Elements(batch[w]) \cup {Head(workCh)}
  BY <1>1, <1>2, <1>3, ElementsOfAppend
<1>5. UNCHANGED <<committed, fetchPos, next, toCommit, doneCh>>
  BY DEF Take, marks
<1>6. \A v \in Workers : Elements(batch'[v]) \subseteq Elements(batch[v]) \cup {Head(workCh)}
  BY <1>3, <1>4
<1>7. InHand' \subseteq InHand
  <2>1. Head(workCh) \in InHand
    BY <1>1 DEF InHand
  <2> QED BY <1>1, <1>5, <1>6, <2>1 DEF InHand
<1> QED BY <1>5, <1>7, MarksKept

LEMMA SendMarks == ASSUME Types, Marks, NEW w \in Workers, Send(w) PROVE Marks'
<1> DEFINE x == batch[w][sent[w] + 1]
<1>1. /\ sent[w] + 1 \in 1 .. Len(batch[w])
      /\ Elements(doneCh') = Elements(doneCh) \cup {x}
  BY SendReports
<1>2. batch[w] \in Seq(Offsets) /\ batch \in [Workers -> Seq(Offsets)]
  BY DEF Types, TypeOK, Shapes
<1>3. x \in Elements(batch[w])
  BY <1>1, <1>2 DEF Elements
<1>4. \A v \in Workers : Elements(batch'[v]) \subseteq Elements(batch[v])
  <2>1. \A v \in Workers : batch'[v] = batch[v] \/ batch'[v] = <<>>
    BY <1>2 DEF Send
  <2>2. Elements(<<>>) = {}
    BY DEF Elements
  <2> QED BY <2>1, <2>2
<1>5. UNCHANGED <<committed, fetchPos, next, toCommit, workCh>>
  BY DEF Send, marks
<1> HIDE DEF x
<1>6. InHand' \subseteq InHand
  BY <1>1, <1>3, <1>4, <1>5 DEF InHand
<1> QED BY <1>5, <1>6, MarksKept

LEMMA MarkDoneMarks == ASSUME Types, Marks, MarkDone PROVE Marks' /\ next' # 0
<1> DEFINE o == Head(doneCh)
<1>1. /\ o \in Offsets /\ Elements(doneCh) = {o} \cup Elements(doneCh')
      /\ base' = (IF base = Size THEN o ELSE base)
      /\ \/ o < next /\ UNCHANGED <<next, done, toCommit>>
         \/ /\ Watermark(o) <= o /\ Watermark(o) <= next'
            /\ next' \in 1 .. Size /\ (next = 0 => o < next')
            /\ next' \notin done \cup {o}
            /\ \A i \in Watermark(o) .. (next' - 1) : i \in done \cup {o}
            /\ done' = (done \cup {o}) \ (Watermark(o) .. (next' - 1))
            /\ toCommit' = toCommit \cup (Watermark(o) .. (next' - 1))
  BY MarkDoneTakes
<1>2. o \in InHand
  BY <1>1 DEF InHand
<1> HIDE DEF o
<1>3. UNCHANGED committed
  BY DEF MarkDone
<1>4. /\ o \in Nat /\ next \in Nat /\ committed \in Nat /\ toCommit \subseteq Nat
      /\ Watermark(o) = (IF next = 0 THEN o ELSE next)
      /\ (next = 0 => toCommit = {})
  BY <1>1, SizeType DEF Types, TypeOK, Watermark
<1>5. CASE o < next /\ UNCHANGED <<next, done, toCommit>>
  BY <1>3, <1>4, <1>5 DEF Marks
<1>6. CASE ~(o < next /\ UNCHANGED <<next, done, toCommit>>)
  <2>1. /\ Watermark(o) <= o /\ Watermark(o) <= next' /\ next' \in Nat /\ next' # 0
        /\ (next = 0 => o < next')
        /\ toCommit' = toCommit \cup (Watermark(o) .. (next' - 1))
    BY <1>1, <1>6
  <2>2. CASE next' = Watermark(o)
    <3>1. next' = next /\ next # 0 /\ toCommit' = toCommit
      BY <1>4, <2>1, <2>2
    <3> QED BY <1>3, <3>1 DEF Marks
  <2>3. CASE next' # Watermark(o)
    <3>1. next' - 1 \in toCommit'
      <4>1. Watermark(o) \in Nat
        BY <1>4
      <4>2. next' \in Nat /\ Watermark(o) <= next'
        BY <2>1
      <4>3. \A a, b \in Nat : a <= b /\ b # a => b - 1 \in a .. (b - 1)
        OBVIOUS
      <4>4. next' - 1 \in Watermark(o) .. (next' - 1)
        BY <2>3, <4>1, <4>2, <4>3
      <4> QED BY <2>1, <4>4
    <3>2. committed <= next'
      <4>1. CASE next = 0
        BY <1>2, <1>4, <2>1, <4>1 DEF Marks
      <4>2. CASE next # 0
        BY <1>4, <2>1, <4>2 DEF Marks
      <4> QED BY <4>1, <4>2
    <3> QED BY <1>3, <2>1, <3>1, <3>2 DEF Marks
  <2> QED BY <2>2, <2>3
<1> QED BY <1>5, <1>6

\* A commit brings the group's offset up to the watermark.
LEMMA FlushReaches ==
    ASSUME Types, Marks, Flush
    PROVE  next # 0 /\ committed' = next /\ next \in Nat /\ next' = next
<1>1. /\ toCommit \subseteq Offsets /\ toCommit # {} /\ next \in 0 .. Size
      /\ Offsets = 0 .. (Size - 1) /\ \A i \in toCommit : i < next
  BY SizeType DEF Types, TypeOK, Flush
<1>2. Highest(toCommit) \in toCommit /\ \A i \in toCommit : i <= Highest(toCommit)
  BY <1>1, HighestExists
<1>3. next - 1 \in toCommit
  BY <1>1 DEF Marks
<1>4. committed' = Highest(toCommit) + 1 /\ next' = next
  BY DEF Flush
<1> DEFINE h == Highest(toCommit)
<1> HIDE DEF h
<1>5. h \in Offsets /\ h < next /\ next - 1 <= h /\ committed' = h + 1
  BY <1>1, <1>2, <1>3, <1>4 DEF h
<1>6. h \in Nat /\ next \in Nat
  BY <1>1, <1>5, SizeType
<1> QED BY <1>4, <1>5, <1>6

LEMMA FlushMarks == ASSUME Types, Marks, Flush PROVE Marks'
<1>1. next # 0 /\ committed' = next /\ next \in Nat /\ next' = next
  BY FlushReaches
<1>2. toCommit' = {} \/ toCommit' = toCommit
  BY DEF Flush
<1>3. next - 1 \in toCommit
  BY DEF Marks, Flush
<1> QED BY <1>1, <1>2, <1>3 DEF Marks

LEMMA FreshMarks == ASSUME Types, FreshProcess, UNCHANGED committed PROVE Marks'
<1>1. InHand' = {}
  BY DEF FreshProcess, InHand, Elements
<1>2. next' = 0 /\ toCommit' = {} /\ fetchPos' = committed' /\ committed' \in Nat
  BY SizeType DEF FreshProcess, Types, TypeOK
<1> QED BY <1>1, <1>2 DEF Marks

LEMMA MarksInit == Init => Marks
<1> SUFFICES ASSUME Init PROVE Marks
  OBVIOUS
<1>1. InHand = {}
  BY DEF Init, InHand, Elements
<1>2. next = 0 /\ toCommit = {} /\ fetchPos = 0 /\ committed = 0
  BY DEF Init
<1> QED BY <1>1, <1>2 DEF Marks

LEMMA MarksNext == ASSUME Types, Marks, ~Rebalance, [Next]_vars PROVE Marks'
<1>1. CASE Cancel \/ UNCHANGED vars
  <2>1. UNCHANGED <<committed, fetchPos, next, toCommit, workCh, doneCh, batch>>
    BY <1>1 DEF Cancel, vars, queues, marks
  <2>2. InHand' = InHand
    BY <2>1 DEF InHand
  <2> QED BY <2>1, <2>2, MarksKept
<1>2. CASE Crash \/ Replaced
  BY <1>2, FreshMarks DEF Crash, Replaced
<1>3. ASSUME NEW w \in Workers, TimerFlush(w) \/ Process(w) \/ Abandon(w) \/ WorkerStops(w)
      PROVE  Marks'
  <2>1. UNCHANGED <<committed, fetchPos, next, toCommit, workCh, doneCh, batch>>
    BY <1>3 DEF TimerFlush, Process, Abandon, WorkerStops, marks
  <2>2. InHand' = InHand
    BY <2>1 DEF InHand
  <2> QED BY <2>1, <2>2, MarksKept
<1> QED BY <1>1, <1>2, <1>3, FetchMarks, TakeMarks, SendMarks, MarkDoneMarks, FlushMarks
        DEF Next, Work

LEMMA UnreadKept ==
    ASSUME Unread, Held' = Held, UNCHANGED <<committed, cancelled, fetchPos, next, rebalances>>,
           \A w \in Workers : wpc'[w] = "exit" => wpc[w] = "exit"
    PROVE  Unread'
BY DEF Unread

LEMMA FetchHolds == ASSUME Types, Fetch PROVE Held' = Held \cup {fetchPos}
<1>1. fetchPos \in Offsets /\ workCh \in Seq(Offsets)
  BY SizeType DEF Types, TypeOK, Fetch
<1>2. Elements(workCh') = Elements(workCh) \cup {fetchPos}
  BY <1>1, ElementsOfAppend DEF Fetch
<1>3. \A w \in Workers : Waiting(w)' = Waiting(w)
  BY DEF Waiting, Fetch
<1> QED BY <1>2, <1>3 DEF Held, Fetch

LEMMA FetchUnread == ASSUME Types, Unread, Fetch PROVE Unread'
<1>1. fetchPos \in Nat /\ committed \in Nat
  BY SizeType DEF Types, TypeOK, Fetch
<1>2. /\ UNCHANGED <<committed, cancelled, next, wpc, rebalances>> /\ fetchPos' = fetchPos + 1
  BY DEF Fetch, marks, bounds
<1>3. \A o \in committed .. fetchPos : o = fetchPos \/ o \in committed .. (fetchPos - 1)
  BY <1>1
<1>4. committed' .. (fetchPos' - 1) = committed .. fetchPos
  BY <1>1, <1>2
<1> QED BY <1>2, <1>3, <1>4, FetchHolds DEF Unread

LEMMA FreshUnread ==
    ASSUME Types, Unread, FreshProcess, UNCHANGED <<committed, rebalances>> PROVE Unread'
<1>1. fetchPos' = committed' /\ committed' \in Nat /\ \A w \in Workers : wpc'[w] # "exit"
  BY SizeType DEF FreshProcess, Types, TypeOK
<1>2. committed' .. (fetchPos' - 1) = {}
  BY <1>1
<1> QED BY <1>1, <1>2 DEF Unread

LEMMA UnreadNext ==
    ASSUME MaxRebalances = 0, Types, Marks, Unread, [Next]_vars PROVE Unread'
<1>1. CASE Flush
  <2>1. next' # 0 /\ UNCHANGED <<cancelled, wpc, rebalances>>
    BY <1>1, FlushReaches DEF Flush, queues, bounds
  <2> QED BY <2>1 DEF Unread
<1>2. CASE MarkDone
  <2>1. next' # 0 /\ UNCHANGED <<cancelled, wpc, rebalances>>
    BY <1>2, MarkDoneMarks DEF MarkDone, queues, bounds
  <2> QED BY <2>1 DEF Unread
<1>3. CASE Crash \/ Replaced
  BY <1>3, FreshUnread DEF Crash, Replaced, bounds
<1>4. CASE Cancel
  BY <1>4 DEF Cancel, Unread
<1>5. ASSUME NEW w \in Workers, Abandon(w) \/ WorkerStops(w) PROVE Unread'
  BY <1>5 DEF Abandon, WorkerStops, Unread, bounds
<1>6. ASSUME NEW w \in Workers, TimerFlush(w) \/ Process(w) PROVE Unread'
  <2>1. UNCHANGED <<committed, cancelled, fetchPos, next, rebalances, workCh, doneCh, batch, sent>>
    BY <1>6 DEF TimerFlush, Process, marks, bounds
  <2>2. Held' = Held
    BY <2>1 DEF Held, Waiting
  <2>3. \A v \in Workers : wpc'[v] = "exit" => wpc[v] = "exit"
    BY <1>6 DEF TimerFlush, Process, Types, TypeOK
  <2> QED BY <2>1, <2>2, <2>3, UnreadKept
<1>7. ASSUME NEW w \in Workers, Take(w) \/ Send(w) PROVE Unread'
  <2>1. UNCHANGED <<committed, cancelled, fetchPos, next, rebalances>>
    BY <1>7 DEF Take, Send, marks, bounds
  <2>2. Held' = Held
    BY <1>7, TakeHolds, SendHolds
  <2>3. \A v \in Workers : wpc'[v] = "exit" => wpc[v] = "exit"
    BY <1>7 DEF Take, Send, Types, TypeOK
  <2> QED BY <2>1, <2>2, <2>3, UnreadKept
<1>8. ~Rebalance
  BY DEF Rebalance, Unread
<1>9. CASE UNCHANGED vars
  <2>1. Held' = Held
    BY <1>9 DEF Held, Waiting, vars, queues
  <2> QED BY <1>9, <2>1, UnreadKept DEF vars, queues, marks, bounds
<1> QED BY <1>1, <1>2, <1>3, <1>4, <1>5, <1>6, <1>7, <1>8, <1>9, FetchUnread DEF Next, Work

LEMMA UnreadInit == Init => Unread
<1> SUFFICES ASSUME Init PROVE Unread
  OBVIOUS
<1>1. committed .. (fetchPos - 1) = {}
  BY DEF Init
<1>2. rebalances = 0 /\ \A w \in Workers : wpc[w] # "exit"
  BY DEF Init
<1> QED BY <1>1, <1>2 DEF Unread

\* Where nothing can move, the process holds nothing and has fetched everything.
LEMMA RestIsEmpty ==
    ASSUME Types, Unread, ~cancelled, ~Moves
    PROVE  Held = {} /\ fetchPos = Size /\ toCommit = {}
<1>1. /\ doneCh = <<>> /\ toCommit = {} /\ MaxInflight \in Nat \ {0} /\ Len(doneCh) = 0
      /\ fetchPos \in 0 .. Size
  BY SizesAssumption DEF Moves, Types, TypeOK
<1>2. \A w \in Workers : wpc[w] = "collect"
  BY <1>1 DEF Moves, Unread, Types, TypeOK
<1>3. workCh = <<>> /\ \A w \in Workers : batch[w] = <<>>
  BY <1>2, WorkersAssumption DEF Moves
<1>4. fetchPos = Size
  <2>1. Len(workCh) = 0
    BY <1>3
  <2> QED BY <1>1, <2>1, SizeType DEF Moves
<1>5. \A w \in Workers : Waiting(w) = {}
  <2>1. \A w \in Workers : sent[w] = 0 /\ Len(batch[w]) = 0
    BY <1>2, <1>3 DEF Types, Shapes
  <2> QED BY <2>1 DEF Waiting
<1>6. Held = {}
  BY <1>1, <1>3, <1>5 DEF Held, Elements
<1> QED BY <1>1, <1>4, <1>6

LEMMA RestIsEnd == Types /\ Gapless /\ Marks /\ Unread => PipelineMoves
<1> SUFFICES ASSUME Types, Gapless, Marks, Unread, ~cancelled, ~Moves PROVE ~(committed < Size)
  BY DEF PipelineMoves
<1>1. /\ Held = {} /\ fetchPos = Size /\ toCommit = {} /\ Size \in Nat
      /\ committed \in Nat /\ next \in 0 .. Size /\ base \in 0 .. Size
      /\ next \notin done
  BY RestIsEmpty, SizeType DEF Types, TypeOK, Shapes
<1>2. CASE next = 0
  <2>1. \A o \in committed .. (Size - 1) : FALSE
    BY <1>1, <1>2 DEF Unread
  <2> QED BY <1>1, <2>1
<1>3. CASE next # 0
  <2>1. base < next /\ committed = next
    BY <1>1, <1>3 DEF Types, Shapes, Marks
  <2>2. next \notin base .. (Size - 1)
    BY <1>1 DEF Gapless
  <2> QED BY <1>1, <2>1, <2>2
<1> QED BY <1>2, <1>3

LEMMA SpecMarks ==
    ASSUME MaxRebalances = 0 PROVE Spec => [](Types /\ Gapless /\ Marks /\ Unread)
<1>1. Init => Types /\ Gapless /\ Marks /\ Unread
  BY TypesInit, GaplessInit, MarksInit, UnreadInit
<1>2. Types /\ Gapless /\ Marks /\ Unread /\ [Next]_vars => (Types /\ Gapless /\ Marks /\ Unread)'
  <2>1. Unread => ~Rebalance
    BY DEF Unread, Rebalance
  <2> QED BY <2>1, TypesNext, GaplessNext, MarksNext, UnreadNext
<1> QED BY <1>1, <1>2, PTL DEF Spec

\* Reader, workers and committer never all wait for one another while there is
\* lag: for any number of workers, any capacity of the channels and any log, with
\* crashes and shutdowns, but no rebalance.
THEOREM PipelineSafe ==
    ASSUME MaxRebalances = 0 PROVE Spec => []PipelineMoves
BY SpecMarks, RestIsEnd, PTL

\* Without a rebalance the group's offset never goes back: a crash or a shutdown
\* makes a process begin again behind its predecessor's work, but no commit of its
\* falls below one that was made before, a retried one included.
THEOREM OffsetNeverBack ==
    ASSUME MaxRebalances = 0 PROVE Spec => [][committed <= committed']_vars
<1>1. Types /\ Marks /\ Unread /\ [Next]_vars => [committed <= committed']_vars
  <2> SUFFICES ASSUME Types, Marks, Unread, Next PROVE committed <= committed'
    OBVIOUS
  <2>1. committed \in Nat
    BY SizeType DEF Types, TypeOK
  <2>2. CASE Flush
    <3>1. next # 0 /\ committed' = next
      BY <2>2, FlushReaches
    <3> QED BY <3>1 DEF Marks
  <2>3. ~Rebalance
    BY DEF Unread, Rebalance
  <2>4. CASE Fetch \/ MarkDone \/ Crash \/ Cancel \/ Replaced
    BY <2>1, <2>4 DEF Fetch, MarkDone, Crash, Cancel, Replaced
  <2>5. ASSUME NEW w \in Workers, Work(w) \/ Abandon(w) \/ WorkerStops(w)
        PROVE  committed <= committed'
    BY <2>1, <2>5 DEF Work, Take, TimerFlush, Process, Send, Abandon, WorkerStops
  <2> QED BY <2>2, <2>3, <2>4, <2>5 DEF Next
<1> QED BY <1>1, SpecMarks, PTL DEF Spec
-----------------------------------------------------------------------------
\* One worker

\* Where the next message to be reported stays the same.
LEMMA InOrderKept ==
    ASSUME Types, NEW w \in Workers, InOrder(w), [Next]_vars,
           UNCHANGED <<committed, cancelled, base, shutdowns>>,
           base = Size => Front(w)' = Front(w)
    PROVE  InOrder(w)'
<1>1. \A o \in Offsets : Finished(o) => Finished(o)'
  BY InboxGrows
<1> QED BY <1>1 DEF InOrder, CommittedIsProcessed

LEMMA FetchFront ==
    ASSUME Types, NEW w \in Workers, Fetch PROVE Front(w)' = Front(w)
<1>1. /\ fetchPos \in Offsets /\ workCh \in Seq(Offsets)
      /\ workCh' = Append(workCh, fetchPos)
  BY SizeType DEF Types, TypeOK, Fetch
<1>2. workCh' # <<>> /\ Head(workCh') = (IF workCh = <<>> THEN fetchPos ELSE Head(workCh))
  BY <1>1
<1> QED BY <1>2 DEF Front, Fetch

LEMMA TakeFront ==
    ASSUME Types, NEW w \in Workers, Take(w) PROVE Front(w)' = Front(w)
<1>1. /\ batch[w] \in Seq(Offsets) /\ sent[w] = 0 /\ batch \in [Workers -> Seq(Offsets)]
      /\ Head(workCh) \in Offsets /\ workCh # <<>>
  BY ElementsOfTail DEF Types, TypeOK, Shapes, Take
<1>2. batch'[w] = Append(batch[w], Head(workCh)) /\ sent'[w] = 0
  BY <1>1 DEF Take
<1>3. batch'[w] # <<>> /\ batch'[w][1] = (IF batch[w] = <<>> THEN Head(workCh) ELSE batch[w][1])
  BY <1>1, <1>2
<1>4. doneCh' = doneCh
  BY DEF Take
<1> QED BY <1>1, <1>2, <1>3, <1>4 DEF Front

LEMMA SendFront ==
    ASSUME Types, NEW w \in Workers, Send(w) PROVE Front(w)' = Front(w)
<1>1. sent[w] + 1 \in 1 .. Len(batch[w]) /\ batch[w][sent[w] + 1] \in Offsets
  BY SendReports
<1>2. /\ doneCh \in Seq(Offsets) /\ batch[w] \in Seq(Offsets)
      /\ doneCh' = Append(doneCh, batch[w][sent[w] + 1])
  BY DEF Types, TypeOK, Send
<1>3. batch[w] # <<>>
  BY <1>1, <1>2
<1>4. /\ doneCh' # <<>>
      /\ Head(doneCh') = (IF doneCh = <<>> THEN batch[w][sent[w] + 1] ELSE Head(doneCh))
  BY <1>1, <1>2
<1> QED BY <1>3, <1>4 DEF Front

LEMMA MarkDoneInOrder ==
    ASSUME Types, NEW w \in Workers, InOrder(w), MarkDone PROVE InOrder(w)'
<1>1. UNCHANGED <<committed, inbox, cancelled, shutdowns>>
  BY DEF MarkDone, bounds
<1>2. \A o \in Offsets : Finished(o)' = Finished(o)
  BY <1>1 DEF Finished
<1>3. base' # Size /\ base' = (IF base = Size THEN Head(doneCh) ELSE base)
  <2>1. Head(doneCh) \in Offsets
    BY ElementsOfTail DEF Types, TypeOK, MarkDone
  <2> QED BY <2>1, SizeType DEF MarkDone
<1>4. base = Size => Front(w) = Head(doneCh)
  BY DEF MarkDone, Front
<1>5. \A o \in Offsets : o < base' => Finished(o)
  BY <1>3, <1>4 DEF InOrder
<1> QED BY <1>1, <1>2, <1>3, <1>5 DEF InOrder, CommittedIsProcessed

LEMMA FlushInOrder ==
    ASSUME Types, Reported, NEW w \in Workers, InOrder(w), Flush PROVE InOrder(w)'
<1>1. UNCHANGED <<inbox, cancelled, shutdowns, base, Front(w)>>
  BY DEF Flush, bounds, queues, Front
<1>2. \A o \in Offsets : Finished(o)' = Finished(o)
  BY <1>1 DEF Finished
<1>3. PICK h \in toCommit : committed' = h + 1
  <2>1. Highest(toCommit) \in toCommit
    BY HighestExists DEF Flush, Types, TypeOK
  <2> QED BY <2>1 DEF Flush
<1>4. /\ committed' \in Nat /\ committed' <= next /\ next \in Nat /\ base \in Nat
      /\ base # Size
  <2>1. /\ next \in 0 .. Size /\ toCommit \subseteq Offsets
        /\ \A o \in toCommit : o < next
    BY DEF Types, TypeOK
  <2>2. h \in Nat /\ h < next
    BY <1>3, <2>1, SizeType
  <2>3. base \in 0 .. Size /\ (next # 0 => base < next)
    BY DEF Types, Shapes
  <2> QED BY <1>3, <2>1, <2>2, <2>3, SizeType
<1>5. ASSUME NEW o \in Offsets, o < committed' PROVE Finished(o)
  <2>1. o \in Nat /\ o < next
    BY <1>4, <1>5, SizeType
  <2>2. CASE o < base
    BY <1>4, <2>2 DEF InOrder
  <2>3. CASE base <= o
    BY <2>1, <2>3 DEF InOrder, Reported, WatermarkIsContiguous
  <2> QED BY <1>4, <2>1, <2>2, <2>3
<1> QED BY <1>1, <1>2, <1>5 DEF InOrder, CommittedIsProcessed

LEMMA FreshInOrder ==
    ASSUME Types, NEW w \in Workers, InOrder(w), FreshProcess,
           UNCHANGED <<committed, inbox, shutdowns>>
    PROVE  InOrder(w)'
<1>1. Front(w)' = committed /\ base' = Size /\ cancelled' = FALSE
  BY DEF FreshProcess, Front
<1>2. \A o \in Offsets : Finished(o)' = Finished(o)
  BY DEF Finished
<1> QED BY <1>1, <1>2 DEF InOrder, CommittedIsProcessed

LEMMA RebalanceInOrder ==
    ASSUME Types, NEW w \in Workers, InOrder(w), Rebalance PROVE InOrder(w)'
<1>1. PICK to \in committed .. Size :
        /\ committed' = to
        /\ inbox' = inbox \cup ({log[o] : o \in committed .. (to - 1)} \ {Poison})
        /\ fetchPos' = to
  BY DEF Rebalance
<1>2. UNCHANGED <<cancelled, workCh, doneCh, batch, sent, base, shutdowns>>
  BY DEF Rebalance, queues, marks
<1>3. committed \in Nat /\ to \in Nat
  BY SizeType DEF Types, TypeOK
<1>4. \A o \in Offsets : Finished(o) => Finished(o)'
  BY <1>1 DEF Finished
<1>5. ASSUME NEW o \in Offsets, o < to PROVE Finished(o)'
  <2>1. o \in Nat
    BY SizeType
  <2>2. CASE o < committed
    BY <1>4, <2>2 DEF InOrder, CommittedIsProcessed
  <2>3. CASE committed <= o
    <3>1. o \in committed .. (to - 1)
      BY <1>3, <1>5, <2>1, <2>3
    <3> QED BY <1>1, <3>1 DEF Finished
  <2> QED BY <1>3, <2>1, <2>2, <2>3
<1>6. Front(w)' \in {Front(w), to}
  BY <1>1, <1>2 DEF Front
<1>7. \A o \in Offsets : o < (IF base' = Size THEN Front(w)' ELSE base') => Finished(o)'
  BY <1>2, <1>4, <1>5, <1>6 DEF InOrder
<1> QED BY <1>1, <1>2, <1>5, <1>7 DEF InOrder, CommittedIsProcessed

LEMMA InOrderInit == ASSUME NEW w \in Workers, Init PROVE InOrder(w)
<1>1. Front(w) = 0 /\ base = Size /\ committed = 0 /\ shutdowns = 0 /\ ~cancelled
  BY DEF Init, Front
<1>2. \A o \in Offsets : ~(o < 0)
  BY SizeType
<1> QED BY <1>1, <1>2 DEF InOrder, CommittedIsProcessed

LEMMA InOrderNext ==
    ASSUME MaxShutdowns = 0, NEW w, Workers = {w},
           Types, Reported, InOrder(w), [Next]_vars
    PROVE  InOrder(w)'
<1>0. w \in Workers
  OBVIOUS
<1>1. ASSUME NEW v \in Workers, Work(v) PROVE InOrder(w)'
  <2>1. v = w
    BY <1>1
  <2>2. UNCHANGED <<committed, cancelled, base, shutdowns>>
    BY <1>1 DEF Work, Take, TimerFlush, Process, Send, marks, bounds
  <2>3. CASE Take(w)
    BY <1>0, <2>2, <2>3, TakeFront, InOrderKept
  <2>4. CASE Send(w)
    BY <1>0, <2>2, <2>4, SendFront, InOrderKept
  <2>5. CASE TimerFlush(w) \/ Process(w)
    <3>1. Front(w)' = Front(w)
      BY <2>5 DEF TimerFlush, Process, Front
    <3> QED BY <1>0, <2>2, <3>1, InOrderKept
  <2> QED BY <1>1, <2>1, <2>3, <2>4, <2>5 DEF Work
<1>2. ASSUME NEW v \in Workers, Abandon(v) \/ WorkerStops(v) PROVE FALSE
  BY <1>2 DEF Abandon, WorkerStops, InOrder
<1>3. CASE Fetch
  <2>1. UNCHANGED <<committed, cancelled, base, shutdowns>>
    BY <1>3 DEF Fetch, marks, bounds
  <2> QED BY <1>0, <1>3, <2>1, FetchFront, InOrderKept
<1>4. CASE Crash
  BY <1>0, <1>4, FreshInOrder DEF Crash
<1>5. ~Cancel /\ ~Replaced
  BY DEF Cancel, Replaced, InOrder
<1>6. CASE UNCHANGED vars
  <2>1. Front(w)' = Front(w) /\ UNCHANGED <<committed, cancelled, base, shutdowns>>
    BY <1>6 DEF Front, vars, queues, marks, bounds
  <2> QED BY <1>0, <2>1, InOrderKept
<1> QED BY <1>0, <1>1, <1>2, <1>3, <1>4, <1>5, <1>6,
           MarkDoneInOrder, FlushInOrder, RebalanceInOrder DEF Next

\* "Commit ... only after the message's transaction succeeded": one worker that is
\* not told to stop commits nothing that is not in the inbox, however often the
\* process crashes and the partition is taken away and given back.
THEOREM OneWorkerSafe ==
    ASSUME MaxShutdowns = 0, NEW w, Workers = {w}
    PROVE  Spec => []CommittedIsProcessed
<1>1. Init => InOrder(w)
  BY InOrderInit
<1>2. Types /\ Reported /\ InOrder(w) /\ [Next]_vars => InOrder(w)'
  BY InOrderNext
<1>3. InOrder(w) => CommittedIsProcessed
  BY DEF InOrder
<1> QED BY <1>1, <1>2, <1>3, SpecReported, PTL DEF Spec
=============================================================================
