--------------------------- MODULE RecoveryProofs ---------------------------
(***************************************************************************)
(* What is proved of Recovery for any clients, stock, events injected,     *)
(* dumps and disasters: the reconciler raises no false alarm, what is lost *)
(* is bounded, no order is forgotten before it is notified, and the        *)
(* notification is one and goes to the right client.                       *)
(***************************************************************************)
EXTENDS Recovery, FiniteSetTheorems, WellFoundedInduction, TLAPS

\* The groups of variables are expanded throughout.
USE DEF ordering, backups, reconciler, events, site, bounds

\* What tables have that a transaction, a dump or a site leaves behind: what
\* NoFalseAlarm says of the rows, and what keeps it true.
Sound(t, low) ==
    /\ IsFiniteSet(t.orders) /\ Cardinality(t.orders) + t.stock = InitStock
    /\ \A o \in t.orders : \E row \in t.outbox : row.order = o.id
    /\ \A e \in t.inbox : \E row \in t.outbox : row.event = e
    /\ \A n \in t.notifs : n.order > 0 => n.order \in IdsOf(t)
    /\ \A row \in t.outbox : row.order > 0 => row.order \in IdsOf(t)
    /\ \A row \in t.outbox : row.order >= 0 - low

\* The messages of the topic in use, passed or not.
Messaged == topic \cup skipped

\* Every message is that of a row.
TopicFits ==
    \A m \in Messaged : \E row \in db.outbox : row.event = m.event /\ row.order = m.order

\* The ids given out, and to whom.
IdsFit ==
    /\ \A o \in db.orders : o.id < nextId
    /\ \A k \in Keys : open[k] # 0 => open[k] < nextId /\ open[k] \notin IdsOf(db)
    /\ \A k, l \in Keys : open[k] # 0 /\ k # l => open[k] # open[l]
    /\ \A o, p \in db.orders : o.id = p.id => o = p

Copies ==
    /\ dump # NoTables => Sound(dump, injected) /\ dump.orders \subseteq db.orders
    /\ backup # NoTables => Sound(backup, injected) /\ backup.orders \subseteq db.orders

SnapshotFits ==
    /\ balance = InitStock
    /\ water # NoWater => water.orders + water.view = InitStock

LedgerFits ==
    /\ era = 0 => ledger \subseteq db.orders
    /\ era = 0 \/ (era = 1 /\ phase = "imported") =>
          \A e \in ledger : \A o \in db.orders : e.id = o.id => e = o
    /\ phase = "imported" => era > 0
    /\ phase = "down" => era < MaxEra
    /\ phase \in {"down", "imported"} => open = [k \in Keys |-> 0]
    /\ phase = "down" => dump = NoTables

\* What clients were told of is where it should be.
SafeFits ==
    /\ safe.site \subseteq db.orders
    /\ dump # NoTables => safe.dump \subseteq dump.orders
    /\ backup # NoTables => safe.backup \subseteq backup.orders

IInv ==
    /\ TypeOK
    /\ Sound(db, injected) /\ TopicFits /\ IdsFit /\ Copies /\ SnapshotFits
    /\ LedgerFits /\ SafeFits

-----------------------------------------------------------------------------
LEMMA LeastExists ==
    ASSUME NEW S \in SUBSET Nat, S # {} PROVE \E i \in S : \A j \in S : i <= j
<1>1. \E i \in S : \A j \in S : ~(<<j, i>> \in OpToRel(<, Nat))
  <2> HIDE DEF OpToRel
  <2> QED BY NatLessThanWellFounded, WFMin
<1>2. \A i, j \in S : ~(<<j, i>> \in OpToRel(<, Nat)) => i <= j
  BY DEF OpToRel
<1> QED BY <1>1, <1>2

\* The ids of injected events are not those of orders, and go down by one at most.
LEMMA ReplayIdBounds ==
    ASSUME IInv
    PROVE  ReplayId \in Int /\ ReplayId <= 0 /\ ReplayId >= 0 - (injected + 1)
<1> DEFINE Ids == {row.order : row \in db.outbox}
<1>1. injected \in Nat /\ \A i \in Ids : i \in Int /\ i >= 0 - injected
  BY BoundsAssumption DEF IInv, TypeOK, TablesType, Sound
<1>2. CASE Ids = {}
  BY <1>1, <1>2 DEF ReplayId, MinOrderId
<1>3. CASE Ids # {}
  <2> DEFINE Shifted == {i + injected : i \in Ids}
  <2>1. Shifted \in SUBSET Nat /\ Shifted # {}
    <3> HIDE DEF Ids
    <3> QED BY <1>1, <1>3
  <2>2. \E s \in Shifted : \A u \in Shifted : s <= u
    <3> HIDE DEF Shifted
    <3> QED BY <2>1, LeastExists
  <2>3. \E i \in Ids : \A j \in Ids : i <= j
    <3> HIDE DEF Ids
    <3>1. PICK i \in Ids : \A j \in Ids : i + injected <= j + injected
      BY <2>2
    <3> QED BY <1>1, <3>1
  <2>4. MinOrderId \in Ids
    BY <1>3, <2>3 DEF MinOrderId
  <2> HIDE DEF Ids
  <2> QED BY <1>1, <2>4 DEF ReplayId
<1> QED BY <1>2, <1>3

Row == [event : Events, order : Int, status : {"PENDING", "SENT", "DEAD"}]

LEMMA SoundLower ==
    ASSUME NEW t \in TablesType, NEW low \in Int, NEW lower \in Int, low <= lower,
           Sound(t, low)
    PROVE  Sound(t, lower)
BY DEF Sound, TablesType

\* A transaction that places an order.
LEMMA OrderSound ==
    ASSUME NEW t \in TablesType, NEW low \in Nat, Sound(t, low), t.stock > 0,
           NEW k \in Keys, NEW i \in 1 .. MaxId, i \notin IdsOf(t),
           NEW e \in Events,
           NEW u, u = [t EXCEPT !.orders = @ \cup {[id |-> i, key |-> k]},
                                !.outbox = @ \cup {[event |-> e, order |-> i,
                                                    status |-> "PENDING"]},
                                !.stock = @ - 1]
    PROVE  u \in TablesType /\ Sound(u, low)
<1> USE StockAssumption, BoundsAssumption
<1> DEFINE o == [id |-> i, key |-> k]
           r == [event |-> e, order |-> i, status |-> "PENDING"]
<1>1. /\ u.orders = t.orders \cup {o} /\ u.outbox = t.outbox \cup {r}
      /\ u.stock = t.stock - 1 /\ u.inbox = t.inbox /\ u.notifs = t.notifs
  BY DEF TablesType
<1>2. u \in TablesType
  <2>1. u = [orders |-> t.orders \cup {o}, outbox |-> t.outbox \cup {r}, inbox |-> t.inbox,
             notifs |-> t.notifs, stock |-> t.stock - 1]
    BY DEF TablesType
  <2>2. o \in [id : 1 .. MaxId, key : Keys]
    OBVIOUS
  <2>3. r \in [event : Events, order : Int, status : {"PENDING", "SENT", "DEAD"}]
    OBVIOUS
  <2>4. t.stock - 1 \in 0 .. InitStock
    BY DEF TablesType
  <2> HIDE DEF o, r
  <2> QED BY <2>1, <2>2, <2>3, <2>4 DEF TablesType
<1>r. o.id = i /\ r.order = i /\ o \notin t.orders
  BY DEF IdsOf
<1> HIDE DEF o, r
<1>3. IsFiniteSet(u.orders) /\ Cardinality(u.orders) + u.stock = InitStock
  <2>1. IsFiniteSet(t.orders) /\ Cardinality(t.orders) \in Nat
    BY FS_CardinalityType DEF Sound
  <2>2. /\ IsFiniteSet(t.orders \cup {o})
        /\ Cardinality(t.orders \cup {o}) = Cardinality(t.orders) + 1
    BY <1>r, <2>1, FS_AddElement
  <2>3. t.stock \in Int /\ Cardinality(t.orders) + t.stock = InitStock
    BY DEF Sound, TablesType
  <2>4. IsFiniteSet(u.orders) /\ Cardinality(u.orders) = Cardinality(t.orders) + 1
    BY <1>1, <2>2
  <2>5. u.stock = t.stock - 1
    BY <1>1
  <2> QED BY <2>1, <2>3, <2>4, <2>5
<1>4. i \in IdsOf(u) /\ IdsOf(t) \subseteq IdsOf(u)
  BY <1>1, <1>r DEF IdsOf
<1>5. \A p \in u.orders : \E row \in u.outbox : row.order = p.id
  <2> TAKE p \in u.orders
  <2>1. CASE p = o
    BY <1>1, <1>r, <2>1
  <2>2. CASE p \in t.orders
    BY <1>1, <2>2 DEF Sound
  <2> QED BY <1>1, <2>1, <2>2
<1>6. \A x \in u.inbox : \E row \in u.outbox : row.event = x
  BY <1>1 DEF Sound
<1>7. \A row \in u.outbox : /\ row.order > 0 => row.order \in IdsOf(u)
                            /\ row.order >= 0 - low
  BY <1>1, <1>r, <1>4 DEF Sound
<1>8. \A n \in u.notifs : n.order > 0 => n.order \in IdsOf(u)
  BY <1>1, <1>4 DEF Sound
<1> QED BY <1>2, <1>3, <1>5, <1>6, <1>7, <1>8 DEF Sound

\* A statement that changes the status of rows and nothing else.
LEMMA StatusSound ==
    ASSUME NEW t \in TablesType, NEW low \in Nat, Sound(t, low),
           NEW rows \in SUBSET Row,
           \A r \in t.outbox : \E q \in rows : q.event = r.event /\ q.order = r.order,
           \A q \in rows : \E r \in t.outbox : q.event = r.event /\ q.order = r.order,
           NEW u, u = [t EXCEPT !.outbox = rows]
    PROVE  u \in TablesType /\ Sound(u, low)
<1>1. /\ u.orders = t.orders /\ u.outbox = rows
      /\ u.stock = t.stock /\ u.inbox = t.inbox /\ u.notifs = t.notifs
  BY DEF TablesType
<1>2. u \in TablesType
  BY DEF TablesType, Row
<1>3. IdsOf(u) = IdsOf(t)
  BY <1>1 DEF IdsOf
<1> QED BY <1>1, <1>2, <1>3 DEF Sound

\* event-replay adds a row.
LEMMA InjectSound ==
    ASSUME NEW t \in TablesType, NEW low \in Nat, Sound(t, low),
           NEW e \in Events, NEW i \in Int, i <= 0, i >= 0 - (low + 1),
           NEW u, u = [t EXCEPT !.outbox = @ \cup {[event |-> e, order |-> i,
                                                    status |-> "PENDING"]}]
    PROVE  u \in TablesType /\ Sound(u, low + 1)
<1> DEFINE r == [event |-> e, order |-> i, status |-> "PENDING"]
<1>1. /\ u.orders = t.orders /\ u.outbox = t.outbox \cup {r}
      /\ u.stock = t.stock /\ u.inbox = t.inbox /\ u.notifs = t.notifs
  BY DEF TablesType
<1>2. u \in TablesType
  BY DEF TablesType
<1>3. IdsOf(u) = IdsOf(t)
  BY <1>1 DEF IdsOf
<1>4. \A row \in u.outbox : row.order >= 0 - (low + 1)
  BY <1>1 DEF Sound, TablesType
<1>5. \A row \in u.outbox : row.order > 0 => row.order \in IdsOf(u)
  BY <1>1, <1>3 DEF Sound
<1> QED BY <1>1, <1>2, <1>3, <1>4, <1>5 DEF Sound

\* The consumer's transaction, for a message that some row was.
LEMMA ConsumeSound ==
    ASSUME NEW t \in TablesType, NEW low \in Nat, Sound(t, low),
           NEW m \in Messages,
           \E row \in t.outbox : row.event = m.event /\ row.order = m.order,
           NEW u, u = [t EXCEPT
                !.inbox = @ \cup {m.event},
                !.notifs = IF \E n \in @ : n.order = m.order THEN @
                           ELSE @ \cup {[order |-> m.order, user |-> UserOf(m.event)]}]
    PROVE  u \in TablesType /\ Sound(u, low)
<1> DEFINE n == [order |-> m.order, user |-> UserOf(m.event)]
<1>1. /\ u.orders = t.orders /\ u.outbox = t.outbox
      /\ u.stock = t.stock /\ u.inbox = t.inbox \cup {m.event}
      /\ u.notifs \in {t.notifs, t.notifs \cup {n}}
  BY DEF TablesType
<1>2. m.event \in Events /\ m.order \in Int /\ UserOf(m.event) \in Keys \cup {"replay"}
  BY DEF Messages, Events, UserOf
<1>3. u \in TablesType
  <2>1. u.notifs \in SUBSET [order : Int, user : Keys \cup {"replay"}]
    BY <1>1, <1>2 DEF TablesType
  <2>2. u = [orders |-> t.orders, outbox |-> t.outbox, inbox |-> t.inbox \cup {m.event},
             notifs |-> u.notifs, stock |-> t.stock]
    BY DEF TablesType
  <2> QED BY <1>2, <2>1, <2>2 DEF TablesType
<1>4. IdsOf(u) = IdsOf(t)
  BY <1>1 DEF IdsOf
<1>5. \A x \in u.notifs : x.order > 0 => x.order \in IdsOf(u)
  <2>1. m.order > 0 => m.order \in IdsOf(t)
    BY DEF Sound
  <2> QED BY <1>1, <1>4, <2>1 DEF Sound
<1>6. \A e \in u.inbox : \E row \in u.outbox : row.event = e
  BY <1>1 DEF Sound
<1> QED BY <1>1, <1>3, <1>4, <1>5, <1>6 DEF Sound

LEMMA Initially == Init => IInv
<1> SUFFICES ASSUME Init PROVE IInv
  OBVIOUS
<1> USE StockAssumption, BoundsAssumption
<1>1. TypeOK
  <2>1. db \in TablesType
    BY DEF Init, TablesType, Fresh, Tables
  <2>2. open \in [Keys -> 0 .. MaxId] /\ balance \in Nat /\ era \in Eras
    BY DEF Init, Eras
  <2>3. nextId \in 1 .. MaxId + 1 /\ injected \in 0 .. MaxReplays /\ dumps \in 0 .. MaxDumps
    BY DEF Init
  <2>4. dump \in TablesType \cup {NoTables} /\ backup \in TablesType \cup {NoTables}
    BY DEF Init
  <2>5. water \in [orders : Nat, view : 0 .. InitStock] \cup {NoWater}
    BY DEF Init
  <2>6. /\ ledger = {} /\ topic = {} /\ skipped = {} /\ sending = {} /\ phase = "up"
        /\ safe \in [{"site", "dump", "backup"} -> SUBSET ledger]
    BY DEF Init
  <2> QED BY <2>1, <2>2, <2>3, <2>4, <2>5, <2>6 DEF TypeOK
<1>2. Sound(db, injected)
  BY FS_EmptySet DEF Init, Sound, Fresh, Tables, IdsOf
<1>3. TopicFits /\ IdsFit /\ Copies /\ SnapshotFits /\ LedgerFits /\ SafeFits
  BY DEF Init, TopicFits, Messaged, IdsFit, Copies, SnapshotFits, LedgerFits, SafeFits,
         Fresh, Tables, IdsOf,
         NoTables, NoWater
<1> QED BY <1>1, <1>2, <1>3 DEF IInv

-----------------------------------------------------------------------------
\* What holds of the tables holds on when rows are added by a step that leaves
\* dump, backup and snapshot alone.
LEMMA CopiesKept ==
    ASSUME IInv, UNCHANGED <<dump, backup>>, db.orders \subseteq db.orders',
           injected' \in Nat, injected <= injected'
    PROVE  Copies'
<1>1. injected \in Int /\ injected' \in Int
  BY DEF IInv, TypeOK
<1>2. dump # NoTables => dump \in TablesType /\ Sound(dump, injected')
  BY <1>1, SoundLower DEF IInv, TypeOK, Copies
<1>3. backup # NoTables => backup \in TablesType /\ Sound(backup, injected')
  BY <1>1, SoundLower DEF IInv, TypeOK, Copies
<1> QED BY <1>2, <1>3 DEF IInv, Copies

\* A step that answers nobody and takes no backup.
LEMMA SafeKept ==
    ASSUME IInv, UNCHANGED <<dump, backup, safe>>, db.orders \subseteq db.orders'
    PROVE  SafeFits'
BY DEF IInv, SafeFits

LEMMA BeginInductive == ASSUME IInv, NEW k \in Keys, Begin(k) PROVE IInv'
<1> USE BoundsAssumption
<1>1. TypeOK'
  BY DEF Begin, IInv, TypeOK
<1>2. IdsFit'
  <2>1. nextId \notin IdsOf(db)
    BY DEF IInv, TypeOK, IdsFit, IdsOf, TablesType
  <2>2. \A o \in db.orders : o.id \in Int
    BY DEF IInv, TypeOK, TablesType
  <2> QED BY <2>1, <2>2 DEF Begin, IInv, TypeOK, IdsFit
<1>3. Copies'
  BY CopiesKept DEF Begin, IInv, TypeOK
<1>4. LedgerFits'
  BY DEF Begin, IInv, LedgerFits, ApiRuns
<1>5. Sound(db, injected)' /\ TopicFits' /\ SnapshotFits' /\ SafeFits'
  BY SafeKept DEF Begin, IInv, TopicFits, Messaged, SnapshotFits
<1> QED BY <1>1, <1>2, <1>3, <1>4, <1>5 DEF IInv

LEMMA CommitInductive == ASSUME IInv, NEW k \in Keys, Commit(k) PROVE IInv'
<1> USE BoundsAssumption
<1> DEFINE o == [id |-> open[k], key |-> k]
           r == [event |-> <<k, era>>, order |-> open[k], status |-> "PENDING"]
<1>1. /\ db \in TablesType /\ Sound(db, injected) /\ injected \in Nat
      /\ open[k] \in 1 .. MaxId /\ open[k] \notin IdsOf(db)
      /\ <<k, era>> \in Events /\ db.stock > 0
  BY DEF Commit, IInv, TypeOK, IdsFit, Events
<1>2. db' \in TablesType /\ Sound(db', injected)
  BY <1>1, OrderSound DEF Commit
<1>3. db'.orders = db.orders \cup {o} /\ db'.outbox = db.outbox \cup {r}
  BY <1>1 DEF Commit, TablesType
<1>4. TypeOK'
  BY <1>2 DEF Commit, IInv, TypeOK
<1>5. IdsFit'
  <2>1. IdsOf(db)' = IdsOf(db) \cup {open[k]}
    <3>1. o.id = open[k]
      OBVIOUS
    <3> HIDE DEF o
    <3> QED BY <1>3, <3>1 DEF IdsOf
  <2>2. open' = [open EXCEPT ![k] = 0] /\ nextId' = nextId
    BY DEF Commit
  <2>3. \A p \in db.orders : p.id # open[k]
    BY <1>1 DEF IdsOf
  <2> QED BY <1>1, <1>3, <2>1, <2>2, <2>3 DEF IInv, TypeOK, IdsFit
<1>6. Copies'
  BY <1>1, <1>3, CopiesKept DEF Commit
<1>7. TopicFits'
  BY <1>3 DEF Commit, IInv, TopicFits, Messaged
<1>8. LedgerFits'
  <2>1. era = era' /\ phase' = phase /\ ledger' = ledger
    BY DEF Commit
  <2>2. phase \notin {"down", "imported"}
    BY <1>1 DEF IInv, LedgerFits
  <2>3. era = 0 => \A e \in ledger : e.id # open[k]
    BY <1>1 DEF IInv, LedgerFits, IdsOf
  <2> QED BY <1>3, <2>1, <2>2, <2>3 DEF IInv, LedgerFits
<1>9. SnapshotFits' /\ Sound(db, injected)' /\ SafeFits'
  BY <1>2, <1>3, SafeKept DEF Commit, IInv, SnapshotFits
<1> QED BY <1>4, <1>5, <1>6, <1>7, <1>8, <1>9 DEF IInv

LEMMA AbortInductive == ASSUME IInv, NEW k \in Keys, Abort(k) PROVE IInv'
<1> USE BoundsAssumption
<1>1. TypeOK'
  BY DEF Abort, IInv, TypeOK
<1>2. IdsFit'
  BY DEF Abort, IInv, TypeOK, IdsFit
<1>3. Copies'
  BY CopiesKept DEF Abort, IInv, TypeOK
<1>4. LedgerFits'
  BY DEF Abort, IInv, TypeOK, LedgerFits
<1>5. Sound(db, injected)' /\ TopicFits' /\ SnapshotFits' /\ SafeFits'
  BY SafeKept DEF Abort, IInv, TopicFits, Messaged, SnapshotFits
<1> QED BY <1>1, <1>2, <1>3, <1>4, <1>5 DEF IInv

LEMMA AnswerInductive == ASSUME IInv, NEW k \in Keys, Answer(k) PROVE IInv'
<1> USE BoundsAssumption
<1>1. PICK o \in db.orders : o.key = k /\ Told(o)
  BY DEF Answer
<1>2. /\ ledger' = ledger \cup {o} /\ safe' = [safe EXCEPT !.site = @ \cup {o}]
      /\ o \in [id : 1 .. MaxId, key : Keys]
  BY <1>1 DEF Told, IInv, TypeOK, TablesType
<1>3. safe' \in [{"site", "dump", "backup"} -> SUBSET ledger']
  BY <1>2 DEF IInv, TypeOK
<1>4. TypeOK'
  BY <1>2, <1>3 DEF Answer, IInv, TypeOK
<1>5. Copies'
  BY CopiesKept DEF Answer, IInv, TypeOK
<1>6. LedgerFits'
  BY <1>2 DEF Answer, IInv, LedgerFits, IdsFit, ApiRuns
<1>7. SafeFits'
  <2>1. safe'.site = safe.site \cup {o} /\ safe'.dump = safe.dump /\ safe'.backup = safe.backup
    BY <1>2 DEF IInv, TypeOK
  <2> QED BY <2>1 DEF Answer, IInv, SafeFits
<1>8. Sound(db, injected)' /\ TopicFits' /\ SnapshotFits' /\ IdsFit'
  BY DEF Answer, IInv, TopicFits, Messaged, SnapshotFits, IdsFit
<1> QED BY <1>4, <1>5, <1>6, <1>7, <1>8 DEF IInv

\* A step that changes no order, no id and nothing outside the database but
\* the relay's hands and the events injected.
LEMMA RowStep ==
    ASSUME IInv, db' \in TablesType, Sound(db', injected'), TopicFits',
           db'.orders = db.orders, Messaged' \subseteq Messages, sending' \subseteq Events,
           injected' \in 0 .. MaxReplays, injected <= injected',
           UNCHANGED <<ordering, backups, safe, reconciler, era, dumps>>,
           phase' = phase \/ (phase = "api" /\ phase' = "up")
    PROVE  IInv'
<1> USE BoundsAssumption
<1>1. TypeOK'
  BY DEF IInv, TypeOK, Messaged
<1>2. Copies' /\ SafeFits'
  BY CopiesKept, SafeKept DEF IInv
<1>3. IdsFit'
  BY DEF IInv, IdsFit, IdsOf
<1>4. LedgerFits'
  BY DEF IInv, LedgerFits
<1>5. SnapshotFits'
  BY DEF IInv, SnapshotFits
<1> QED BY <1>1, <1>2, <1>3, <1>4, <1>5 DEF IInv

LEMMA InjectInductive == IInv /\ Inject => IInv'
<1> SUFFICES ASSUME IInv, Inject PROVE IInv'
  OBVIOUS
<1> USE BoundsAssumption
<1>1. /\ db \in TablesType /\ Sound(db, injected) /\ injected \in Nat
      /\ injected' = injected + 1 /\ injected' \in 1 .. MaxReplays
      /\ <<"replay", injected'>> \in Events
  BY DEF Inject, IInv, TypeOK, Events
<1>2. db' \in TablesType /\ Sound(db', injected')
  BY <1>1, ReplayIdBounds, InjectSound DEF Inject
<1>3. db'.orders = db.orders /\ db.outbox \subseteq db'.outbox
  BY <1>1 DEF Inject, TablesType
<1>4. TopicFits'
  BY <1>3 DEF Inject, IInv, TopicFits, Messaged
<1> QED BY <1>1, <1>2, <1>3, <1>4, RowStep DEF Inject, IInv, TypeOK, Messaged

LEMMA PublishInductive == IInv /\ Publish => IInv'
<1> SUFFICES ASSUME IInv, Publish PROVE IInv'
  OBVIOUS
<1>1. PICK row \in db.outbox :
         /\ Messaged' = Messaged \cup {Message(row)} /\ sending' = {row.event}
         /\ topic' = topic \cup {Message(row)} /\ skipped' = skipped \ {Message(row)}
  BY DEF Publish, Messaged
<1>2. row \in Row
  BY DEF IInv, TypeOK, TablesType, Row
<1>3. Messaged' \subseteq Messages /\ sending' \subseteq Events
  BY <1>1, <1>2 DEF IInv, TypeOK, Messaged, Messages, Message, Row
<1>4. TopicFits'
  BY <1>1 DEF Publish, IInv, TopicFits, Message
<1> QED BY <1>3, <1>4, RowStep DEF Publish, IInv, TypeOK, TablesType

LEMMA SkipInductive == ASSUME IInv, NEW m \in topic, Skip(m) PROVE IInv'
<1>1. Messaged' = Messaged
  BY DEF Skip, Messaged
<1>2. Messaged' \subseteq Messages /\ TopicFits'
  BY <1>1 DEF Skip, IInv, TypeOK, TopicFits, Messaged
<1> QED BY <1>2, RowStep DEF Skip, IInv, TypeOK, TablesType

LEMMA NewStatus ==
    \A r \in Row, s \in {"PENDING", "SENT", "DEAD"} :
        LET q == [r EXCEPT !.status = s] IN q \in Row /\ q.event = r.event /\ q.order = r.order
BY DEF Row

\* The rows change their status alone.
LEMMA StatusStep ==
    ASSUME IInv, NEW rows \in SUBSET Row,
           \A r \in db.outbox : \E q \in rows : q.event = r.event /\ q.order = r.order,
           \A q \in rows : \E r \in db.outbox : q.event = r.event /\ q.order = r.order,
           db' = [db EXCEPT !.outbox = rows], sending' \subseteq Events,
           UNCHANGED <<ordering, backups, safe, reconciler, topic, skipped, era, bounds>>,
           phase' = phase \/ (phase = "api" /\ phase' = "up")
    PROVE  IInv'
<1> USE BoundsAssumption
<1>1. db \in TablesType /\ Sound(db, injected) /\ injected \in Nat
  BY DEF IInv, TypeOK
<1>2. db' \in TablesType /\ Sound(db', injected)
  BY <1>1, StatusSound
<1>3. db'.orders = db.orders /\ db'.outbox = rows
  BY <1>1 DEF TablesType
<1>4. TopicFits'
  BY <1>3 DEF IInv, TopicFits, Messaged
<1> QED BY <1>2, <1>3, <1>4, RowStep DEF IInv, TypeOK, Messaged

LEMMA StatusInductive == IInv /\ (Mark \/ GiveUp \/ Resume) => IInv'
<1> SUFFICES ASSUME IInv, Mark \/ GiveUp \/ Resume PROVE IInv'
  OBVIOUS
<1>1. db.outbox \in SUBSET Row
  BY DEF IInv, TypeOK, TablesType, Row
<1>2. CASE Mark
  <2> DEFINE rows == {IF row.event \in sending THEN [row EXCEPT !.status = "SENT"] ELSE row
                        : row \in db.outbox}
  <2>1. /\ rows \in SUBSET Row
        /\ \A r \in db.outbox : \E q \in rows : q.event = r.event /\ q.order = r.order
        /\ \A q \in rows : \E r \in db.outbox : q.event = r.event /\ q.order = r.order
    <3>1. \A r \in db.outbox : LET q == [r EXCEPT !.status = "SENT"] IN
             q \in Row /\ q.event = r.event /\ q.order = r.order
      BY <1>1, NewStatus
    <3> QED BY <1>1, <3>1
  <2>2. db' = [db EXCEPT !.outbox = rows]
    BY <1>2 DEF Mark
  <2> HIDE DEF rows
  <2> QED BY <1>2, <2>1, <2>2, StatusStep DEF Mark, IInv, TypeOK
<1>3. CASE GiveUp
  <2>1. PICK dead \in db.outbox :
           db' = [db EXCEPT !.outbox = (@ \ {dead}) \cup {[dead EXCEPT !.status = "DEAD"]}]
    BY <1>3 DEF GiveUp
  <2> DEFINE rows == (db.outbox \ {dead}) \cup {[dead EXCEPT !.status = "DEAD"]}
  <2>2. /\ rows \in SUBSET Row
        /\ \A r \in db.outbox : \E q \in rows : q.event = r.event /\ q.order = r.order
        /\ \A q \in rows : \E r \in db.outbox : q.event = r.event /\ q.order = r.order
    <3>1. /\ [dead EXCEPT !.status = "DEAD"] \in Row
          /\ [dead EXCEPT !.status = "DEAD"].event = dead.event
          /\ [dead EXCEPT !.status = "DEAD"].order = dead.order
      BY <1>1, NewStatus
    <3> QED BY <1>1, <3>1
  <2>3. db' = [db EXCEPT !.outbox = rows]
    BY <2>1
  <2> HIDE DEF rows
  <2> QED BY <1>3, <2>2, <2>3, StatusStep DEF GiveUp, IInv, TypeOK
<1>4. CASE Resume
  <2> DEFINE rows == {IF InScope(row) THEN [row EXCEPT !.status = "PENDING"] ELSE row
                        : row \in db.outbox}
  <2>1. /\ rows \in SUBSET Row
        /\ \A r \in db.outbox : \E q \in rows : q.event = r.event /\ q.order = r.order
        /\ \A q \in rows : \E r \in db.outbox : q.event = r.event /\ q.order = r.order
    <3>1. \A r \in db.outbox : LET q == [r EXCEPT !.status = "PENDING"] IN
             q \in Row /\ q.event = r.event /\ q.order = r.order
      BY <1>1, NewStatus
    <3> QED BY <1>1, <3>1
  <2>2. db' = [db EXCEPT !.outbox = rows]
    BY <1>4 DEF Resume
  <2> HIDE DEF rows
  <2> QED BY <1>4, <2>1, <2>2, StatusStep DEF Resume, IInv, TypeOK
<1> QED BY <1>2, <1>3, <1>4

LEMMA ProcessInductive == ASSUME IInv, NEW m \in topic, Process(m) PROVE IInv'
<1> USE BoundsAssumption
<1>1. /\ db \in TablesType /\ Sound(db, injected) /\ injected \in Nat /\ m \in Messages
      /\ \E row \in db.outbox : row.event = m.event /\ row.order = m.order
  BY DEF IInv, TypeOK, TopicFits, Messaged
<1>2. db' \in TablesType /\ Sound(db', injected)
  BY <1>1, ConsumeSound DEF Process
<1>3. db'.orders = db.orders /\ db'.outbox = db.outbox
  BY <1>1 DEF Process, TablesType
<1>4. TopicFits'
  BY <1>3 DEF Process, IInv, TopicFits, Messaged
<1> QED BY <1>2, <1>3, <1>4, RowStep DEF Process, IInv, TypeOK, Messaged

\* Backup and snapshot take what a read view or the binlog shows.
Copying == DumpBegins \/ DumpEnds \/ Archive \/ CountOrders \/ ReadStock \/ RestartRelay

LEMMA CopyInductive == IInv /\ Copying => IInv'
<1> SUFFICES ASSUME IInv, Copying PROVE IInv'
  OBVIOUS
<1> USE StockAssumption, BoundsAssumption
<1>1. /\ UNCHANGED <<db, nextId, open, ledger, topic, skipped, site, injected>>
      /\ safe' \in [{"site", "dump", "backup"} -> SUBSET ledger]
  BY DEF Copying, DumpBegins, DumpEnds, Dumped, Archive, CountOrders, ReadStock, Accounted,
         RestartRelay, IInv, TypeOK
<1>2. TypeOK' /\ SnapshotFits'
  <2>1. CASE CountOrders
    <3>1. Cardinality(db.orders) \in Nat /\ db.stock \in 0 .. InitStock
      BY FS_CardinalityType DEF IInv, Sound, TypeOK, TablesType
    <3>2. Cardinality(db.orders) + db.stock = InitStock
      BY DEF IInv, Sound
    <3>3. water'.orders + water'.view = InitStock
      BY <2>1, <3>2 DEF CountOrders
    <3> QED BY <1>1, <2>1, <3>1, <3>3 DEF CountOrders, IInv, TypeOK, SnapshotFits
  <2>2. CASE ReadStock
    BY <1>1, <2>2 DEF ReadStock, Accounted, IInv, TypeOK, SnapshotFits
  <2>3. CASE DumpBegins
    BY <1>1, <2>3 DEF DumpBegins, IInv, TypeOK, SnapshotFits
  <2>4. CASE DumpEnds
    BY <1>1, <2>4 DEF DumpEnds, Dumped, IInv, TypeOK, SnapshotFits
  <2>5. CASE Archive
    BY <1>1, <2>5 DEF Archive, IInv, TypeOK, SnapshotFits
  <2>6. CASE RestartRelay
    BY <1>1, <2>6 DEF RestartRelay, IInv, TypeOK, SnapshotFits
  <2> QED BY <2>1, <2>2, <2>3, <2>4, <2>5, <2>6 DEF Copying
<1>3. Copies'
  BY <1>1 DEF Copying, DumpBegins, DumpEnds, Dumped, Archive, CountOrders, ReadStock, Accounted,
              RestartRelay, IInv, Copies
<1>4. LedgerFits'
  BY <1>1 DEF Copying, DumpBegins, DumpEnds, Dumped, Archive, CountOrders, ReadStock, Accounted,
              RestartRelay, DbRuns, IInv, LedgerFits
<1>5. Sound(db, injected)' /\ TopicFits' /\ IdsFit'
  BY <1>1 DEF IInv, TopicFits, Messaged, IdsFit
<1>6. SafeFits'
  <2>1. CASE DumpBegins
    BY <2>1 DEF DumpBegins, IInv, TypeOK, SafeFits
  <2>2. CASE DumpEnds
    BY <2>2 DEF DumpEnds, Dumped, IInv, TypeOK, SafeFits
  <2>3. CASE Archive
    BY <2>3 DEF Archive, IInv, TypeOK, SafeFits
  <2>4. CASE CountOrders \/ ReadStock \/ RestartRelay
    BY <2>4, SafeKept DEF CountOrders, ReadStock, RestartRelay
  <2> QED BY <2>1, <2>2, <2>3, <2>4 DEF Copying
<1> QED BY <1>2, <1>3, <1>4, <1>5, <1>6 DEF IInv

LEMMA LoseInductive == IInv /\ Lose => IInv'
<1> SUFFICES ASSUME IInv, Lose PROVE IInv'
  OBVIOUS
<1> USE BoundsAssumption
<1>1. UNCHANGED <<db, nextId, ledger, backup, safe, balance, topic, skipped, era, bounds>>
  BY DEF Lose
<1>2. TypeOK'
  BY <1>1 DEF Lose, IInv, TypeOK
<1>3. LedgerFits'
  BY <1>1 DEF Lose, IInv, LedgerFits, TypeOK, Eras
<1>4. IdsFit' /\ SnapshotFits' /\ Copies' /\ SafeFits'
  BY <1>1 DEF Lose, IInv, IdsFit, SnapshotFits, Copies, SafeFits
<1>5. Sound(db, injected)' /\ TopicFits'
  BY <1>1 DEF IInv, TopicFits, Messaged
<1> QED BY <1>2, <1>3, <1>4, <1>5 DEF IInv

\* What is restored is sound and no more than there was.
LEMMA RestoreInductive == IInv /\ Restore => IInv'
<1> SUFFICES ASSUME IInv, Restore PROVE IInv'
  OBVIOUS
<1> USE BoundsAssumption
<1>1. /\ db' = backup /\ topic' = {} /\ skipped' = {} /\ phase' = "imported"
      /\ nextId' \in 1 .. nextId /\ \A i \in IdsOf(backup) : i < nextId'
      /\ phase = "down" /\ backup # NoTables /\ era' = era + 1
      /\ safe' = [safe EXCEPT !.site = safe.backup]
  BY DEF Restore, Import, Counters
<1>2. UNCHANGED <<open, ledger, dump, backup, water, balance, sending, injected, dumps>>
  BY DEF Restore, Import
<1>3. era < MaxEra /\ era \in Nat /\ open = [k \in Keys |-> 0]
  BY <1>1 DEF IInv, LedgerFits, TypeOK, Eras
<1>b. /\ backup \in TablesType /\ Sound(backup, injected)
      /\ backup.orders \subseteq db.orders /\ safe.backup \subseteq backup.orders
  BY <1>1 DEF IInv, TypeOK, Copies, SafeFits
<1>4. TypeOK'
  <2>1. era' \in Eras
    BY <1>1, <1>3 DEF Eras
  <2>2. nextId' \in 1 .. MaxId + 1
    BY <1>1 DEF IInv, TypeOK
  <2>3. safe' \in [{"site", "dump", "backup"} -> SUBSET ledger]
    BY <1>1 DEF IInv, TypeOK
  <2> QED BY <1>1, <1>2, <1>b, <2>1, <2>2, <2>3 DEF IInv, TypeOK
<1>5. IdsFit'
  BY <1>1, <1>2, <1>3, <1>b DEF IInv, IdsFit, IdsOf
<1>6. LedgerFits'
  <2>1. era' = 1 => \A e \in ledger' : \A o \in db'.orders : e.id = o.id => e = o
    BY <1>1, <1>2, <1>3, <1>b DEF IInv, LedgerFits
  <2> QED BY <1>1, <1>2, <1>3, <2>1 DEF LedgerFits
<1>7. dump = NoTables
  BY <1>1 DEF IInv, LedgerFits
<1>8. Copies'
  BY <1>1, <1>2, <1>7 DEF IInv, Copies
<1>9. SafeFits'
  <2>1. safe'.site = safe.backup /\ safe'.backup = safe.backup
    BY <1>1 DEF IInv, TypeOK
  <2> QED BY <1>1, <1>2, <1>b, <1>7, <2>1 DEF SafeFits
<1>10. Sound(db, injected)' /\ TopicFits' /\ SnapshotFits'
  BY <1>1, <1>2, <1>b DEF IInv, TopicFits, Messaged, SnapshotFits
<1> QED BY <1>4, <1>5, <1>6, <1>8, <1>9, <1>10 DEF IInv

LEMMA Inductive == IInv /\ [Next]_vars => IInv'
<1> SUFFICES ASSUME IInv, [Next]_vars PROVE IInv'
  OBVIOUS
<1>1. ASSUME NEW k \in Keys, Begin(k) \/ Commit(k) \/ Abort(k) \/ Answer(k) PROVE IInv'
  BY <1>1, BeginInductive, CommitInductive, AbortInductive, AnswerInductive
<1>2. CASE Inject
  BY <1>2, InjectInductive
<1>3. CASE Publish
  BY <1>3, PublishInductive
<1>4. CASE Mark \/ GiveUp \/ Resume
  BY <1>4, StatusInductive
<1>5. ASSUME NEW m \in topic, Process(m) \/ Skip(m) PROVE IInv'
  BY <1>5, ProcessInductive, SkipInductive
<1>6. CASE Copying
  BY <1>6, CopyInductive
<1>7. CASE Lose
  BY <1>7, LoseInductive
<1>8. CASE Restore
  BY <1>8, RestoreInductive
<1>9. CASE StartApi
  <2>1. TypeOK' /\ LedgerFits'
    BY <1>9 DEF StartApi, IInv, TypeOK, LedgerFits
  <2>2. SafeFits'
    BY <1>9, SafeKept DEF StartApi
  <2> QED BY <1>9, <2>1, <2>2 DEF StartApi, IInv, TopicFits, Messaged, IdsFit, Copies, SnapshotFits
<1>10. CASE UNCHANGED vars
  <2>1. TypeOK' /\ LedgerFits'
    BY <1>10 DEF vars, IInv, TypeOK, LedgerFits
  <2>2. SafeFits'
    BY <1>10, SafeKept DEF vars
  <2> QED BY <1>10, <2>1, <2>2 DEF vars, IInv, TopicFits, Messaged, IdsFit, Copies, SnapshotFits
<1> QED BY <1>1, <1>2, <1>3, <1>4, <1>5, <1>6, <1>7, <1>8, <1>9, <1>10 DEF Next, Copying

-----------------------------------------------------------------------------
\* The variables keep their types, across every disaster and recovery.
THEOREM TypeCorrect == Spec => []TypeOK
<1>1. IInv => TypeOK
  BY DEF IInv
<1> QED BY <1>1, Initially, Inductive, PTL DEF Spec

\* reconcile main.go:220-230, 281: whenever the reconciler is run, before a
\* disaster or after a recovery, the rows of real orders and the snapshot agree.
THEOREM ReconcilerSilent == Spec => []NoFalseAlarm
<1>1. IInv => NoFalseAlarm
  <2> SUFFICES ASSUME IInv PROVE NoFalseAlarm
    OBVIOUS
  <2>1. OrdersWithoutEvent = {} /\ InboxOrphans = {}
    BY DEF IInv, Sound, OrdersWithoutEvent, InboxOrphans
  <2>2. \A n \in NotifsWithoutOrder : n.order <= 0
    BY DEF IInv, Sound, NotifsWithoutOrder, TypeOK, TablesType
  <2> QED BY <2>1, <2>2 DEF NoFalseAlarm, IInv, SnapshotFits
<1> QED BY <1>1, Initially, Inductive, PTL DEF Spec

\* reconcile main.go:14-15, 341-361: before a disaster no order a client was told
\* of is lost; after one, none that it was told of before the backup was taken,
\* and no id stands for another client's order before orders are placed again.
THEOREM LossIsBounded == Spec => []LossBounded
<1>1. IInv => LossBounded
  <2> SUFFICES ASSUME IInv PROVE LossBounded
    OBVIOUS
  <2>1. era = 0 => Lost = {} /\ Mismatched = {}
    BY DEF IInv, LedgerFits, Lost, Mismatched, IdsOf
  <2>2. safe.site \cup backup.orders \subseteq db.orders
    BY DEF IInv, Copies, SafeFits, NoTables, Tables
  <2>3. (Lost \cup Mismatched) \cap (safe.site \cup backup.orders) = {}
    BY <2>2 DEF Lost, Mismatched, IdsOf
  <2>4. (phase = "imported" /\ era = 1) => Mismatched = {}
    BY DEF IInv, LedgerFits, Mismatched, IdsOf
  <2> QED BY <2>1, <2>3, <2>4 DEF LossBounded
<1> QED BY <1>1, Initially, Inductive, PTL DEF Spec

-----------------------------------------------------------------------------
\* What tables say of events and notifications: an event has one row, it is that
\* of an order of the client it names or was injected, and it was consumed
\* together with the notification of its order.
Traced(t, low) ==
    /\ \A r, q \in t.outbox : r.event = q.event => r.order = q.order
    /\ \A r \in t.outbox : UserOf(r.event) \in Keys =>
          \E o \in t.orders : o.id = r.order /\ o.key = UserOf(r.event)
    /\ \A r \in t.outbox : UserOf(r.event) \notin Keys => r.order <= 0 /\ r.event[2] <= low
    /\ \A n \in t.notifs, o \in t.orders : n.order = o.id => n.user = o.key
    /\ \A m, n \in t.notifs : m.order = n.order => m = n
    /\ \A r \in t.outbox : r.event \in t.inbox => \E n \in t.notifs : n.order = r.order

\* While relay and consumer run, what was SENT and not consumed is in the topic,
\* passed or not.
OnItsWay ==
    /\ sending # {} => phase = "up"
    /\ \A e \in sending : \E m \in Messaged : m.event = e
    /\ phase = "up" =>
          \A r \in db.outbox :
             r.status = "SENT" => r.event \in db.inbox \/ Message(r) \in Messaged

\* Who has a transaction open has no order yet.
OpenIsNew == \A k \in Keys : open[k] # 0 => ~Ordered(k)

DInv ==
    /\ IInv
    /\ Traced(db, injected)
    /\ dump # NoTables => Traced(dump, injected)
    /\ backup # NoTables => Traced(backup, injected)
    /\ OpenIsNew
    /\ OnItsWay

\* The event of a row says whose it is.
LEMMA EventKinds ==
    ASSUME NEW e \in Events
    PROVE  \/ UserOf(e) \in Keys /\ e[2] \in Nat
           \/ UserOf(e) = "replay" /\ UserOf(e) \notin Keys /\ e[2] \in Nat
<1>1. CASE e \in Keys \X Eras
  BY <1>1, BoundsAssumption DEF UserOf, Eras
<1>2. CASE e \in {"replay"} \X (1 .. MaxReplays)
  <2>1. e[1] = "replay" /\ e[2] \in 1 .. MaxReplays
    BY <1>2
  <2> QED BY <2>1, KeysAssumption, BoundsAssumption DEF UserOf
<1> QED BY <1>1, <1>2 DEF Events

LEMMA TracedLower ==
    ASSUME NEW t \in TablesType, NEW low \in Nat, NEW lower \in Nat, low <= lower,
           Traced(t, low)
    PROVE  Traced(t, lower)
<1>1. \A r \in t.outbox : r.event \in Events
  BY DEF TablesType
<1>2. \A r \in t.outbox : UserOf(r.event) \notin Keys => r.event[2] \in Nat
  BY <1>1, EventKinds
<1> QED BY <1>2 DEF Traced

\* Copies of the tables stay traced while events are injected.
LEMMA TracedCopies ==
    ASSUME DInv, UNCHANGED <<dump, backup>>, injected' \in Nat, injected <= injected'
    PROVE  /\ dump' # NoTables => Traced(dump', injected')
           /\ backup' # NoTables => Traced(backup', injected')
BY TracedLower DEF DInv, IInv, TypeOK

LEMMA BeginTraced == ASSUME DInv, NEW k \in Keys, Begin(k) PROVE DInv'
<1>1. UNCHANGED <<db, dump, backup, topic, skipped, sending, phase, injected>>
  BY DEF Begin
<1>2. OpenIsNew'
  BY <1>1 DEF Begin, DInv, IInv, TypeOK, OpenIsNew, Ordered
<1>3. OnItsWay'
  BY <1>1 DEF DInv, OnItsWay, Messaged
<1>4. IInv'
  BY BeginInductive DEF DInv
<1> QED BY <1>1, <1>2, <1>3, <1>4 DEF DInv

LEMMA CommitTraced == ASSUME DInv, NEW k \in Keys, Commit(k) PROVE DInv'
<1> USE BoundsAssumption
<1> DEFINE o == [id |-> open[k], key |-> k]
           r == [event |-> <<k, era>>, order |-> open[k], status |-> "PENDING"]
<1>1. /\ db \in TablesType /\ Sound(db, injected) /\ Traced(db, injected)
      /\ open[k] \in 1 .. MaxId /\ open[k] \notin IdsOf(db)
      /\ \A p \in db.orders : p.key # k
  BY DEF Commit, DInv, IInv, TypeOK, IdsFit, OpenIsNew, Ordered
<1>2. /\ db'.orders = db.orders \cup {o} /\ db'.outbox = db.outbox \cup {r}
      /\ db'.inbox = db.inbox /\ db'.notifs = db.notifs
  BY <1>1 DEF Commit, TablesType
<1>3. UNCHANGED <<dump, backup, topic, skipped, sending, phase, injected>>
  BY DEF Commit
<1>r. /\ o.id = open[k] /\ o.key = k /\ r.event = <<k, era>> /\ r.order = open[k]
      /\ r.status = "PENDING" /\ UserOf(r.event) = k
  BY DEF UserOf
<1> HIDE DEF o, r
<1>4. \A q \in db.outbox : UserOf(q.event) # k /\ q.event # r.event
  BY <1>1, <1>r DEF Traced
<1>5. r.event \notin db.inbox
  BY <1>1, <1>4 DEF Sound
<1>6. \A n \in db.notifs : n.order # open[k]
  BY <1>1 DEF Sound
<1>7. Traced(db, injected)'
  <2>1. \A p, q \in db'.outbox : p.event = q.event => p.order = q.order
    BY <1>1, <1>2, <1>4 DEF Traced
  <2>2. \A q \in db'.outbox : UserOf(q.event) \in Keys =>
           \E p \in db'.orders : p.id = q.order /\ p.key = UserOf(q.event)
    BY <1>1, <1>2, <1>r DEF Traced
  <2>3. \A q \in db'.outbox : UserOf(q.event) \notin Keys => q.order <= 0 /\ q.event[2] <= injected
    BY <1>1, <1>2, <1>r DEF Traced
  <2>4. \A n \in db'.notifs, p \in db'.orders : n.order = p.id => n.user = p.key
    BY <1>1, <1>2, <1>r, <1>6 DEF Traced
  <2>5. \A q \in db'.outbox : q.event \in db'.inbox => \E n \in db'.notifs : n.order = q.order
    BY <1>1, <1>2, <1>5 DEF Traced
  <2>6. \A m, n \in db'.notifs : m.order = n.order => m = n
    BY <1>1, <1>2 DEF Traced
  <2> QED BY <1>3, <2>1, <2>2, <2>3, <2>4, <2>5, <2>6 DEF Traced
<1>8. OpenIsNew'
  <2>1. open' = [open EXCEPT ![k] = 0]
    BY DEF Commit
  <2> QED BY <1>2, <1>r, <2>1 DEF DInv, IInv, TypeOK, OpenIsNew, Ordered
<1>9. OnItsWay'
  BY <1>2, <1>3, <1>r DEF DInv, OnItsWay, Messaged, Message
<1>10. IInv'
  BY CommitInductive DEF DInv
<1> QED BY <1>3, <1>7, <1>8, <1>9, <1>10 DEF DInv

LEMMA AbortTraced == ASSUME DInv, NEW k \in Keys, Abort(k) \/ Answer(k) PROVE DInv'
<1>1. UNCHANGED <<db, dump, backup, topic, skipped, sending, phase, injected>>
  BY DEF Abort, Answer
<1>2. OpenIsNew'
  BY <1>1 DEF Abort, Answer, DInv, IInv, TypeOK, OpenIsNew, Ordered
<1>3. OnItsWay'
  BY <1>1 DEF DInv, OnItsWay, Messaged
<1>4. IInv'
  BY AbortInductive, AnswerInductive DEF DInv
<1> QED BY <1>1, <1>2, <1>3, <1>4 DEF DInv

LEMMA InjectTraced == DInv /\ Inject => DInv'
<1> SUFFICES ASSUME DInv, Inject PROVE DInv'
  OBVIOUS
<1> USE BoundsAssumption
<1> DEFINE r == [event |-> <<"replay", injected'>>, order |-> ReplayId, status |-> "PENDING"]
<1>1. /\ db \in TablesType /\ Sound(db, injected) /\ Traced(db, injected)
      /\ injected \in Nat /\ injected' = injected + 1
      /\ ReplayId \in Int /\ ReplayId <= 0
  BY ReplayIdBounds DEF Inject, DInv, IInv, TypeOK
<1>2. /\ db'.orders = db.orders /\ db'.outbox = db.outbox \cup {r}
      /\ db'.inbox = db.inbox /\ db'.notifs = db.notifs
  BY <1>1 DEF Inject, TablesType
<1>3. UNCHANGED <<open, dump, backup, topic, skipped, sending, phase>>
  BY DEF Inject
<1>r. /\ r.event = <<"replay", injected'>> /\ r.order = ReplayId /\ r.status = "PENDING"
      /\ UserOf(r.event) = "replay" /\ UserOf(r.event) \notin Keys /\ r.event[2] = injected + 1
  BY <1>1, KeysAssumption DEF UserOf
<1> HIDE DEF r
<1>4. \A q \in db.outbox : q.event # r.event
  <2> SUFFICES ASSUME NEW q \in db.outbox, q.event = r.event PROVE FALSE
    OBVIOUS
  <2>1. q.event[2] <= injected
    BY <1>1, <1>r DEF Traced
  <2> QED BY <1>1, <1>r, <2>1
<1>5. r.event \notin db.inbox
  BY <1>1, <1>4 DEF Sound
<1>6. Traced(db, injected)'
  <2>1. \A p, q \in db'.outbox : p.event = q.event => p.order = q.order
    BY <1>1, <1>2, <1>4 DEF Traced
  <2>2. \A q \in db'.outbox : UserOf(q.event) \in Keys =>
           \E p \in db'.orders : p.id = q.order /\ p.key = UserOf(q.event)
    BY <1>1, <1>2, <1>r DEF Traced
  <2>3. Traced(db, injected + 1)
    BY <1>1, TracedLower
  <2>4. \A q \in db'.outbox : UserOf(q.event) \notin Keys =>
           q.order <= 0 /\ q.event[2] <= injected'
    BY <1>1, <1>2, <1>r, <2>3 DEF Traced
  <2>5. \A q \in db'.outbox : q.event \in db'.inbox => \E n \in db'.notifs : n.order = q.order
    BY <1>1, <1>2, <1>5 DEF Traced
  <2> QED BY <1>1, <1>2, <2>1, <2>2, <2>4, <2>5 DEF Traced
<1>7. OnItsWay' /\ OpenIsNew'
  BY <1>2, <1>3, <1>r DEF DInv, OnItsWay, Messaged, OpenIsNew, Ordered, Message
<1>8. IInv'
  BY InjectInductive DEF DInv
<1> QED BY <1>1, <1>3, <1>6, <1>7, <1>8, TracedCopies DEF DInv

\* A statement that changes the status of rows keeps what they are traced by.
LEMMA StatusTraced ==
    ASSUME NEW t, NEW u, NEW low, Traced(t, low),
           u.orders = t.orders, u.inbox = t.inbox, u.notifs = t.notifs,
           \A q \in u.outbox : \E r \in t.outbox : q.event = r.event /\ q.order = r.order
    PROVE  Traced(u, low)
BY DEF Traced

LEMMA OutboxFields ==
    ASSUME NEW rows, db \in TablesType, db' = [db EXCEPT !.outbox = rows]
    PROVE  /\ db'.orders = db.orders /\ db'.outbox = rows
           /\ db'.inbox = db.inbox /\ db'.notifs = db.notifs
BY DEF TablesType

LEMMA PublishTraced == DInv /\ Publish => DInv'
<1> SUFFICES ASSUME DInv, Publish PROVE DInv'
  OBVIOUS
<1>1. PICK row \in db.outbox :
         /\ Messaged' = Messaged \cup {Message(row)} /\ sending' = {row.event}
         /\ topic' = topic \cup {Message(row)} /\ skipped' = skipped \ {Message(row)}
  BY DEF Publish, Messaged
<1>2. UNCHANGED <<db, open, dump, backup, phase, injected>> /\ phase = "up"
  BY DEF Publish
<1>3. OnItsWay'
  <2>0. Message(row).event = row.event
    BY DEF Message
  <2>1. \A e \in sending' : \E m \in Messaged' : m.event = e
    BY <1>1, <2>0
  <2> QED BY <1>1, <1>2, <2>1 DEF DInv, OnItsWay
<1>4. OpenIsNew'
  BY <1>2 DEF DInv, OpenIsNew, Ordered
<1>5. IInv'
  BY PublishInductive DEF DInv
<1> QED BY <1>2, <1>3, <1>4, <1>5 DEF DInv

\* What the relay has published and not marked is in the topic as its row is.
LEMMA SendingIsInTopic ==
    ASSUME DInv, NEW r \in db.outbox, r.event \in sending
    PROVE  Message(r) \in Messaged
<1>1. PICK m \in Messaged : m.event = r.event
  BY DEF DInv, OnItsWay, Messaged
<1>2. PICK q \in db.outbox : q.event = m.event /\ q.order = m.order
  BY DEF DInv, IInv, TopicFits, Messaged
<1>3. m.order = r.order
  BY <1>1, <1>2 DEF DInv, Traced
<1>4. m \in [event : Events, order : Int]
  BY DEF DInv, IInv, TypeOK, Messages, Messaged
<1>5. m = [event |-> r.event, order |-> r.order]
  BY <1>1, <1>3, <1>4
<1> QED BY <1>5 DEF Message

LEMMA MarkTraced == DInv /\ Mark => DInv'
<1> SUFFICES ASSUME DInv, Mark PROVE DInv'
  OBVIOUS
<1> DEFINE rows == {IF row.event \in sending THEN [row EXCEPT !.status = "SENT"] ELSE row
                      : row \in db.outbox}
<1>1. /\ db \in TablesType /\ Traced(db, injected) /\ injected \in Nat
      /\ db.outbox \in SUBSET Row
  BY BoundsAssumption DEF DInv, IInv, TypeOK, TablesType, Row
<1>2. \A q \in rows : \E r \in db.outbox :
         /\ q.event = r.event /\ q.order = r.order
         /\ r.event \in sending \/ q = r
  <2>1. \A r \in db.outbox : LET q == [r EXCEPT !.status = "SENT"] IN
           q \in Row /\ q.event = r.event /\ q.order = r.order
    BY <1>1, NewStatus
  <2> QED BY <1>1, <2>1
<1>3. db' = [db EXCEPT !.outbox = rows] /\ sending' = {}
  BY DEF Mark
<1>4. UNCHANGED <<open, dump, backup, topic, skipped, phase, injected>>
  BY DEF Mark
<1> HIDE DEF rows
<1>5. /\ Traced(db', injected) /\ db'.orders = db.orders /\ db'.outbox = rows
      /\ db'.inbox = db.inbox /\ db'.notifs = db.notifs
  <2>1. /\ db'.orders = db.orders /\ db'.outbox = rows
        /\ db'.inbox = db.inbox /\ db'.notifs = db.notifs
    BY <1>1, <1>3, OutboxFields
  <2>2. \A q \in db'.outbox : \E r \in db.outbox : q.event = r.event /\ q.order = r.order
    BY <1>2, <2>1
  <2>3. Traced(db', injected)
    BY <1>1, <2>1, <2>2, StatusTraced
  <2> QED BY <2>1, <2>3
<1>6. OnItsWay'
  <2>1. ASSUME phase = "up", NEW q \in rows, q.status = "SENT"
        PROVE  q.event \in db.inbox \/ Message(q) \in Messaged
    <3>1. PICK r \in db.outbox : /\ q.event = r.event /\ q.order = r.order
                                 /\ r.event \in sending \/ q = r
      BY <1>2
    <3>2. CASE r.event \in sending
      BY <3>1, <3>2, SendingIsInTopic DEF Message
    <3>3. CASE q = r
      BY <2>1, <3>3 DEF DInv, OnItsWay, Messaged
    <3> QED BY <3>1, <3>2, <3>3
  <2> QED BY <1>3, <1>4, <1>5, <2>1 DEF OnItsWay, Messaged, Message
<1>7. OpenIsNew'
  BY <1>4, <1>5 DEF DInv, OpenIsNew, Ordered
<1>8. IInv'
  BY StatusInductive DEF DInv
<1> QED BY <1>4, <1>5, <1>6, <1>7, <1>8 DEF DInv

LEMMA GiveUpTraced == DInv /\ GiveUp => DInv'
<1> SUFFICES ASSUME DInv, GiveUp PROVE DInv'
  OBVIOUS
<1>0. PICK dead \in db.outbox :
         db' = [db EXCEPT !.outbox = (@ \ {dead}) \cup {[dead EXCEPT !.status = "DEAD"]}]
  BY DEF GiveUp
<1> DEFINE rows == (db.outbox \ {dead}) \cup {[dead EXCEPT !.status = "DEAD"]}
<1>1. /\ db \in TablesType /\ Traced(db, injected) /\ injected \in Nat
      /\ db.outbox \in SUBSET Row
  BY BoundsAssumption DEF DInv, IInv, TypeOK, TablesType, Row
<1>2. \A q \in rows : \E r \in db.outbox :
         /\ q.event = r.event /\ q.order = r.order
         /\ q.status = "DEAD" \/ q = r
  <2>1. /\ [dead EXCEPT !.status = "DEAD"].event = dead.event
        /\ [dead EXCEPT !.status = "DEAD"].order = dead.order
        /\ [dead EXCEPT !.status = "DEAD"].status = "DEAD"
    BY <1>1 DEF Row
  <2> QED BY <1>1, <2>1
<1>3. db' = [db EXCEPT !.outbox = rows]
  BY <1>0
<1>4. UNCHANGED <<open, dump, backup, topic, skipped, sending, phase, injected>>
  BY DEF GiveUp
<1> HIDE DEF rows
<1>5. /\ Traced(db', injected) /\ db'.orders = db.orders /\ db'.outbox = rows
      /\ db'.inbox = db.inbox /\ db'.notifs = db.notifs
  <2>1. /\ db'.orders = db.orders /\ db'.outbox = rows
        /\ db'.inbox = db.inbox /\ db'.notifs = db.notifs
    BY <1>1, <1>3, OutboxFields
  <2>2. \A q \in db'.outbox : \E r \in db.outbox : q.event = r.event /\ q.order = r.order
    BY <1>2, <2>1
  <2>3. Traced(db', injected)
    BY <1>1, <2>1, <2>2, StatusTraced
  <2> QED BY <2>1, <2>3
<1>6. OnItsWay'
  <2>1. ASSUME phase = "up", NEW q \in rows, q.status = "SENT"
        PROVE  q.event \in db.inbox \/ Message(q) \in Messaged
    BY <1>2, <2>1 DEF DInv, OnItsWay, Messaged
  <2> QED BY <1>4, <1>5, <2>1 DEF DInv, OnItsWay, Messaged, Message
<1>7. OpenIsNew'
  BY <1>4, <1>5 DEF DInv, OpenIsNew, Ordered
<1>8. IInv'
  BY StatusInductive DEF DInv
<1> QED BY <1>4, <1>5, <1>6, <1>7, <1>8 DEF DInv

LEMMA ResumeTraced == DInv /\ Resume => DInv'
<1> SUFFICES ASSUME DInv, Resume PROVE DInv'
  OBVIOUS
<1> DEFINE rows == {IF InScope(row) THEN [row EXCEPT !.status = "PENDING"] ELSE row
                      : row \in db.outbox}
<1>1. /\ db \in TablesType /\ Traced(db, injected) /\ injected \in Nat
      /\ db.outbox \in SUBSET Row /\ sending = {}
  BY BoundsAssumption DEF Resume, DInv, IInv, TypeOK, TablesType, Row, OnItsWay
<1>2. \A q \in rows : \E r \in db.outbox :
         /\ q.event = r.event /\ q.order = r.order
         /\ q.status = "SENT" => q.event \in db.inbox
  <2>1. ASSUME NEW r \in db.outbox
        PROVE  LET q == [r EXCEPT !.status = "PENDING"] IN
                 q.event = r.event /\ q.order = r.order /\ q.status = "PENDING"
    BY <1>1 DEF Row
  <2>2. \A r \in db.outbox : ~InScope(r) /\ r.status = "SENT" => r.event \in db.inbox
    BY DEF InScope
  <2> QED BY <2>1, <2>2
<1>3. db' = [db EXCEPT !.outbox = rows]
  BY DEF Resume
<1>4. UNCHANGED <<open, dump, backup, topic, skipped, sending, injected>> /\ phase' = "up"
  BY DEF Resume
<1> HIDE DEF rows
<1>5. /\ Traced(db', injected) /\ db'.orders = db.orders /\ db'.outbox = rows
      /\ db'.inbox = db.inbox /\ db'.notifs = db.notifs
  <2>1. /\ db'.orders = db.orders /\ db'.outbox = rows
        /\ db'.inbox = db.inbox /\ db'.notifs = db.notifs
    BY <1>1, <1>3, OutboxFields
  <2>2. \A q \in db'.outbox : \E r \in db.outbox : q.event = r.event /\ q.order = r.order
    BY <1>2, <2>1
  <2>3. Traced(db', injected)
    BY <1>1, <2>1, <2>2, StatusTraced
  <2> QED BY <2>1, <2>3
<1>6. OnItsWay'
  BY <1>1, <1>2, <1>4, <1>5 DEF OnItsWay, Messaged
<1>7. OpenIsNew'
  BY <1>4, <1>5 DEF DInv, OpenIsNew, Ordered
<1>8. IInv'
  BY StatusInductive DEF DInv
<1> QED BY <1>4, <1>5, <1>6, <1>7, <1>8 DEF DInv

LEMMA SkipTraced == ASSUME DInv, NEW m \in topic, Skip(m) PROVE DInv'
<1>1. UNCHANGED <<db, open, dump, backup, sending, phase, injected>> /\ Messaged' = Messaged
  BY DEF Skip, Messaged
<1>2. OnItsWay' /\ OpenIsNew'
  BY <1>1 DEF DInv, OnItsWay, OpenIsNew, Ordered
<1>3. IInv'
  BY SkipInductive DEF DInv
<1> QED BY <1>1, <1>2, <1>3 DEF DInv

LEMMA ProcessTraced == ASSUME DInv, NEW m \in topic, Process(m) PROVE DInv'
<1> USE BoundsAssumption
<1> DEFINE n == [order |-> m.order, user |-> UserOf(m.event)]
<1>1. PICK r \in db.outbox : r.event = m.event /\ r.order = m.order
  BY DEF DInv, IInv, TopicFits, Messaged
<1>2. /\ db \in TablesType /\ Traced(db, injected) /\ injected \in Nat
      /\ r.order \in Int /\ r.event \in Events
  BY DEF DInv, IInv, TypeOK, TablesType
<1>3. /\ db'.orders = db.orders /\ db'.outbox = db.outbox
      /\ db'.inbox = db.inbox \cup {m.event}
      /\ db'.notifs = IF \E x \in db.notifs : x.order = m.order THEN db.notifs
                      ELSE db.notifs \cup {n}
  BY <1>2 DEF Process, TablesType
<1>4. UNCHANGED <<open, dump, backup, topic, skipped, sending, phase, injected>>
  BY DEF Process
<1>n. n.order = r.order /\ n.user = UserOf(r.event)
  BY <1>1
<1>5. \A o \in db.orders : o.id = r.order => o.key = UserOf(r.event)
  <2> SUFFICES ASSUME NEW o \in db.orders, o.id = r.order PROVE o.key = UserOf(r.event)
    OBVIOUS
  <2>1. r.order > 0
    BY <1>2 DEF TablesType
  <2>2. UserOf(r.event) \in Keys
    BY <1>2, <2>1 DEF Traced
  <2>3. PICK p \in db.orders : p.id = r.order /\ p.key = UserOf(r.event)
    BY <1>2, <2>2 DEF Traced
  <2>4. o = p
    BY <2>3 DEF DInv, IInv, IdsFit
  <2> QED BY <2>3, <2>4
<1> HIDE DEF n
<1>6. Traced(db', injected)
  <2>1. \A x \in db'.notifs, o \in db'.orders : x.order = o.id => x.user = o.key
    BY <1>2, <1>3, <1>5, <1>n DEF Traced
  <2>2. \A x, y \in db'.notifs : x.order = y.order => x = y
    BY <1>1, <1>2, <1>3, <1>n DEF Traced
  <2>3. \E x \in db'.notifs : x.order = r.order
    BY <1>1, <1>3, <1>n
  <2>4. db.notifs \subseteq db'.notifs
    BY <1>3
  <2>5. \A q \in db'.outbox : q.event \in db'.inbox => \E x \in db'.notifs : x.order = q.order
    BY <1>1, <1>2, <1>3, <2>3, <2>4 DEF Traced
  <2> QED BY <1>2, <1>3, <2>1, <2>2, <2>5 DEF Traced
<1>7. OnItsWay' /\ OpenIsNew'
  BY <1>3, <1>4 DEF DInv, OnItsWay, Messaged, OpenIsNew, Ordered, Message
<1>8. IInv'
  BY ProcessInductive DEF DInv
<1> QED BY <1>4, <1>6, <1>7, <1>8 DEF DInv

LEMMA CopyTraced == DInv /\ Copying => DInv'
<1> SUFFICES ASSUME DInv, Copying PROVE DInv'
  OBVIOUS
<1>1. /\ UNCHANGED <<db, open, topic, skipped, phase, injected>> /\ sending' \in {sending, {}}
      /\ dump' \in {dump, db, NoTables}
      /\ backup' \in {backup, db} \/ (dump # NoTables /\ backup' = dump)
  BY DEF Copying, Archive, Dumped, DumpBegins, DumpEnds, CountOrders, ReadStock, Accounted,
         RestartRelay
<1>2. OnItsWay' /\ OpenIsNew'
  BY <1>1 DEF DInv, OnItsWay, Messaged, OpenIsNew, Ordered
<1>3. IInv'
  BY CopyInductive DEF DInv
<1>4. Traced(db, injected)'
  BY <1>1 DEF DInv
<1>5. /\ dump' # NoTables => Traced(dump', injected)
      /\ backup' # NoTables => Traced(backup', injected)
  BY <1>1 DEF DInv
<1> QED BY <1>1, <1>2, <1>3, <1>4, <1>5 DEF DInv

LEMMA LoseTraced == DInv /\ (Lose \/ StartApi) => DInv'
<1> SUFFICES ASSUME DInv, Lose \/ StartApi PROVE DInv'
  OBVIOUS
<1>1. /\ UNCHANGED <<db, backup, topic, skipped, injected>> /\ dump' \in {dump, NoTables}
      /\ sending' = {} /\ phase' \in {"down", "api"}
      /\ open' = open \/ open' = [k \in Keys |-> 0]
  BY DEF Lose, StartApi, DInv, OnItsWay
<1>2. OnItsWay' /\ OpenIsNew'
  BY <1>1 DEF DInv, OnItsWay, Messaged, OpenIsNew, Ordered
<1>3. IInv'
  BY Inductive DEF DInv, Next
<1> QED BY <1>1, <1>2, <1>3 DEF DInv

LEMMA RestoreTraced == DInv /\ Restore => DInv'
<1> SUFFICES ASSUME DInv, Restore PROVE DInv'
  OBVIOUS
<1>1. /\ db' = backup /\ backup # NoTables /\ phase' = "imported"
      /\ phase = "down" /\ UNCHANGED <<open, dump, backup, sending, injected>>
  BY DEF Restore, Import
<1>2. sending = {} /\ open = [k \in Keys |-> 0]
  BY <1>1 DEF DInv, OnItsWay, Messaged, IInv, LedgerFits
<1>3. OnItsWay' /\ OpenIsNew'
  BY <1>1, <1>2 DEF OnItsWay, OpenIsNew
<1>4. Traced(db, injected)'
  BY <1>1 DEF DInv
<1>5. IInv'
  BY Inductive DEF DInv, Next
<1> QED BY <1>1, <1>3, <1>4, <1>5 DEF DInv

LEMMA TracedInductive == DInv /\ [Next]_vars => DInv'
<1> SUFFICES ASSUME DInv, [Next]_vars PROVE DInv'
  OBVIOUS
<1>1. ASSUME NEW k \in Keys, Begin(k) \/ Commit(k) \/ Abort(k) \/ Answer(k) PROVE DInv'
  BY <1>1, BeginTraced, CommitTraced, AbortTraced
<1>2. CASE Inject \/ Publish \/ Mark \/ GiveUp \/ Resume
  BY <1>2, InjectTraced, PublishTraced, MarkTraced, GiveUpTraced, ResumeTraced
<1>3. ASSUME NEW m \in topic, Process(m) \/ Skip(m) PROVE DInv'
  BY <1>3, ProcessTraced, SkipTraced
<1>4. CASE Copying
  BY <1>4, CopyTraced
<1>5. CASE Lose \/ StartApi
  BY <1>5, LoseTraced
<1>6. CASE Restore
  BY <1>6, RestoreTraced
<1>7. CASE UNCHANGED vars
  <2>1. IInv'
    BY <1>7, Inductive DEF DInv
  <2> QED BY <1>7, <2>1 DEF vars, DInv, OnItsWay, Messaged, OpenIsNew, Ordered
<1> QED BY <1>1, <1>2, <1>3, <1>4, <1>5, <1>6, <1>7 DEF Next, Copying

LEMMA TracedInitially == Init => DInv
<1> SUFFICES ASSUME Init PROVE DInv
  OBVIOUS
<1>1. Traced(db, injected) /\ OnItsWay /\ OpenIsNew
  BY DEF Init, Traced, OnItsWay, OpenIsNew, Fresh, Tables
<1> QED BY <1>1, Initially DEF DInv, Init

\* outbox.go:5-8, reconcile main.go:182-191: no order is forgotten between its
\* COMMIT and its notification, across any number of disasters and recoveries.
THEOREM NothingIsForgotten == Spec => []NothingForgotten
<1>1. DInv => NothingForgotten
  <2> SUFFICES ASSUME DInv, phase = "up", NEW o \in db.orders
               PROVE  \/ Notified(o)
                      \/ \E row \in db.outbox :
                            /\ row.order = o.id
                            /\ \/ row.status \in {"PENDING", "DEAD"}
                               \/ Message(row) \in Messaged
    BY DEF NothingForgotten, Messaged
  <2>1. PICK row \in db.outbox : row.order = o.id
    BY DEF DInv, IInv, Sound
  <2>2. row.status \in {"PENDING", "SENT", "DEAD"} /\ db \in TablesType
    BY DEF DInv, IInv, TypeOK, TablesType
  <2>3. CASE row.event \in db.inbox
    <3>1. PICK n \in db.notifs : n.order = o.id
      BY <2>1, <2>3 DEF DInv, Traced
    <3>2. n.user = o.key /\ n \in [order : Int, user : Keys \cup {"replay"}]
      BY <2>2, <3>1 DEF DInv, Traced, TablesType
    <3>3. n = [order |-> o.id, user |-> o.key]
      BY <3>1, <3>2
    <3> QED BY <3>3 DEF Notified
  <2>4. CASE row.event \notin db.inbox
    BY <2>1, <2>2, <2>4 DEF DInv, OnItsWay
  <2> QED BY <2>3, <2>4
<1> QED BY <1>1, TracedInitially, TracedInductive, PTL DEF Spec

\* outbox.go:7, 64-66: an order has one notification, and it goes to the one who
\* placed it, also where a recovery gave an id out again.
THEOREM NotificationsRight == Spec => []NotifiedRightly
<1>1. DInv => NotifiedRightly
  BY DEF DInv, Traced, NotifiedRightly
<1> QED BY <1>1, TracedInitially, TracedInductive, PTL DEF Spec
=============================================================================
