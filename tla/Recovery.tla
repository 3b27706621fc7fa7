------------------------------ MODULE Recovery ------------------------------
(***************************************************************************)
(* Backup, disaster and recovery of the order system, and the reconciler   *)
(* that judges the result (cmd/reconcile/main.go): orders are placed and   *)
(* their events relayed and consumed while a dump or the reconciler's      *)
(* snapshot is being taken; the site is lost; a new one starts from the    *)
(* dump, with or without the binlog as it was last archived, on a topic    *)
(* and a consumer group of its own; the events in the replay scope are     *)
(* reset to PENDING.  cmd/event-replay may inject events that belong to no *)
(* order.                                                                  *)
(*                                                                         *)
(* There is one article.  The transaction that places an order is two      *)
(* steps here, its locks and retries are in OrderStore; the relay's        *)
(* batches are in OutboxRelay, the consumer's offsets in Consumer.  A      *)
(* topic is the set of the messages that are delivered, some of them       *)
(* again; the ones that the consumer's offsets have passed are not.        *)
(***************************************************************************)
EXTENDS Integers, FiniteSets

CONSTANTS
    Keys,        \* the clients' idempotency keys
    InitStock,   \* stock before the first order
    MaxId,       \* bound: AUTO_INCREMENT values of the orders table
    MaxReplays,  \* bound: events event-replay injects
    MaxDumps,    \* bound: dumps begun
    MaxEra       \* bound: sites lost

ASSUME StockAssumption == InitStock \in Nat
ASSUME KeysAssumption == "replay" \notin Keys
ASSUME BoundsAssumption ==
    MaxId \in Nat /\ MaxReplays \in Nat /\ MaxDumps \in Nat /\ MaxEra \in Nat

VARIABLES
    db,        \* the committed rows, see Tables
    nextId,    \* the AUTO_INCREMENT counter of orders
    open,      \* each key's transaction: the id it was given, 0 for none
    ledger,    \* the clients' list of the orders they were told of, [id, key]
    dump,      \* the read view of a mysqldump that runs, or NoTables
    backup,    \* where a recovery leads to: what the last finished one wrote,
               \* or from there to the end of the archived binlog; or NoTables
    safe,      \* the orders clients were told of that are in the site, the dump
               \* that runs and the backup, if all goes well
    water,     \* the reconciler's snapshot that is being taken: [orders, view]
    balance,   \* orders + stock in its last one; at first that of the baseline
    topic,     \* messages of the topic in use, [event, order]
    skipped,   \* those the consumer's offsets have passed unprocessed
    sending,   \* events the relay has published and not marked
    phase,     \* where the site stands
    era,       \* sites lost so far
    injected,  \* events injected so far
    dumps      \* dumps begun so far

ordering == <<nextId, open, ledger>>
backups == <<dump, backup>>
reconciler == <<water, balance>>
events == <<topic, skipped, sending>>
site == <<phase, era>>
bounds == <<injected, dumps>>
vars == <<db, ordering, backups, safe, reconciler, events, site, bounds>>

-----------------------------------------------------------------------------
Eras == 0 .. MaxEra
Events == (Keys \X Eras) \cup ({"replay"} \X (1 .. MaxReplays))
UserOf(event) == event[1]

(* Orders and their idempotency rows are one here: OrderStore shows that   *)
(* they come together.                                                     *)
Tables(orders, outbox, inbox, notifs, stock) ==
    [orders |-> orders,   \* [id, key]
     outbox |-> outbox,   \* [event, order, status]
     inbox |-> inbox,     \* events
     notifs |-> notifs,   \* [order, user]
     stock |-> stock]

NoTables == Tables({}, {}, {}, {}, 0 - 1)
Fresh == Tables({}, {}, {}, {}, InitStock)

IdsOf(tables) == {o.id : o \in tables.orders}
Ordered(k) == \E o \in db.orders : o.key = k

ApiRuns == phase \in {"up", "api"}
DbRuns == phase # "down"
NoWater == [orders |-> 0, view |-> 0 - 1]

Init ==
    /\ db = Fresh
    /\ nextId = 1
    /\ open = [k \in Keys |-> 0]
    /\ ledger = {}
    /\ dump = NoTables /\ backup = NoTables
    /\ safe = [site |-> {}, dump |-> {}, backup |-> {}]
    /\ water = NoWater /\ balance = InitStock
    /\ topic = {} /\ skipped = {} /\ sending = {}
    /\ phase = "up" /\ era = 0
    /\ injected = 0 /\ dumps = 0

-----------------------------------------------------------------------------
(* Orders *)

(* CreateOrder up to its outbox row: the id is given out, nothing shows.   *)
Begin(k) ==
    /\ ApiRuns /\ ~Ordered(k) /\ open[k] = 0 /\ nextId <= MaxId
    /\ open' = [open EXCEPT ![k] = nextId]
    /\ nextId' = nextId + 1
    /\ UNCHANGED <<db, ledger, backups, safe, reconciler, events, site, bounds>>

Commit(k) ==
    /\ open[k] # 0 /\ db.stock > 0
    /\ db' = [db EXCEPT
                !.orders = @ \cup {[id |-> open[k], key |-> k]},
                !.outbox = @ \cup {[event |-> <<k, era>>, order |-> open[k],
                                    status |-> "PENDING"]},
                !.stock = @ - 1]
    /\ open' = [open EXCEPT ![k] = 0]
    /\ UNCHANGED <<nextId, ledger, backups, safe, reconciler, events, site,
                   bounds>>

Abort(k) ==
    /\ open[k] # 0
    /\ open' = [open EXCEPT ![k] = 0]
    /\ UNCHANGED <<db, nextId, ledger, backups, safe, reconciler, events, site,
                   bounds>>

Told(o) ==
    /\ ledger' = ledger \cup {o}
    /\ safe' = [safe EXCEPT !.site = @ \cup {o}]

(* Slip: the answer is sent before the COMMIT.                             *)
SlipAnswer(k) ==
    /\ ApiRuns
    /\ \/ open[k] # 0 /\ Told([id |-> open[k], key |-> k])
       \/ \E o \in db.orders : o.key = k /\ Told(o)
    /\ UNCHANGED <<db, nextId, open, backups, reconciler, events, site, bounds>>

(* The client is answered 201, or 200 when it repeats the call, and writes *)
(* the order down; loadLedger keeps one line of each order.                *)
Answer(k) ==
    /\ ApiRuns
    /\ \E o \in db.orders : o.key = k /\ Told(o)
    /\ UNCHANGED <<db, nextId, open, backups, reconciler, events, site, bounds>>

-----------------------------------------------------------------------------
(* Events *)

MinOrderId ==
    LET ids == {row.order : row \in db.outbox}
    IN  IF ids = {} THEN 0 ELSE CHOOSE i \in ids : \A j \in ids : i <= j

SlipReplayId == MinOrderId - 1

(* The order_id of the next event of event-replay.                         *)
ReplayId == IF MinOrderId - 1 > 0 THEN -1 ELSE MinOrderId - 1

Inject ==
    /\ DbRuns /\ injected < MaxReplays
    /\ injected' = injected + 1
    /\ db' = [db EXCEPT !.outbox = @ \cup
                {[event |-> <<"replay", injected'>>, order |-> ReplayId,
                  status |-> "PENDING"]}]
    /\ UNCHANGED <<ordering, backups, safe, reconciler, events, site, dumps>>

Message(row) == [event |-> row.event, order |-> row.order]

(* The relay: what is PENDING is published ...                             *)
Publish ==
    /\ phase = "up" /\ sending = {}
    /\ \E row \in db.outbox :
          /\ row.status = "PENDING"
          /\ topic' = topic \cup {Message(row)}
          /\ skipped' = skipped \ {Message(row)}
          /\ sending' = {row.event}
    /\ UNCHANGED <<db, ordering, backups, safe, reconciler, site, bounds>>

(* ... and then marked.  Between the two it may be restarted.              *)
Mark ==
    /\ sending # {}
    /\ db' = [db EXCEPT !.outbox =
                {IF row.event \in sending THEN [row EXCEPT !.status = "SENT"] ELSE row
                   : row \in @}]
    /\ sending' = {}
    /\ UNCHANGED <<ordering, backups, safe, reconciler, topic, skipped, site,
                   bounds>>

RestartRelay ==
    /\ sending # {}
    /\ sending' = {}
    /\ UNCHANGED <<db, ordering, backups, safe, reconciler, topic, skipped,
                   site, bounds>>

(* MarkOutboxFailed has counted to maxAttempts.                            *)
GiveUp ==
    /\ phase = "up" /\ sending = {}
    /\ \E row \in db.outbox :
          /\ row.status = "PENDING"
          /\ db' = [db EXCEPT !.outbox = (@ \ {row}) \cup {[row EXCEPT !.status = "DEAD"]}]
    /\ UNCHANGED <<ordering, backups, safe, reconciler, events, site, bounds>>

(* ProcessInboxBatch: both INSERTs ignore the rows that are there already. *)
Process(m) ==
    /\ phase = "up" /\ m \in topic
    /\ db' = [db EXCEPT
                !.inbox = @ \cup {m.event},
                !.notifs = IF \E n \in @ : n.order = m.order THEN @
                           ELSE @ \cup {[order |-> m.order, user |-> UserOf(m.event)]}]
    /\ UNCHANGED <<ordering, backups, safe, reconciler, events, site, bounds>>

(* Another worker's batch is done first and the consumer's watermark is    *)
(* set behind m, or a batch is cancelled and counted as done; then the     *)
(* consumer is restarted: m is not delivered to anyone any more.           *)
Skip(m) ==
    /\ phase = "up" /\ m \in topic /\ m.event \notin db.inbox
    /\ topic' = topic \ {m}
    /\ skipped' = skipped \cup {m}
    /\ UNCHANGED <<db, sending, ordering, backups, safe, reconciler, site,
                   bounds>>

-----------------------------------------------------------------------------
(* Backup and reconciler *)

(* mysqldump --single-transaction opens its read view.  backup.sh knows    *)
(* the first site only.                                                    *)
DumpBegins ==
    /\ DbRuns /\ era = 0 /\ dump = NoTables /\ dumps < MaxDumps
    /\ dump' = db
    /\ safe' = [safe EXCEPT !.dump = safe.site]
    /\ dumps' = dumps + 1
    /\ UNCHANGED <<db, ordering, backup, reconciler, events, site, injected>>

Dumped(tables) ==
    /\ DbRuns /\ dump # NoTables
    /\ backup' = tables
    /\ dump' = NoTables
    /\ safe' = [safe EXCEPT !.backup = safe.dump]
    /\ UNCHANGED <<db, ordering, reconciler, events, site, bounds>>

SlipDumpEnds ==
    Dumped(Tables(dump.orders, db.outbox, db.inbox, db.notifs, dump.stock))

(* It reads every table in the view.                                       *)
DumpEnds == Dumped(dump)

(* The binlog is copied to the host: by backup.sh full after its dump, and *)
(* by each run of backup.sh binlogs.  What is committed after the last run *)
(* is in no copy.  A recovery from the dump alone is one where this has    *)
(* not happened: nothing else depends on it.  One backup.sh runs at a time.*)
Archive ==
    /\ DbRuns /\ era = 0 /\ dump = NoTables /\ backup # NoTables
    /\ backup' = db
    /\ safe' = [safe EXCEPT !.backup = safe.site]
    /\ UNCHANGED <<db, ordering, dump, reconciler, events, site, bounds>>

(* runCheck compares this sum with that of the baseline.                   *)
Accounted(ordered, stock) == ordered + stock

(* currentSKUWater: the orders are counted, which opens the read view ...  *)
CountOrders ==
    /\ DbRuns /\ water = NoWater
    /\ water' = [orders |-> Cardinality(db.orders), view |-> db.stock]
    /\ UNCHANGED <<db, ordering, backups, safe, balance, events, site, bounds>>

SlipReadStock ==
    /\ DbRuns /\ water # NoWater
    /\ balance' = Accounted(water.orders, db.stock)
    /\ water' = NoWater
    /\ UNCHANGED <<db, ordering, backups, safe, events, site, bounds>>

(* ... and the stock is read in it.                                        *)
ReadStock ==
    /\ DbRuns /\ water # NoWater
    /\ balance' = Accounted(water.orders, water.view)
    /\ water' = NoWater
    /\ UNCHANGED <<db, ordering, backups, safe, events, site, bounds>>

(* runCheck, run now: the rows that do not fit together, ...               *)
OrdersWithoutEvent == {o \in db.orders : \A row \in db.outbox : row.order # o.id}
InboxOrphans == {e \in db.inbox : \A row \in db.outbox : row.event # e}
NotifsWithoutOrder == {n \in db.notifs : n.order \notin IdsOf(db)}

(* ... and the orders of the ledger that are not in the database, or are   *)
(* another client's there.                                                 *)
Lost == {e \in ledger : e.id \notin IdsOf(db)}
Mismatched == {e \in ledger : e.id \in IdsOf(db) /\ e \notin db.orders}

-----------------------------------------------------------------------------
(* Disaster and recovery *)

(* The site is lost, and its volume with it: from here on db only says     *)
(* what it held.  Dump and archive are kept elsewhere.                     *)
Lose ==
    /\ DbRuns /\ era < MaxEra
    /\ phase' = "down"
    /\ open' = [k \in Keys |-> 0]
    /\ sending' = {}
    /\ dump' = NoTables
    /\ water' = NoWater
    /\ UNCHANGED <<db, nextId, ledger, backup, safe, balance, topic, skipped, era,
                   bounds>>

(* AUTO_INCREMENT stands in the dump, though not as of its read view.      *)
Counters(tables) == {n \in 1 .. nextId : \A i \in IdsOf(tables) : i < n}

Import ==
    /\ phase = "down" /\ backup # NoTables
    /\ db' = backup
    /\ nextId' \in Counters(backup)
    /\ phase' = "imported"
    /\ era' = era + 1
    /\ safe' = [safe EXCEPT !.site = safe.backup]
    /\ UNCHANGED <<open, ledger, backups, reconciler, sending, bounds>>

(* Slip: the new site goes on with the old topic.                          *)
SlipRestore == Import /\ UNCHANGED <<topic, skipped>>

(* A new, empty volume takes the dump, and the archived binlog after it:   *)
(* GTIDs skip what the dump has.  Topic and consumer group are new with    *)
(* every site.                                                             *)
Restore == Import /\ topic' = {} /\ skipped' = {}

StartApi ==
    /\ phase = "imported"
    /\ phase' = "api"
    /\ UNCHANGED <<db, ordering, backups, safe, reconciler, events, era,
                   bounds>>

SlipResume ==
    /\ phase = "api"
    /\ phase' = "up"
    /\ UNCHANGED <<db, ordering, backups, safe, reconciler, events, era,
                   bounds>>

(* runReplayScope: what it prints is executed, ...                         *)
InScope(row) ==
    \/ row.status = "PENDING"
    \/ row.status = "SENT" /\ row.event \notin db.inbox

(* ... and relay and consumer are started.                                 *)
Resume ==
    /\ phase = "api"
    /\ phase' = "up"
    /\ db' = [db EXCEPT !.outbox =
                {IF InScope(row) THEN [row EXCEPT !.status = "PENDING"] ELSE row : row \in @}]
    /\ UNCHANGED <<ordering, backups, safe, reconciler, events, era, bounds>>

Next ==
    \/ \E k \in Keys : Begin(k) \/ Commit(k) \/ Abort(k) \/ Answer(k)
    \/ Inject \/ Publish \/ Mark \/ RestartRelay \/ GiveUp
    \/ \E m \in topic : Process(m) \/ Skip(m)
    \/ DumpBegins \/ DumpEnds \/ Archive \/ CountOrders \/ ReadStock
    \/ Lose \/ Restore
    \/ StartApi \/ Resume

Spec == Init /\ [][Next]_vars

(* Relay and consumer run on.  Nobody has to lose or recover a site.  A    *)
(* relay that keeps being restarted is not one that runs.  Consumer says   *)
(* what this one is sure of: each message is processed or passed.          *)
Fairness ==
    /\ WF_vars(Publish \/ GiveUp)
    /\ SF_vars(Mark)
    /\ WF_vars(\E m \in topic : Process(m) \/ Skip(m))

FairSpec == Spec /\ Fairness
-----------------------------------------------------------------------------
(* Properties *)

Messages == [event : Events, order : Int]
TablesType ==
    [orders : SUBSET [id : 1 .. MaxId, key : Keys],
     outbox : SUBSET [event : Events, order : Int, status : {"PENDING", "SENT", "DEAD"}],
     inbox : SUBSET Events,
     notifs : SUBSET [order : Int, user : Keys \cup {"replay"}],
     stock : 0 .. InitStock]

TypeOK ==
    /\ db \in TablesType
    /\ nextId \in 1 .. MaxId + 1
    /\ open \in [Keys -> 0 .. MaxId]
    /\ ledger \subseteq [id : 1 .. MaxId, key : Keys]
    /\ {dump, backup} \subseteq TablesType \cup {NoTables}
    /\ safe \in [{"site", "dump", "backup"} -> SUBSET ledger]
    /\ water \in [orders : Nat, view : 0 .. InitStock] \cup {NoWater} /\ balance \in Nat
    /\ topic \subseteq Messages /\ skipped \subseteq Messages /\ sending \subseteq Events
    /\ phase \in {"up", "down", "imported", "api"}
    /\ era \in Eras
    /\ injected \in 0 .. MaxReplays /\ dumps \in 0 .. MaxDumps

(* reconcile main.go:220-230, 281: what the reconciler calls a violation.  *)
(* Whenever it is run, before the disaster or after a recovery, while the  *)
(* system works, it finds none: each order has its event, each Inbox row   *)
(* comes from the Outbox, each notification in the domain of real orders   *)
(* has its order, and the snapshot accounts for the stock.  event-replay's *)
(* notifications, which the code counts as well, are left out.             *)
NoFalseAlarm ==
    /\ OrdersWithoutEvent = {} /\ InboxOrphans = {}
    /\ \A n \in NotifsWithoutOrder : n.order <= 0
    /\ balance = InitStock

(* reconcile main.go:14-15, 341-361: until the site is lost no order that  *)
(* a client was told of is missing or another client's.  After a recovery  *)
(* all are there that clients were told of before the dump's read view or, *)
(* with the binlog, before backup.sh last archived it, and all the backup  *)
(* has; the later ones are lost, and until orders are placed again no id   *)
(* stands for another order.                                               *)
LossBounded ==
    /\ era = 0 => Lost = {} /\ Mismatched = {}
    /\ (Lost \cup Mismatched) \cap (safe.site \cup backup.orders) = {}
    /\ (phase = "imported" /\ era = 1) => Mismatched = {}

Notified(o) == [order |-> o.id, user |-> o.key] \in db.notifs

(* outbox.go:5-8, reconcile main.go:182-191: no order is forgotten between *)
(* its COMMIT and its notification.  Whenever relay and consumer run, an   *)
(* order that is not notified has an event that is still to be published,  *)
(* was given up for the operator to see, waits in the topic of this site,  *)
(* or was passed by this site's consumer.  What was SENT on a site that is *)
(* lost, passed there or not, is published again.                          *)
NothingForgotten ==
    phase = "up" =>
        \A o \in db.orders :
            \/ Notified(o)
            \/ \E row \in db.outbox :
                  /\ row.order = o.id
                  /\ \/ row.status \in {"PENDING", "DEAD"}
                     \/ Message(row) \in topic \cup skipped

(* outbox.go:7, 64-66: however often an event is delivered, whatever ids   *)
(* a recovery gives out again, an order has one notification, and it goes  *)
(* to the one who placed this order, not to a lost one's client.           *)
NotifiedRightly ==
    /\ \A m, n \in db.notifs : m.order = n.order => m = n
    /\ \A n \in db.notifs, o \in db.orders : n.order = o.id => n.user = o.key

Settled(o) ==
    \/ Notified(o)
    \/ \E row \in db.outbox : row.order = o.id /\ row.status = "DEAD"
    \/ \E m \in skipped : m.order = o.id /\ m.event \notin db.inbox

(* reconcile main.go:182-191, 228: a site whose relay and consumer run     *)
(* comes to a moment at which each order that was placed or restored is    *)
(* notified, to the one who placed it, unless its event was given up or    *)
(* the consumer has passed it.  No event that was SENT before the          *)
(* disaster, and that no consumer had taken, is forgotten after it.        *)
EveryOrderNotified ==
    phase = "up" ~> phase # "up" \/ \A o \in db.orders : Settled(o)
=============================================================================
