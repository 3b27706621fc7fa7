---------------------------- MODULE OrderStore ----------------------------
(***************************************************************************)
(* Store.CreateOrder (internal/store/mysql/store.go) as concurrent         *)
(* database transactions.                                                  *)
(*                                                                         *)
(* A request runs one transaction at a time: INSERT of the idempotency     *)
(* row, INSERT of the order, back-fill of the row's order_id, INSERT of    *)
(* the outbox event, conditional UPDATE of the stock, COMMIT.  Rows        *)
(* written are invisible to the others until the COMMIT; what the others   *)
(* meet before it are the row locks of InnoDB, which are kept as they      *)
(* bear on these statements: the lock on the idempotency row from its      *)
(* INSERT, on the inventory row from its UPDATE, both to the end of the    *)
(* transaction.  A lock is held by whoever has the pc that implies it.     *)
(*                                                                         *)
(* Several requests with one key are the client's repetitions of a call.   *)
(***************************************************************************)
EXTENDS Integers, FiniteSets

CONSTANTS
    Requests,    \* calls of CreateOrder
    Keys,        \* (user_id, idem_key) pairs
    Skus,        \* articles asked for; with one user per key and qty = 1 the
                 \* article is all that the parameter hash can tell apart
    Products,    \* rows of the products and inventory tables
    InitStock,   \* stock before the first order
    MaxRetries,  \* maxRetries of withTxRetry
    MaxId        \* bound: AUTO_INCREMENT values the orders table can give

ASSUME SkusAssumption == Products \subseteq Skus
ASSUME StockAssumption == InitStock \in [Products -> Nat]
ASSUME RetriesAssumption == MaxRetries \in Nat
ASSUME MaxIdAssumption == MaxId \in Nat

OrderIds == 1 .. MaxId

VARIABLES
    req,      \* [key, sku] of each request; never changes
    pc,       \* where the request stands
    attempt,  \* retries used up by withTxRetry
    newId,    \* AUTO_INCREMENT value given to the order of the current attempt
    idem,     \* committed idempotency rows, [key, hash, order]
    orders,   \* committed orders, [id, key, sku]
    outbox,   \* committed outbox events, [event, order, sku]
    stock,    \* committed stock
    nextId,   \* the AUTO_INCREMENT counter; a rollback does not turn it back
    result,   \* what CreateOrder will return
    reply     \* what the caller got

db == <<idem, orders, outbox, stock>>
vars == <<req, pc, attempt, newId, db, nextId, result, reply>>

-----------------------------------------------------------------------------
Result(kind, id) == [kind |-> kind, id |-> id]
None == Result("none", 0)
Failed == Result("error", 0)

\* The transaction inserted its idempotency row and has not ended.
Owning == {"order", "deduct", "commit", "limbo"}

Locations ==
    Owning \cup {"idle", "insert", "waitKey", "shareKey", "dup", "backoff",
                 "reply", "done"}

Key(r) == req[r].key
Sku(r) == req[r].sku
IdemRows(k) == {i \in idem : i.key = k}
Rivals(r) == {q \in Requests \ {r} : Key(q) = Key(r)}

\* Definitions whose name starts with Slip are mistakes one could make in the code;
\* they stand before the definition they would replace and nothing uses them.

\* Slip: SELECT for the key first, INSERT afterwards.
SlipKeyTaken(r) == FALSE

\* Another transaction's uncommitted row, or the shared locks that its waiters
\* were left with when it rolled back, keep r from inserting.
KeyTaken(r) == \E q \in Rivals(r) : pc[q] \in Owning \cup {"shareKey"}

\* Slip: read the stock without locking the row, write it back later.
SlipStockLocked(r) == FALSE

\* Slip: the stock is read under a shared lock first, so that each of two readers
\* waits for the other's when it writes.
SlipStockShared(r) ==
    \E q \in Requests \ {r} :
        Sku(q) = Sku(r) /\ pc[q] \in {"deduct", "commit", "limbo"}

\* Another transaction has updated the inventory row and not ended.
StockLocked(r) ==
    \E q \in Requests \ {r} : Sku(q) = Sku(r) /\ pc[q] \in {"commit", "limbo"}

\* Slip: order_id is never filled in.
SlipIdemRow(r) == [key |-> Key(r), hash |-> Sku(r), order |-> 0]

\* The rows a transaction writes, as its COMMIT publishes them.
IdemRow(r) == [key |-> Key(r), hash |-> Sku(r), order |-> newId[r]]
OrderRow(r) == [id |-> newId[r], key |-> Key(r), sku |-> Sku(r)]
EventRow(r) == [event |-> <<r, attempt[r]>>, order |-> newId[r], sku |-> Sku(r)]

\* The transaction of r ends without effect and r goes on at p.  InnoDB grants
\* the shared locks that inserts blocked on its idempotency row asked for.
Rollback(r, p) ==
    pc' = [q \in Requests |->
              IF q = r THEN p
              ELSE IF q \in Rivals(r) /\ pc[r] \in Owning /\ pc[q] = "waitKey"
                   THEN "shareKey"
              ELSE pc[q]]

Goto(r, p) == pc' = [pc EXCEPT ![r] = p]

\* fn or COMMIT gave an outcome that CreateOrder returns.
Decide(r, res) == result' = [result EXCEPT ![r] = res]
Answer(r, res) == reply' = [reply EXCEPT ![r] = res]

-----------------------------------------------------------------------------
Init ==
    /\ req \in [Requests -> [key : Keys, sku : Skus]]
    /\ pc = [r \in Requests |-> "idle"]
    /\ attempt = [r \in Requests |-> 0]
    /\ newId = [r \in Requests |-> 0]
    /\ idem = {}
    /\ orders = {}
    /\ outbox = {}
    /\ stock = InitStock
    /\ nextId = 1
    /\ result = [r \in Requests |-> None]
    /\ reply = [r \in Requests |-> None]

Submit(r) ==
    /\ pc[r] = "idle"
    /\ Goto(r, "insert")
    /\ UNCHANGED <<req, attempt, newId, db, nextId, result, reply>>

\* tryInsertIdem, three ways: the row goes in, ...
InsertIdem(r) ==
    /\ pc[r] \in {"insert", "waitKey", "shareKey"}
    /\ IdemRows(Key(r)) = {}
    /\ ~KeyTaken(r)
    /\ Goto(r, "order")
    /\ UNCHANGED <<req, attempt, newId, db, nextId, result, reply>>

\* ... the key has a committed row (error 1062), ...
InsertDup(r) ==
    /\ pc[r] \in {"insert", "waitKey", "shareKey"}
    /\ IdemRows(Key(r)) # {}
    /\ Goto(r, "dup")
    /\ UNCHANGED <<req, attempt, newId, db, nextId, result, reply>>

\* ... or the statement waits for the transaction that has the key.
InsertBlocked(r) ==
    /\ pc[r] = "insert"
    /\ IdemRows(Key(r)) = {}
    /\ KeyTaken(r)
    /\ Goto(r, "waitKey")
    /\ UNCHANGED <<req, attempt, newId, db, nextId, result, reply>>

\* Slip: the parameter hash is not compared.
SlipReplayResult(r, row) == Result("replayed", row.order)

\* The dup branch: plain reads of the idempotency row and of its order.
ReplayResult(r, row) ==
    IF row.hash # Sku(r) THEN Result("conflict", 0)
    ELSE IF \E o \in orders : o.id = row.order THEN Result("replayed", row.order)
    ELSE Result("notFound", 0)

\* Slip: a replay writes an event of its own.
SlipReplayWithEvent(r) ==
    /\ pc[r] = "dup"
    /\ \E row \in IdemRows(Key(r)) :
        /\ Decide(r, ReplayResult(r, row))
        /\ outbox' = outbox \cup {[event |-> <<r, attempt[r]>>, order |-> row.order,
                                   sku |-> Sku(r)]}
    /\ Goto(r, "reply")
    /\ UNCHANGED <<req, attempt, newId, idem, orders, stock, nextId, reply>>

\* Slip: the row is read FOR UPDATE, and each of two readers waits for the shared
\* lock that the other's rejected INSERT left.
SlipReplayForUpdate(r) ==
    /\ pc[r] = "dup"
    /\ \A q \in Rivals(r) : pc[q] # "dup"
    /\ \E row \in IdemRows(Key(r)) : Decide(r, ReplayResult(r, row))
    /\ Goto(r, "reply")
    /\ UNCHANGED <<req, attempt, newId, db, nextId, reply>>

Replay(r) ==
    /\ pc[r] = "dup"
    /\ \E row \in IdemRows(Key(r)) : Decide(r, ReplayResult(r, row))
    /\ Goto(r, "reply")
    /\ UNCHANGED <<req, attempt, newId, db, nextId, reply>>

\* The product is not there: ErrNotFound, and the idempotency row goes with it.
UnknownProduct(r) ==
    /\ pc[r] = "order"
    /\ Sku(r) \notin Products
    /\ Decide(r, Result("notFound", 0))
    /\ Rollback(r, "reply")
    /\ UNCHANGED <<req, attempt, newId, db, nextId, reply>>

\* Read the price, insert the order, back-fill order_id, insert the event:
\* nothing another transaction can see but the value taken from the counter.
InsertOrder(r) ==
    /\ pc[r] = "order"
    /\ Sku(r) \in Products
    /\ nextId \in OrderIds
    /\ newId' = [newId EXCEPT ![r] = nextId]
    /\ nextId' = nextId + 1
    /\ Goto(r, "deduct")
    /\ UNCHANGED <<req, attempt, db, result, reply>>

\* UPDATE ... SET stock = stock - 1 WHERE sku = ? AND stock > 0.
DeductStock(r) ==
    /\ pc[r] = "deduct"
    /\ ~StockLocked(r)
    /\ stock[Sku(r)] > 0
    /\ Goto(r, "commit")
    /\ UNCHANGED <<req, attempt, newId, db, nextId, result, reply>>

\* RowsAffected = 0.
OutOfStock(r) ==
    /\ pc[r] = "deduct"
    /\ ~StockLocked(r)
    /\ stock[Sku(r)] = 0
    /\ Decide(r, Result("outOfStock", 0))
    /\ Rollback(r, "reply")
    /\ UNCHANGED <<req, attempt, newId, db, nextId, reply>>

\* The server applies the COMMIT, heard of by the caller or not.
Commit(r) ==
    /\ pc[r] \in {"commit", "limbo"}
    /\ idem' = idem \cup {IdemRow(r)}
    /\ orders' = orders \cup {OrderRow(r)}
    /\ outbox' = outbox \cup {EventRow(r)}
    /\ stock' = [stock EXCEPT ![Sku(r)] = @ - 1]
    /\ Decide(r, Result("created", newId[r]))
    /\ Goto(r, IF pc[r] = "limbo" THEN "done" ELSE "reply")
    /\ UNCHANGED <<req, attempt, newId, nextId, reply>>

\* The server drops a transaction whose COMMIT never reached it.
LimboRollback(r) ==
    /\ pc[r] = "limbo"
    /\ Rollback(r, "done")
    /\ UNCHANGED <<req, attempt, newId, db, nextId, result, reply>>

Respond(r) ==
    /\ pc[r] = "reply"
    /\ Answer(r, result[r])
    /\ Goto(r, "done")
    /\ UNCHANGED <<req, attempt, newId, db, nextId, result>>

-----------------------------------------------------------------------------
\* withTxRetry after error 1213 or 1205: back off and start over, or give up.
Retry(r) ==
    /\ IF attempt[r] < MaxRetries
       THEN /\ attempt' = [attempt EXCEPT ![r] = @ + 1]
            /\ Rollback(r, "backoff")
            /\ UNCHANGED reply
       ELSE /\ Answer(r, Failed)
            /\ Rollback(r, "done")
            /\ UNCHANGED attempt
    /\ UNCHANGED <<req, newId, db, nextId, result>>

\* Error 1213: two inserts hold the shared lock and each waits for the other's.
Deadlock(r) ==
    /\ pc[r] = "shareKey"
    /\ \E q \in Rivals(r) : pc[q] = "shareKey"
    /\ Retry(r)

\* Error 1205: the lock did not come free in time.
LockTimeout(r) ==
    /\ \/ pc[r] = "waitKey"
       \/ pc[r] = "deduct" /\ StockLocked(r)
    /\ Retry(r)

BackedOff(r) ==
    /\ pc[r] = "backoff"
    /\ Goto(r, "insert")
    /\ UNCHANGED <<req, attempt, newId, db, nextId, result, reply>>

\* The deadline passes, the client or the connection goes away, the server
\* reports another error, or the process dies: the caller gets an error or
\* nothing.  A COMMIT already sent may or may not take effect later.
Fail(r) ==
    /\ pc[r] \notin {"idle", "limbo", "done"}
    /\ Answer(r, Failed)
    /\ IF pc[r] = "commit" THEN Goto(r, "limbo") ELSE Rollback(r, "done")
    /\ UNCHANGED <<req, attempt, newId, db, nextId, result>>

-----------------------------------------------------------------------------
\* What the database and the process do of themselves.
Step(r) ==
    \/ InsertIdem(r) \/ InsertDup(r) \/ InsertBlocked(r)
    \/ Replay(r) \/ UnknownProduct(r) \/ InsertOrder(r)
    \/ DeductStock(r) \/ OutOfStock(r) \/ Commit(r) \/ LimboRollback(r)
    \/ Respond(r) \/ Deadlock(r) \/ BackedOff(r)

Next == \E r \in Requests : Submit(r) \/ Step(r) \/ LockTimeout(r) \/ Fail(r)

Spec == Init /\ [][Next]_vars

\* Statements and COMMITs come to an end, InnoDB resolves deadlocks, the backoff
\* timer fires; failures and lock-wait timeouts need not happen.
FairSpec == Spec /\ \A r \in Requests : WF_vars(Step(r))

-----------------------------------------------------------------------------
TypeOK ==
    /\ req \in [Requests -> [key : Keys, sku : Skus]]
    /\ pc \in [Requests -> Locations]
    /\ attempt \in [Requests -> 0 .. MaxRetries]
    /\ newId \in [Requests -> 0 .. MaxId]
    /\ idem \subseteq [key : Keys, hash : Skus, order : OrderIds]
    /\ orders \subseteq [id : OrderIds, key : Keys, sku : Products]
    /\ outbox \subseteq [event : Requests \X (0 .. MaxRetries),
                         order : OrderIds, sku : Products]
    /\ stock \in [Products -> Nat]
    /\ nextId \in 1 .. (MaxId + 1)
    /\ result \in [Requests -> [kind : {"none", "created", "replayed", "conflict",
                                        "notFound", "outOfStock"}, id : 0 .. MaxId]]
    /\ reply \in [Requests -> [kind : {"none", "created", "replayed", "conflict",
                                       "notFound", "outOfStock", "error"}, id : 0 .. MaxId]]

OrdersFor(s) == {o \in orders : o.sku = s}

\* The inventory never goes below zero and every unit is either in stock or sold
\* to exactly one committed order, whatever overtakes whatever: the comment on
\* Inventory ("initial = Stock + committed orders"), kept by the conditional
\* UPDATE being in the transaction of the order.
InventoryConserved ==
    \A s \in Products :
        /\ stock[s] \in Nat
        /\ stock[s] + Cardinality(OrdersFor(s)) = InitStock[s]

\* However often and however concurrently a key is used, it ends with one order,
\* and the idempotency row that later calls replay from names that order and its
\* parameters: insert-first, back-filled in the same transaction.
OneOrderPerKey ==
    /\ \A i, j \in idem : i.key = j.key => i = j
    /\ \A i \in idem : [id |-> i.order, key |-> i.key, sku |-> i.hash] \in orders
    /\ \A o \in orders : [key |-> o.key, hash |-> o.sku, order |-> o.id] \in idem

\* Order committed = event committed: each order has one event of its own, which
\* no replay, retry or failed attempt adds to (writeOutbox in the transaction).
OneEventPerOrder ==
    /\ \A o \in orders : \E e \in outbox : e.order = o.id /\ e.sku = o.sku
    /\ \A e \in outbox : \E o \in orders : e.order = o.id
    /\ \A e, f \in outbox : e.order = f.order \/ e.event = f.event => e = f

\* What clients were told adds up: a success names a committed order of that key
\* and article, repetitions of a call name the same order and at most one of them
\* "created" it, and a conflict means that the key was spent on another article.
AnswersAgree ==
    \A r \in Requests :
        /\ reply[r].kind \in {"created", "replayed"} =>
             [id |-> reply[r].id, key |-> Key(r), sku |-> Sku(r)] \in orders
        /\ reply[r].kind = "created" =>
             \A q \in Rivals(r) : reply[q].kind # "created"
        /\ reply[r].kind = "conflict" =>
             \E o \in orders : o.key = Key(r) /\ o.sku # Sku(r)

\* "Not found" is only ever said of an article that does not exist: a replay
\* always finds the order its idempotency row points at.
NotFoundMeansUnknown ==
    \A r \in Requests : result[r].kind = "notFound" => Sku(r) \notin Products

\* The database has something to do for r: the guards of Step(r), of which an
\* order's INSERT always has a value of the AUTO_INCREMENT counter to take.
Ready(r) ==
    \/ pc[r] \in {"insert", "order", "commit", "limbo", "reply", "backoff"}
    \/ pc[r] \in {"waitKey", "shareKey", "dup"} /\ IdemRows(Key(r)) # {}
    \/ pc[r] \in {"waitKey", "shareKey"} /\ ~KeyTaken(r)
    \/ pc[r] = "shareKey" /\ \E q \in Rivals(r) : pc[q] = "shareKey"
    \/ pc[r] = "deduct" /\ ~StockLocked(r)

\* q holds the lock on the idempotency or on the inventory row that r waits for.
Blocks(q, r) ==
    \/ /\ pc[r] \in {"waitKey", "shareKey"}
       /\ q \in Rivals(r) /\ pc[q] \in Owning \cup {"shareKey"}
    \/ /\ pc[r] = "deduct"
       /\ q # r /\ Sku(q) = Sku(r) /\ pc[q] \in {"commit", "limbo"}

\* Nobody waits in a circle: behind every request that cannot go on stands one
\* that can, at most two locks away - the key's owner may itself be waiting for
\* the stock, the stock's for nothing.  It is what the comments in CreateOrder
\* claim of the lock order "idempotency ... inventory", and what makes the
\* deadlock of two inserts (which InnoDB breaks) the only one.
WaitsEnd ==
    \A r \in Requests : pc[r] \notin {"idle", "done"} /\ ~Ready(r) =>
        \E q \in Requests :
            /\ Blocks(q, r)
            /\ Ready(q) \/ \E p \in Requests : Blocks(p, q) /\ Ready(p)

\* Every call of CreateOrder comes to an end, with nothing left open in the
\* database: no wait for a lock lasts, because the lock order is the same
\* everywhere and the one deadlock it leaves (inserts of one key after a
\* rollback) is retried a bounded number of times.
EveryRequestEnds ==
    \A r \in Requests : pc[r] = "insert" ~> pc[r] = "done" /\ reply[r] # None

-----------------------------------------------------------------------------
\* The business step happens where the transaction's outcome is fixed.  The
\* store tells a missing article from an empty one, the business model does not.
BusinessVerdict ==
    [r \in Requests |->
        IF result[r].kind = "notFound" THEN Result("outOfStock", 0) ELSE result[r]]

BusinessAnswer ==
    [r \in Requests |->
        IF reply[r].kind = "notFound" THEN Result("outOfStock", 0) ELSE reply[r]]

Business == INSTANCE PlaceOrder
                WITH inv <- stock, verdict <- BusinessVerdict, answer <- BusinessAnswer

\* CreateOrder implements TryPlaceOrder.
ImplementsPlaceOrder == Business!Spec
=============================================================================
