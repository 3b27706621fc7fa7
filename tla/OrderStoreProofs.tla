------------------------- MODULE OrderStoreProofs -------------------------
(***************************************************************************)
(* Proofs about OrderStore for any set of requests, keys and articles, any *)
(* initial stock and any number of retries: its safety properties, its     *)
(* lock order, that it implements PlaceOrder, and what that is worth.      *)
(***************************************************************************)
EXTENDS OrderStore, FiniteSetTheorems, TLAPS

\* The transaction has inserted an order and not ended.
Ordering == {"deduct", "commit", "limbo"}

\* The transaction has taken a unit of stock and not ended.
Deducted == {"commit", "limbo"}

\* Row locks: one transaction has the key, nobody has a share in it, and no
\* committed row stands in its way.
KeyLocks ==
    \A r \in Requests : pc[r] \in Owning =>
        /\ IdemRows(Key(r)) = {}
        /\ \A q \in Rivals(r) : pc[q] \notin Owning \cup {"shareKey"}

\* One transaction has the inventory row, and took a unit that is there.
StockLocks ==
    \A r \in Requests :
        /\ pc[r] \in Ordering => Sku(r) \in Products
        /\ pc[r] \in Deducted =>
             /\ stock[Sku(r)] > 0
             /\ \A q \in Requests \ {r} : Sku(q) = Sku(r) => pc[q] \notin Deducted

\* AUTO_INCREMENT values of open transactions are their own.
FreshIds ==
    /\ \A o \in orders : o.id < nextId
    /\ \A r \in Requests : pc[r] \in Ordering =>
        /\ newId[r] \in OrderIds
        /\ newId[r] < nextId
        /\ \A o \in orders : o.id # newId[r]
        /\ \A q \in Requests \ {r} : pc[q] \in Ordering => newId[q] # newId[r]

\* A request with a committed event has nothing left to write, and what it
\* created is what it says it created.
SpentRequests ==
    /\ \A e \in outbox : pc[e.event[1]] \in {"reply", "done"}
    /\ \A r \in Requests : result[r].kind = "created" =>
        \E e \in outbox : e.event[1] = r /\ e.order = result[r].id

\* Results and replies come in their order.
Answers ==
    \A r \in Requests :
        /\ pc[r] \notin {"reply", "done"} => result[r] = None
        /\ pc[r] = "reply" => result[r].kind # "none"
        /\ pc[r] \notin {"limbo", "done"} => reply[r] = None
        /\ reply[r] \in {None, Failed, result[r]}

\* A result speaks of what is committed.
Results ==
    \A r \in Requests :
        /\ result[r].kind \in {"created", "replayed"} =>
             [id |-> result[r].id, key |-> Key(r), sku |-> Sku(r)] \in orders
        /\ result[r].kind = "conflict" =>
             \E o \in orders : o.key = Key(r) /\ o.sku # Sku(r)

IInv ==
    /\ TypeOK
    /\ IsFiniteSet(orders)
    /\ KeyLocks
    /\ StockLocks
    /\ FreshIds
    /\ SpentRequests
    /\ InventoryConserved
    /\ OneOrderPerKey
    /\ OneEventPerOrder
    /\ Answers
    /\ Results
    /\ NotFoundMeansUnknown

-----------------------------------------------------------------------------
\* What Goto and Rollback have in common: r goes on at p, and of the others only
\* inserts blocked on the row that r gives up move.
Moved(r, p) ==
    /\ pc' \in [Requests -> Locations]
    /\ pc'[r] = p
    /\ \A q \in Requests \ {r} :
        \/ pc'[q] = pc[q]
        \/ /\ pc[q] = "waitKey" /\ pc'[q] = "shareKey"
           /\ q \in Rivals(r) /\ pc[r] \in Owning /\ p \notin Owning

LEMMA GotoMoves ==
    ASSUME TypeOK, NEW r \in Requests, NEW p \in Locations, Goto(r, p)
    PROVE  Moved(r, p)
BY DEF TypeOK, Goto, Moved

LEMMA RollbackMoves ==
    ASSUME TypeOK, NEW r \in Requests, NEW p \in Locations \ Owning, Rollback(r, p)
    PROVE  Moved(r, p)
BY DEF TypeOK, Rollback, Moved, Locations, Rivals

\* A step that only moves r keeps the facts about locks and identifiers if it
\* keeps to their rules.
LEMMA LocksKept ==
    ASSUME IInv, NEW r \in Requests, NEW p \in Locations, Moved(r, p),
           UNCHANGED <<req, newId, db, nextId>>,
           p # "shareKey",
           p \in Owning /\ pc[r] \notin Owning =>
               /\ IdemRows(Key(r)) = {}
               /\ ~KeyTaken(r),
           p \in Ordering => pc[r] \in Ordering,
           p \in Deducted /\ pc[r] \notin Deducted =>
               /\ stock[Sku(r)] > 0
               /\ ~StockLocked(r),
           pc[r] \in {"reply", "done"} => p \in {"reply", "done"}
    PROVE  /\ KeyLocks'
           /\ StockLocks'
           /\ FreshIds'
           /\ \A e \in outbox' : pc'[e.event[1]] \in {"reply", "done"}
<1>1. KeyLocks'
  <2> SUFFICES ASSUME NEW a \in Requests, pc'[a] \in Owning
               PROVE  /\ IdemRows(Key(a)) = {}
                      /\ \A q \in Rivals(a) : pc'[q] \notin Owning \cup {"shareKey"}
    BY DEF KeyLocks, IdemRows, Rivals, Key, db
  <2>1. CASE a = r
    BY <2>1 DEF IInv, KeyLocks, Moved, KeyTaken, Rivals, Owning
  <2>2. CASE a # r
    BY <2>2 DEF IInv, KeyLocks, Moved, KeyTaken, Rivals, Owning, Key
  <2> QED BY <2>1, <2>2
<1>2. StockLocks'
  BY DEF IInv, StockLocks, Moved, StockLocked, Ordering, Deducted, Sku, db
<1>3. FreshIds'
  BY DEF IInv, FreshIds, Moved, Ordering, db
<1>4. \A e \in outbox' : pc'[e.event[1]] \in {"reply", "done"}
  <2> SUFFICES ASSUME NEW e \in outbox
               PROVE  pc'[e.event[1]] \in {"reply", "done"}
    BY DEF db
  <2>1. e.event[1] \in Requests /\ pc[e.event[1]] \in {"reply", "done"}
    BY DEF IInv, TypeOK, SpentRequests
  <2> QED BY <2>1 DEF Moved
<1> QED BY <1>1, <1>2, <1>3, <1>4

\* The parts of IInv that read nothing but what such a step leaves alone.
LEMMA RowsKept ==
    ASSUME IInv, UNCHANGED <<req, newId, db, nextId>>
    PROVE  /\ IsFiniteSet(orders)'
           /\ InventoryConserved'
           /\ OneOrderPerKey'
           /\ OneEventPerOrder'
BY DEF IInv, InventoryConserved, OrdersFor, OneOrderPerKey, OneEventPerOrder, db

\* Steps that neither decide nor answer.
LEMMA SilentStep ==
    ASSUME IInv, NEW r \in Requests, NEW p \in Locations, Moved(r, p),
           UNCHANGED <<req, newId, db, nextId, result, reply>>,
           attempt' \in [Requests -> 0 .. MaxRetries],
           KeyLocks', StockLocks', FreshIds',
           \A e \in outbox' : pc'[e.event[1]] \in {"reply", "done"},
           pc[r] \notin {"reply", "done"}, p # "reply",
           pc[r] = "limbo" <=> p = "done", p # "limbo"
    PROVE  IInv'
<1>1. TypeOK'
  BY DEF IInv, TypeOK, Moved, db
<1>2. SpentRequests'
  BY DEF IInv, SpentRequests, db
<1>3. Answers'
  BY DEF IInv, Answers, Moved, db
<1>4. Results' /\ NotFoundMeansUnknown'
  BY DEF IInv, Results, NotFoundMeansUnknown, Key, Sku, db
<1> QED BY <1>1, <1>2, <1>3, <1>4, RowsKept DEF IInv

\* Steps that fix the result of a request and leave the rows alone.
LEMMA DecidingStep ==
    ASSUME IInv, NEW r \in Requests, NEW res, Moved(r, "reply"), Decide(r, res),
           UNCHANGED <<req, newId, db, nextId, attempt, reply>>,
           KeyLocks', StockLocks', FreshIds',
           \A e \in outbox' : pc'[e.event[1]] \in {"reply", "done"},
           pc[r] \notin {"reply", "limbo", "done"},
           res \in [kind : {"replayed", "conflict", "notFound", "outOfStock"},
                    id : 0 .. MaxId],
           res.kind = "replayed" =>
               [id |-> res.id, key |-> Key(r), sku |-> Sku(r)] \in orders,
           res.kind = "conflict" => \E o \in orders : o.key = Key(r) /\ o.sku # Sku(r),
           res.kind = "notFound" => Sku(r) \notin Products
    PROVE  IInv'
<1>1. TypeOK'
  BY DEF IInv, TypeOK, Moved, Decide, db
<1>2. SpentRequests'
  <2> SUFFICES ASSUME NEW a \in Requests, result'[a].kind = "created"
               PROVE  \E e \in outbox : e.event[1] = a /\ e.order = result'[a].id
    BY DEF SpentRequests, db
  <2>1. a # r
    BY DEF Decide, IInv, TypeOK
  <2> QED BY <2>1 DEF IInv, TypeOK, SpentRequests, Decide
<1>3. Answers'
  BY DEF IInv, TypeOK, Answers, Moved, Decide, None, Failed, Result, db
<1>4. Results'
  <2> SUFFICES ASSUME NEW a \in Requests
               PROVE  /\ result'[a].kind \in {"created", "replayed"} =>
                           [id |-> result'[a].id, key |-> Key(a), sku |-> Sku(a)] \in orders
                      /\ result'[a].kind = "conflict" =>
                           \E o \in orders : o.key = Key(a) /\ o.sku # Sku(a)
    BY DEF Results, Key, Sku, db
  <2>1. CASE a = r
    BY <2>1 DEF Decide, IInv, TypeOK
  <2>2. CASE a # r
    BY <2>2 DEF Decide, IInv, TypeOK, Results
  <2> QED BY <2>1, <2>2
<1>5. NotFoundMeansUnknown'
  BY DEF IInv, TypeOK, NotFoundMeansUnknown, Decide, Sku, db
<1> QED BY <1>1, <1>2, <1>3, <1>4, <1>5, RowsKept DEF IInv

\* Steps that answer the caller and leave the rows alone.
LEMMA AnsweringStep ==
    ASSUME IInv, NEW r \in Requests, NEW p \in {"limbo", "done"}, NEW res,
           Moved(r, p), Answer(r, res),
           UNCHANGED <<req, newId, db, nextId, result>>,
           attempt' \in [Requests -> 0 .. MaxRetries],
           KeyLocks', StockLocks', FreshIds',
           \A e \in outbox' : pc'[e.event[1]] \in {"reply", "done"},
           pc[r] \notin {"limbo", "done"},
           p = "limbo" => pc[r] = "commit",
           res \in {Failed, result[r]}
    PROVE  IInv'
<1>1. TypeOK'
  <2>1. res \in [kind : {"none", "created", "replayed", "conflict", "notFound",
                         "outOfStock", "error"}, id : 0 .. MaxId]
    <3>1. CASE res = Failed
      BY <3>1, MaxIdAssumption DEF Failed, Result
    <3>2. CASE res = result[r]
      BY <3>2 DEF IInv, TypeOK
    <3> QED BY <3>1, <3>2
  <2>2. reply' \in [Requests -> [kind : {"none", "created", "replayed", "conflict",
                         "notFound", "outOfStock", "error"}, id : 0 .. MaxId]]
    BY <2>1 DEF IInv, TypeOK, Answer
  <2> QED BY <2>2 DEF IInv, TypeOK, Moved, db
<1>2. SpentRequests'
  BY DEF IInv, SpentRequests, db
<1>3. Answers'
  BY DEF IInv, TypeOK, Answers, Moved, Answer, db
<1>4. Results' /\ NotFoundMeansUnknown'
  BY DEF IInv, Results, NotFoundMeansUnknown, Key, Sku, db
<1> QED BY <1>1, <1>2, <1>3, <1>4, RowsKept DEF IInv

-----------------------------------------------------------------------------
\* The two steps that write.

LEMMA InsertOrderStep ==
    ASSUME IInv, NEW r \in Requests, InsertOrder(r)
    PROVE  IInv'
<1>1. Moved(r, "deduct")
  BY GotoMoves DEF InsertOrder, IInv, Locations, Owning
<1>2. TypeOK'
  <2>1. nextId' \in 1 .. (MaxId + 1) /\ nextId \in 0 .. MaxId
    BY MaxIdAssumption DEF InsertOrder, OrderIds
  <2>2. newId' \in [Requests -> 0 .. MaxId]
    BY <2>1 DEF InsertOrder, IInv, TypeOK
  <2>3. pc' \in [Requests -> Locations]
    BY <1>1 DEF Moved
  <2> QED BY <2>1, <2>2, <2>3 DEF InsertOrder, IInv, TypeOK, db
<1>3. KeyLocks'
  BY <1>1 DEF InsertOrder, IInv, KeyLocks, Moved, IdemRows, Rivals, Owning, Key, db
<1>4. StockLocks'
  BY <1>1 DEF InsertOrder, IInv, StockLocks, Moved, Ordering, Deducted, Sku, db
<1>5. FreshIds'
  <2> DEFINE Fresh(a) ==
        /\ newId'[a] \in OrderIds
        /\ newId'[a] < nextId'
        /\ \A o \in orders : o.id # newId'[a]
        /\ \A q \in Requests \ {a} : pc'[q] \in Ordering => newId'[q] # newId'[a]
  <2>1. nextId' = nextId + 1 /\ nextId \in OrderIds /\ newId \in [Requests -> 0 .. MaxId]
        /\ \A o \in orders : o.id \in OrderIds
    BY DEF InsertOrder, IInv, TypeOK
  <2>2. \A o \in orders : o.id < nextId'
    BY <2>1 DEF IInv, FreshIds, OrderIds
  <2>3. ASSUME NEW a \in Requests, pc'[a] \in Ordering PROVE Fresh(a)
    <3>1. CASE a = r
      BY <2>1, <2>3, <3>1, <1>1 DEF InsertOrder, IInv, FreshIds, Moved, Ordering, OrderIds
    <3>2. CASE a # r
      BY <2>1, <2>3, <3>2, <1>1 DEF InsertOrder, IInv, FreshIds, Moved, Ordering, OrderIds
    <3> QED BY <3>1, <3>2
  <2> QED BY <2>2, <2>3 DEF FreshIds, InsertOrder, db
<1>6. SpentRequests'
  <2>1. \A e \in outbox : e.event[1] \in Requests
    BY DEF IInv, TypeOK
  <2> QED BY <2>1, <1>1 DEF InsertOrder, IInv, SpentRequests, Moved, db
<1>7. /\ IsFiniteSet(orders)' /\ InventoryConserved' /\ OneOrderPerKey'
      /\ OneEventPerOrder'
  BY DEF InsertOrder, IInv, InventoryConserved, OrdersFor, OneOrderPerKey,
         OneEventPerOrder, db
<1>8. Answers'
  BY <1>1 DEF InsertOrder, IInv, Answers, Moved
<1>9. Results' /\ NotFoundMeansUnknown'
  BY DEF InsertOrder, IInv, Results, NotFoundMeansUnknown, Key, Sku, db
<1> QED BY <1>2, <1>3, <1>4, <1>5, <1>6, <1>7, <1>8, <1>9 DEF IInv

LEMMA CommitStep ==
    ASSUME IInv, NEW r \in Requests, Commit(r)
    PROVE  IInv'
<1> DEFINE p == IF pc[r] = "limbo" THEN "done" ELSE "reply"
<1>1. Moved(r, p)
  BY GotoMoves DEF Commit, IInv, Locations, Owning
<1>2. /\ pc[r] \in Owning /\ pc[r] \in Ordering /\ pc[r] \in Deducted
      /\ p \notin Owning /\ p \notin Ordering /\ p \notin Deducted
      /\ p \in {"reply", "done"}
  BY DEF Commit, Owning, Ordering, Deducted
<1>3. /\ Sku(r) \in Products /\ Key(r) \in Keys /\ Sku(r) \in Skus
      /\ newId[r] \in OrderIds /\ stock[Sku(r)] \in Nat /\ stock[Sku(r)] > 0
      /\ attempt[r] \in 0 .. MaxRetries
  BY <1>2, SkusAssumption DEF IInv, TypeOK, StockLocks, FreshIds, Key, Sku
<1>4. /\ OrderRow(r) \in [id : OrderIds, key : Keys, sku : Products]
      /\ IdemRow(r) \in [key : Keys, hash : Skus, order : OrderIds]
      /\ EventRow(r) \in [event : Requests \X (0 .. MaxRetries), order : OrderIds,
                          sku : Products]
  BY <1>3 DEF OrderRow, IdemRow, EventRow
<1>5. /\ \A o \in orders : o.id # newId[r] /\ o.key # Key(r)
      /\ \A i \in idem : i.key # Key(r)
      /\ \A e \in outbox : e.order # newId[r] /\ e.event # <<r, attempt[r]>>
  <2>1. \A i \in idem : i.key # Key(r)
    BY <1>2 DEF IInv, KeyLocks, IdemRows
  <2>2. \A o \in orders : o.id # newId[r]
    BY <1>2 DEF IInv, FreshIds
  <2>3. \A o \in orders : o.key # Key(r)
    BY <2>1 DEF IInv, OneOrderPerKey
  <2>4. \A e \in outbox : e.order # newId[r]
    BY <2>2 DEF IInv, OneEventPerOrder
  <2>5. \A e \in outbox : e.event[1] # r
    BY <1>2 DEF IInv, SpentRequests, Ordering
  <2> QED BY <2>1, <2>2, <2>3, <2>4, <2>5
<1>6. TypeOK'
  <2>1. pc' \in [Requests -> Locations]
    BY <1>1 DEF Moved
  <2>2. stock' \in [Products -> Nat]
    BY <1>3 DEF Commit, IInv, TypeOK
  <2>3. result' \in [Requests -> [kind : {"none", "created", "replayed", "conflict",
                                   "notFound", "outOfStock"}, id : 0 .. MaxId]]
    BY <1>3, MaxIdAssumption DEF Commit, Decide, Result, IInv, TypeOK, OrderIds
  <2> QED BY <2>1, <2>2, <2>3, <1>4 DEF Commit, IInv, TypeOK
<1>7. IsFiniteSet(orders)'
  BY FS_AddElement DEF Commit, IInv
<1>8. KeyLocks'
  <2> SUFFICES ASSUME NEW a \in Requests, pc'[a] \in Owning
               PROVE  /\ \A i \in idem' : i.key # Key(a)
                      /\ \A q \in Rivals(a) : pc'[q] \notin Owning \cup {"shareKey"}
    BY DEF KeyLocks, IdemRows, Rivals, Key, Commit
  <2>1. a # r /\ pc[a] \in Owning
    BY <1>1, <1>2 DEF Moved, Owning
  <2>2. Key(a) # Key(r)
    BY <2>1, <1>2 DEF IInv, KeyLocks, Rivals
  <2>3. \A i \in idem' : i.key # Key(a)
    BY <2>1, <2>2 DEF IInv, KeyLocks, IdemRows, Commit, IdemRow
  <2>4. ASSUME NEW q \in Rivals(a) PROVE pc'[q] \notin Owning \cup {"shareKey"}
    BY <2>1, <2>2, <1>1, <1>2 DEF IInv, KeyLocks, Moved, Rivals, Owning
  <2> QED BY <2>3, <2>4
<1>9. StockLocks'
  <2> SUFFICES ASSUME NEW a \in Requests
               PROVE  /\ pc'[a] \in Ordering => Sku(a) \in Products
                      /\ pc'[a] \in Deducted =>
                          /\ stock'[Sku(a)] > 0
                          /\ \A q \in Requests \ {a} : Sku(q) = Sku(a) => pc'[q] \notin Deducted
    BY DEF StockLocks, Commit, Sku
  <2>1. pc'[a] \in Ordering => Sku(a) \in Products
    BY <1>1, <1>2 DEF IInv, StockLocks, Moved, Ordering
  <2>2. ASSUME pc'[a] \in Deducted
        PROVE  /\ stock'[Sku(a)] > 0
               /\ \A q \in Requests \ {a} : Sku(q) = Sku(a) => pc'[q] \notin Deducted
    <3>1. a # r /\ pc[a] \in Deducted
      BY <2>2, <1>1, <1>2 DEF Moved, Deducted
    <3>2. Sku(a) # Sku(r)
      BY <3>1, <1>2 DEF IInv, StockLocks
    <3>3. stock'[Sku(a)] = stock[Sku(a)]
      BY <3>1, <3>2 DEF Commit, IInv, TypeOK, StockLocks, Deducted, Ordering
    <3> QED BY <3>1, <3>3, <1>1, <1>2 DEF IInv, StockLocks, Moved, Deducted
  <2> QED BY <2>1, <2>2
<1>10. FreshIds'
  <2>1. \A o \in orders' : o.id < nextId'
    BY <1>2 DEF IInv, FreshIds, Commit, OrderRow
  <2>2. ASSUME NEW a \in Requests, pc'[a] \in Ordering
        PROVE  /\ newId[a] \in OrderIds
               /\ newId[a] < nextId
               /\ \A o \in orders' : o.id # newId[a]
               /\ \A q \in Requests \ {a} : pc'[q] \in Ordering => newId[q] # newId[a]
    <3>1. a # r /\ pc[a] \in Ordering
      BY <2>2, <1>1, <1>2 DEF Moved, Ordering
    <3>2. newId[a] # newId[r]
      BY <3>1, <1>2 DEF IInv, FreshIds
    <3> QED BY <3>1, <3>2, <1>1, <1>2 DEF IInv, FreshIds, Moved, Ordering, Commit, OrderRow
  <2> QED BY <2>1, <2>2 DEF FreshIds, Commit
<1>11. SpentRequests'
  <2>1. ASSUME NEW e \in outbox' PROVE pc'[e.event[1]] \in {"reply", "done"}
    <3>1. CASE e = EventRow(r)
      BY <3>1, <1>1, <1>2 DEF EventRow, Moved
    <3>2. CASE e \in outbox
      <4>1. e.event[1] \in Requests
        BY <3>2 DEF IInv, TypeOK
      <4> QED BY <4>1, <3>2, <1>1, <1>2 DEF IInv, SpentRequests, Moved
    <3> QED BY <3>1, <3>2 DEF Commit
  <2>2. ASSUME NEW a \in Requests, result'[a].kind = "created"
        PROVE  \E e \in outbox' : e.event[1] = a /\ e.order = result'[a].id
    <3>1. CASE a = r
      <4>1. result'[a].id = newId[r]
        BY <3>1 DEF Commit, Decide, Result, IInv, TypeOK
      <4>2. EventRow(r) \in outbox'
        BY DEF Commit
      <4> QED BY <3>1, <4>1, <4>2 DEF EventRow
    <3>2. CASE a # r
      BY <2>2, <3>2 DEF Commit, Decide, IInv, TypeOK, SpentRequests
    <3> QED BY <3>1, <3>2
  <2> QED BY <2>1, <2>2 DEF SpentRequests
<1>12. InventoryConserved'
  <2> SUFFICES ASSUME NEW s \in Products
               PROVE  /\ stock'[s] \in Nat
                      /\ stock'[s] + Cardinality({o \in orders' : o.sku = s}) = InitStock[s]
    BY DEF InventoryConserved, OrdersFor
  <2>1. stock[s] \in Nat /\ stock[s] + Cardinality(OrdersFor(s)) = InitStock[s]
    BY DEF IInv, InventoryConserved
  <2>2. IsFiniteSet(OrdersFor(s)) /\ Cardinality(OrdersFor(s)) \in Nat
    BY FS_Subset, FS_CardinalityType DEF IInv, OrdersFor
  <2>3. CASE s = Sku(r)
    <3>1. {o \in orders' : o.sku = s} = OrdersFor(s) \cup {OrderRow(r)}
      BY <2>3 DEF Commit, OrdersFor, OrderRow
    <3>2. OrderRow(r) \notin OrdersFor(s)
      BY <1>5 DEF OrdersFor, OrderRow
    <3>3. Cardinality({o \in orders' : o.sku = s}) = Cardinality(OrdersFor(s)) + 1
      BY <2>2, <3>1, <3>2, FS_AddElement
    <3>4. stock'[s] = stock[s] - 1
      BY <2>3, <1>3 DEF Commit, IInv, TypeOK
    <3> QED BY <2>1, <2>2, <2>3, <3>3, <3>4, <1>3
  <2>4. CASE s # Sku(r)
    <3>1. {o \in orders' : o.sku = s} = OrdersFor(s)
      BY <2>4 DEF Commit, OrdersFor, OrderRow
    <3>2. stock'[s] = stock[s]
      BY <2>4 DEF Commit, IInv, TypeOK
    <3> QED BY <2>1, <3>1, <3>2
  <2> QED BY <2>3, <2>4
<1>13. OneOrderPerKey'
  <2>1. \A i, j \in idem : i.key = j.key => i = j
    BY DEF IInv, OneOrderPerKey
  <2>2. \A i \in idem : [id |-> i.order, key |-> i.key, sku |-> i.hash] \in orders
    BY DEF IInv, OneOrderPerKey
  <2>3. \A o \in orders : [key |-> o.key, hash |-> o.sku, order |-> o.id] \in idem
    BY DEF IInv, OneOrderPerKey
  <2>4. idem' = idem \cup {IdemRow(r)} /\ orders' = orders \cup {OrderRow(r)}
    BY DEF Commit
  <2>5. IdemRow(r).key = Key(r) /\ IdemRow(r).hash = Sku(r) /\ IdemRow(r).order = newId[r]
    BY DEF IdemRow
  <2>6. OrderRow(r).key = Key(r) /\ OrderRow(r).sku = Sku(r) /\ OrderRow(r).id = newId[r]
    BY DEF OrderRow
  <2>7. \A i, j \in idem' : i.key = j.key => i = j
    BY <1>5, <2>1, <2>4, <2>5
  <2>8. ASSUME NEW i \in idem'
        PROVE  [id |-> i.order, key |-> i.key, sku |-> i.hash] \in orders'
    <3>1. CASE i = IdemRow(r)
      BY <3>1, <2>4, <2>5 DEF OrderRow
    <3>2. CASE i \in idem
      BY <3>2, <2>2, <2>4
    <3> QED BY <3>1, <3>2, <2>4
  <2>9. ASSUME NEW o \in orders'
        PROVE  [key |-> o.key, hash |-> o.sku, order |-> o.id] \in idem'
    <3>1. CASE o = OrderRow(r)
      BY <3>1, <2>4, <2>6 DEF IdemRow
    <3>2. CASE o \in orders
      BY <3>2, <2>3, <2>4
    <3> QED BY <3>1, <3>2, <2>4
  <2> QED BY <2>7, <2>8, <2>9 DEF OneOrderPerKey
<1>14. OneEventPerOrder'
  <2>1. /\ \A o \in orders : \E e \in outbox : e.order = o.id /\ e.sku = o.sku
        /\ \A e \in outbox : \E o \in orders : e.order = o.id
        /\ \A e, f \in outbox : e.order = f.order \/ e.event = f.event => e = f
    BY DEF IInv, OneEventPerOrder
  <2>2. outbox' = outbox \cup {EventRow(r)} /\ orders' = orders \cup {OrderRow(r)}
    BY DEF Commit
  <2>3. /\ EventRow(r).order = newId[r] /\ EventRow(r).sku = Sku(r)
        /\ EventRow(r).event = <<r, attempt[r]>>
        /\ OrderRow(r).id = newId[r] /\ OrderRow(r).sku = Sku(r)
    BY DEF EventRow, OrderRow
  <2>4. \A o \in orders' : \E e \in outbox' : e.order = o.id /\ e.sku = o.sku
    BY <2>1, <2>2, <2>3
  <2>5. \A e \in outbox' : \E o \in orders' : e.order = o.id
    BY <2>1, <2>2, <2>3
  <2>6. \A e, f \in outbox' : e.order = f.order \/ e.event = f.event => e = f
    BY <1>5, <2>1, <2>2, <2>3
  <2> QED BY <2>4, <2>5, <2>6 DEF OneEventPerOrder
<1>15. Answers'
  <2>1. /\ \A a \in Requests \ {r} : result'[a] = result[a] /\ pc'[a] = pc[a]
        /\ result'[r].kind = "created"
        /\ reply' = reply /\ pc'[r] = p /\ result[r] = None
    BY <1>2 DEF Commit, Decide, Result, IInv, TypeOK, Answers, Goto, Ordering
  <2>2. reply[r] \in {None, Failed}
    BY <2>1, <1>2 DEF IInv, Answers
  <2>3. pc[r] # "limbo" => reply[r] = None
    BY <1>2 DEF IInv, Answers, Ordering
  <2>4. \A a \in Requests \ {r} :
          /\ pc'[a] \notin {"reply", "done"} => result'[a] = None
          /\ pc'[a] = "reply" => result'[a].kind # "none"
          /\ pc'[a] \notin {"limbo", "done"} => reply'[a] = None
          /\ reply'[a] \in {None, Failed, result'[a]}
    BY <2>1 DEF IInv, Answers
  <2> QED BY <2>1, <2>2, <2>3, <2>4, <1>2 DEF Answers
<1>16. Results' /\ NotFoundMeansUnknown'
  <2>1. /\ \A a \in Requests \ {r} : result'[a] = result[a]
        /\ result'[r].kind = "created" /\ result'[r].id = newId[r]
        /\ orders \subseteq orders' /\ OrderRow(r) \in orders'
        /\ req' = req
    BY DEF Commit, Decide, Result, IInv, TypeOK
  <2>2. Results'
    <3> SUFFICES ASSUME NEW a \in Requests
                 PROVE  /\ result'[a].kind \in {"created", "replayed"} =>
                             [id |-> result'[a].id, key |-> Key(a), sku |-> Sku(a)] \in orders'
                        /\ result'[a].kind = "conflict" =>
                             \E o \in orders' : o.key = Key(a) /\ o.sku # Sku(a)
      BY <2>1 DEF Results, Key, Sku
    <3>1. CASE a = r
      BY <2>1, <3>1 DEF OrderRow
    <3>2. CASE a # r
      BY <2>1, <3>2 DEF IInv, Results
    <3> QED BY <3>1, <3>2
  <2>3. NotFoundMeansUnknown'
    BY <2>1 DEF IInv, NotFoundMeansUnknown, Sku
  <2> QED BY <2>2, <2>3
<1> QED
  BY <1>6, <1>7, <1>8, <1>9, <1>10, <1>11, <1>12, <1>13, <1>14, <1>15, <1>16 DEF IInv

-----------------------------------------------------------------------------
\* IInv is inductive.

LEMMA InitEstablishes == Init => IInv
<1> SUFFICES ASSUME Init PROVE IInv
  OBVIOUS
<1>1. TypeOK
  <2>1. 0 \in 0 .. MaxId /\ 0 \in 0 .. MaxRetries /\ 1 \in 1 .. (MaxId + 1)
    BY MaxIdAssumption, RetriesAssumption
  <2>2. [kind |-> "none", id |-> 0] \in
          [kind : {"none", "created", "replayed", "conflict", "notFound", "outOfStock"},
           id : 0 .. MaxId]
    BY <2>1
  <2>3. [kind |-> "none", id |-> 0] \in
          [kind : {"none", "created", "replayed", "conflict", "notFound", "outOfStock",
                   "error"}, id : 0 .. MaxId]
    BY <2>1
  <2>4. pc \in [Requests -> Locations]
    BY DEF Init, Locations
  <2>5. stock \in [Products -> Nat]
    BY StockAssumption DEF Init
  <2>6. newId \in [Requests -> 0 .. MaxId] /\ attempt \in [Requests -> 0 .. MaxRetries]
    BY <2>1 DEF Init
  <2> QED BY <2>1, <2>2, <2>3, <2>4, <2>5, <2>6 DEF Init, TypeOK, None, Result
<1>2. IsFiniteSet(orders)
  BY FS_EmptySet DEF Init
<1>3. KeyLocks /\ StockLocks /\ FreshIds
  BY DEF Init, KeyLocks, StockLocks, FreshIds, Owning, Ordering, Deducted
<1>4. SpentRequests /\ Answers /\ Results /\ NotFoundMeansUnknown
  BY DEF Init, SpentRequests, Answers, Results, NotFoundMeansUnknown, None, Result
<1>5. InventoryConserved
  <2> SUFFICES ASSUME NEW s \in Products
               PROVE  stock[s] \in Nat /\ stock[s] + Cardinality(OrdersFor(s)) = InitStock[s]
    BY DEF InventoryConserved
  <2>1. OrdersFor(s) = {}
    BY DEF Init, OrdersFor
  <2> QED BY <2>1, FS_EmptySet, StockAssumption DEF Init
<1>6. OneOrderPerKey /\ OneEventPerOrder
  BY DEF Init, OneOrderPerKey, OneEventPerOrder
<1> QED BY <1>1, <1>2, <1>3, <1>4, <1>5, <1>6 DEF IInv

LEMMA RetryStep ==
    ASSUME IInv, NEW r \in Requests, pc[r] \in {"waitKey", "shareKey", "deduct"}, Retry(r)
    PROVE  IInv'
<1>1. CASE attempt[r] < MaxRetries
  <2>1. Moved(r, "backoff")
    BY <1>1, RollbackMoves DEF Retry, IInv, Locations, Owning
  <2>2. attempt \in [Requests -> 0 .. MaxRetries] /\ attempt[r] + 1 \in 0 .. MaxRetries
    BY <1>1, RetriesAssumption DEF IInv, TypeOK
  <2>3. UNCHANGED <<req, newId, db, nextId, result, reply>>
        /\ attempt' \in [Requests -> 0 .. MaxRetries]
    BY <1>1, <2>2 DEF Retry
  <2>4. /\ KeyLocks' /\ StockLocks' /\ FreshIds'
        /\ \A e \in outbox' : pc'[e.event[1]] \in {"reply", "done"}
    BY <2>1, <2>3, LocksKept DEF Locations, Owning, Ordering, Deducted
  <2> QED BY <2>1, <2>3, <2>4, SilentStep DEF Locations
<1>2. CASE ~(attempt[r] < MaxRetries)
  <2>1. Moved(r, "done")
    BY <1>2, RollbackMoves DEF Retry, IInv, Locations, Owning
  <2>2. /\ UNCHANGED <<req, newId, db, nextId, result>> /\ Answer(r, Failed)
        /\ attempt' \in [Requests -> 0 .. MaxRetries]
    BY <1>2 DEF Retry, IInv, TypeOK
  <2>3. /\ KeyLocks' /\ StockLocks' /\ FreshIds'
        /\ \A e \in outbox' : pc'[e.event[1]] \in {"reply", "done"}
    BY <2>1, <2>2, LocksKept DEF Locations, Owning, Ordering, Deducted
  <2> QED BY <2>1, <2>2, <2>3, AnsweringStep
<1> QED BY <1>1, <1>2

LEMMA ReplayStep ==
    ASSUME IInv, NEW r \in Requests, Replay(r)
    PROVE  IInv'
<1>1. PICK row \in IdemRows(Key(r)) : Decide(r, ReplayResult(r, row))
  BY DEF Replay
<1>2. Moved(r, "reply")
  BY GotoMoves DEF Replay, IInv, Locations
<1>3. /\ KeyLocks' /\ StockLocks' /\ FreshIds'
      /\ \A e \in outbox' : pc'[e.event[1]] \in {"reply", "done"}
  BY <1>2, LocksKept DEF Replay, Locations, Owning, Ordering, Deducted
<1>4. /\ row \in idem /\ row.key = Key(r) /\ row.order \in OrderIds
      /\ [id |-> row.order, key |-> row.key, sku |-> row.hash] \in orders
  BY DEF IdemRows, IInv, TypeOK, OneOrderPerKey
<1>5. ReplayResult(r, row) =
        IF row.hash # Sku(r) THEN Result("conflict", 0) ELSE Result("replayed", row.order)
  <2>1. \E o \in orders : o.id = row.order
    BY <1>4
  <2> QED BY <2>1 DEF ReplayResult
<1>6. CASE row.hash # Sku(r)
  <2>1. \E o \in orders : o.key = Key(r) /\ o.sku # Sku(r)
    BY <1>4, <1>6
  <2> DEFINE res == Result("conflict", 0)
  <2>2. res \in [kind : {"replayed", "conflict", "notFound", "outOfStock"}, id : 0 .. MaxId]
        /\ res.kind = "conflict"
    BY MaxIdAssumption DEF Result
  <2>3. Decide(r, res)
    BY <1>1, <1>5, <1>6
  <2> HIDE DEF res
  <2> QED BY <1>2, <1>3, <2>1, <2>2, <2>3, DecidingStep DEF Replay
<1>7. CASE row.hash = Sku(r)
  <2> DEFINE res == Result("replayed", row.order)
  <2>1. res.kind = "replayed" /\ res.id = row.order
        /\ res \in [kind : {"replayed", "conflict", "notFound", "outOfStock"}, id : 0 .. MaxId]
    BY <1>4 DEF Result, OrderIds
  <2>2. Decide(r, res)
    BY <1>1, <1>5, <1>7
  <2>3. [id |-> res.id, key |-> Key(r), sku |-> Sku(r)] \in orders
    BY <2>1, <1>4, <1>7
  <2> HIDE DEF res
  <2> QED BY <1>2, <1>3, <2>1, <2>2, <2>3, DecidingStep DEF Replay
<1> QED BY <1>6, <1>7

LEMMA RefusalStep ==
    ASSUME IInv, NEW r \in Requests, UnknownProduct(r) \/ OutOfStock(r)
    PROVE  IInv'
<1>1. Moved(r, "reply")
  BY RollbackMoves DEF UnknownProduct, OutOfStock, IInv, Locations, Owning
<1>2. /\ KeyLocks' /\ StockLocks' /\ FreshIds'
      /\ \A e \in outbox' : pc'[e.event[1]] \in {"reply", "done"}
  BY <1>1, LocksKept DEF UnknownProduct, OutOfStock, Locations, Owning, Ordering, Deducted
<1>3. CASE UnknownProduct(r)
  <2>1. /\ Result("notFound", 0) \in [kind : {"replayed", "conflict", "notFound", "outOfStock"},
                                      id : 0 .. MaxId]
        /\ Result("notFound", 0).kind = "notFound"
    BY MaxIdAssumption DEF Result
  <2> QED BY <1>1, <1>2, <1>3, <2>1, DecidingStep DEF UnknownProduct
<1>4. CASE OutOfStock(r)
  <2>1. /\ Result("outOfStock", 0) \in [kind : {"replayed", "conflict", "notFound", "outOfStock"},
                                        id : 0 .. MaxId]
        /\ Result("outOfStock", 0).kind = "outOfStock"
    BY MaxIdAssumption DEF Result
  <2> QED BY <1>1, <1>2, <1>4, <2>1, DecidingStep DEF OutOfStock
<1> QED BY <1>3, <1>4

LEMMA AnswerStep ==
    ASSUME IInv, NEW r \in Requests, Respond(r) \/ Fail(r)
    PROVE  IInv'
<1> DEFINE p == IF Fail(r) /\ pc[r] = "commit" THEN "limbo" ELSE "done"
<1>1. CASE Respond(r)
  <2>1. Moved(r, "done")
    BY <1>1, GotoMoves DEF Respond, IInv, Locations
  <2>2. /\ KeyLocks' /\ StockLocks' /\ FreshIds'
        /\ \A e \in outbox' : pc'[e.event[1]] \in {"reply", "done"}
    BY <1>1, <2>1, LocksKept DEF Respond, Locations, Owning, Ordering, Deducted
  <2>3. attempt' \in [Requests -> 0 .. MaxRetries]
    BY <1>1 DEF Respond, IInv, TypeOK
  <2> QED BY <1>1, <2>1, <2>2, <2>3, AnsweringStep DEF Respond
<1>2. CASE Fail(r) /\ pc[r] = "commit"
  <2>1. Moved(r, "limbo")
    BY <1>2, GotoMoves DEF Fail, IInv, Locations, Owning
  <2>2. /\ KeyLocks' /\ StockLocks' /\ FreshIds'
        /\ \A e \in outbox' : pc'[e.event[1]] \in {"reply", "done"}
    BY <1>2, <2>1, LocksKept DEF Fail, Locations, Owning, Ordering, Deducted
  <2>3. attempt' \in [Requests -> 0 .. MaxRetries]
    BY <1>2 DEF Fail, IInv, TypeOK
  <2> QED BY <1>2, <2>1, <2>2, <2>3, AnsweringStep DEF Fail
<1>3. CASE Fail(r) /\ pc[r] # "commit"
  <2>1. Moved(r, "done")
    BY <1>3, RollbackMoves DEF Fail, IInv, Locations, Owning
  <2>2. /\ KeyLocks' /\ StockLocks' /\ FreshIds'
        /\ \A e \in outbox' : pc'[e.event[1]] \in {"reply", "done"}
    BY <1>3, <2>1, LocksKept DEF Fail, Locations, Owning, Ordering, Deducted
  <2>3. attempt' \in [Requests -> 0 .. MaxRetries]
    BY <1>3 DEF Fail, IInv, TypeOK
  <2> QED BY <1>3, <2>1, <2>2, <2>3, AnsweringStep DEF Fail
<1> QED BY <1>1, <1>2, <1>3

\* The steps that only move the request along.
LEMMA MoveStep ==
    ASSUME IInv, NEW r \in Requests,
           \/ Submit(r) \/ InsertIdem(r) \/ InsertDup(r) \/ InsertBlocked(r)
           \/ DeductStock(r) \/ LimboRollback(r) \/ BackedOff(r)
    PROVE  IInv'
<1>1. UNCHANGED <<req, newId, db, nextId, result, reply>>
      /\ attempt' \in [Requests -> 0 .. MaxRetries]
  BY DEF Submit, InsertIdem, InsertDup, InsertBlocked, DeductStock, LimboRollback,
         BackedOff, IInv, TypeOK
<1>2. ASSUME NEW p \in Locations, Moved(r, p), p \notin {"shareKey", "reply", "limbo"},
             p \in Owning /\ pc[r] \notin Owning => IdemRows(Key(r)) = {} /\ ~KeyTaken(r),
             p \in Ordering => pc[r] \in Ordering,
             p \in Deducted /\ pc[r] \notin Deducted => stock[Sku(r)] > 0 /\ ~StockLocked(r),
             pc[r] \notin {"reply", "done"}, pc[r] = "limbo" <=> p = "done"
      PROVE  IInv'
  BY <1>1, <1>2, LocksKept, SilentStep
<1>3. CASE Submit(r)
  <2>1. Moved(r, "insert")
    BY <1>3, GotoMoves DEF Submit, IInv, Locations
  <2> QED BY <1>2, <1>3, <2>1 DEF Submit, Locations, Owning, Ordering, Deducted
<1>4. CASE InsertIdem(r)
  <2>1. Moved(r, "order")
    BY <1>4, GotoMoves DEF InsertIdem, IInv, Locations, Owning
  <2> QED BY <1>2, <1>4, <2>1 DEF InsertIdem, Locations, Owning, Ordering, Deducted
<1>5. CASE InsertDup(r)
  <2>1. Moved(r, "dup")
    BY <1>5, GotoMoves DEF InsertDup, IInv, Locations
  <2> QED BY <1>2, <1>5, <2>1 DEF InsertDup, Locations, Owning, Ordering, Deducted
<1>6. CASE InsertBlocked(r)
  <2>1. Moved(r, "waitKey")
    BY <1>6, GotoMoves DEF InsertBlocked, IInv, Locations
  <2> QED BY <1>2, <1>6, <2>1 DEF InsertBlocked, Locations, Owning, Ordering, Deducted
<1>7. CASE DeductStock(r)
  <2>1. Moved(r, "commit")
    BY <1>7, GotoMoves DEF DeductStock, IInv, Locations, Owning
  <2> QED BY <1>2, <1>7, <2>1 DEF DeductStock, Locations, Owning, Ordering, Deducted
<1>8. CASE LimboRollback(r)
  <2>1. Moved(r, "done")
    BY <1>8, RollbackMoves DEF LimboRollback, IInv, Locations, Owning
  <2> QED BY <1>2, <1>8, <2>1 DEF LimboRollback, Locations, Owning, Ordering, Deducted
<1>9. CASE BackedOff(r)
  <2>1. Moved(r, "insert")
    BY <1>9, GotoMoves DEF BackedOff, IInv, Locations
  <2> QED BY <1>2, <1>9, <2>1 DEF BackedOff, Locations, Owning, Ordering, Deducted
<1> QED BY <1>3, <1>4, <1>5, <1>6, <1>7, <1>8, <1>9

LEMMA Inductive == IInv /\ [Next]_vars => IInv'
<1> SUFFICES ASSUME IInv, [Next]_vars PROVE IInv'
  OBVIOUS
<1>1. CASE UNCHANGED vars
  BY <1>1 DEF IInv, TypeOK, KeyLocks, StockLocks, FreshIds, SpentRequests, Answers, Results,
      InventoryConserved, OrdersFor, OneOrderPerKey, OneEventPerOrder, NotFoundMeansUnknown,
      IdemRows, Rivals, Key, Sku, vars, db
<1>2. ASSUME NEW r \in Requests, Submit(r) \/ Step(r) \/ LockTimeout(r) \/ Fail(r)
      PROVE  IInv'
  <2>1. CASE Deadlock(r) \/ LockTimeout(r)
    BY <2>1, RetryStep DEF Deadlock, LockTimeout
  <2>2. CASE ~(Deadlock(r) \/ LockTimeout(r))
    BY <1>2, <2>2, MoveStep, ReplayStep, RefusalStep, InsertOrderStep, CommitStep, AnswerStep
       DEF Step
  <2> QED BY <2>1, <2>2
<1> QED BY <1>1, <1>2 DEF Next

THEOREM InductiveInvariant == Spec => []IInv
BY InitEstablishes, Inductive, PTL DEF Spec

-----------------------------------------------------------------------------
\* The state of the store keeps its types.
THEOREM TypeCorrect == Spec => []TypeOK
<1>1. IInv => TypeOK
  BY DEF IInv
<1> QED BY <1>1, InductiveInvariant, PTL

\* No oversell and no unit lost: stock and committed orders add up, for any
\* number of requests, articles and units.
THEOREM InventorySafe == Spec => []InventoryConserved
<1>1. IInv => InventoryConserved
  BY DEF IInv
<1> QED BY <1>1, InductiveInvariant, PTL

\* One order per idempotency key, and the key's row names it.
THEOREM IdempotencySafe == Spec => []OneOrderPerKey
<1>1. IInv => OneOrderPerKey
  BY DEF IInv
<1> QED BY <1>1, InductiveInvariant, PTL

\* One event per order: the outbox and the orders cannot drift apart.
THEOREM OutboxSafe == Spec => []OneEventPerOrder
<1>1. IInv => OneEventPerOrder
  BY DEF IInv
<1> QED BY <1>1, InductiveInvariant, PTL

\* What the clients are told adds up.
THEOREM AnswersSafe == Spec => []AnswersAgree
<1>1. IInv => AnswersAgree
  <2> SUFFICES ASSUME IInv, NEW r \in Requests
               PROVE  /\ reply[r].kind \in {"created", "replayed"} =>
                           [id |-> reply[r].id, key |-> Key(r), sku |-> Sku(r)] \in orders
                      /\ reply[r].kind = "created" =>
                           \A q \in Rivals(r) : reply[q].kind # "created"
                      /\ reply[r].kind = "conflict" =>
                           \E o \in orders : o.key = Key(r) /\ o.sku # Sku(r)
    BY DEF AnswersAgree
  <2>1. \A q \in Requests : reply[q].kind \in {"created", "replayed", "conflict"} =>
            reply[q] = result[q]
    BY DEF IInv, Answers, None, Failed, Result
  <2>2. ASSUME reply[r].kind = "created", NEW q \in Rivals(r), reply[q].kind = "created"
        PROVE  FALSE
    <3>1. /\ q \in Requests /\ q # r /\ Key(q) = Key(r)
          /\ result[r].kind = "created" /\ result[q].kind = "created"
      BY <2>1, <2>2 DEF Rivals
    <3>2. PICK d \in outbox : d.event[1] = r /\ d.order = result[r].id
      BY <3>1 DEF IInv, SpentRequests
    <3>3. PICK e \in outbox : e.event[1] = q /\ e.order = result[q].id
      BY <3>1 DEF IInv, SpentRequests
    <3>4. /\ [id |-> result[r].id, key |-> Key(r), sku |-> Sku(r)] \in orders
          /\ [id |-> result[q].id, key |-> Key(r), sku |-> Sku(q)] \in orders
      BY <3>1 DEF IInv, Results
    <3>5. /\ [key |-> Key(r), hash |-> Sku(r), order |-> result[r].id] \in idem
          /\ [key |-> Key(r), hash |-> Sku(q), order |-> result[q].id] \in idem
      BY <3>4 DEF IInv, OneOrderPerKey
    <3>6. [key |-> Key(r), hash |-> Sku(r), order |-> result[r].id] =
          [key |-> Key(r), hash |-> Sku(q), order |-> result[q].id]
      BY <3>5 DEF IInv, OneOrderPerKey
    <3>7. d = e
      BY <3>2, <3>3, <3>6 DEF IInv, OneEventPerOrder
    <3> QED BY <3>1, <3>2, <3>3, <3>7
  <2> QED BY <2>1, <2>2 DEF IInv, Results
<1> QED BY <1>1, InductiveInvariant, PTL

-----------------------------------------------------------------------------
\* CreateOrder implements the business step.

Plain(res) == IF res.kind = "notFound" THEN Result("outOfStock", 0) ELSE res

LEMMA VerdictStep ==
    ASSUME TypeOK, NEW r \in Requests, NEW res, Decide(r, res)
    PROVE  BusinessVerdict' = [BusinessVerdict EXCEPT ![r] = Plain(res)]
BY DEF TypeOK, Decide, BusinessVerdict, Plain

LEMMA AnswerMap ==
    ASSUME TypeOK, NEW r \in Requests, NEW res, Answer(r, res)
    PROVE  BusinessAnswer' = [BusinessAnswer EXCEPT ![r] = Plain(res)]
BY DEF TypeOK, Answer, BusinessAnswer, Plain

LEMMA UndecidedBefore ==
    ASSUME IInv, NEW r \in Requests, pc[r] \notin {"reply", "done"}
    PROVE  BusinessVerdict[r] = Business!Undecided
BY DEF IInv, Answers, BusinessVerdict, None, Result, Business!Undecided, Business!Verdict

LEMMA UnansweredBefore ==
    ASSUME IInv, NEW r \in Requests, pc[r] \notin {"limbo", "done"}
    PROVE  BusinessAnswer[r] = Business!Undecided
BY DEF IInv, Answers, BusinessAnswer, None, Result, Business!Undecided, Business!Verdict

\* Steps that fix no result and give no answer are invisible to the business model.
LEMMA Invisible ==
    ASSUME UNCHANGED <<req, stock, orders, result, reply>>
    PROVE  UNCHANGED Business!vars
BY DEF Business!vars, BusinessVerdict, BusinessAnswer

LEMMA AnswerIsTold ==
    ASSUME IInv, NEW r \in Requests, Respond(r)
    PROVE  Business!Tell(r)
<1>1. BusinessAnswer' = [BusinessAnswer EXCEPT ![r] = Plain(result[r])]
  BY AnswerMap DEF Respond, IInv
<1>2. BusinessAnswer[r] = Business!Undecided
  BY UnansweredBefore DEF Respond
<1>3. Plain(result[r]) = BusinessVerdict[r]
  BY DEF Plain, BusinessVerdict
<1>4. BusinessVerdict[r] # Business!Undecided
  <2>1. result[r].kind # "none"
    BY DEF Respond, IInv, Answers
  <2> QED BY <2>1 DEF BusinessVerdict, Result, Business!Undecided, Business!Verdict
<1>5. UNCHANGED <<req, stock, orders, BusinessVerdict>>
  BY DEF Respond, db, BusinessVerdict
<1> QED BY <1>1, <1>2, <1>3, <1>4, <1>5 DEF Business!Tell

LEMMA FailureIsTold ==
    ASSUME IInv, NEW r \in Requests, pc[r] \notin {"limbo", "done"}, Answer(r, Failed),
           UNCHANGED <<req, stock, orders, result>>
    PROVE  Business!Fail(r)
<1>1. BusinessAnswer' = [BusinessAnswer EXCEPT ![r] = Plain(Failed)]
  BY AnswerMap DEF IInv
<1>2. Plain(Failed) = Business!Failed
  BY DEF Plain, Failed, Result, Business!Failed, Business!Verdict
<1>3. BusinessAnswer[r] = Business!Undecided
  BY UnansweredBefore
<1> QED BY <1>1, <1>2, <1>3 DEF Business!Fail, BusinessVerdict

LEMMA ReplayIsReplay ==
    ASSUME IInv, NEW r \in Requests, Replay(r)
    PROVE  Business!TryPlaceOrder(r)
<1>1. PICK row \in IdemRows(Key(r)) : Decide(r, ReplayResult(r, row))
  BY DEF Replay
<1> DEFINE o == [id |-> row.order, key |-> row.key, sku |-> row.hash]
<1>2. o \in orders /\ o.id = row.order /\ o.key = Key(r) /\ o.sku = row.hash
  BY DEF IdemRows, IInv, OneOrderPerKey
<1>3. Plain(ReplayResult(r, row)) = IF o.sku = Sku(r) THEN Result("replayed", o.id)
                                    ELSE Result("conflict", 0)
  BY <1>2 DEF ReplayResult, Plain, Result
<1>4. BusinessVerdict' = [BusinessVerdict EXCEPT ![r] =
          IF o.sku = Sku(r) THEN Result("replayed", o.id) ELSE Result("conflict", 0)]
  BY <1>1, <1>3, VerdictStep DEF IInv
<1>5. o \in Business!OrdersOf(r)
  BY <1>2 DEF Business!OrdersOf, Key
<1>6. UNCHANGED <<req, stock, orders, BusinessAnswer>>
  BY DEF Replay, db, BusinessAnswer
<1> HIDE DEF o
<1>7. Business!Replay(r)
  BY <1>4, <1>5, <1>6 DEF Business!Replay, Business!Verdict, Result, Sku
<1> QED BY <1>7, UndecidedBefore DEF Business!TryPlaceOrder, Replay

\* An open transaction that owns its key is the first on it.
LEMMA FirstOnKey ==
    ASSUME IInv, NEW r \in Requests, pc[r] \in Owning
    PROVE  Business!OrdersOf(r) = {}
<1>1. \A i \in idem : i.key # Key(r)
  BY DEF IInv, KeyLocks, IdemRows
<1>2. ASSUME NEW o \in orders PROVE o.key # Key(r)
  <2>1. [key |-> o.key, hash |-> o.sku, order |-> o.id] \in idem
    BY DEF IInv, OneOrderPerKey
  <2> QED BY <1>1, <2>1
<1> QED BY <1>2 DEF Business!OrdersOf, Key

LEMMA RefusalIsRefusal ==
    ASSUME IInv, NEW r \in Requests, UnknownProduct(r) \/ OutOfStock(r)
    PROVE  Business!TryPlaceOrder(r)
<1>1. pc[r] \in Owning /\ pc[r] \notin {"reply", "done"}
  BY DEF UnknownProduct, OutOfStock, Owning
<1>2. Sku(r) \in Products => stock[Sku(r)] = 0
  BY DEF UnknownProduct, OutOfStock
<1>3. Decide(r, Result("notFound", 0)) \/ Decide(r, Result("outOfStock", 0))
  BY DEF UnknownProduct, OutOfStock
<1>4. BusinessVerdict' = [BusinessVerdict EXCEPT ![r] = Result("outOfStock", 0)]
  BY <1>3, VerdictStep DEF IInv, Plain, Result
<1>5. UNCHANGED <<req, stock, orders, BusinessAnswer>>
  BY DEF UnknownProduct, OutOfStock, db, BusinessAnswer
<1>6. Business!Refuse(r)
  BY <1>1, <1>2, <1>4, <1>5, FirstOnKey
     DEF Business!Refuse, Business!Verdict, Result, Sku
<1> QED BY <1>1, <1>6, UndecidedBefore DEF Business!TryPlaceOrder

LEMMA CommitIsAcceptance ==
    ASSUME IInv, NEW r \in Requests, Commit(r)
    PROVE  Business!TryPlaceOrder(r)
<1>1. pc[r] \in Owning /\ pc[r] \notin {"reply", "done"}
      /\ pc[r] \in Ordering /\ pc[r] \in Deducted
  BY DEF Commit, Owning, Ordering, Deducted
<1>2. /\ Sku(r) \in Products /\ stock[Sku(r)] > 0 /\ newId[r] \in OrderIds
      /\ \A o \in orders : o.id # newId[r]
  BY <1>1 DEF IInv, StockLocks, FreshIds
<1>3. BusinessVerdict' = [BusinessVerdict EXCEPT ![r] = Result("created", newId[r])]
  <2>1. Plain(Result("created", newId[r])) = Result("created", newId[r])
    BY DEF Plain, Result
  <2> QED BY <2>1, VerdictStep DEF Commit, IInv
<1>4. /\ orders' = orders \cup {Business!Order(r, newId[r])}
      /\ stock' = [stock EXCEPT ![Sku(r)] = @ - 1]
      /\ UNCHANGED <<req, BusinessAnswer>>
  BY DEF Commit, OrderRow, Business!Order, BusinessAnswer, Key, Sku
<1>5. Business!Accept(r)
  BY <1>1, <1>2, <1>3, <1>4, FirstOnKey
     DEF Business!Accept, Business!Verdict, Result, Sku
<1> QED BY <1>1, <1>5, UndecidedBefore DEF Business!TryPlaceOrder

LEMMA StepRefines == IInv /\ [Next]_vars => [Business!Next]_(Business!vars)
<1> SUFFICES ASSUME IInv, [Next]_vars
             PROVE  Business!Next \/ UNCHANGED Business!vars
  OBVIOUS
<1>1. CASE UNCHANGED vars
  BY <1>1, Invisible DEF vars, db
<1>2. ASSUME NEW r \in Requests, Submit(r) \/ Step(r) \/ LockTimeout(r) \/ Fail(r)
      PROVE  Business!Next \/ UNCHANGED Business!vars
  <2>1. CASE \/ Submit(r) \/ InsertIdem(r) \/ InsertDup(r) \/ InsertBlocked(r)
             \/ InsertOrder(r) \/ DeductStock(r) \/ LimboRollback(r) \/ BackedOff(r)
    <3>1. UNCHANGED <<req, stock, orders, result, reply>>
      BY <2>1 DEF Submit, InsertIdem, InsertDup, InsertBlocked, InsertOrder, DeductStock,
                  LimboRollback, BackedOff, db
    <3> QED BY <3>1, Invisible
  <2>2. CASE Replay(r)
    BY <2>2, ReplayIsReplay DEF Business!Next
  <2>3. CASE UnknownProduct(r) \/ OutOfStock(r)
    BY <2>3, RefusalIsRefusal DEF Business!Next
  <2>4. CASE Commit(r)
    BY <2>4, CommitIsAcceptance DEF Business!Next
  <2>5. CASE Respond(r)
    BY <2>5, AnswerIsTold DEF Business!Next
  <2>6. CASE Deadlock(r) \/ LockTimeout(r)
    <3>1. pc[r] \in {"waitKey", "shareKey", "deduct"} /\ Retry(r)
      BY <2>6 DEF Deadlock, LockTimeout
    <3>2. CASE attempt[r] < MaxRetries
      BY <3>1, <3>2, Invisible DEF Retry, db
    <3>3. CASE ~(attempt[r] < MaxRetries)
      BY <3>1, <3>3, FailureIsTold DEF Retry, db, Business!Next
    <3> QED BY <3>2, <3>3
  <2>7. CASE Fail(r)
    BY <2>7, FailureIsTold DEF Fail, db, Business!Next
  <2> QED BY <1>2, <2>1, <2>2, <2>3, <2>4, <2>5, <2>6, <2>7 DEF Step
<1> QED BY <1>1, <1>2 DEF Next

\* The concurrent, retried, failing transactions do what the one atomic business
\* step of model.go does: nothing else about orders and stock can be observed.
THEOREM Refinement == Spec => ImplementsPlaceOrder
<1>1. Init => Business!Init
  BY DEF Init, Business!Init, BusinessVerdict, BusinessAnswer, None, Result,
         Business!Undecided, Business!Verdict
<1> QED BY <1>1, StepRefines, InductiveInvariant, PTL
        DEF Spec, ImplementsPlaceOrder, Business!Spec

\* A replay always finds its order.
THEOREM NotFoundSafe == Spec => []NotFoundMeansUnknown
<1>1. IInv => NotFoundMeansUnknown
  BY DEF IInv
<1> QED BY <1>1, InductiveInvariant, PTL

-----------------------------------------------------------------------------
\* The lock order leaves no circle of waits.

\* The row that rejected an INSERT stays.
DupHasRow == \A r \in Requests : pc[r] = "dup" => IdemRows(Key(r)) # {}

\* Committed idempotency rows stay, and only InsertDup takes a request to "dup".
LEMMA RowsStay == Next => req' = req /\ idem \subseteq idem'
BY DEF Next, Submit, Step, LockTimeout, Fail, InsertIdem, InsertDup, InsertBlocked, Replay,
       UnknownProduct, InsertOrder, DeductStock, OutOfStock, Commit, LimboRollback, Respond,
       Deadlock, BackedOff, Retry, db

LEMMA OnlyInsertDup ==
    ASSUME TypeOK, NEW r \in Requests, NEW q \in Requests, pc'[q] = "dup", pc[q] # "dup",
           Submit(r) \/ Step(r) \/ LockTimeout(r) \/ Fail(r)
    PROVE  q = r /\ InsertDup(r)
<1>1. CASE InsertDup(r)
  BY <1>1 DEF InsertDup, Goto, TypeOK
<1>2. CASE \/ Submit(r) \/ InsertIdem(r) \/ InsertBlocked(r) \/ Replay(r)
           \/ InsertOrder(r) \/ DeductStock(r) \/ Commit(r) \/ Respond(r) \/ BackedOff(r)
  <2>1. \E p \in Locations \ {"dup"} : Goto(r, p)
    BY <1>2 DEF Submit, InsertIdem, InsertBlocked, Replay, InsertOrder, DeductStock,
                Commit, Respond, BackedOff, Locations, Owning
  <2> QED BY <2>1 DEF Goto, TypeOK
<1>3. CASE \/ UnknownProduct(r) \/ OutOfStock(r) \/ LimboRollback(r) \/ Deadlock(r)
           \/ LockTimeout(r) \/ Fail(r)
  <2>1. \E p \in {"reply", "done", "backoff", "limbo"} : Goto(r, p) \/ Rollback(r, p)
    BY <1>3 DEF UnknownProduct, OutOfStock, LimboRollback, Deadlock, LockTimeout, Retry,
                Fail
  <2>2. PICK p \in {"reply", "done", "backoff", "limbo"} : Goto(r, p) \/ Rollback(r, p)
    BY <2>1
  <2>3. pc'[q] \in {p, "shareKey", pc[q]}
    BY <2>2 DEF Goto, Rollback, TypeOK
  <2> QED BY <2>3
<1> QED BY <1>1, <1>2, <1>3 DEF Step

LEMMA DupHasRowStays == TypeOK /\ DupHasRow /\ [Next]_vars => DupHasRow'
<1> SUFFICES ASSUME TypeOK, DupHasRow, [Next]_vars PROVE DupHasRow'
  OBVIOUS
<1>1. CASE UNCHANGED vars
  BY <1>1 DEF DupHasRow, IdemRows, Key, vars, db
<1>2. CASE Next
  <2> SUFFICES ASSUME NEW q \in Requests, pc'[q] = "dup"
               PROVE  IdemRows(Key(q))' # {}
    BY DEF DupHasRow
  <2>1. IdemRows(Key(q)) \subseteq IdemRows(Key(q))'
    BY <1>2, RowsStay DEF IdemRows, Key
  <2>2. CASE pc[q] = "dup"
    BY <2>1, <2>2 DEF DupHasRow
  <2>3. CASE pc[q] # "dup"
    <3>1. PICK r \in Requests : Submit(r) \/ Step(r) \/ LockTimeout(r) \/ Fail(r)
      BY <1>2 DEF Next
    <3>2. InsertDup(q)
      BY <2>3, <3>1, OnlyInsertDup
    <3> QED BY <2>1, <3>2 DEF InsertDup
  <2> QED BY <2>2, <2>3
<1> QED BY <1>1, <1>2

\* The owner of an idempotency row waits, if at all, for one that has the stock and
\* waits for nothing.
LEMMA OwnerMoves ==
    ASSUME NEW q \in Requests, pc[q] \in Owning
    PROVE  Ready(q) \/ \E p \in Requests : Blocks(p, q) /\ Ready(p)
<1>1. CASE pc[q] # "deduct"
  BY <1>1 DEF Owning, Ready
<1>2. CASE pc[q] = "deduct"
  <2>1. CASE StockLocked(q)
    <3>1. PICK p \in Requests \ {q} : Sku(p) = Sku(q) /\ pc[p] \in {"commit", "limbo"}
      BY <2>1 DEF StockLocked
    <3> QED BY <1>2, <3>1 DEF Blocks, Ready
  <2>2. CASE ~StockLocked(q)
    BY <1>2, <2>2 DEF Ready
  <2> QED BY <2>1, <2>2
<1> QED BY <1>1, <1>2

LEMMA BlockedBehindAMover == TypeOK /\ KeyLocks /\ DupHasRow => WaitsEnd
<1> SUFFICES ASSUME TypeOK, KeyLocks, DupHasRow,
                    NEW r \in Requests, pc[r] \notin {"idle", "done"}, ~Ready(r)
             PROVE  \E q \in Requests :
                        /\ Blocks(q, r)
                        /\ Ready(q) \/ \E p \in Requests : Blocks(p, q) /\ Ready(p)
  BY DEF WaitsEnd
<1>1. pc[r] \in {"waitKey", "shareKey", "deduct"}
  BY DEF TypeOK, Locations, Owning, Ready, DupHasRow
<1>2. CASE pc[r] = "deduct"
  <2>1. StockLocked(r)
    BY <1>2 DEF Ready
  <2>2. PICK q \in Requests \ {r} : Sku(q) = Sku(r) /\ pc[q] \in {"commit", "limbo"}
    BY <2>1 DEF StockLocked
  <2> QED BY <1>2, <2>2 DEF Blocks, Ready
<1>3. CASE pc[r] \in {"waitKey", "shareKey"}
  <2>1. KeyTaken(r)
    BY <1>3 DEF Ready
  <2>2. PICK q \in Rivals(r) : pc[q] \in Owning \cup {"shareKey"}
    BY <2>1 DEF KeyTaken
  <2>3. q \in Requests /\ q # r /\ Blocks(q, r)
    BY <1>3, <2>2 DEF Blocks, Rivals
  <2>4. CASE pc[q] \in Owning
    BY <2>3, <2>4, OwnerMoves
  <2>5. CASE pc[q] = "shareKey"
    <3>1. CASE KeyTaken(q)
      <4>1. PICK p \in Rivals(q) : pc[p] \in Owning \cup {"shareKey"}
        BY <3>1 DEF KeyTaken
      <4>2. CASE pc[p] = "shareKey"
        BY <2>3, <2>5, <4>1, <4>2 DEF Ready
      <4>3. pc[p] \notin Owning
        BY <2>2, <2>3, <2>5, <4>1 DEF KeyLocks, Rivals
      <4> QED BY <4>1, <4>2, <4>3
    <3>2. CASE ~KeyTaken(q)
      BY <2>3, <2>5, <3>2 DEF Ready
    <3> QED BY <3>1, <3>2
  <2> QED BY <2>2, <2>4, <2>5
<1> QED BY <1>1, <1>2, <1>3

\* No circle of waits: behind every request that waits for a row lock stands one
\* the database can let go on.
THEOREM WaitsSafe == Spec => []WaitsEnd
<1>1. Init => DupHasRow
  BY DEF Init, DupHasRow
<1>2. IInv => TypeOK /\ KeyLocks
  BY DEF IInv
<1>3. Spec => []DupHasRow
  BY <1>1, <1>2, DupHasRowStays, InductiveInvariant, PTL DEF Spec
<1> QED BY <1>2, <1>3, BlockedBehindAMover, InductiveInvariant, PTL

-----------------------------------------------------------------------------
\* What the business model is worth, to whoever relies on PlaceOrder and on no
\* transaction

Verdicts == [kind : {"none", "created", "replayed", "conflict", "outOfStock", "error"},
             id : 0 .. MaxId]

RulesFit ==
    /\ req \in [Requests -> [key : Keys, sku : Skus]]
    /\ IsFiniteSet(orders)
    /\ orders \subseteq [id : OrderIds, key : Keys, sku : Products]
    /\ stock \in [Products -> Nat]
    /\ BusinessVerdict \in [Requests -> Verdicts]
    /\ BusinessAnswer \in [Requests -> Verdicts]

OrdersDistinct == \A o, p \in orders : o.key = p.key \/ o.id = p.id => o = p

\* A verdict names what is ordered under the request's key, one creates it, and who
\* is told anything but "error" is told the verdict.
VerdictTrue(v, r) ==
    /\ v.kind \in {"created", "replayed"} =>
         [id |-> v.id, key |-> Key(r), sku |-> Sku(r)] \in orders
    /\ v.kind = "conflict" => \E o \in orders : o.key = Key(r) /\ o.sku # Sku(r)

VerdictsTrue ==
    \A r \in Requests :
        /\ VerdictTrue(BusinessVerdict[r], r)
        /\ BusinessVerdict[r].kind = "created" =>
             \A q \in Rivals(r) : BusinessVerdict[q].kind # "created"
        /\ BusinessAnswer[r] \in {None, Failed, BusinessVerdict[r]}

RulesKept == RulesFit /\ InventoryConserved /\ OrdersDistinct /\ VerdictsTrue

\* The verdicts of the two modules are the same records.
LEMMA SameRecords ==
    /\ Business!Undecided = None /\ Business!Failed = Failed
    /\ \A k, i : Business!Verdict(k, i) = Result(k, i)
BY DEF Business!Undecided, Business!Failed, Business!Verdict, None, Failed, Result

\* A new order under a new id, of an article of which there is a unit.
LEMMA OneSold ==
    ASSUME RulesKept, NEW o \in [id : OrderIds, key : Keys, sku : Products],
           o \notin orders, stock[o.sku] > 0, orders' = orders \cup {o},
           stock' = [stock EXCEPT ![o.sku] = @ - 1]
    PROVE  InventoryConserved' /\ IsFiniteSet(orders)' /\ stock' \in [Products -> Nat]
<1>1. stock' \in [Products -> Nat]
  BY DEF RulesKept, RulesFit
<1>2. IsFiniteSet(orders)'
  BY FS_AddElement DEF RulesKept, RulesFit
<1>3. ASSUME NEW s \in Products
      PROVE  /\ stock'[s] \in Nat
             /\ stock'[s] + Cardinality({a \in orders' : a.sku = s}) = InitStock[s]
  <2>1. /\ stock[s] \in Nat /\ stock[o.sku] \in Nat
        /\ stock[s] + Cardinality(OrdersFor(s)) = InitStock[s]
    BY DEF RulesKept, InventoryConserved
  <2>2. IsFiniteSet(OrdersFor(s)) /\ Cardinality(OrdersFor(s)) \in Nat
    BY FS_Subset, FS_CardinalityType DEF RulesKept, RulesFit, OrdersFor
  <2>3. CASE s = o.sku
    <3>1. {a \in orders' : a.sku = s} = OrdersFor(s) \cup {o} /\ o \notin OrdersFor(s)
      BY <2>3 DEF OrdersFor
    <3>2. Cardinality({a \in orders' : a.sku = s}) = Cardinality(OrdersFor(s)) + 1
      BY <2>2, <3>1, FS_AddElement
    <3>3. stock'[s] = stock[s] - 1
      BY <2>3 DEF RulesKept, RulesFit
    <3> QED BY <2>1, <2>2, <2>3, <3>2, <3>3
  <2>4. CASE s # o.sku
    <3>1. {a \in orders' : a.sku = s} = OrdersFor(s) /\ stock'[s] = stock[s]
      BY <2>4 DEF OrdersFor, RulesKept, RulesFit
    <3> QED BY <2>1, <3>1
  <2> QED BY <2>3, <2>4
<1> QED BY <1>1, <1>2, <1>3 DEF InventoryConserved, OrdersFor

\* Deciding r leaves what was said of the others true.
LEMMA VerdictsStay ==
    ASSUME RulesKept, NEW r \in Requests, BusinessVerdict[r] = None, NEW v,
           BusinessVerdict' = [BusinessVerdict EXCEPT ![r] = v],
           VerdictTrue(v, r)',
           v.kind = "created" => \A q \in Rivals(r) : BusinessVerdict[q].kind # "created",
           UNCHANGED <<req, BusinessAnswer>>, orders \subseteq orders'
    PROVE  VerdictsTrue'
<1>1. \A q \in Requests : BusinessVerdict'[q] = IF q = r THEN v ELSE BusinessVerdict[q]
  BY DEF RulesKept, RulesFit
<1>2. ASSUME NEW q \in Requests PROVE VerdictTrue(BusinessVerdict[q], q)'
  <2>1. CASE q = r
    BY <1>1, <2>1 DEF VerdictTrue, Key, Sku
  <2>2. CASE q # r
    <3>1. VerdictTrue(BusinessVerdict[q], q) /\ BusinessVerdict'[q] = BusinessVerdict[q]
      BY <1>1, <2>2 DEF RulesKept, VerdictsTrue
    <3> QED BY <3>1 DEF VerdictTrue, Key, Sku
  <2> QED BY <2>1, <2>2
<1>3. ASSUME NEW q \in Requests, NEW p \in Rivals(q), BusinessVerdict'[q].kind = "created"
      PROVE  BusinessVerdict'[p].kind # "created"
  <2>1. p \in Requests /\ p # q /\ (q = r => p \in Rivals(r)) /\ (p = r => q \in Rivals(r))
    BY DEF Rivals
  <2>2. q # r /\ p # r => BusinessVerdict[p].kind # "created"
    BY <1>1, <1>3 DEF RulesKept, VerdictsTrue
  <2> QED BY <1>1, <1>3, <2>1, <2>2
<1>4. ASSUME NEW q \in Requests
      PROVE  BusinessAnswer'[q] \in {None, Failed, BusinessVerdict'[q]}
  BY <1>1 DEF RulesKept, VerdictsTrue
<1>5. \A q \in Requests : Rivals(q)' = Rivals(q)
  BY DEF Rivals, Key
<1> QED BY <1>2, <1>3, <1>4, <1>5 DEF VerdictsTrue

LEMMA AcceptKeepsRules ==
    ASSUME RulesKept, NEW r \in Requests, BusinessVerdict[r] = None, Business!Accept(r)
    PROVE  RulesKept'
<1>1. PICK id \in OrderIds :
          /\ \A o \in orders : o.id # id
          /\ orders' = orders \cup {[id |-> id, key |-> Key(r), sku |-> Sku(r)]}
          /\ BusinessVerdict' = [BusinessVerdict EXCEPT ![r] = Result("created", id)]
  BY SameRecords DEF Business!Accept, Business!Order, Key, Sku
<1> DEFINE new == [id |-> id, key |-> Key(r), sku |-> Sku(r)]
<1>2. /\ Sku(r) \in Products /\ stock[Sku(r)] > 0
      /\ stock' = [stock EXCEPT ![Sku(r)] = @ - 1]
      /\ UNCHANGED <<req, BusinessAnswer>>
      /\ \A o \in orders : o.key # Key(r)
  BY DEF Business!Accept, Business!OrdersOf, Key, Sku
<1>3. new \in [id : OrderIds, key : Keys, sku : Products] /\ new \notin orders
  BY <1>1, <1>2 DEF RulesKept, RulesFit, Key
<1>4. InventoryConserved' /\ IsFiniteSet(orders)' /\ stock' \in [Products -> Nat]
  BY <1>1, <1>2, <1>3, OneSold
<1>5. Result("created", id) \in Verdicts
  BY <1>1, MaxIdAssumption DEF Result, Verdicts, OrderIds
<1>6. RulesFit'
  <2>1. BusinessVerdict' \in [Requests -> Verdicts]
    BY <1>1, <1>5 DEF RulesKept, RulesFit
  <2> QED BY <1>1, <1>2, <1>3, <1>4, <2>1 DEF RulesKept, RulesFit
<1>7. OrdersDistinct'
  BY <1>1, <1>2 DEF RulesKept, OrdersDistinct
<1>8. VerdictsTrue'
  <2>1. \A p \in Requests :
            BusinessVerdict'[p] = IF p = r THEN Result("created", id) ELSE BusinessVerdict[p]
    BY <1>1 DEF RulesKept, RulesFit
  <2>2. \A p \in Rivals(r) : BusinessVerdict[p].kind # "created"
    BY <1>2 DEF RulesKept, VerdictsTrue, VerdictTrue, Rivals, Key
  <2>3. VerdictTrue(Result("created", id), r)'
    BY <1>1, <1>2 DEF VerdictTrue, Result, Key, Sku
  <2>4. Result("created", id) # None /\ BusinessVerdict' = [BusinessVerdict EXCEPT ![r] =
            Result("created", id)]
    BY <1>1 DEF Result, None
  <2> QED BY <1>1, <1>2, <2>2, <2>3, <2>4, VerdictsStay
<1> QED BY <1>4, <1>6, <1>7, <1>8 DEF RulesKept

LEMMA VerdictKeepsRules ==
    ASSUME RulesKept, NEW r \in Requests, BusinessVerdict[r] = None,
           Business!Replay(r) \/ Business!Refuse(r)
    PROVE  RulesKept'
<1>1. PICK v \in Verdicts :
          /\ BusinessVerdict' = [BusinessVerdict EXCEPT ![r] = v]
          /\ v.kind \in {"replayed", "conflict", "outOfStock"}
          /\ v.kind = "replayed" => [id |-> v.id, key |-> Key(r), sku |-> Sku(r)] \in orders
          /\ v.kind = "conflict" => \E o \in orders : o.key = Key(r) /\ o.sku # Sku(r)
  <2>1. CASE Business!Refuse(r)
    <3>1. Result("outOfStock", 0) \in Verdicts
      BY MaxIdAssumption DEF Result, Verdicts
    <3> QED BY <2>1, <3>1, SameRecords DEF Business!Refuse, Result
  <2>2. CASE Business!Replay(r)
    <3>1. PICK o \in orders :
              /\ o.key = Key(r)
              /\ BusinessVerdict' = [BusinessVerdict EXCEPT ![r] =
                    IF o.sku = Sku(r) THEN Result("replayed", o.id) ELSE Result("conflict", 0)]
      BY <2>2, SameRecords DEF Business!Replay, Business!OrdersOf, Key, Sku
    <3>2. o \in [id : OrderIds, key : Keys, sku : Products]
      BY DEF RulesKept, RulesFit
    <3>3. Result("replayed", o.id) \in Verdicts /\ Result("conflict", 0) \in Verdicts
      BY <3>2, MaxIdAssumption DEF Result, Verdicts, OrderIds
    <3>4. o = [id |-> o.id, key |-> o.key, sku |-> o.sku]
      BY <3>2
    <3> QED BY <3>1, <3>3, <3>4 DEF Result
  <2> QED BY <2>1, <2>2
<1>2. UNCHANGED <<req, orders, stock, BusinessAnswer>>
  BY DEF Business!Replay, Business!Refuse
<1>4. RulesFit' /\ InventoryConserved' /\ OrdersDistinct'
  BY <1>1, <1>2 DEF RulesKept, RulesFit, InventoryConserved, OrdersFor, OrdersDistinct
<1>5. VerdictsTrue'
  <2>1. VerdictTrue(v, r)'
    BY <1>1, <1>2 DEF VerdictTrue, Key, Sku
  <2> QED BY <1>1, <1>2, <2>1, VerdictsStay
<1> QED BY <1>4, <1>5 DEF RulesKept

LEMMA TellingKeepsRules ==
    ASSUME RulesKept, NEW r \in Requests, Business!Tell(r) \/ Business!Fail(r)
    PROVE  RulesKept'
<1>1. PICK v \in {Failed, BusinessVerdict[r]} :
          /\ BusinessAnswer' = [BusinessAnswer EXCEPT ![r] = v]
          /\ UNCHANGED <<req, orders, stock, BusinessVerdict>>
  BY SameRecords DEF Business!Tell, Business!Fail
<1>2. v \in Verdicts
  BY MaxIdAssumption DEF RulesKept, RulesFit, Failed, Result, Verdicts
<1>3. RulesFit' /\ InventoryConserved' /\ OrdersDistinct'
  BY <1>1, <1>2 DEF RulesKept, RulesFit, InventoryConserved, OrdersFor, OrdersDistinct
<1>4. VerdictsTrue'
  BY <1>1 DEF RulesKept, RulesFit, VerdictsTrue, VerdictTrue, Key, Sku, Rivals
<1> QED BY <1>3, <1>4 DEF RulesKept

LEMMA RulesHoldAtFirst == Business!Init => RulesKept
<1> SUFFICES ASSUME Business!Init PROVE RulesKept
  OBVIOUS
<1>1. None \in Verdicts
  BY MaxIdAssumption DEF None, Result, Verdicts
<1>2. RulesFit
  BY <1>1, SameRecords, StockAssumption, FS_EmptySet DEF Business!Init, RulesFit
<1>3. InventoryConserved
  <2> SUFFICES ASSUME NEW s \in Products
               PROVE  stock[s] \in Nat /\ stock[s] + Cardinality(OrdersFor(s)) = InitStock[s]
    BY DEF InventoryConserved
  <2>1. OrdersFor(s) = {} /\ stock = InitStock
    BY DEF Business!Init, OrdersFor
  <2> QED BY <2>1, StockAssumption, FS_EmptySet
<1>4. OrdersDistinct /\ VerdictsTrue
  BY SameRecords DEF Business!Init, OrdersDistinct, VerdictsTrue, VerdictTrue, None, Result
<1> QED BY <1>2, <1>3, <1>4 DEF RulesKept

\* model.go, rules 2 to 4, read off the abstract specification alone: whatever
\* implements it oversells nothing, has one order per key, and tells each client of
\* the order its key stands for, or of an error.
THEOREM ModelMeansItsRules == ImplementsPlaceOrder => []RulesKept
<1>1. RulesKept /\ [Business!Next]_(Business!vars) => RulesKept'
  <2>1. ASSUME RulesKept, UNCHANGED Business!vars PROVE RulesKept'
    BY <2>1 DEF Business!vars, RulesKept, RulesFit, InventoryConserved, OrdersFor,
                OrdersDistinct, VerdictsTrue, VerdictTrue, Key, Sku, Rivals
  <2>2. ASSUME RulesKept, NEW r \in Requests,
               Business!TryPlaceOrder(r) \/ Business!Tell(r) \/ Business!Fail(r)
        PROVE  RulesKept'
    BY <2>2, AcceptKeepsRules, VerdictKeepsRules, TellingKeepsRules, SameRecords
       DEF Business!TryPlaceOrder
  <2> QED BY <2>1, <2>2 DEF Business!Next
<1> QED BY <1>1, RulesHoldAtFirst, PTL DEF ImplementsPlaceOrder, Business!Spec
=============================================================================
