---------------------------- MODULE OrderHistory ----------------------------
(***************************************************************************)
(* A client walks through its list of orders page by page (GET /api/orders:*)
(* listOrders in internal/api/handler.go, GetOrdersByCursor in             *)
(* internal/store/mysql/store.go) while orders are being placed.           *)
(*                                                                         *)
(* An order has its id and its created_at before its COMMIT, and created_at*)
(* is the clock of whichever replica served it, to the millisecond: so an  *)
(* order that comes into sight may have any free id and any time, one that *)
(* others have too, or one the walk has already gone past.                 *)
(***************************************************************************)
EXTENDS Integers, FiniteSets

CONSTANTS
    MaxId,         \* bound: orders of the client
    MaxTime,       \* bound: different values of created_at
    Limits,        \* the limits a client asks for
    MaxLimit,      \* the greatest that is allowed, 50
    DefaultLimit   \* taken instead of one that is not, 10

ASSUME LimitsAssumption ==
    /\ MaxId \in Nat /\ MaxTime \in Nat
    /\ Limits \subseteq Int
    /\ MaxLimit \in Nat /\ DefaultLimit \in Nat \ {0}

VARIABLES
    orders,  \* the client's committed orders, [id, at]
    walk,    \* "idle", "walking" or "done"
    cursor,  \* the last order of the last page, or NoOrder
    before,  \* for the properties: the orders there were when the walk began
    shown,   \* for the properties: the orders shown so far
    again    \* for the properties: those that were shown more than once

vars == <<orders, walk, cursor, before, shown, again>>

Orders == [id : 1 .. MaxId, at : 1 .. MaxTime]
NoOrder == [id |-> 0, at |-> 0]

Init ==
    /\ orders = {}
    /\ walk = "idle"
    /\ cursor = NoOrder
    /\ before = {} /\ shown = {} /\ again = {}

(* ORDER BY created_at DESC, id DESC                                       *)
Newer(a, b) == a.at > b.at \/ (a.at = b.at /\ a.id > b.id)

Place ==
    /\ \E o \in Orders :
          /\ \A p \in orders : p.id # o.id
          /\ orders' = orders \cup {o}
    /\ UNCHANGED <<walk, cursor, before, shown, again>>

(* Slip: created_at alone is the anchor.                                   *)
SlipBehind(c) == {o \in orders : c = NoOrder \/ o.at < c.at}

(* The WHERE clause: both parts of the cursor, or none.                    *)
Behind(c) ==
    {o \in orders : c = NoOrder \/ o.at < c.at \/ (o.at = c.at /\ o.id < c.id)}

(* LIMIT n                                                                 *)
Heads(rows, n) ==
    {head \in SUBSET rows :
        /\ Cardinality(head) <= n
        /\ Cardinality(head) = n \/ head = rows
        /\ \A o \in head, p \in rows \ head : Newer(o, p)}

Oldest(rows) == CHOOSE o \in rows : \A p \in rows : p = o \/ Newer(p, o)

LimitOf(n) == IF n \in 1 .. MaxLimit THEN n ELSE DefaultLimit

Begin ==
    /\ walk # "walking"
    /\ walk' = "walking"
    /\ cursor' = NoOrder
    /\ before' = orders
    /\ shown' = {} /\ again' = {}
    /\ UNCHANGED orders

(* A row more than the page has is fetched, to see whether there are more. *)
(* next_cursor is the last row shown; has_more tells whether to go on.     *)
NextPage ==
    /\ walk = "walking"
    /\ \E asked \in Limits :
       \E fetched \in Heads(Behind(cursor), LimitOf(asked) + 1) :
       \E page \in Heads(fetched, LimitOf(asked)) :
          /\ shown' = shown \cup page
          /\ again' = again \cup (shown \cap page)
          /\ cursor' = IF page = {} THEN cursor ELSE Oldest(page)
          /\ walk' = IF fetched = page THEN "done" ELSE "walking"
    /\ UNCHANGED <<orders, before>>

Next == Place \/ Begin \/ NextPage

Spec == Init /\ [][Next]_vars
-----------------------------------------------------------------------------
TypeOK ==
    /\ orders \subseteq Orders
    /\ walk \in {"idle", "walking", "done"}
    /\ cursor \in Orders \cup {NoOrder}
    /\ before \subseteq Orders /\ shown \subseteq Orders /\ again \subseteq Orders

(* store.go:308: no order twice and none left out, whatever is placed      *)
(* meanwhile: each page continues where the last ended, and a walk that    *)
(* has come to its end has shown every order there was when it began.      *)
WalkIsExact ==
    /\ again = {}
    /\ before \subseteq shown \cup (IF walk = "done" THEN {} ELSE Behind(cursor))
=============================================================================
