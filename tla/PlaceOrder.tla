---------------------------- MODULE PlaceOrder ----------------------------
(***************************************************************************)
(* What placing an order promises, as TryPlaceOrder of                     *)
(* internal/order/model.go defines it: one atomic business step that       *)
(* replays a known key, refuses a key used with other parameters, refuses  *)
(* when nothing is in stock, and otherwise takes one unit and records one  *)
(* order.  There are no transactions, locks, retries or connections here;  *)
(* OrderStore is shown to implement this specification.                    *)
(***************************************************************************)
EXTENDS Integers

CONSTANTS
    Requests,   \* calls made by clients, each answered at most once
    Keys,       \* (user_id, idempotency_key) pairs
    Skus,       \* names of articles a client may ask for
    Products,   \* the articles that exist
    InitStock,  \* units of each article before the first order
    OrderIds    \* identifiers an order may get

VARIABLES
    req,      \* what each request asks for, [key, sku]; never changes
    inv,      \* units left of each article
    orders,   \* orders placed, [id, key, sku]
    verdict,  \* what the business step decided for each request
    answer    \* what the client was told

vars == <<req, inv, orders, verdict, answer>>

Verdict(kind, id) == [kind |-> kind, id |-> id]
Undecided == Verdict("none", 0)
Failed == Verdict("error", 0)

Order(r, id) == [id |-> id, key |-> req[r].key, sku |-> req[r].sku]

\* The entries of ordersByKey under the key of request r.
OrdersOf(r) == {o \in orders : o.key = req[r].key}

Init ==
    /\ req \in [Requests -> [key : Keys, sku : Skus]]
    /\ inv = InitStock
    /\ orders = {}
    /\ verdict = [r \in Requests |-> Undecided]
    /\ answer = [r \in Requests |-> Undecided]

-----------------------------------------------------------------------------
\* Rules 3 and 4: a key that has an order decides the request.
Replay(r) ==
    /\ \E o \in OrdersOf(r) :
         verdict' = [verdict EXCEPT ![r] =
             IF o.sku = req[r].sku THEN Verdict("replayed", o.id)
                                   ELSE Verdict("conflict", 0)]
    /\ UNCHANGED <<req, inv, orders, answer>>

\* Rule 2, and an article that does not exist.
Refuse(r) ==
    /\ OrdersOf(r) = {}
    /\ req[r].sku \in Products => inv[req[r].sku] = 0
    /\ verdict' = [verdict EXCEPT ![r] = Verdict("outOfStock", 0)]
    /\ UNCHANGED <<req, inv, orders, answer>>

\* The order itself.  The counter of model.go leaves no gaps; all that is asked
\* for here is an identifier no other order has.
Accept(r) ==
    /\ OrdersOf(r) = {}
    /\ req[r].sku \in Products
    /\ inv[req[r].sku] > 0
    /\ \E id \in OrderIds :
         /\ \A o \in orders : o.id # id
         /\ orders' = orders \cup {Order(r, id)}
         /\ verdict' = [verdict EXCEPT ![r] = Verdict("created", id)]
    /\ inv' = [inv EXCEPT ![req[r].sku] = @ - 1]
    /\ UNCHANGED <<req, answer>>

\* A client that was told "error" may still find its order placed: the answer
\* "error" promises nothing, so the step does not look at answer.
TryPlaceOrder(r) ==
    /\ verdict[r] = Undecided
    /\ Replay(r) \/ Refuse(r) \/ Accept(r)

\* The client hears the verdict ...
Tell(r) ==
    /\ answer[r] = Undecided
    /\ verdict[r] # Undecided
    /\ answer' = [answer EXCEPT ![r] = verdict[r]]
    /\ UNCHANGED <<req, inv, orders, verdict>>

\* ... or only that something went wrong.
Fail(r) ==
    /\ answer[r] = Undecided
    /\ answer' = [answer EXCEPT ![r] = Failed]
    /\ UNCHANGED <<req, inv, orders, verdict>>

Next == \E r \in Requests : TryPlaceOrder(r) \/ Tell(r) \/ Fail(r)

Spec == Init /\ [][Next]_vars
=============================================================================
