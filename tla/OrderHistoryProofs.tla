------------------------- MODULE OrderHistoryProofs -------------------------
(***************************************************************************)
(* What is proved of OrderHistory for any number of orders, any clocks and *)
(* any limits: no walk shows an order twice, and none leaves out an order  *)
(* that was there when it began.                                           *)
(***************************************************************************)
EXTENDS OrderHistory, FiniteSetTheorems, WellFoundedInduction, TLAPS

\* An id belongs to one order; what was shown lies before the cursor.
IInv ==
    /\ TypeOK
    /\ \A o, p \in orders : o.id = p.id => o = p
    /\ before \subseteq orders /\ shown \subseteq orders
    /\ walk = "walking" => shown \cap Behind(cursor) = {}
    /\ WalkIsExact

\* A set of numbers that is not empty has a least member.
LEMMA LeastExists ==
    ASSUME NEW S \in SUBSET Nat, S # {} PROVE \E i \in S : \A j \in S : i <= j
<1>1. \E i \in S : \A j \in S : ~(<<j, i>> \in OpToRel(<, Nat))
  <2> HIDE DEF OpToRel
  <2> QED BY NatLessThanWellFounded, WFMin
<1>2. \A i, j \in S : ~(<<j, i>> \in OpToRel(<, Nat)) => i <= j
  BY DEF OpToRel
<1> QED BY <1>1, <1>2

\* A page that is not empty has a last row: of those with the least time the
\* one with the least id.
LEMMA OldestExists ==
    ASSUME NEW rows \in SUBSET Orders, rows # {},
           \A o, p \in rows : o.id = p.id => o = p
    PROVE  /\ Oldest(rows) \in rows
           /\ \A p \in rows : p = Oldest(rows) \/ Newer(p, Oldest(rows))
<1> DEFINE Times == {o.at : o \in rows}
<1>1. PICK t \in Times : \A u \in Times : t <= u
  <2>1. Times \in SUBSET Nat /\ Times # {}
    BY LimitsAssumption DEF Orders
  <2> HIDE DEF Times
  <2> QED BY <2>1, LeastExists
<1> DEFINE Ids == {o.id : o \in {p \in rows : p.at = t}}
<1>2. PICK i \in Ids : \A j \in Ids : i <= j
  <2>1. Ids \in SUBSET Nat /\ Ids # {}
    BY <1>1, LimitsAssumption DEF Orders
  <2> HIDE DEF Ids
  <2> QED BY <2>1, LeastExists
<1>3. PICK o \in rows : o.at = t /\ o.id = i
  BY <1>2
<1>4. \A p \in rows : p = o \/ Newer(p, o)
  <2> TAKE p \in rows
  <2>1. p.at \in Nat /\ p.id \in Nat /\ o.at \in Nat /\ o.id \in Nat
    BY LimitsAssumption DEF Orders
  <2>2. o.at <= p.at
    BY <1>1, <1>3
  <2>3. p.at = o.at => o.id <= p.id
    BY <1>2, <1>3
  <2> QED BY <2>1, <2>2, <2>3 DEF Newer
<1> QED BY <1>4 DEF Oldest

LEMMA LimitPositive == \A n : LimitOf(n) \in Nat \ {0}
BY LimitsAssumption DEF LimitOf

\* Behind a row that is itself behind the cursor there is nothing new.
LEMMA BehindIsTransitive ==
    ASSUME orders \subseteq Orders, cursor \in Orders \cup {NoOrder},
           NEW c \in Behind(cursor)
    PROVE  Behind(c) \subseteq Behind(cursor)
<1> SUFFICES ASSUME NEW o \in Behind(c) PROVE o \in Behind(cursor)
  OBVIOUS
<1>1. c # NoOrder /\ c \in Orders /\ o \in Orders
  BY DEF Behind, Orders, NoOrder
<1> QED BY <1>1, LimitsAssumption DEF Behind, Orders, NoOrder

-----------------------------------------------------------------------------
\* A page begins where the last one ended and leaves nothing out before its end.
LEMMA PageInductive == IInv /\ NextPage => IInv'
<1> SUFFICES ASSUME IInv, NextPage PROVE IInv'
  OBVIOUS
<1> USE LimitsAssumption
<1>1. PICK asked \in Limits :
      \E fetched \in Heads(Behind(cursor), LimitOf(asked) + 1) :
      \E page \in Heads(fetched, LimitOf(asked)) :
         /\ shown' = shown \cup page
         /\ again' = again \cup (shown \cap page)
         /\ cursor' = IF page = {} THEN cursor ELSE Oldest(page)
         /\ walk' = IF fetched = page THEN "done" ELSE "walking"
  BY DEF NextPage
<1> DEFINE n == LimitOf(asked)
<1>n. n \in Nat \ {0}
  BY LimitPositive
<1> HIDE DEF n
<1>2. PICK fetched \in Heads(Behind(cursor), n + 1) :
      \E page \in Heads(fetched, n) :
         /\ shown' = shown \cup page
         /\ again' = again \cup (shown \cap page)
         /\ cursor' = IF page = {} THEN cursor ELSE Oldest(page)
         /\ walk' = IF fetched = page THEN "done" ELSE "walking"
  BY <1>1 DEF n
<1>3. PICK page \in Heads(fetched, n) :
         /\ shown' = shown \cup page
         /\ again' = again \cup (shown \cap page)
         /\ cursor' = IF page = {} THEN cursor ELSE Oldest(page)
         /\ walk' = IF fetched = page THEN "done" ELSE "walking"
  BY <1>2
<1>4. /\ UNCHANGED <<orders, before>> /\ walk = "walking"
      /\ orders \subseteq Orders /\ cursor \in Orders \cup {NoOrder}
      /\ page \subseteq fetched /\ fetched \subseteq Behind(cursor)
      /\ Behind(cursor) \subseteq orders
  BY DEF NextPage, Heads, IInv, TypeOK, Behind
<1>5. shown \cap page = {}
  BY <1>4 DEF IInv
<1>6. fetched = page => fetched = Behind(cursor)
  BY <1>n DEF Heads
<1>7. fetched # page => page # {}
  <2> SUFFICES ASSUME fetched # page, page = {} PROVE FALSE
    OBVIOUS
  <2>1. Cardinality(page) = n
    BY DEF Heads
  <2> QED BY <2>1, <1>n, FS_EmptySet
<1>8. CASE page = {}
  <2>1. walk' = "done" /\ cursor' = cursor /\ shown' = shown /\ again' = {}
    BY <1>3, <1>7, <1>8 DEF IInv, WalkIsExact
  <2>2. before \subseteq shown
    BY <1>4, <1>6, <1>7, <1>8 DEF IInv, WalkIsExact
  <2> QED BY <1>4, <2>1, <2>2 DEF IInv, TypeOK, WalkIsExact
<1>9. CASE page # {}
  <2> DEFINE c == Oldest(page)
  <2>1. c \in page /\ \A p \in page : p = c \/ Newer(p, c)
    BY <1>4, <1>9, OldestExists DEF IInv
  <2> HIDE DEF c
  <2>2. cursor' = c
    BY <1>3, <1>9 DEF c
  <2>3. c \in Orders /\ c # NoOrder
    BY <1>4, <2>1 DEF Orders, NoOrder
  <2>4. Behind(cursor)' = Behind(c)
    BY <1>4, <2>2 DEF Behind
  <2>5. page \cap Behind(c) = {}
    BY <1>4, <2>1, <2>3 DEF Behind, Newer, Orders
  <2>6. shown \cap Behind(c) = {}
    BY <1>4, <2>1, BehindIsTransitive DEF IInv
  <2>7. Behind(cursor) \subseteq page \cup Behind(c)
    <3> SUFFICES ASSUME NEW b \in Behind(cursor), b \notin page PROVE b \in Behind(c)
      OBVIOUS
    <3>1. Newer(c, b)
      BY <1>4, <2>1 DEF Heads
    <3> QED BY <1>4, <2>3, <3>1 DEF Behind, Newer, Orders
  <2>8. TypeOK'
    BY <1>3, <1>4, <1>5, <2>2, <2>3 DEF IInv, TypeOK
  <2>9. WalkIsExact'
    BY <1>3, <1>4, <1>5, <1>6, <2>4, <2>7 DEF IInv, WalkIsExact
  <2> QED BY <1>3, <1>4, <2>4, <2>5, <2>6, <2>8, <2>9 DEF IInv
<1> QED BY <1>8, <1>9

LEMMA Inductive == IInv /\ [Next]_vars => IInv'
<1> SUFFICES ASSUME IInv, [Next]_vars PROVE IInv'
  OBVIOUS
<1>1. CASE Place
  <2>1. PICK o \in Orders :
           (\A p \in orders : p.id # o.id) /\ orders' = orders \cup {o}
    BY <1>1 DEF Place
  <2>2. UNCHANGED <<walk, cursor, before, shown, again>>
    BY <1>1 DEF Place
  <2>3. Behind(cursor) \subseteq Behind(cursor)' /\ Behind(cursor)' \subseteq Behind(cursor) \cup {o}
    BY <2>1, <2>2 DEF Behind
  <2>4. o \notin shown
    BY <2>1 DEF IInv
  <2> QED BY <2>1, <2>2, <2>3, <2>4 DEF IInv, TypeOK, WalkIsExact
<1>2. CASE Begin
  BY <1>2 DEF Begin, IInv, TypeOK, WalkIsExact, Behind
<1>3. CASE NextPage
  BY <1>3, PageInductive
<1>4. CASE UNCHANGED vars
  BY <1>4 DEF vars, IInv, TypeOK, WalkIsExact, Behind
<1> QED BY <1>1, <1>2, <1>3, <1>4 DEF Next

LEMMA Initially == Init => IInv
BY DEF Init, IInv, TypeOK, WalkIsExact, Behind

\* The variables keep their types (listOrders, GetOrdersByCursor).
THEOREM TypeCorrect == Spec => []TypeOK
<1>1. IInv => TypeOK
  BY DEF IInv
<1> QED BY <1>1, Initially, Inductive, PTL DEF Spec

\* store.go:308: no order is shown twice, and a walk to the end has shown every
\* order there was when it began, whatever is placed meanwhile.
THEOREM WalksAreExact == Spec => []WalkIsExact
<1>1. IInv => WalkIsExact
  BY DEF IInv
<1> QED BY <1>1, Initially, Inductive, PTL DEF Spec
=============================================================================
