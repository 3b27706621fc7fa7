--------------------------- MODULE OrderApiProofs ---------------------------
(***************************************************************************)
(* What is proved of OrderApi for any number of clients and any settings   *)
(* that ApiAssumption and DrainAssumption allow: every safety property its *)
(* run checks.                                                             *)
(***************************************************************************)
EXTENDS OrderApi, FiniteSetTheorems, TLAPS

\* The bucket never holds more than its capacity less what was given out ahead.
BucketFits ==
    /\ BucketTypeOK
    /\ Rate > 0 => ahead + Refilled <= Capacity

\* One request by itself: a slot is taken behind the limits, an order made by
\* the handler, an answer given at the end.
ReqFits(r) ==
    /\ r \in [at : Places, route : Routes, left : 0 .. Most(ReadBudget, WriteBudget),
              slot : BOOLEAN, made : BOOLEAN, answer : Answers]
    /\ r.at \in {"idle", "limit", "slot"} => ~r.slot
    /\ r.made => r.at \in {"committed", "done"}
    /\ r.at = "committed" => r.made
    /\ r.at # "done" => r.answer = 0
    /\ r.answer \in {200, 409, 429, 503} => ~r.made
    /\ r.answer = 201 => r.made

RequestsFit == \A c \in Clients : ReqFits(req[c])

Holders == {c \in Clients : req[c].slot}

\* A request that began before Shutdown, or just after, ends before it gives up.
DrainFits ==
    /\ proc.at = "draining" =>
          \A c \in Clients : req[c].at # "idle" => proc.age + req[c].left < ShutdownTimeout
    /\ proc.at \in {"closing", "closed", "exited"} => AllIdle

IInv ==
    /\ TypeOK
    /\ BucketFits /\ RequestsFit /\ SlotsAreHeld /\ DrainFits

-----------------------------------------------------------------------------
(* The bucket *)

LEMMA CapacityNat == Capacity \in Nat
<1>1. Rate \in Nat /\ Burst \in Nat /\ Second \in Nat /\ Rate * Second \in Nat
  BY BucketAssumption
<1> QED BY <1>1 DEF Capacity

LEMMA RefilledBounds ==
    ASSUME BucketTypeOK PROVE Refilled \in 0 .. Capacity
<1>1. Rate * since \in Nat
  BY CapacityNat, BucketAssumption DEF BucketTypeOK
<1> QED BY <1>1, CapacityNat DEF BucketTypeOK, Refilled, Least

LEMMA AllowFits ==
    ASSUME BucketFits, NEW granted \in BOOLEAN, Allow(granted) PROVE BucketFits'
<1> USE BucketAssumption, CapacityNat, RefilledBounds
<1>1. Capacity' = Capacity /\ BucketTypeOK
  BY DEF Capacity, BucketFits
<1>2. CASE Rate = 0
  BY <1>2 DEF Allow, bucketVars, BucketFits, BucketTypeOK, Capacity
<1>3. CASE Rate # 0
  <2>1. since' = 0 /\ Refilled' = Least(Capacity, tokens')
    <3>1. since' = 0 /\ tokens' \in Int
      BY <1>1, <1>3 DEF Allow
    <3>2. Rate * 0 = 0
      OBVIOUS
    <3> QED BY <1>1, <3>1, <3>2 DEF Refilled
  <2>2. CASE granted
    <3>1. Refilled >= Cost /\ tokens' = Refilled - Cost /\ ahead' = ahead + Cost
      BY <1>3, <2>2 DEF Allow
    <3>2. ahead + Refilled <= Capacity
      BY <1>3 DEF BucketFits
    <3> QED BY <1>1, <2>1, <3>1, <3>2 DEF BucketFits, BucketTypeOK, Least
  <2>3. CASE ~granted
    <3>1. tokens' = Refilled /\ ahead' = ahead
      BY <1>3, <2>3 DEF Allow
    <3>2. ahead + Refilled <= Capacity
      BY <1>3 DEF BucketFits
    <3> QED BY <1>1, <2>1, <3>1, <3>2 DEF BucketFits, BucketTypeOK, Least
  <2> QED BY <2>2, <2>3
<1> QED BY <1>2, <1>3

LEMMA TickFits == BucketFits /\ BucketTick => BucketFits'
<1> SUFFICES ASSUME BucketFits, BucketTick PROVE BucketFits'
  OBVIOUS
<1> USE BucketAssumption, CapacityNat
<1>1. /\ Capacity' = Capacity /\ BucketTypeOK /\ tokens' = tokens
      /\ since' = Least(since + 1, Capacity) /\ ahead' = Most(ahead - Rate, 0)
  BY DEF Capacity, BucketFits, BucketTick
<1>2. BucketTypeOK'
  BY <1>1 DEF BucketTypeOK, Least, Most
<1>3. ASSUME Rate > 0 PROVE ahead' + Refilled' <= Capacity
  <2> DEFINE brought == Rate * since
  <2>1. brought \in Nat /\ Rate * (since + 1) = brought + Rate
    BY <1>1 DEF BucketTypeOK
  <2>2. ahead + Least(Capacity, tokens + brought) <= Capacity
    BY <1>1, <1>3 DEF BucketFits, Refilled
  <2>3. CASE since + 1 <= Capacity
    <3>1. Refilled' = Least(Capacity, tokens + (brought + Rate))
      BY <1>1, <2>1, <2>3 DEF Refilled, Least, BucketTypeOK
    <3> HIDE DEF brought
    <3> QED BY <1>1, <2>1, <2>2, <3>1 DEF Least, Most, BucketTypeOK
  <2>4. CASE ~(since + 1 <= Capacity)
    <3>1. since = Capacity /\ since' = Capacity
      BY <1>1, <2>4 DEF BucketTypeOK, Least
    <3>2. Refilled' = Least(Capacity, tokens + brought)
      BY <1>1, <3>1 DEF Refilled
    <3>3. brought >= Capacity
      BY <1>3, <3>1
    <3> HIDE DEF brought
    <3> QED BY <1>1, <1>3, <2>1, <2>2, <3>2, <3>3 DEF Least, Most, BucketTypeOK
  <2> QED BY <2>3, <2>4
<1> QED BY <1>1, <1>2, <1>3 DEF BucketFits

-----------------------------------------------------------------------------
(* Requests *)

ReqType == [at : Places, route : Routes, left : 0 .. Most(ReadBudget, WriteBudget),
            slot : BOOLEAN, made : BOOLEAN, answer : Answers]

LEMMA Budgets ==
    /\ \A route : BudgetOf(route) \in 0 .. Most(ReadBudget, WriteBudget)
    /\ Grace + Most(ReadBudget, WriteBudget) <= ShutdownTimeout
    /\ Most(ReadBudget, WriteBudget) \in Nat
BY ApiAssumption, DrainAssumption DEF BudgetOf, Most

\* What is the same of TypeOK in every step of a request.
TypeOfRest ==
    /\ inflight \in Nat
    /\ backlog \in Nat
    /\ limbo \in 0 .. MaxLimbo
    /\ pending \in 0 .. Limit
    /\ sampler \in [at : {"wait", "query", "counted"}, age : 0 .. QueryTime,
                    n : 0 .. Limit, fails : 0 .. MaxFails,
                    toBeat : 1 .. Interval, beat : BOOLEAN]
    /\ proc \in [at : {"serving", "draining", "closing", "closed", "exited"},
                 age : 0 .. ShutdownTimeout]

\* A step of one request that neither takes nor gives back a slot.
LEMMA OneRequest ==
    ASSUME IInv, NEW c \in Clients, NEW r, ReqFits(r), req[c].at # "idle",
           r.slot = req[c].slot, r.left = req[c].left, r.at # "idle",
           req' = [req EXCEPT ![c] = r],
           UNCHANGED <<inflight, proc, pending, sampler>>, backlog' \in Nat,
           limbo' \in 0 .. MaxLimbo, BucketFits'
    PROVE  IInv'
<1>1. req' \in [Clients -> ReqType]
  BY DEF IInv, TypeOK, ReqType, ReqFits
<1>2. TypeOK'
  BY <1>1 DEF IInv, TypeOK, ReqType, BucketFits
<1>3. RequestsFit'
  BY DEF IInv, RequestsFit, TypeOK
<1>4. Holders' = Holders
  BY DEF Holders, IInv, TypeOK
<1>5. SlotsAreHeld'
  BY <1>4 DEF SlotsAreHeld, IInv, Holders
<1>6. DrainFits'
  BY DEF DrainFits, IInv, TypeOK, AllIdle
<1> QED BY <1>2, <1>3, <1>5, <1>6 DEF IInv

LEMMA ArriveInductive == ASSUME IInv, NEW c \in Clients, Arrive(c) PROVE IInv'
<1>1. PICK route \in Routes : req' = [req EXCEPT ![c] =
         [Idle EXCEPT !.at = "limit", !.route = route, !.left = BudgetOf(route)]]
  BY DEF Arrive
<1> DEFINE r == [Idle EXCEPT !.at = "limit", !.route = route, !.left = BudgetOf(route)]
<1>2. /\ r.at = "limit" /\ r.left = BudgetOf(route) /\ r.slot = FALSE
      /\ r.made = FALSE /\ r.answer = 0 /\ r \in ReqType
  BY Budgets DEF Idle, ReqType, Places, Answers
<1>3. ReqFits(r)
  BY <1>2 DEF ReqFits, ReqType
<1> HIDE DEF r
<1>4. req' = [req EXCEPT ![c] = r] /\ req[c].at = "idle" /\ Accepts
      /\ UNCHANGED <<inflight, backlog, limbo, pending, sampler, proc, bucketVars>>
  BY <1>1 DEF Arrive, r
<1>5. BucketFits'
  BY <1>4 DEF IInv, BucketFits, BucketTypeOK, bucketVars, Refilled, Capacity
<1>6. TypeOK'
  <2>1. req' \in [Clients -> ReqType]
    BY <1>2, <1>4 DEF IInv, TypeOK, ReqType
  <2> QED BY <2>1, <1>4, <1>5 DEF IInv, TypeOK, ReqType, BucketFits
<1>7. RequestsFit'
  BY <1>3, <1>4 DEF IInv, RequestsFit, TypeOK
<1>8. Holders' = Holders
  BY <1>2, <1>4 DEF Holders, IInv, TypeOK, RequestsFit, ReqFits
<1>9. SlotsAreHeld'
  BY <1>4, <1>8 DEF SlotsAreHeld, IInv, Holders
<1>10. DrainFits'
  <2>1. proc.at = "draining" => proc.age + BudgetOf(route) < ShutdownTimeout
    BY <1>4, Budgets, ApiAssumption DEF Accepts, IInv, TypeOK
  <2>2. proc.at \in {"serving", "draining"}
    BY <1>4 DEF Accepts
  <2> QED BY <1>2, <1>4, <2>1, <2>2 DEF DrainFits, IInv, TypeOK
<1> QED BY <1>6, <1>5, <1>7, <1>9, <1>10 DEF IInv

\* What an answer changes of a request.
LEMMA AnsweredRequest ==
    ASSUME NEW q \in ReqType, NEW code \in Answers
    PROVE  LET r == [q EXCEPT !.at = "done", !.answer = code]
           IN  /\ r.at = "done" /\ r.answer = code /\ r.made = q.made
               /\ r.slot = q.slot /\ r.left = q.left /\ r \in ReqType
<1>1. "done" \in Places
  BY DEF Places
<1> QED BY <1>1 DEF ReqType

LEMMA RateLimitInductive == ASSUME IInv, NEW c \in Clients, RateLimit(c) PROVE IInv'
<1>1. req[c] \in ReqType /\ ReqFits(req[c]) /\ req[c].at = "limit"
  BY DEF RateLimit, IInv, TypeOK, ReqType, RequestsFit
<1>2. BucketFits'
  <2>1. CASE UNCHANGED bucketVars
    BY <2>1 DEF IInv, BucketFits, BucketTypeOK, bucketVars, Refilled, Capacity
  <2>2. CASE Allow(TRUE)
    BY <2>2, AllowFits DEF IInv
  <2>3. CASE Allow(FALSE)
    BY <2>3, AllowFits DEF IInv
  <2> QED BY <2>1, <2>2, <2>3 DEF RateLimit
<1>3. CASE MoveTo(c, "slot")
  <2> DEFINE r == [req[c] EXCEPT !.at = "slot"]
  <2>1. /\ ReqFits(r) /\ r.slot = req[c].slot /\ r.left = req[c].left /\ r.at # "idle"
    BY <1>1 DEF ReqFits, ReqType, Places
  <2>2. req' = [req EXCEPT ![c] = r]
    BY <1>3 DEF MoveTo, IInv, TypeOK
  <2> HIDE DEF r
  <2> QED BY <1>1, <1>2, <2>1, <2>2, OneRequest DEF RateLimit, IInv, TypeOK
<1>4. CASE AnswerWith(c, 429)
  <2> DEFINE r == [req[c] EXCEPT !.at = "done", !.answer = 429]
  <2>0. /\ r.at = "done" /\ r.answer = 429 /\ r.made = req[c].made
        /\ r.slot = req[c].slot /\ r.left = req[c].left /\ r \in ReqType
    <3>1. 429 \in Answers
      BY DEF Answers
    <3> QED BY <1>1, <3>1, AnsweredRequest
  <2> HIDE DEF r
  <2>1. ReqFits(r) /\ r.slot = req[c].slot /\ r.left = req[c].left /\ r.at # "idle"
    BY <1>1, <2>0 DEF ReqFits, ReqType
  <2>2. req' = [req EXCEPT ![c] = r]
    BY <1>4 DEF AnswerWith, IInv, TypeOK, r
  <2> QED BY <1>1, <1>2, <2>1, <2>2, OneRequest DEF RateLimit, IInv, TypeOK
<1> QED BY <1>3, <1>4 DEF RateLimit

\* Where a request moves on or is answered, the bucket is not asked.
LEMMA MovedOn ==
    ASSUME IInv, NEW c \in Clients, NEW place \in {"check", "work"}, MoveTo(c, place),
           req[c].at \in {"slot", "check"},
           UNCHANGED <<inflight, backlog, limbo, pending, sampler, proc, bucketVars>>
    PROVE  IInv'
<1>1. req[c] \in ReqType /\ ReqFits(req[c])
  BY DEF IInv, TypeOK, ReqType, RequestsFit
<1>2. BucketFits'
  BY DEF IInv, BucketFits, BucketTypeOK, bucketVars, Refilled, Capacity
<1> DEFINE r == [req[c] EXCEPT !.at = place]
<1>3. /\ ReqFits(r) /\ r.slot = req[c].slot /\ r.left = req[c].left /\ r.at # "idle"
  BY <1>1 DEF ReqFits, ReqType, Places
<1>4. req' = [req EXCEPT ![c] = r]
  BY DEF MoveTo, IInv, TypeOK
<1> HIDE DEF r
<1> QED BY <1>2, <1>3, <1>4, OneRequest DEF IInv, TypeOK

\* An answer that fits what the handler has done so far.
LEMMA Answered ==
    ASSUME IInv, NEW c \in Clients, NEW code \in Answers \ {0}, AnswerWith(c, code),
           req[c].at \notin {"idle", "done"},
           code \in {200, 409, 429, 503} => ~req[c].made,
           code = 201 => req[c].made,
           UNCHANGED <<inflight, backlog, limbo, pending, sampler, proc, bucketVars>>
    PROVE  IInv'
<1>1. /\ req[c] \in ReqType /\ ReqFits(req[c])
      /\ backlog' \in Nat /\ limbo' \in 0 .. MaxLimbo
  BY DEF IInv, TypeOK, ReqType, RequestsFit
<1>2. BucketFits'
  BY DEF IInv, BucketFits, BucketTypeOK, bucketVars, Refilled, Capacity
<1> DEFINE r == [req[c] EXCEPT !.at = "done", !.answer = code]
<1>3. /\ r.at = "done" /\ r.answer = code /\ r.made = req[c].made
      /\ r.slot = req[c].slot /\ r.left = req[c].left /\ r \in ReqType
  BY <1>1, AnsweredRequest
<1>4. req' = [req EXCEPT ![c] = r]
  BY DEF AnswerWith, IInv, TypeOK
<1> HIDE DEF r
<1>5. ReqFits(r)
  BY <1>1, <1>3 DEF ReqFits, ReqType
<1> QED BY <1>1, <1>2, <1>3, <1>4, <1>5, OneRequest

\* An error after which the order exists all the same.
LEMMA AnsweredMade ==
    ASSUME IInv, NEW c \in Clients, NEW code \in {500, 504},
           AnswerCommitted(c, code), req[c].at = "work",
           UNCHANGED <<inflight, pending, sampler, proc, bucketVars>>
    PROVE  IInv'
<1>1. /\ req[c] \in ReqType /\ ReqFits(req[c])
      /\ backlog' \in Nat /\ limbo' \in 0 .. MaxLimbo
  BY DEF AnswerCommitted, IInv, TypeOK, ReqType, RequestsFit
<1>2. BucketFits'
  BY DEF IInv, BucketFits, BucketTypeOK, bucketVars, Refilled, Capacity
<1> DEFINE r == [req[c] EXCEPT !.at = "done", !.made = TRUE, !.answer = code]
<1>3. /\ r.at = "done" /\ r.answer = code /\ r.made = TRUE
      /\ r.slot = req[c].slot /\ r.left = req[c].left /\ r \in ReqType
  <2>1. "done" \in Places /\ code \in Answers
    BY DEF Places, Answers
  <2> QED BY <1>1, <2>1 DEF ReqType
<1>4. req' = [req EXCEPT ![c] = r]
  BY DEF AnswerCommitted
<1> HIDE DEF r
<1>5. ReqFits(r)
  BY <1>1, <1>3 DEF ReqFits, ReqType
<1> QED BY <1>1, <1>2, <1>3, <1>4, <1>5, OneRequest

\* An error while MySQL still has the COMMIT.
LEMMA Abandoned ==
    ASSUME IInv, NEW c \in Clients, NEW code \in {500, 504},
           Abandon(c, code), req[c].at = "work",
           UNCHANGED <<inflight, pending, sampler, proc, bucketVars>>
    PROVE  IInv'
<1>1. req[c] \in ReqType /\ ReqFits(req[c]) /\ backlog' \in Nat
  BY DEF Abandon, IInv, TypeOK, ReqType, RequestsFit
<1>2. limbo' \in 0 .. MaxLimbo
  BY ApiAssumption DEF Abandon, IInv, TypeOK
<1>3. BucketFits'
  BY DEF IInv, BucketFits, BucketTypeOK, bucketVars, Refilled, Capacity
<1> DEFINE r == [req[c] EXCEPT !.at = "done", !.answer = code]
<1>4. /\ r.at = "done" /\ r.answer = code /\ r.made = req[c].made
      /\ r.slot = req[c].slot /\ r.left = req[c].left /\ r \in ReqType
  <2>1. code \in Answers
    BY DEF Answers
  <2> QED BY <1>1, <2>1, AnsweredRequest
<1>5. req' = [req EXCEPT ![c] = r]
  BY DEF Abandon, AnswerWith, IInv, TypeOK
<1> HIDE DEF r
<1>6. ReqFits(r)
  BY <1>1, <1>4 DEF ReqFits, ReqType
<1> QED BY <1>1, <1>2, <1>3, <1>4, <1>5, <1>6, OneRequest

LEMMA Refused ==
    ASSUME IInv, NEW c \in Clients, NEW code \in Answers \ {0, 201}, AnswerWith(c, code),
           req[c].at \in {"limit", "slot", "check", "work"},
           UNCHANGED <<inflight, backlog, limbo, pending, sampler, proc, bucketVars>>
    PROVE  IInv'
<1>1. req[c].made = FALSE
  BY DEF IInv, TypeOK, RequestsFit, ReqFits
<1> QED BY <1>1, Answered

LEMMA InFlightInductive == ASSUME IInv, NEW c \in Clients, InFlight(c) PROVE IInv'
<1>1. req[c] \in ReqType /\ ReqFits(req[c]) /\ req[c].at = "slot" /\ Behind(c) \in {"check", "work"}
  BY DEF InFlight, IInv, TypeOK, ReqType, RequestsFit, Behind
<1>2. CASE MoveTo(c, Behind(c)) /\ UNCHANGED inflight
  BY <1>1, <1>2, MovedOn DEF InFlight
<1>3. CASE AnswerWith(c, 503) /\ UNCHANGED inflight
  BY <1>1, <1>3, Refused DEF InFlight, Answers
<1>4. CASE /\ inflight < MaxInflight /\ inflight' = inflight + 1
           /\ req' = [req EXCEPT ![c].at = Behind(c), ![c].slot = TRUE]
  <2> DEFINE r == [req[c] EXCEPT !.at = Behind(c), !.slot = TRUE]
  <2>1. ReqFits(r) /\ r \in ReqType /\ r.slot = TRUE /\ r.left = req[c].left
    BY <1>1 DEF ReqFits, ReqType, Places
  <2>2. req' = [req EXCEPT ![c] = r]
    BY <1>4 DEF IInv, TypeOK
  <2> HIDE DEF r
  <2>3. UNCHANGED <<backlog, limbo, pending, sampler, proc, bucketVars>>
    BY DEF InFlight
  <2>4. BucketFits'
    BY <2>3 DEF IInv, BucketFits, BucketTypeOK, bucketVars, Refilled, Capacity
  <2>5. TypeOK'
    <3>1. req' \in [Clients -> ReqType]
      BY <2>1, <2>2 DEF IInv, TypeOK, ReqType
    <3> QED BY <1>4, <2>3, <2>4, <3>1 DEF IInv, TypeOK, ReqType, BucketFits
  <2>6. RequestsFit'
    BY <2>1, <2>2 DEF IInv, RequestsFit, TypeOK
  <2>7. SlotsAreHeld'
    <3>1. Holders' = Holders \cup {c} /\ c \notin Holders
      BY <1>1, <2>1, <2>2 DEF Holders, IInv, TypeOK, ReqFits
    <3>2. IsFiniteSet(Holders)
      BY ApiAssumption, FS_Subset DEF Holders
    <3>3. Cardinality(Holders') = Cardinality(Holders) + 1
      BY <3>1, <3>2, FS_AddElement
    <3>4. inflight = Cardinality(Holders) /\ inflight \in Nat /\ MaxInflight \in Nat
      BY ApiAssumption DEF IInv, SlotsAreHeld, Holders, TypeOK
    <3>5. inflight' = Cardinality(Holders') /\ inflight' <= MaxInflight
      BY <1>4, <3>3, <3>4
    <3> QED BY <3>5 DEF SlotsAreHeld, Holders
  <2>8. DrainFits'
    BY <1>1, <2>1, <2>2, <2>3 DEF DrainFits, IInv, TypeOK, AllIdle
  <2> QED BY <2>4, <2>5, <2>6, <2>7, <2>8 DEF IInv
<1> QED BY <1>2, <1>3, <1>4 DEF InFlight

LEMMA CheckOrderInductive == ASSUME IInv, NEW c \in Clients, CheckOrder(c) PROVE IInv'
<1>1. /\ req[c].at = "check"
      /\ UNCHANGED <<inflight, backlog, limbo, pending, sampler, proc, bucketVars>>
  BY DEF CheckOrder
<1>2. CASE AnswerWith(c, 409)
  BY <1>1, <1>2, Refused DEF Answers
<1>3. CASE AnswerWith(c, 503)
  BY <1>1, <1>3, Refused DEF Answers
<1>4. CASE MoveTo(c, "work")
  BY <1>1, <1>4, MovedOn
<1> QED BY <1>2, <1>3, <1>4 DEF CheckOrder

LEMMA PlaceOrderInductive == ASSUME IInv, NEW c \in Clients, PlaceOrder(c) PROVE IInv'
<1>1. /\ req[c].at = "work"
      /\ UNCHANGED <<inflight, pending, sampler, proc, bucketVars>>
  BY DEF PlaceOrder
<1>2. backlog \in Nat /\ backlog + 1 \in Nat /\ limbo \in 0 .. MaxLimbo
  BY DEF IInv, TypeOK
<1>3. CASE /\ req' = [req EXCEPT ![c].at = "committed", ![c].made = TRUE]
           /\ backlog' = backlog + 1 /\ UNCHANGED limbo
  <2>1. req[c] \in ReqType /\ ReqFits(req[c])
    BY DEF IInv, TypeOK, ReqType, RequestsFit
  <2>2. BucketFits'
    BY <1>1 DEF IInv, BucketFits, BucketTypeOK, bucketVars, Refilled, Capacity
  <2> DEFINE r == [req[c] EXCEPT !.at = "committed", !.made = TRUE]
  <2>3. /\ r.at = "committed" /\ r.answer = req[c].answer /\ r.made = TRUE
        /\ r.slot = req[c].slot /\ r.left = req[c].left /\ r \in ReqType
    BY <2>1 DEF ReqType, Places
  <2>4. req' = [req EXCEPT ![c] = r]
    BY <1>3 DEF IInv, TypeOK
  <2> HIDE DEF r
  <2>5. ReqFits(r)
    BY <1>1, <2>1, <2>3 DEF ReqFits, ReqType
  <2> QED BY <1>1, <1>2, <1>3, <2>2, <2>3, <2>4, <2>5, OneRequest
<1>4. CASE (\E code \in {200, 409, 500} : AnswerWith(c, code)) /\ UNCHANGED <<backlog, limbo>>
  <2>1. PICK code \in {200, 409, 500} : AnswerWith(c, code)
    BY <1>4
  <2>2. code \in Answers \ {0, 201}
    BY DEF Answers
  <2> QED BY <1>1, <1>4, <2>1, <2>2, Refused
<1>5. CASE AnswerCommitted(c, 500)
  BY <1>1, <1>5, AnsweredMade
<1>6. CASE Abandon(c, 500)
  BY <1>1, <1>6, Abandoned
<1> QED BY <1>3, <1>4, <1>5, <1>6 DEF PlaceOrder

LEMMA ReadInductive == ASSUME IInv, NEW c \in Clients, Read(c) PROVE IInv'
<1>1. PICK code \in ReadAnswers(req[c].route) : AnswerWith(c, code)
  BY DEF Read
<1>2. code \in Answers \ {0, 201}
  BY DEF ReadAnswers, Answers
<1> QED BY <1>1, <1>2, Refused DEF Read

LEMMA CutInductive == ASSUME IInv, NEW c \in Clients, Cut(c) PROVE IInv'
<1>1. /\ req[c].at = "work"
      /\ UNCHANGED <<inflight, pending, sampler, proc, bucketVars>>
  BY DEF Cut
<1>2. PICK code \in CutAnswers(req[c].route) :
         \/ AnswerWith(c, code) /\ UNCHANGED <<backlog, limbo>>
         \/ req[c].route = "createOrder" /\ AnswerCommitted(c, code)
         \/ req[c].route = "createOrder" /\ Abandon(c, code)
  BY DEF Cut
<1>3. req[c].route \in Routes
  BY DEF IInv, TypeOK
<1>4. code \in Answers \ {0, 201}
  BY <1>2, <1>3 DEF CutAnswers, Answers, Routes
<1>5. CASE AnswerWith(c, code) /\ UNCHANGED <<backlog, limbo>>
  BY <1>1, <1>4, <1>5, Refused
<1>6. CASE req[c].route = "createOrder" /\ AnswerCommitted(c, code)
  <2>1. code = 504
    BY <1>2, <1>6 DEF CutAnswers
  <2> QED BY <1>1, <1>6, <2>1, AnsweredMade
<1>7. CASE req[c].route = "createOrder" /\ Abandon(c, code)
  <2>1. code = 504
    BY <1>2, <1>7 DEF CutAnswers
  <2> QED BY <1>1, <1>7, <2>1, Abandoned
<1> QED BY <1>2, <1>5, <1>6, <1>7

LEMMA InvalidateInductive == ASSUME IInv, NEW c \in Clients, Invalidate(c) PROVE IInv'
<1>1. /\ req[c].at = "committed"
      /\ UNCHANGED <<inflight, backlog, limbo, pending, sampler, proc, bucketVars>>
  BY DEF Invalidate
<1>2. req[c] \in ReqType /\ ReqFits(req[c]) /\ req[c].made = TRUE
  BY <1>1 DEF IInv, TypeOK, ReqType, RequestsFit, ReqFits
<1>3. PICK code \in {201, 500} : AnswerWith(c, code)
  BY DEF Invalidate
<1>4. code \in Answers \ {0}
  BY DEF Answers
<1> QED BY <1>1, <1>2, <1>3, <1>4, Answered

\* The slot goes back exactly when the request had one.
LEMMA LeaveInductive == ASSUME IInv, NEW c \in Clients, Leave(c) PROVE IInv'
<1>1. /\ req' = [req EXCEPT ![c] = Idle] /\ req[c].at = "done"
      /\ inflight' = IF req[c].slot THEN inflight - 1 ELSE inflight
      /\ UNCHANGED <<backlog, limbo, pending, sampler, proc, bucketVars>>
  BY DEF Leave
<1>2. /\ Idle.at = "idle" /\ Idle.slot = FALSE /\ Idle \in ReqType /\ ReqFits(Idle)
  BY Budgets DEF Idle, ReqFits, ReqType, Places, Routes, Answers
<1>3. BucketFits'
  BY <1>1 DEF IInv, BucketFits, BucketTypeOK, bucketVars, Refilled, Capacity
<1>4. SlotsAreHeld' /\ inflight' \in Nat
  <2>1. IsFiniteSet(Holders) /\ Cardinality(Holders) \in Nat
    BY ApiAssumption, FS_Subset, FS_CardinalityType DEF Holders
  <2>2. inflight = Cardinality(Holders) /\ inflight <= MaxInflight /\ MaxInflight \in Nat
    BY ApiAssumption DEF IInv, SlotsAreHeld, Holders
  <2>3. Holders' = Holders \ {c}
    BY <1>1, <1>2 DEF Holders, IInv, TypeOK
  <2>4. CASE req[c].slot
    <3>1. c \in Holders
      BY <2>4 DEF Holders
    <3>2. Cardinality(Holders') = Cardinality(Holders) - 1
      BY <2>1, <2>3, <3>1, FS_RemoveElement
    <3>3. Cardinality(Holders') \in Nat
      BY <2>1, <2>3, FS_RemoveElement, FS_CardinalityType
    <3> QED BY <1>1, <2>1, <2>2, <2>4, <3>2, <3>3 DEF SlotsAreHeld, Holders
  <2>5. CASE ~req[c].slot
    <3>1. Holders' = Holders
      BY <2>3, <2>5 DEF Holders
    <3> QED BY <1>1, <2>1, <2>2, <2>5, <3>1 DEF SlotsAreHeld, Holders
  <2> QED BY <2>4, <2>5
<1>5. TypeOK'
  <2>1. req' \in [Clients -> ReqType]
    BY <1>1, <1>2 DEF IInv, TypeOK, ReqType
  <2> QED BY <1>1, <1>3, <1>4, <2>1 DEF IInv, TypeOK, ReqType, BucketFits
<1>6. RequestsFit'
  BY <1>1, <1>2 DEF IInv, RequestsFit, TypeOK
<1>7. DrainFits'
  BY <1>1, <1>2 DEF DrainFits, IInv, TypeOK, AllIdle
<1> QED BY <1>3, <1>4, <1>5, <1>6, <1>7 DEF IInv

LEMMA ServeInductive == ASSUME IInv, NEW c \in Clients, Serve(c) PROVE IInv'
BY ArriveInductive, RateLimitInductive, InFlightInductive, CheckOrderInductive,
   PlaceOrderInductive, ReadInductive, CutInductive, InvalidateInductive, LeaveInductive
   DEF Serve

-----------------------------------------------------------------------------
(* The sampler and the process *)

\* A step that touches neither a request nor the bucket.
LEMMA Aside ==
    ASSUME IInv, TypeOK', UNCHANGED <<req, inflight, bucketVars>>,
           \/ UNCHANGED proc
           \/ proc' = [proc EXCEPT !.at = "closing"] /\ AllIdle
           \/ proc' = [proc EXCEPT !.at = "closed"] /\ AllIdle
    PROVE  IInv'
<1>1. BucketFits'
  BY DEF IInv, BucketFits, BucketTypeOK, bucketVars, Refilled, Capacity
<1>2. RequestsFit' /\ SlotsAreHeld'
  BY DEF IInv, RequestsFit, SlotsAreHeld
<1>3. DrainFits'
  BY DEF IInv, DrainFits, AllIdle, TypeOK
<1> QED BY <1>1, <1>2, <1>3 DEF IInv

SamplerType == [at : {"wait", "query", "counted"}, age : 0 .. QueryTime,
                n : 0 .. Limit, fails : 0 .. MaxFails,
                toBeat : 1 .. Interval, beat : BOOLEAN]

LEMMA Zero == 0 \in 0 .. QueryTime /\ 0 \in 0 .. Limit /\ 0 \in 0 .. MaxFails
BY ApiAssumption

LEMMA LeastLimit == ASSUME NEW n \in Nat PROVE Least(n, Limit) \in 0 .. Limit
BY ApiAssumption DEF Least

LEMMA SamplerInductive ==
    ASSUME IInv, Deliver \/ LimboEnds \/ Samples PROVE IInv'
<1>1. TypeOK
  BY DEF IInv
<1> USE DEF Samples
<1>2. UNCHANGED <<req, inflight, proc, bucketVars>>
  BY DEF Deliver, LimboEnds, SampleStart, SampleCount, SampleStore, SampleFail
<1>3. BucketTypeOK'
  BY <1>1, <1>2 DEF TypeOK, BucketTypeOK, bucketVars, Capacity
<1>4. TypeOK'
  <2>1. /\ sampler \in SamplerType /\ backlog \in Nat /\ pending \in 0 .. Limit
        /\ limbo \in 0 .. MaxLimbo /\ MaxLimbo \in Nat
    BY <1>1, ApiAssumption DEF TypeOK, SamplerType
  <2>2. backlog' \in Nat /\ limbo' \in 0 .. MaxLimbo
    BY <2>1 DEF Deliver, LimboEnds, SampleStart, SampleCount, SampleStore, SampleFail
  <2>3. sampler' \in SamplerType /\ pending' \in 0 .. Limit
    <3>1. CASE Deliver \/ LimboEnds
      BY <2>1, <3>1 DEF Deliver, LimboEnds
    <3>2. CASE SampleStart
      <4>1. sampler' = [sampler EXCEPT !.at = "query", !.age = 0, !.beat = FALSE]
        BY <3>2 DEF SampleStart
      <4> QED BY <2>1, <3>2, <4>1, Zero DEF SampleStart, SamplerType
    <3>3. CASE SampleCount
      BY <2>1, <3>3, LeastLimit DEF SampleCount, SamplerType
    <3>4. CASE SampleStore
      <4>1. sampler.n \in 0 .. Limit
        BY <2>1 DEF SamplerType
      <4> QED BY <2>1, <3>4, <4>1, Zero DEF SampleStore, SamplerType
    <3>5. CASE SampleFail
      <4>1. sampler.fails + 1 \in 0 .. MaxFails
        BY <2>1, <3>5, ApiAssumption DEF SampleFail, SamplerType
      <4> QED BY <2>1, <3>5, <4>1, Zero DEF SampleFail, SamplerType
    <3> QED BY <3>1, <3>2, <3>3, <3>4, <3>5
  <2> QED BY <1>1, <1>2, <1>3, <2>2, <2>3 DEF TypeOK, SamplerType
<1> QED BY <1>2, <1>4, Aside

LEMMA TerminateInductive == ASSUME IInv, Terminate PROVE IInv'
<1>1. /\ UNCHANGED <<req, inflight, backlog, limbo, pending, sampler, bucketVars>>
      /\ proc' = [at |-> "draining", age |-> 0]
  BY DEF Terminate
<1>2. BucketFits'
  BY <1>1 DEF IInv, BucketFits, BucketTypeOK, bucketVars, Refilled, Capacity
<1>3. TypeOK'
  BY <1>1, <1>2, ApiAssumption DEF IInv, TypeOK, BucketFits
<1>4. \A c \in Clients : 0 + req[c].left < ShutdownTimeout
  BY Budgets, ApiAssumption DEF IInv, TypeOK
<1>5. DrainFits'
  BY <1>1, <1>4 DEF DrainFits
<1>6. RequestsFit' /\ SlotsAreHeld'
  BY <1>1 DEF IInv, RequestsFit, SlotsAreHeld
<1> QED BY <1>2, <1>3, <1>5, <1>6 DEF IInv

\* Shutdown's time is never up while a request runs.
LEMMA StopServingInductive == ASSUME IInv, StopServing PROVE IInv'
<1>1. /\ UNCHANGED <<req, inflight, backlog, limbo, pending, sampler, bucketVars>>
      /\ proc.at = "draining" /\ proc' = [proc EXCEPT !.at = "closing"]
      /\ AllIdle \/ proc.age = ShutdownTimeout
  BY DEF StopServing
<1>2. AllIdle
  BY <1>1, ApiAssumption DEF IInv, DrainFits, TypeOK, AllIdle
<1>3. TypeOK'
  BY <1>1 DEF IInv, TypeOK, BucketTypeOK, bucketVars, Capacity
<1> QED BY <1>1, <1>2, <1>3, Aside

LEMMA FreshSamplerType ==
    FreshSampler \in [at : {"wait", "query", "counted"}, age : 0 .. QueryTime,
                      n : 0 .. Limit, fails : 0 .. MaxFails,
                      toBeat : 1 .. Interval, beat : BOOLEAN]
BY ApiAssumption DEF FreshSampler

LEMMA CloseInductive == ASSUME IInv, Close PROVE IInv'
<1>1. /\ UNCHANGED <<req, inflight, backlog, limbo, pending, bucketVars>>
      /\ proc.at = "closing" /\ proc' = [proc EXCEPT !.at = "closed"]
      /\ sampler' = FreshSampler
  BY DEF Close
<1>2. AllIdle
  BY <1>1 DEF IInv, DrainFits
<1>3. TypeOK'
  BY <1>1, FreshSamplerType DEF IInv, TypeOK, BucketTypeOK, bucketVars, Capacity
<1> QED BY <1>1, <1>2, <1>3, Aside

LEMMA IdleFits == Idle \in ReqType /\ ReqFits(Idle) /\ Idle.at = "idle" /\ Idle.slot = FALSE
BY Budgets DEF Idle, ReqFits, ReqType, Places, Routes, Answers

\* All requests are idle: at the start and after the end.
LEMMA AllIdleFits ==
    ASSUME req = [c \in Clients |-> Idle], inflight = 0
    PROVE  req \in [Clients -> ReqType] /\ RequestsFit /\ SlotsAreHeld /\ AllIdle
<1>1. \A c \in Clients : req[c] = Idle
  OBVIOUS
<1>2. req \in [Clients -> ReqType] /\ RequestsFit /\ AllIdle
  BY <1>1, IdleFits DEF RequestsFit, AllIdle
<1>3. {c \in Clients : req[c].slot} = {}
  BY <1>1, IdleFits
<1>4. SlotsAreHeld
  BY <1>3, FS_EmptySet, ApiAssumption DEF SlotsAreHeld
<1> QED BY <1>2, <1>4

LEMMA ExitInductive == ASSUME IInv, Exit PROVE IInv'
<1>1. /\ UNCHANGED <<backlog, pending, bucketVars>>
      /\ proc' = [at |-> "exited", age |-> 0] /\ sampler' = FreshSampler
      /\ req' = [c \in Clients |-> Idle] /\ inflight' = 0
  BY DEF Exit
<1>2. \A c \in Clients : req'[c] = Idle
  BY <1>1
<1>3. req' \in [Clients -> ReqType] /\ RequestsFit' /\ AllIdle'
  BY <1>1, <1>2, IdleFits DEF RequestsFit, AllIdle
<1>4. {c \in Clients : req'[c].slot} = {}
  BY <1>2, IdleFits
<1>5. SlotsAreHeld'
  BY <1>1, <1>4, FS_EmptySet, ApiAssumption DEF SlotsAreHeld
<1>6. BucketFits'
  BY <1>1 DEF IInv, BucketFits, BucketTypeOK, bucketVars, Refilled, Capacity
<1>7. TypeOK'
  <2>1. limbo' \in 0 .. MaxLimbo
    <3>1. Cardinality(InOrder) \in Nat
      BY ApiAssumption, FS_Subset, FS_CardinalityType DEF InOrder
    <3>2. /\ limbo' \in limbo .. Least(MaxLimbo, limbo + Cardinality(InOrder))
          /\ limbo \in 0 .. MaxLimbo /\ MaxLimbo \in Nat
      BY ApiAssumption DEF Exit, IInv, TypeOK
    <3> QED BY <3>1, <3>2 DEF Least
  <2> QED BY <1>1, <1>3, <1>6, <2>1, FreshSamplerType, ApiAssumption
          DEF IInv, TypeOK, ReqType, BucketFits
<1>8. DrainFits'
  BY <1>1, <1>3 DEF DrainFits
<1> QED BY <1>3, <1>5, <1>6, <1>7, <1>8 DEF IInv

\* A tick that a sampler may let pass.
LEMMA SamplerTicks ==
    ASSUME TypeOK, TimeMayPass, Tick
    PROVE  sampler' \in [at : {"wait", "query", "counted"}, age : 0 .. QueryTime,
                         n : 0 .. Limit, fails : 0 .. MaxFails,
                         toBeat : 1 .. Interval, beat : BOOLEAN]
<1> USE ApiAssumption
<1>1. CASE ~Sampling
  BY <1>1 DEF Tick, TypeOK
<1>2. CASE Sampling
  <2>1. sampler' = [sampler EXCEPT
                     !.age = IF sampler.at = "wait" THEN 0 ELSE @ + 1,
                     !.toBeat = IF @ = 1 THEN Interval ELSE @ - 1,
                     !.beat = @ \/ sampler.toBeat = 1]
    BY <1>2 DEF Tick
  <2>2. (IF sampler.at = "wait" THEN 0 ELSE sampler.age + 1) \in 0 .. QueryTime
    BY DEF TimeMayPass, TypeOK
  <2>3. (IF sampler.toBeat = 1 THEN Interval ELSE sampler.toBeat - 1) \in 1 .. Interval
    BY DEF TypeOK
  <2>4. (sampler.beat \/ sampler.toBeat = 1) \in BOOLEAN
    OBVIOUS
  <2> QED BY <2>1, <2>2, <2>3, <2>4 DEF TypeOK
<1> QED BY <1>1, <1>2

LEMMA TickInductive == ASSUME IInv, Tick PROVE IInv'
<1>1. /\ TypeOK /\ TimeMayPass /\ UNCHANGED <<inflight, backlog, limbo, pending>>
      /\ proc' = IF proc.at = "draining" THEN [proc EXCEPT !.age = @ + 1] ELSE proc
      /\ req' = [c \in Clients |->
                 IF req[c].at = "idle" THEN req[c] ELSE [req[c] EXCEPT !.left = @ - 1]]
  BY DEF Tick, IInv
<1>2. BucketFits'
  BY TickFits DEF Tick, IInv
<1>3. \A c \in Clients :
        /\ req'[c] \in ReqType /\ ReqFits(req'[c])
        /\ req'[c].at = req[c].at /\ req'[c].slot = req[c].slot
        /\ req[c].at # "idle" => req'[c].left = req[c].left - 1
  <2> SUFFICES ASSUME NEW c \in Clients
               PROVE  /\ req'[c] \in ReqType /\ ReqFits(req'[c])
                      /\ req'[c].at = req[c].at /\ req'[c].slot = req[c].slot
                      /\ req[c].at # "idle" => req'[c].left = req[c].left - 1
    OBVIOUS
  <2>1. req[c] \in ReqType /\ ReqFits(req[c])
    BY <1>1 DEF IInv, TypeOK, ReqType, RequestsFit
  <2>2. CASE req[c].at = "idle"
    BY <1>1, <2>1, <2>2
  <2>3. CASE req[c].at # "idle"
    <3> DEFINE r == [req[c] EXCEPT !.left = @ - 1]
    <3>1. req'[c] = r /\ req[c].left > 0
      BY <1>1, <2>3 DEF TimeMayPass
    <3>2. req[c].left - 1 \in 0 .. Most(ReadBudget, WriteBudget)
      BY <2>1, <3>1, Budgets DEF ReqType
    <3>3. /\ r \in ReqType /\ r.left = req[c].left - 1 /\ r.at = req[c].at
          /\ r.slot = req[c].slot /\ r.made = req[c].made /\ r.answer = req[c].answer
      BY <2>1, <3>2 DEF ReqType
    <3> HIDE DEF r
    <3>4. ReqFits(r)
      BY <2>1, <3>3 DEF ReqFits, ReqType
    <3> QED BY <3>1, <3>3, <3>4
  <2> QED BY <2>2, <2>3
<1>4. req' \in [Clients -> ReqType]
  BY <1>1, <1>3
<1>5. proc' \in [at : {"serving", "draining", "closing", "closed", "exited"},
                 age : 0 .. ShutdownTimeout]
  BY <1>1, ApiAssumption DEF TimeMayPass, TypeOK
<1>6. TypeOK'
  BY <1>1, <1>2, <1>4, <1>5, SamplerTicks DEF TypeOK, ReqType, BucketFits
<1>7. RequestsFit'
  BY <1>3 DEF RequestsFit
<1>8. SlotsAreHeld'
  <2>1. {c \in Clients : req'[c].slot} = {c \in Clients : req[c].slot}
    BY <1>3
  <2> QED BY <1>1, <2>1 DEF SlotsAreHeld, IInv
<1>9. DrainFits'
  <2>1. CASE proc.at = "draining"
    <3>1. proc'.at = "draining" /\ proc'.age = proc.age + 1
      BY <1>1, <2>1 DEF TypeOK
    <3>2. \A c \in Clients :
            req'[c].at # "idle" => proc'.age + req'[c].left < ShutdownTimeout
      BY <1>1, <1>3, <2>1, <3>1, Budgets, ApiAssumption DEF DrainFits, IInv, TypeOK
    <3> QED BY <3>1, <3>2 DEF DrainFits
  <2>2. CASE proc.at # "draining"
    BY <1>1, <1>3, <2>2 DEF DrainFits, IInv, AllIdle
  <2> QED BY <2>1, <2>2
<1> QED BY <1>2, <1>6, <1>7, <1>8, <1>9 DEF IInv

-----------------------------------------------------------------------------

LEMMA Initially == Init => IInv
<1> SUFFICES ASSUME Init PROVE IInv
  OBVIOUS
<1>1. BucketTypeOK /\ ahead = 0
  BY CapacityNat DEF Init, BucketInit, BucketTypeOK
<1>2. BucketFits
  BY <1>1, RefilledBounds, CapacityNat DEF BucketFits
<1>3. req \in [Clients -> ReqType] /\ RequestsFit /\ SlotsAreHeld /\ AllIdle
  BY AllIdleFits DEF Init
<1>4. TypeOK
  BY <1>1, <1>3, FreshSamplerType, ApiAssumption DEF Init, TypeOK, ReqType
<1>5. DrainFits
  BY <1>3 DEF Init, DrainFits
<1> QED BY <1>2, <1>3, <1>4, <1>5 DEF IInv

LEMMA Inductive == IInv /\ [Next]_vars => IInv'
<1> SUFFICES ASSUME IInv, [Next]_vars PROVE IInv'
  OBVIOUS
<1>1. CASE \E c \in Clients : Serve(c)
  BY <1>1, ServeInductive
<1>2. CASE Deliver \/ LimboEnds \/ Samples
  BY <1>2, SamplerInductive
<1>3. CASE Terminate
  BY <1>3, TerminateInductive
<1>4. CASE StopServing
  BY <1>4, StopServingInductive
<1>5. CASE Close
  BY <1>5, CloseInductive
<1>6. CASE Exit
  BY <1>6, ExitInductive
<1>7. CASE Tick
  BY <1>7, TickInductive
<1>8. CASE UNCHANGED vars
  <2>1. UNCHANGED <<req, inflight, proc, bucketVars, backlog, limbo, pending, sampler>>
    BY <1>8 DEF vars, apiVars
  <2>2. TypeOK'
    BY <2>1 DEF IInv, TypeOK, BucketTypeOK, bucketVars, Capacity
  <2> QED BY <2>1, <2>2, Aside
<1> QED BY <1>1, <1>2, <1>3, <1>4, <1>5, <1>6, <1>7, <1>8 DEF Next

LEMMA Always == Spec => []IInv
BY Initially, Inductive, PTL DEF Spec

\* The variables keep their types.
THEOREM TypeCorrect == Spec => []TypeOK
<1>1. IInv => TypeOK
  BY DEF IInv
<1> QED BY <1>1, Always, PTL

\* tokenbucket.go:3-4: in every span of time no more requests are let through
\* than the bucket holds and the rate brings.
THEOREM RateKept == Spec => []WithinRate
<1>1. IInv => WithinRate
  BY RefilledBounds, CapacityNat DEF IInv, BucketFits, BucketTypeOK, WithinRate
<1> QED BY <1>1, Always, PTL

\* admission.go:110-112: no slot is lost and no more are taken than there are.
THEOREM SlotsSafe == Spec => []SlotsAreHeld
<1>1. IInv => SlotsAreHeld
  BY DEF IInv
<1> QED BY <1>1, Always, PTL

\* handler.go:186-197: who is refused has placed no order, who got 201 has.
THEOREM RefusalsSafe == Spec => []RefusalLeavesNothing
<1>1. IInv => RefusalLeavesNothing
  BY DEF IInv, RequestsFit, ReqFits, RefusalLeavesNothing
<1> QED BY <1>1, Always, PTL

\* main.go:175: with budgets that fit into the shutdown's time no handler is
\* left when invQueue is closed, so none can send to a closed channel.
THEOREM DrainSafe == Spec => []DrainedBeforeClose
<1>1. IInv => DrainedBeforeClose
  BY DEF IInv, DrainFits, DrainedBeforeClose
<1> QED BY <1>1, Always, PTL
-----------------------------------------------------------------------------
(* The backlog *)

\* Orders that have had their token and may still be placed; the ones whose
\* deadline began at most d ticks ago; and the ones past the check of the limit.
Through == {c \in Clients : req[c].route = "createOrder"
                            /\ req[c].at \in {"slot", "check", "work"}}
Young(d) == {c \in Through : WriteBudget - req[c].left <= d}
Working == {c \in Through : req[c].at = "work"}

PartsOf(S) == Cost * Cardinality(S)

\* The rows that are there and those that may come without a request.
Rows == backlog + limbo

\* The backlog there would be if every token that is there were an order: no
\* step but a tick adds to it.
Potential == Cost * Rows + PartsOf(Through) + Refilled

\* The most there may be when a count under the limit is made, and at any time.
AtCount == Cost * (Most(Limit - 1, MaxStart) + MaxLimbo) + Capacity + Rate * WriteBudget
Bound == AtCount + Rate * Lag

\* Ticks until a count that succeeds is stored, at worst, seen from sampler s.
Slowest == Most(Interval, QueryTime)
BeatIn(s) == IF s.beat THEN 0 ELSE s.toBeat
Remaining(s) ==
    IF s.at = "wait"
    THEN BeatIn(s) + (MaxFails - s.fails) * Slowest + QueryTime
    ELSE IF s.fails = MaxFails
         THEN QueryTime - s.age
         ELSE Most(BeatIn(s), QueryTime - s.age)
              + (MaxFails - s.fails - 1) * Slowest + QueryTime

\* What the requests have taken out of the bucket.
TokensFit ==
    /\ \A c \in Clients : req[c].route = "createOrder" => req[c].left <= WriteBudget
    /\ \A d \in Nat : PartsOf(Young(d)) + Refilled <= Capacity + Rate * d

\* A query that still runs when the ticker beats began at an earlier beat.
SamplerFits ==
    sampler.at # "wait" /\ ~sampler.beat => sampler.age + sampler.toBeat <= Interval

\* A count under the limit opens the door until the next one closes it.
OpenFits == Sampling /\ pending < Limit => Potential + Rate * Remaining(sampler) <= Bound
CountFits ==
    Sampling /\ sampler.at = "counted" /\ sampler.n < Limit =>
        Potential <= AtCount + Rate * sampler.age
BacklogFits == Cost * Rows + PartsOf(Working) <= Bound

BInv ==
    Rate > 0 /\ Limit > 0 =>
        TokensFit /\ SamplerFits /\ OpenFits /\ CountFits /\ BacklogFits

LEMMA CostTimes ==
    /\ \A n \in Nat : Cost * n \in Nat /\ Cost * (n + 1) = Cost * n + Cost
    /\ \A m, n \in Nat : m <= n => Cost * m <= Cost * n
<1> USE BucketAssumption
<1>1. ASSUME NEW n \in Nat PROVE Cost * n \in Nat /\ Cost * (n + 1) = Cost * n + Cost
  OBVIOUS
<1>2. ASSUME NEW m \in Nat, NEW n \in Nat, m <= n PROVE Cost * m <= Cost * n
  <2>1. n - m \in Nat /\ n = m + (n - m)
    BY <1>2
  <2>2. Cost * (m + (n - m)) = Cost * m + Cost * (n - m)
    BY <2>1
  <2>3. Cost * m \in Nat /\ Cost * (n - m) \in Nat
    BY <2>1
  <2> QED BY <2>1, <2>2, <2>3
<1> QED BY <1>1, <1>2

LEMMA RateTimes ==
    /\ \A n \in Nat : Rate * n \in Nat /\ Rate * (n + 1) = Rate * n + Rate
    /\ \A m, n \in Nat : Rate * (m + n) = Rate * m + Rate * n
    /\ \A m, n \in Nat : m <= n => Rate * m <= Rate * n
<1> USE BucketAssumption
<1>1. ASSUME NEW n \in Nat PROVE Rate * n \in Nat /\ Rate * (n + 1) = Rate * n + Rate
  OBVIOUS
<1>2. ASSUME NEW m \in Nat, NEW n \in Nat PROVE Rate * (m + n) = Rate * m + Rate * n
  OBVIOUS
<1>3. ASSUME NEW m \in Nat, NEW n \in Nat, m <= n PROVE Rate * m <= Rate * n
  <2>1. n - m \in Nat /\ n = m + (n - m)
    BY <1>3
  <2>2. Rate * (m + (n - m)) = Rate * m + Rate * (n - m)
    BY <2>1
  <2>3. Rate * m \in Nat /\ Rate * (n - m) \in Nat
    BY <2>1
  <2> QED BY <2>1, <2>2, <2>3
<1> QED BY <1>1, <1>2, <1>3

LEMMA SlowestTimes ==
    /\ Slowest \in Nat /\ Interval <= Slowest /\ QueryTime <= Slowest
    /\ \A n \in Nat : n * Slowest \in Nat /\ (n + 1) * Slowest = n * Slowest + Slowest
<1>1. Slowest \in Nat /\ Interval <= Slowest /\ QueryTime <= Slowest
  BY ApiAssumption DEF Slowest, Most
<1> HIDE DEF Slowest
<1>2. ASSUME NEW n \in Nat
      PROVE  n * Slowest \in Nat /\ (n + 1) * Slowest = n * Slowest + Slowest
  BY <1>1
<1> QED BY <1>1, <1>2

\* The parts that the orders of a set have paid.
LEMMA PartsType == ASSUME NEW S, S \subseteq Clients PROVE PartsOf(S) \in Nat
<1>1. Cardinality(S) \in Nat
  BY ApiAssumption, FS_Subset, FS_CardinalityType
<1> QED BY <1>1, CostTimes DEF PartsOf

LEMMA PartsMonotone ==
    ASSUME NEW S, NEW T, S \subseteq T, T \subseteq Clients PROVE PartsOf(S) <= PartsOf(T)
<1>1. IsFiniteSet(T) /\ IsFiniteSet(S)
  BY ApiAssumption, FS_Subset
<1>2. Cardinality(S) <= Cardinality(T) /\ Cardinality(S) \in Nat /\ Cardinality(T) \in Nat
  BY <1>1, FS_Subset, FS_CardinalityType
<1> QED BY <1>2, CostTimes DEF PartsOf

LEMMA PartsAdded ==
    ASSUME NEW S, S \subseteq Clients, NEW c \in Clients
    PROVE  /\ PartsOf(S \cup {c}) <= PartsOf(S) + Cost
           /\ c \in S => PartsOf(S \ {c}) + Cost = PartsOf(S)
<1>1. IsFiniteSet(S) /\ IsFiniteSet(S \ {c}) /\ Cardinality(S) \in Nat
      /\ Cardinality(S \ {c}) \in Nat
  BY ApiAssumption, FS_Subset, FS_CardinalityType
<1>2. CASE c \in S
  <2>1. S \cup {c} = S /\ c \notin S \ {c} /\ (S \ {c}) \cup {c} = S
    BY <1>2
  <2>2. Cardinality(S) = Cardinality(S \ {c}) + 1
    BY <1>1, <2>1, FS_AddElement
  <2>3. PartsOf(S) = PartsOf(S \ {c}) + Cost
    BY <1>1, <2>2, CostTimes DEF PartsOf
  <2>4. PartsOf(S) \in Nat
    BY PartsType
  <2>5. PartsOf(S) <= PartsOf(S) + Cost
    BY <2>4, BucketAssumption
  <2> QED BY <2>1, <2>3, <2>5
<1>3. CASE c \notin S
  <2>1. Cardinality(S \cup {c}) = Cardinality(S) + 1
    BY <1>1, <1>3, FS_AddElement
  <2>2. PartsOf(S \cup {c}) = PartsOf(S) + Cost
    BY <1>1, <2>1, CostTimes DEF PartsOf
  <2>3. PartsOf(S) \in Nat
    BY PartsType
  <2> QED BY <1>3, <2>2, <2>3, BucketAssumption
<1> QED BY <1>2, <1>3

LEMMA BoundsType ==
    /\ AtCount \in Nat /\ Lag \in Nat /\ Rate * Lag \in Nat /\ Bound \in Nat
    /\ Lag = (MaxFails * Slowest + Slowest) + QueryTime
    /\ \A k \in {Limit - 1, MaxStart} :
          k \in Nat => Cost * (k + MaxLimbo) + Capacity + Rate * WriteBudget <= AtCount
<1>1. /\ MaxFails \in Nat /\ QueryTime \in Nat /\ WriteBudget \in Nat
      /\ MaxStart \in Nat /\ MaxLimbo \in Nat /\ Limit - 1 \in Int
  BY ApiAssumption
<1>2. /\ Lag = (MaxFails * Slowest + Slowest) + QueryTime
      /\ Lag \in Nat /\ Rate * Lag \in Nat
  <2>1. Lag = (MaxFails + 1) * Slowest + QueryTime
    BY DEF Lag, Slowest
  <2>2. Lag = (MaxFails * Slowest + Slowest) + QueryTime /\ Lag \in Nat
    BY <1>1, <2>1, SlowestTimes
  <2> QED BY <2>2, RateTimes
<1> DEFINE highest == Most(Limit - 1, MaxStart)
<1>3. /\ highest \in Nat
      /\ \A k \in {Limit - 1, MaxStart} : k <= highest
  BY <1>1 DEF Most
<1>4. AtCount = Cost * (highest + MaxLimbo) + Capacity + Rate * WriteBudget
  BY DEF AtCount
<1> HIDE DEF highest
<1>5. Cost * (highest + MaxLimbo) \in Nat /\ Rate * WriteBudget \in Nat /\ Capacity \in Nat
  <2>1. highest + MaxLimbo \in Nat
    BY <1>1, <1>3
  <2> QED BY <1>1, <2>1, CostTimes, RateTimes, CapacityNat
<1>6. ASSUME NEW k \in {Limit - 1, MaxStart}, k \in Nat
      PROVE  Cost * (k + MaxLimbo) + Capacity + Rate * WriteBudget <= AtCount
  <2>1. k + MaxLimbo \in Nat /\ highest + MaxLimbo \in Nat /\ k + MaxLimbo <= highest + MaxLimbo
    BY <1>1, <1>3, <1>6
  <2>2. Cost * (k + MaxLimbo) <= Cost * (highest + MaxLimbo) /\ Cost * (k + MaxLimbo) \in Nat
    BY <2>1, CostTimes
  <2> QED BY <1>4, <1>5, <2>2
<1> QED BY <1>2, <1>4, <1>5, <1>6 DEF Bound

-----------------------------------------------------------------------------
(* What is left of the wait for a count *)

LEMMA SamplerPieces ==
    ASSUME NEW s \in SamplerType
    PROVE  /\ s.at \in {"wait", "query", "counted"} /\ s.age \in 0 .. QueryTime
           /\ s.n \in 0 .. Limit /\ s.fails \in 0 .. MaxFails
           /\ s.toBeat \in 1 .. Interval /\ s.beat \in BOOLEAN
           /\ BeatIn(s) \in 0 .. Interval
           /\ MaxFails - s.fails \in Nat
           /\ s.fails < MaxFails => MaxFails - s.fails - 1 \in Nat
BY ApiAssumption DEF SamplerType, BeatIn

LEMMA RemainingNat == ASSUME NEW s \in SamplerType PROVE Remaining(s) \in Nat
<1>1. CASE s.at = "wait"
  <2>1. (MaxFails - s.fails) * Slowest \in Nat
    BY SamplerPieces, SlowestTimes
  <2> QED BY <1>1, <2>1, SamplerPieces, ApiAssumption DEF Remaining
<1>2. CASE s.at # "wait" /\ s.fails = MaxFails
  BY <1>2, SamplerPieces, ApiAssumption DEF Remaining
<1>3. CASE s.at # "wait" /\ s.fails # MaxFails
  <2>1. MaxFails - s.fails - 1 \in Nat
    BY <1>3, SamplerPieces, ApiAssumption
  <2>2. (MaxFails - s.fails - 1) * Slowest \in Nat
    BY <2>1, SlowestTimes
  <2>3. Most(BeatIn(s), QueryTime - s.age) \in Nat
    BY SamplerPieces, ApiAssumption DEF Most
  <2> QED BY <1>3, <2>2, <2>3, ApiAssumption DEF Remaining
<1> QED BY <1>1, <1>2, <1>3

\* A sample that begins takes no longer than was allowed for.
LEMMA RemainingStart ==
    ASSUME NEW s \in SamplerType, s.at = "wait", s.beat,
           NEW t \in SamplerType, t.at = "query", t.age = 0, t.beat = FALSE,
           t.fails = s.fails, t.toBeat = s.toBeat
    PROVE  Remaining(t) <= Remaining(s)
<1>1. BeatIn(s) = 0 /\ BeatIn(t) = s.toBeat /\ s.toBeat <= Slowest /\ s.toBeat \in Nat
  BY SamplerPieces, SlowestTimes, ApiAssumption DEF BeatIn
<1>2. Remaining(s) = (MaxFails - s.fails) * Slowest + QueryTime
  <2>1. (MaxFails - s.fails) * Slowest \in Nat
    BY SamplerPieces, SlowestTimes
  <2> QED BY <1>1, <2>1, ApiAssumption DEF Remaining
<1>3. CASE s.fails = MaxFails
  <2>1. Remaining(t) = QueryTime
    BY <1>3, ApiAssumption DEF Remaining
  <2>2. (MaxFails - s.fails) * Slowest \in Nat
    BY SamplerPieces, SlowestTimes
  <2> QED BY <1>2, <2>1, <2>2, ApiAssumption
<1>4. CASE s.fails # MaxFails
  <2> DEFINE k == MaxFails - s.fails - 1
  <2>1. k \in Nat /\ MaxFails - s.fails = k + 1
    BY <1>4, SamplerPieces, ApiAssumption
  <2>2. Remaining(t) = Most(s.toBeat, QueryTime) + k * Slowest + QueryTime
    BY <1>1, <1>4, ApiAssumption DEF Remaining
  <2>3. Remaining(s) = (k * Slowest + Slowest) + QueryTime /\ k * Slowest \in Nat
    BY <1>2, <2>1, SlowestTimes
  <2>4. Most(s.toBeat, QueryTime) <= Slowest /\ Most(s.toBeat, QueryTime) \in Nat
    BY <1>1, SlowestTimes, ApiAssumption DEF Most
  <2> HIDE DEF k
  <2> QED BY <2>2, <2>3, <2>4, SlowestTimes, ApiAssumption
<1> QED BY <1>3, <1>4

\* Nor does one that fails, as long as another may fail.
LEMMA RemainingFail ==
    ASSUME NEW s \in SamplerType, s.at # "wait", s.fails < MaxFails,
           NEW t \in SamplerType, t.at = "wait", t.fails = s.fails + 1,
           t.toBeat = s.toBeat, t.beat = s.beat
    PROVE  Remaining(t) <= Remaining(s)
<1> DEFINE k == MaxFails - s.fails - 1
<1>1. k \in Nat /\ MaxFails - t.fails = k /\ s.fails # MaxFails
  BY SamplerPieces, ApiAssumption
<1>2. BeatIn(t) = BeatIn(s) /\ BeatIn(s) \in Nat
  BY SamplerPieces DEF BeatIn
<1>3. /\ Remaining(t) = BeatIn(s) + k * Slowest + QueryTime
      /\ Remaining(s) = Most(BeatIn(s), QueryTime - s.age) + k * Slowest + QueryTime
  BY <1>1, <1>2 DEF Remaining
<1>4. k * Slowest \in Nat
  BY <1>1, SlowestTimes
<1>5. /\ BeatIn(s) <= Most(BeatIn(s), QueryTime - s.age)
      /\ Most(BeatIn(s), QueryTime - s.age) \in Nat
  BY <1>2, SamplerPieces, ApiAssumption DEF Most
<1> HIDE DEF k
<1> QED BY <1>2, <1>3, <1>4, <1>5, ApiAssumption

\* The sample after one that has succeeded, counted from when that one began.
LEMMA RemainingStore ==
    ASSUME NEW t \in SamplerType, t.at = "wait", t.fails = 0,
           NEW age \in 0 .. QueryTime, ~t.beat => age + t.toBeat <= Interval
    PROVE  age + Remaining(t) <= Lag
<1>1. age + BeatIn(t) <= Slowest /\ BeatIn(t) \in Nat
  BY SamplerPieces, SlowestTimes, ApiAssumption DEF BeatIn
<1>2. MaxFails - t.fails = MaxFails /\ MaxFails \in Nat
  BY ApiAssumption
<1>3. Remaining(t) = BeatIn(t) + MaxFails * Slowest + QueryTime
  BY <1>2 DEF Remaining
<1>4. MaxFails * Slowest \in Nat
  BY <1>2, SlowestTimes
<1> QED BY <1>1, <1>3, <1>4, BoundsType, SlowestTimes, ApiAssumption

\* A tick brings the count closer.
LEMMA RemainingTick ==
    ASSUME NEW s \in SamplerType, s.at = "wait" => ~s.beat, s.at # "wait" => s.age < QueryTime,
           NEW t \in SamplerType, t.at = s.at, t.fails = s.fails,
           s.at # "wait" => t.age = s.age + 1,
           t.toBeat = IF s.toBeat = 1 THEN Interval ELSE s.toBeat - 1,
           t.beat = (s.beat \/ s.toBeat = 1)
    PROVE  Remaining(t) + 1 = Remaining(s)
<1>1. ~s.beat => BeatIn(t) + 1 = BeatIn(s)
  BY SamplerPieces, ApiAssumption DEF BeatIn
<1>2. s.beat => BeatIn(t) = 0 /\ BeatIn(s) = 0
  BY DEF BeatIn
<1>3. CASE s.at = "wait"
  <2>1. (MaxFails - s.fails) * Slowest \in Nat
    BY SamplerPieces, SlowestTimes
  <2> QED BY <1>1, <1>3, <2>1, SamplerPieces, ApiAssumption DEF Remaining
<1>4. CASE s.at # "wait" /\ s.fails = MaxFails
  BY <1>4, SamplerPieces, ApiAssumption DEF Remaining
<1>5. CASE s.at # "wait" /\ s.fails # MaxFails
  <2> DEFINE k == MaxFails - s.fails - 1
  <2>1. /\ Remaining(t) = Most(BeatIn(t), QueryTime - t.age) + k * Slowest + QueryTime
        /\ Remaining(s) = Most(BeatIn(s), QueryTime - s.age) + k * Slowest + QueryTime
    BY <1>5 DEF Remaining
  <2>2. k * Slowest \in Nat
    BY <1>5, SamplerPieces, SlowestTimes, ApiAssumption
  <2>3. QueryTime - t.age + 1 = QueryTime - s.age /\ QueryTime - t.age \in Nat
    BY <1>5, SamplerPieces, ApiAssumption
  <2>4. /\ Most(BeatIn(t), QueryTime - t.age) + 1 = Most(BeatIn(s), QueryTime - s.age)
        /\ Most(BeatIn(t), QueryTime - t.age) \in Nat
    BY <1>1, <1>2, <2>3, SamplerPieces, ApiAssumption DEF Most
  <2> HIDE DEF k
  <2> QED BY <2>1, <2>2, <2>4, ApiAssumption
<1> QED BY <1>3, <1>4, <1>5

-----------------------------------------------------------------------------
(* The steps, while both limits are on *)

LEMMA Pieces ==
    ASSUME IInv
    PROVE  /\ sampler \in SamplerType /\ Rows \in Nat /\ Cost * Rows \in Nat
           /\ backlog \in Nat /\ limbo \in 0 .. MaxLimbo /\ MaxLimbo \in Nat
           /\ Refilled \in 0 .. Capacity /\ Capacity \in Nat
           /\ Through \subseteq Clients /\ Working \subseteq Through
           /\ PartsOf(Through) \in Nat /\ PartsOf(Working) \in Nat
           /\ PartsOf(Working) <= PartsOf(Through)
           /\ \A d : Young(d) \subseteq Through /\ PartsOf(Young(d)) \in Nat
           /\ Potential \in Nat
           /\ Remaining(sampler) \in Nat /\ Rate * Remaining(sampler) \in Nat
           /\ sampler.age \in Nat /\ Rate * sampler.age \in Nat
<1>1. /\ sampler \in SamplerType /\ Rows \in Nat
      /\ backlog \in Nat /\ limbo \in 0 .. MaxLimbo /\ MaxLimbo \in Nat
  BY ApiAssumption DEF IInv, TypeOK, SamplerType, Rows
<1>2. Refilled \in 0 .. Capacity /\ Capacity \in Nat
  BY RefilledBounds, CapacityNat DEF IInv, TypeOK
<1>3. /\ Through \subseteq Clients /\ Working \subseteq Through
      /\ \A d : Young(d) \subseteq Through
  BY DEF Through, Working, Young
<1>4. /\ PartsOf(Through) \in Nat /\ PartsOf(Working) \in Nat
      /\ PartsOf(Working) <= PartsOf(Through)
      /\ \A d : PartsOf(Young(d)) \in Nat
  BY <1>3, PartsType, PartsMonotone
<1>5. Cost * Rows \in Nat
  BY <1>1, CostTimes
<1>6. Potential \in Nat
  BY <1>2, <1>4, <1>5 DEF Potential
<1>7. sampler.age \in Nat /\ Rate * sampler.age \in Nat
  <2>1. sampler.age \in Nat
    BY <1>1, SamplerPieces, ApiAssumption
  <2> QED BY <2>1, RateTimes
<1>8. Remaining(sampler) \in Nat /\ Rate * Remaining(sampler) \in Nat
  BY <1>1, RemainingNat, RateTimes
<1> QED BY <1>1, <1>2, <1>3, <1>4, <1>5, <1>6, <1>7, <1>8

\* A request that is not idle is served while the sampler runs.
LEMMA Served == ASSUME IInv, NEW c \in Clients, req[c].at # "idle" PROVE Sampling
BY DEF IInv, DrainFits, AllIdle, TypeOK, Sampling

\* The sampler does not move and nothing is added.
LEMMA NoMore ==
    ASSUME IInv, IInv', BInv, Rate > 0, Limit > 0,
           UNCHANGED <<sampler, pending>>, Sampling' => Sampling,
           Potential' \in Nat, Potential' <= Potential, TokensFit', BacklogFits'
    PROVE  BInv'
<1>1. TokensFit /\ SamplerFits /\ OpenFits /\ CountFits /\ BacklogFits
  BY DEF BInv
<1>2. SamplerFits'
  BY <1>1 DEF SamplerFits
<1>3. Remaining(sampler)' = Remaining(sampler) /\ sampler'.age = sampler.age
  BY DEF Remaining, BeatIn, Slowest
<1>4. /\ Potential \in Nat /\ Rate * Remaining(sampler) \in Nat
      /\ Rate * sampler.age \in Nat /\ AtCount \in Nat /\ Bound \in Nat
      /\ Bound' = Bound /\ AtCount' = AtCount
  BY Pieces, BoundsType DEF Bound, AtCount, Lag, Capacity
<1>5. OpenFits'
  BY <1>1, <1>3, <1>4 DEF OpenFits
<1>6. CountFits'
  BY <1>1, <1>3, <1>4 DEF CountFits
<1> QED BY <1>2, <1>5, <1>6 DEF BInv

\* Orders that have had their token stay as old as they are, or go.
LEMMA TokensKept ==
    ASSUME IInv, IInv', TokensFit, Refilled' = Refilled,
           Through' \subseteq Through,
           \A c \in Through' : req'[c].left = req[c].left,
           \A c \in Clients : req'[c].route = "createOrder" => req'[c].left <= WriteBudget
    PROVE  TokensFit'
<1>1. ASSUME NEW d \in Nat PROVE PartsOf(Young(d)') + Refilled' <= Capacity + Rate * d
  <2>1. Young(d)' \subseteq Young(d)
    BY DEF Young
  <2>2. PartsOf(Young(d)') <= PartsOf(Young(d)) /\ PartsOf(Young(d)') \in Nat
    BY <2>1, Pieces, PartsMonotone, PartsType
  <2>3. PartsOf(Young(d)) + Refilled <= Capacity + Rate * d
    BY DEF TokensFit
  <2>4. Refilled \in Nat /\ Capacity \in Nat /\ PartsOf(Young(d)) \in Nat
    BY Pieces
  <2> DEFINE brought == Rate * d
  <2>5. brought \in Nat
    BY RateTimes
  <2>6. PartsOf(Young(d)) + Refilled <= Capacity + brought
    BY <2>3
  <2> HIDE DEF brought
  <2>7. PartsOf(Young(d)') + Refilled <= Capacity + brought
    BY <2>2, <2>4, <2>5, <2>6
  <2> QED BY <2>7 DEF brought
<1>2. Capacity' = Capacity
  BY DEF Capacity
<1> QED BY <1>1, <1>2 DEF TokensFit, PartsOf

\* One request moves: where that leaves the two sets.
LEMMA OneMoves ==
    ASSUME IInv, NEW c \in Clients, NEW r, req' = [req EXCEPT ![c] = r]
    PROVE  /\ req'[c] = r
           /\ \A x \in Clients \ {c} : req'[x] = req[x]
           /\ Through' = IF r.route = "createOrder" /\ r.at \in {"slot", "check", "work"}
                         THEN Through \cup {c} ELSE Through \ {c}
           /\ Working' = IF r.route = "createOrder" /\ r.at = "work"
                         THEN Working \cup {c} ELSE Working \ {c}
<1>1. req'[c] = r /\ \A x \in Clients \ {c} : req'[x] = req[x]
  BY DEF IInv, TypeOK
<1>2. Through' = IF r.route = "createOrder" /\ r.at \in {"slot", "check", "work"}
                 THEN Through \cup {c} ELSE Through \ {c}
  BY <1>1 DEF Through
<1>3. \A x \in Clients : x \in Working <=> req[x].route = "createOrder" /\ req[x].at = "work"
  BY DEF Working, Through
<1>4. \A x \in Clients : x \in Working' <=> req'[x].route = "createOrder" /\ req'[x].at = "work"
  BY DEF Working, Through
<1>5. Working \subseteq Clients /\ Working' \subseteq Clients
  BY DEF Working, Through
<1>6. Working' = IF r.route = "createOrder" /\ r.at = "work"
                 THEN Working \cup {c} ELSE Working \ {c}
  BY <1>1, <1>3, <1>4, <1>5
<1> QED BY <1>1, <1>2, <1>6

LEMMA BudgetKept ==
    ASSUME IInv, TokensFit, NEW c \in Clients, NEW r, req' = [req EXCEPT ![c] = r],
           r.route = "createOrder" => r.left <= WriteBudget
    PROVE  \A x \in Clients : req'[x].route = "createOrder" => req'[x].left <= WriteBudget
BY OneMoves DEF TokensFit

\* A request moves on, is refused or ends, and no order is made.
LEMMA Withdraws ==
    ASSUME IInv, IInv', BInv, Rate > 0, Limit > 0,
           NEW c \in Clients, NEW r, req' = [req EXCEPT ![c] = r],
           r.route = "createOrder" => r.left <= WriteBudget,
           r.route = "createOrder" /\ r.at \in {"slot", "check", "work"} =>
               c \in Through /\ r.left = req[c].left,
           r.route = "createOrder" /\ r.at = "work" => c \in Working,
           UNCHANGED <<backlog, limbo, pending, sampler, proc>>, Refilled' = Refilled
    PROVE  BInv'
<1>1. TokensFit /\ BacklogFits
  BY DEF BInv
<1>2. Through' \subseteq Through /\ Working' \subseteq Working
  <2>1. CASE r.route = "createOrder" /\ r.at \in {"slot", "check", "work"}
    <3>1. Through' = Through \cup {c} /\ c \in Through
      BY <2>1, OneMoves
    <3>2. CASE r.at = "work"
      <4>1. Working' = Working \cup {c} /\ c \in Working
        BY <2>1, <3>2, OneMoves
      <4> QED BY <3>1, <4>1
    <3>3. CASE r.at # "work"
      <4>1. Working' = Working \ {c}
        BY <3>3, OneMoves
      <4> QED BY <3>1, <4>1
    <3> QED BY <3>2, <3>3
  <2>2. CASE ~(r.route = "createOrder" /\ r.at \in {"slot", "check", "work"})
    <3>1. Through' = Through \ {c} /\ Working' = Working \ {c}
      BY <2>2, OneMoves
    <3> QED BY <3>1
  <2> QED BY <2>1, <2>2
<1>3. TokensFit'
  <2>1. \A x \in Through' : req'[x].left = req[x].left
    <3>1. ASSUME NEW x \in Through' PROVE req'[x].left = req[x].left
      <4>1. x \in Clients
        BY <1>2, Pieces
      <4>2. CASE x # c
        BY <4>1, <4>2, OneMoves
      <4>3. CASE x = c
        <5>1. req'[c] = r
          BY OneMoves
        <5>2. r.route = "createOrder" /\ r.at \in {"slot", "check", "work"}
          BY <3>1, <4>3, <5>1 DEF Through
        <5> QED BY <4>3, <5>1, <5>2
      <4> QED BY <4>2, <4>3
    <3> QED BY <3>1
  <2> QED BY <1>1, <1>2, <2>1, BudgetKept, TokensKept
<1>4. PartsOf(Through') <= PartsOf(Through) /\ PartsOf(Through') \in Nat
      /\ PartsOf(Working') <= PartsOf(Working) /\ PartsOf(Working') \in Nat
  BY <1>2, Pieces, PartsMonotone, PartsType
<1>5. Potential' <= Potential /\ Potential' \in Nat
  <2>1. Potential' = Cost * Rows + PartsOf(Through') + Refilled
    BY DEF Potential, PartsOf, Rows
  <2> QED BY <1>4, <2>1, Pieces DEF Potential
<1>6. BacklogFits'
  <2>1. Bound' = Bound /\ PartsOf(Working)' = PartsOf(Working') /\ Rows' = Rows
    BY DEF Bound, AtCount, Lag, Capacity, PartsOf, Rows
  <2> QED BY <1>1, <1>4, <2>1, Pieces, BoundsType DEF BacklogFits
<1> QED BY <1>3, <1>5, <1>6, NoMore DEF Sampling

\* An order takes its token: the bucket holds so much less.
LEMMA Enters ==
    ASSUME IInv, IInv', BInv, Rate > 0, Limit > 0,
           NEW c \in Clients, NEW r, req' = [req EXCEPT ![c] = r],
           r.at = "slot", r.left = req[c].left, r.route = req[c].route,
           Refilled >= Cost, UNCHANGED <<backlog, limbo, pending, sampler, proc>>,
           Refilled' = Refilled - Cost
    PROVE  BInv'
<1>1. TokensFit /\ BacklogFits
  BY DEF BInv
<1>2. Through' \subseteq Through \cup {c} /\ Working' \subseteq Working
  BY OneMoves
<1>3. PartsOf(Through') <= PartsOf(Through) + Cost /\ PartsOf(Through') \in Nat
      /\ PartsOf(Working') <= PartsOf(Working) /\ PartsOf(Working') \in Nat
  <2>1. PartsOf(Through') <= PartsOf(Through \cup {c})
    BY <1>2, Pieces, PartsMonotone
  <2>2. PartsOf(Through \cup {c}) <= PartsOf(Through) + Cost
    BY Pieces, PartsAdded
  <2>3. PartsOf(Through \cup {c}) \in Nat /\ PartsOf(Through') \in Nat
    BY <1>2, Pieces, PartsType
  <2>4. PartsOf(Working') <= PartsOf(Working) /\ PartsOf(Working') \in Nat
    BY <1>2, Pieces, PartsMonotone, PartsType
  <2> QED BY <2>1, <2>2, <2>3, <2>4, Pieces, BucketAssumption
<1>4. TokensFit'
  <2>1. ASSUME NEW d \in Nat PROVE PartsOf(Young(d)') + Refilled' <= Capacity + Rate * d
    <3>1. Young(d)' \subseteq Young(d) \cup {c} /\ Young(d) \cup {c} \subseteq Clients
      BY <1>2, OneMoves, Pieces DEF Young
    <3>2. PartsOf(Young(d)') <= PartsOf(Young(d) \cup {c})
      BY <3>1, PartsMonotone
    <3>3. PartsOf(Young(d) \cup {c}) <= PartsOf(Young(d)) + Cost
      BY <3>1, PartsAdded
    <3>4. PartsOf(Young(d)') \in Nat /\ PartsOf(Young(d) \cup {c}) \in Nat
      BY <3>1, PartsType
    <3>5. PartsOf(Young(d)) + Refilled <= Capacity + Rate * d
      BY <1>1 DEF TokensFit
    <3> QED BY <3>2, <3>3, <3>4, <3>5, Pieces, RateTimes, BucketAssumption
  <2>2. r.route = "createOrder" => r.left <= WriteBudget
    BY <1>1 DEF TokensFit
  <2>3. \A x \in Clients : req'[x].route = "createOrder" => req'[x].left <= WriteBudget
    BY <1>1, <2>2, BudgetKept
  <2>4. Capacity' = Capacity
    BY DEF Capacity
  <2> QED BY <2>1, <2>3, <2>4 DEF TokensFit, PartsOf
<1>5. Potential' <= Potential /\ Potential' \in Nat
  <2>0. Refilled - Cost \in Nat
    BY BucketAssumption, Pieces
  <2>1. Potential' = Cost * Rows + PartsOf(Through') + (Refilled - Cost)
    BY DEF Potential, PartsOf, Rows
  <2> QED BY <1>3, <2>0, <2>1, Pieces, BucketAssumption DEF Potential
<1>6. BacklogFits'
  <2>1. Bound' = Bound /\ PartsOf(Working)' = PartsOf(Working') /\ Rows' = Rows
    BY DEF Bound, AtCount, Lag, Capacity, PartsOf, Rows
  <2> QED BY <1>1, <1>3, <2>1, Pieces, BoundsType DEF BacklogFits
<1> QED BY <1>4, <1>5, <1>6, NoMore DEF Sampling

\* An order passes the check of the limit.
LEMMA Admits ==
    ASSUME IInv, IInv', BInv, Rate > 0, Limit > 0,
           NEW c \in Clients, req[c].at = "check", MoveTo(c, "work"), pending < Limit,
           UNCHANGED <<backlog, limbo, pending, sampler, proc>>, Refilled' = Refilled
    PROVE  BInv'
<1> DEFINE r == [req[c] EXCEPT !.at = "work"]
<1>1. /\ r.at = "work" /\ r.route = req[c].route /\ r.left = req[c].left
      /\ req' = [req EXCEPT ![c] = r]
  BY DEF MoveTo, IInv, TypeOK
<1> HIDE DEF r
<1>2. TokensFit /\ BacklogFits /\ OpenFits
  BY DEF BInv
<1>3. Through' = Through
  BY <1>1, OneMoves DEF Through
<1>4. TokensFit'
  <2>1. \A x \in Through' : req'[x].left = req[x].left
    BY <1>1, OneMoves, <1>3, Pieces
  <2>2. r.route = "createOrder" => r.left <= WriteBudget
    BY <1>1, <1>2 DEF TokensFit
  <2>3. \A x \in Clients : req'[x].route = "createOrder" => req'[x].left <= WriteBudget
    BY <1>1, <1>2, <2>2, BudgetKept
  <2> QED BY <1>2, <1>3, <2>1, <2>3, TokensKept
<1>5. Potential' = Potential /\ Rows' = Rows
  BY <1>3 DEF Potential, PartsOf, Rows
<1>6. BacklogFits'
  <2>1. Sampling
    BY Served
  <2>2. Potential + Rate * Remaining(sampler) <= Bound
    BY <1>2, <2>1 DEF OpenFits
  <2>3. PartsOf(Working)' <= PartsOf(Through) /\ PartsOf(Working)' \in Nat
    <3>1. PartsOf(Working)' = PartsOf(Working') /\ Working' \subseteq Through
      BY <1>3 DEF PartsOf, Working
    <3> QED BY <3>1, Pieces, PartsMonotone, PartsType
  <2>4. Bound' = Bound
    BY DEF Bound, AtCount, Lag, Capacity
  <2> QED BY <1>5, <2>2, <2>3, <2>4, Pieces, BoundsType DEF BacklogFits, Potential
<1>7. Potential' <= Potential /\ Potential' \in Nat
  BY <1>5, Pieces
<1> QED BY <1>4, <1>6, <1>7, NoMore DEF Sampling

\* An order is made or left to MySQL: the handler stops working and there is a
\* row more, or one that may come.
LEMMA Commits ==
    ASSUME IInv, IInv', BInv, Rate > 0, Limit > 0,
           NEW c \in Clients, NEW r, req' = [req EXCEPT ![c] = r],
           req[c].at = "work", req[c].route = "createOrder",
           r.at \in {"committed", "done"}, r.left = req[c].left, r.route = req[c].route,
           Rows' = Rows + 1,
           UNCHANGED <<pending, sampler, proc>>, Refilled' = Refilled
    PROVE  BInv'
<1>1. TokensFit /\ BacklogFits
  BY DEF BInv
<1>2. c \in Through /\ c \in Working /\ Through' = Through \ {c} /\ Working' = Working \ {c}
  BY OneMoves DEF Through, Working
<1>3. /\ PartsOf(Through)' + Cost = PartsOf(Through) /\ PartsOf(Through)' \in Nat
      /\ PartsOf(Working)' + Cost = PartsOf(Working) /\ PartsOf(Working)' \in Nat
  <2>1. PartsOf(Through)' = PartsOf(Through \ {c}) /\ PartsOf(Working)' = PartsOf(Working \ {c})
    BY <1>2 DEF PartsOf
  <2>2. Working \subseteq Clients /\ Through \ {c} \subseteq Clients /\ Working \ {c} \subseteq Clients
    BY Pieces
  <2> QED BY <1>2, <2>1, <2>2, Pieces, PartsAdded, PartsType
<1>4. Cost * Rows' = Cost * Rows + Cost
  BY Pieces, CostTimes
<1>5. TokensFit'
  <2>1. \A x \in Through' : req'[x].left = req[x].left
    BY OneMoves, <1>2, Pieces
  <2>2. r.route = "createOrder" => r.left <= WriteBudget
    BY <1>1 DEF TokensFit
  <2> QED BY <1>1, <1>2, <2>1, <2>2, BudgetKept, TokensKept
<1>6. Potential' <= Potential /\ Potential' \in Nat
  <2>1. Potential' = (Cost * Rows + Cost) + PartsOf(Through)' + Refilled
    BY <1>4 DEF Potential
  <2> QED BY <1>3, <2>1, Pieces, BucketAssumption DEF Potential
<1>7. BacklogFits'
  <2>1. Bound' = Bound
    BY DEF Bound, AtCount, Lag, Capacity
  <2> QED BY <1>1, <1>3, <1>4, <2>1, Pieces, BucketAssumption DEF BacklogFits
<1> QED BY <1>5, <1>6, <1>7, NoMore DEF Sampling

LEMMA BucketAside == UNCHANGED bucketVars => Refilled' = Refilled
BY DEF bucketVars, Refilled, Capacity

LEMMA AllowRefills ==
    ASSUME BucketTypeOK, Rate > 0, NEW granted \in BOOLEAN, Allow(granted)
    PROVE  /\ granted => Refilled >= Cost
           /\ Refilled' = IF granted THEN Refilled - Cost ELSE Refilled
<1> USE BucketAssumption, CapacityNat, RefilledBounds
<1>1. /\ tokens' = IF granted THEN Refilled - Cost ELSE Refilled
      /\ since' = 0 /\ Refilled \in 0 .. Capacity
  BY DEF Allow
<1>2. ASSUME granted PROVE Refilled >= Cost
  <2>1. Rate # 0
    OBVIOUS
  <2> QED BY <1>2, <2>1 DEF Allow
<1>3. Refilled' = Least(Capacity, tokens')
  <2>1. Capacity' = Capacity /\ Rate * 0 = 0 /\ tokens' \in Int
    BY <1>1 DEF Capacity
  <2> QED BY <1>1, <2>1 DEF Refilled
<1>4. CASE granted
  BY <1>1, <1>2, <1>3, <1>4 DEF Least
<1>5. CASE ~granted
  BY <1>1, <1>3, <1>5 DEF Least
<1> QED BY <1>4, <1>5

LEMMA AnswerBacklog ==
    ASSUME IInv, IInv', BInv, Rate > 0, Limit > 0, NEW c \in Clients,
           NEW code, AnswerWith(c, code),
           UNCHANGED <<backlog, limbo, pending, sampler, proc>>, Refilled' = Refilled
    PROVE  BInv'
<1> DEFINE r == [req[c] EXCEPT !.at = "done", !.answer = code]
<1>1. /\ r.at = "done" /\ r.route = req[c].route /\ r.left = req[c].left
      /\ req' = [req EXCEPT ![c] = r]
  BY DEF AnswerWith, IInv, TypeOK
<1> HIDE DEF r
<1>2. r.route = "createOrder" => r.left <= WriteBudget
  BY <1>1 DEF BInv, TokensFit
<1> QED BY <1>1, <1>2, Withdraws

LEMMA ArriveBacklog ==
    ASSUME IInv, IInv', BInv, Rate > 0, Limit > 0, NEW c \in Clients, Arrive(c)
    PROVE  BInv'
<1>1. PICK route \in Routes : req' = [req EXCEPT ![c] =
         [Idle EXCEPT !.at = "limit", !.route = route, !.left = BudgetOf(route)]]
  BY DEF Arrive
<1> DEFINE r == [Idle EXCEPT !.at = "limit", !.route = route, !.left = BudgetOf(route)]
<1>2. r.at = "limit" /\ r.route = route /\ r.left = BudgetOf(route)
  BY DEF Idle
<1>3. req' = [req EXCEPT ![c] = r]
  BY <1>1
<1> HIDE DEF r
<1>4. r.route = "createOrder" => r.left <= WriteBudget
  BY <1>2, ApiAssumption DEF BudgetOf
<1>5. UNCHANGED <<backlog, limbo, pending, sampler, proc>> /\ Refilled' = Refilled
  BY BucketAside DEF Arrive
<1> QED BY <1>2, <1>3, <1>4, <1>5, Withdraws

LEMMA RateLimitBacklog ==
    ASSUME IInv, IInv', BInv, Rate > 0, Limit > 0, NEW c \in Clients, RateLimit(c)
    PROVE  BInv'
<1>1. UNCHANGED <<backlog, limbo, pending, sampler, proc>> /\ BucketTypeOK
  BY DEF RateLimit, IInv, TypeOK
<1> DEFINE r == [req[c] EXCEPT !.at = "slot"]
<1>2. /\ r.at = "slot" /\ r.route = req[c].route /\ r.left = req[c].left
      /\ MoveTo(c, "slot") => req' = [req EXCEPT ![c] = r]
  BY DEF MoveTo, IInv, TypeOK
<1> HIDE DEF r
<1>3. CASE isProbeRoute(req[c].route) /\ MoveTo(c, "slot") /\ UNCHANGED bucketVars
  <2>1. r.route # "createOrder" /\ Refilled' = Refilled
    BY <1>2, <1>3, BucketAside DEF isProbeRoute
  <2> QED BY <1>1, <1>2, <1>3, <2>1, Withdraws
<1>4. CASE Allow(TRUE) /\ MoveTo(c, "slot")
  <2>1. Refilled >= Cost /\ Refilled' = Refilled - Cost
    BY <1>1, <1>4, AllowRefills
  <2> QED BY <1>1, <1>2, <1>4, <2>1, Enters
<1>5. CASE Allow(FALSE) /\ AnswerWith(c, 429)
  <2>1. Refilled' = Refilled
    BY <1>1, <1>5, AllowRefills
  <2> QED BY <1>1, <1>5, <2>1, AnswerBacklog
<1> QED BY <1>3, <1>4, <1>5 DEF RateLimit

LEMMA InFlightBacklog ==
    ASSUME IInv, IInv', BInv, Rate > 0, Limit > 0, NEW c \in Clients, InFlight(c)
    PROVE  BInv'
<1>1. /\ UNCHANGED <<backlog, limbo, pending, sampler, proc>> /\ Refilled' = Refilled
      /\ req[c].at = "slot"
  BY BucketAside DEF InFlight
<1>2. ASSUME NEW r, r.at = Behind(c), r.route = req[c].route, r.left = req[c].left,
             req' = [req EXCEPT ![c] = r]
      PROVE  BInv'
  <2>1. r.route = "createOrder" => r.at = "check" /\ c \in Through /\ r.left <= WriteBudget
    BY <1>1, <1>2 DEF Behind, Through, BInv, TokensFit
  <2> QED BY <1>1, <1>2, <2>1, Withdraws
<1>3. CASE MoveTo(c, Behind(c))
  <2> DEFINE r == [req[c] EXCEPT !.at = Behind(c)]
  <2>1. /\ r.at = Behind(c) /\ r.route = req[c].route /\ r.left = req[c].left
        /\ req' = [req EXCEPT ![c] = r]
    BY <1>3 DEF MoveTo, IInv, TypeOK
  <2> HIDE DEF r
  <2> QED BY <1>2, <2>1
<1>4. CASE req' = [req EXCEPT ![c].at = Behind(c), ![c].slot = TRUE]
  <2> DEFINE r == [req[c] EXCEPT !.at = Behind(c), !.slot = TRUE]
  <2>1. /\ r.at = Behind(c) /\ r.route = req[c].route /\ r.left = req[c].left
        /\ req' = [req EXCEPT ![c] = r]
    BY <1>4 DEF IInv, TypeOK
  <2> HIDE DEF r
  <2> QED BY <1>2, <2>1
<1>5. CASE AnswerWith(c, 503)
  BY <1>1, <1>5, AnswerBacklog
<1> QED BY <1>3, <1>4, <1>5 DEF InFlight

LEMMA CheckOrderBacklog ==
    ASSUME IInv, IInv', BInv, Rate > 0, Limit > 0, NEW c \in Clients, CheckOrder(c)
    PROVE  BInv'
<1>1. /\ UNCHANGED <<backlog, limbo, pending, sampler, proc>> /\ Refilled' = Refilled
      /\ req[c].at = "check"
  BY BucketAside DEF CheckOrder
<1>2. CASE AnswerWith(c, 409)
  BY <1>1, <1>2, AnswerBacklog
<1>3. CASE AnswerWith(c, 503)
  BY <1>1, <1>3, AnswerBacklog
<1>4. CASE ~OverLimit /\ MoveTo(c, "work")
  <2>1. pending < Limit
    BY <1>4, ApiAssumption DEF OverLimit, IInv, TypeOK
  <2> QED BY <1>1, <1>4, <2>1, Admits
<1> QED BY <1>2, <1>3, <1>4 DEF CheckOrder

LEMMA MadeBacklog ==
    ASSUME IInv, IInv', BInv, Rate > 0, Limit > 0, NEW c \in Clients,
           req[c].at = "work", req[c].route = "createOrder",
           NEW code, AnswerCommitted(c, code),
           UNCHANGED <<pending, sampler, proc>>, Refilled' = Refilled
    PROVE  BInv'
<1> DEFINE r == [req[c] EXCEPT !.at = "done", !.made = TRUE, !.answer = code]
<1>1. r.at = "done" /\ r.route = req[c].route /\ r.left = req[c].left
  BY DEF IInv, TypeOK
<1>2. req' = [req EXCEPT ![c] = r] /\ Rows' = Rows + 1
  BY Pieces DEF AnswerCommitted, Rows
<1> HIDE DEF r
<1> QED BY <1>1, <1>2, Commits

LEMMA AbandonBacklog ==
    ASSUME IInv, IInv', BInv, Rate > 0, Limit > 0, NEW c \in Clients,
           req[c].at = "work", req[c].route = "createOrder",
           NEW code, Abandon(c, code),
           UNCHANGED <<pending, sampler, proc>>, Refilled' = Refilled
    PROVE  BInv'
<1> DEFINE r == [req[c] EXCEPT !.at = "done", !.answer = code]
<1>1. r.at = "done" /\ r.route = req[c].route /\ r.left = req[c].left
  BY DEF IInv, TypeOK
<1>2. req' = [req EXCEPT ![c] = r]
  BY DEF Abandon, AnswerWith, IInv, TypeOK
<1>3. Rows' = Rows + 1
  BY Pieces DEF Abandon, Rows
<1> HIDE DEF r
<1> QED BY <1>1, <1>2, <1>3, Commits

LEMMA PlaceOrderBacklog ==
    ASSUME IInv, IInv', BInv, Rate > 0, Limit > 0, NEW c \in Clients, PlaceOrder(c)
    PROVE  BInv'
<1>1. /\ UNCHANGED <<pending, sampler, proc>> /\ Refilled' = Refilled
      /\ req[c].at = "work" /\ req[c].route = "createOrder"
  BY BucketAside DEF PlaceOrder
<1>2. CASE /\ req' = [req EXCEPT ![c].at = "committed", ![c].made = TRUE]
           /\ backlog' = backlog + 1 /\ UNCHANGED limbo
  <2> DEFINE r == [req[c] EXCEPT !.at = "committed", !.made = TRUE]
  <2>1. /\ r.at = "committed" /\ r.route = req[c].route /\ r.left = req[c].left
        /\ req' = [req EXCEPT ![c] = r]
    BY <1>2 DEF IInv, TypeOK
  <2> HIDE DEF r
  <2>2. Rows' = Rows + 1
    BY <1>2, Pieces DEF Rows
  <2> QED BY <1>1, <2>1, <2>2, Commits
<1>3. CASE (\E code \in {200, 409, 500} : AnswerWith(c, code)) /\ UNCHANGED <<backlog, limbo>>
  BY <1>1, <1>3, AnswerBacklog
<1>4. CASE AnswerCommitted(c, 500)
  BY <1>1, <1>4, MadeBacklog
<1>5. CASE Abandon(c, 500)
  BY <1>1, <1>5, AbandonBacklog
<1> QED BY <1>2, <1>3, <1>4, <1>5 DEF PlaceOrder

LEMMA CutBacklog ==
    ASSUME IInv, IInv', BInv, Rate > 0, Limit > 0, NEW c \in Clients, Cut(c)
    PROVE  BInv'
<1>1. /\ UNCHANGED <<pending, sampler, proc>> /\ Refilled' = Refilled
      /\ req[c].at = "work"
  BY BucketAside DEF Cut
<1>2. PICK code : \/ AnswerWith(c, code) /\ UNCHANGED <<backlog, limbo>>
                  \/ req[c].route = "createOrder" /\ AnswerCommitted(c, code)
                  \/ req[c].route = "createOrder" /\ Abandon(c, code)
  BY DEF Cut
<1>3. CASE AnswerWith(c, code) /\ UNCHANGED <<backlog, limbo>>
  BY <1>1, <1>3, AnswerBacklog
<1>4. CASE req[c].route = "createOrder" /\ AnswerCommitted(c, code)
  BY <1>1, <1>4, MadeBacklog
<1>5. CASE req[c].route = "createOrder" /\ Abandon(c, code)
  BY <1>1, <1>5, AbandonBacklog
<1> QED BY <1>2, <1>3, <1>4, <1>5

LEMMA ServeBacklog ==
    ASSUME IInv, IInv', BInv, Rate > 0, Limit > 0, NEW c \in Clients, Serve(c)
    PROVE  BInv'
<1>1. CASE Read(c)
  <2>1. /\ UNCHANGED <<backlog, limbo, pending, sampler, proc>> /\ Refilled' = Refilled
        /\ \E code \in ReadAnswers(req[c].route) : AnswerWith(c, code)
    BY <1>1, BucketAside DEF Read
  <2> QED BY <2>1, AnswerBacklog
<1>2. CASE Invalidate(c)
  <2>1. /\ UNCHANGED <<backlog, limbo, pending, sampler, proc>> /\ Refilled' = Refilled
        /\ AnswerWith(c, IF proc.at = "closed" THEN 500 ELSE 201)
    BY <1>2, BucketAside DEF Invalidate
  <2> QED BY <2>1, AnswerBacklog
<1>3. CASE Leave(c)
  <2>1. /\ UNCHANGED <<backlog, limbo, pending, sampler, proc>> /\ Refilled' = Refilled
        /\ req' = [req EXCEPT ![c] = Idle]
    BY <1>3, BucketAside DEF Leave
  <2>2. Idle.route # "createOrder"
    BY DEF Idle
  <2> QED BY <2>1, <2>2, Withdraws
<1> QED BY <1>1, <1>2, <1>3, ArriveBacklog, RateLimitBacklog, InFlightBacklog,
           CheckOrderBacklog, PlaceOrderBacklog, CutBacklog DEF Serve

\* A step that moves neither a request, nor a row, nor the bucket.
LEMMA SameRequests ==
    ASSUME IInv, TokensFit, BacklogFits, UNCHANGED <<req, backlog, limbo, bucketVars>>
    PROVE  TokensFit' /\ BacklogFits' /\ Potential' = Potential
<1>1. Refilled' = Refilled /\ Capacity' = Capacity /\ Bound' = Bound
  BY BucketAside DEF Capacity, Bound, AtCount, Lag
<1>2. Through' = Through /\ Working' = Working /\ \A d : Young(d)' = Young(d)
  BY DEF Through, Working, Young
<1>3. Rows' = Rows
  BY DEF Rows
<1> QED BY <1>1, <1>2, <1>3 DEF TokensFit, BacklogFits, Potential, PartsOf

LEMMA DeliverBacklog ==
    ASSUME IInv, IInv', BInv, Rate > 0, Limit > 0, Deliver \/ LimboEnds PROVE BInv'
<1>1. /\ Rows' \in Nat /\ Rows' <= Rows
      /\ UNCHANGED <<req, inflight, pending, sampler, proc, bucketVars>>
  BY Pieces DEF Deliver, LimboEnds, Rows
<1>2. TokensFit /\ BacklogFits
  BY DEF BInv
<1>3. Refilled' = Refilled /\ Capacity' = Capacity /\ Bound' = Bound
  BY <1>1, BucketAside DEF Capacity, Bound, AtCount, Lag
<1>4. Through' = Through /\ Working' = Working /\ \A d : Young(d)' = Young(d)
  BY <1>1 DEF Through, Working, Young
<1>5. TokensFit'
  BY <1>1, <1>2, <1>3, <1>4 DEF TokensFit, PartsOf
<1>6. Cost * Rows' <= Cost * Rows /\ Cost * Rows' \in Nat
  BY <1>1, Pieces, CostTimes
<1>7. /\ PartsOf(Through)' = PartsOf(Through) /\ PartsOf(Working)' = PartsOf(Working)
      /\ Potential' = Cost * Rows' + PartsOf(Through) + Refilled
  BY <1>3, <1>4 DEF Potential, PartsOf
<1>8. BacklogFits'
  BY <1>2, <1>3, <1>6, <1>7, Pieces, BoundsType DEF BacklogFits
<1>9. Potential' <= Potential /\ Potential' \in Nat
  BY <1>6, <1>7, Pieces DEF Potential
<1> QED BY <1>1, <1>5, <1>8, <1>9, NoMore DEF Sampling

LEMMA SampleStartBacklog ==
    ASSUME IInv, IInv', BInv, Rate > 0, Limit > 0, SampleStart PROVE BInv'
<1>1. /\ sampler.at = "wait" /\ sampler.beat
      /\ sampler' = [sampler EXCEPT !.at = "query", !.age = 0, !.beat = FALSE]
      /\ UNCHANGED <<req, inflight, backlog, limbo, pending, proc, bucketVars>>
  BY DEF SampleStart
<1>2. TokensFit /\ SamplerFits /\ OpenFits /\ CountFits /\ BacklogFits
  BY DEF BInv
<1>3. sampler \in SamplerType /\ sampler' \in SamplerType
  BY DEF IInv, TypeOK, SamplerType
<1>4. /\ sampler'.at = "query" /\ sampler'.age = 0 /\ sampler'.beat = FALSE
      /\ sampler'.fails = sampler.fails /\ sampler'.toBeat = sampler.toBeat
  BY <1>1, <1>3 DEF SamplerType
<1>5. TokensFit' /\ BacklogFits' /\ Potential' = Potential
  BY <1>1, <1>2, SameRequests
<1>6. SamplerFits'
  BY <1>3, <1>4, SamplerPieces, ApiAssumption DEF SamplerFits
<1>7. OpenFits'
  <2>1. Remaining(sampler') <= Remaining(sampler) /\ Remaining(sampler') \in Nat
    BY <1>1, <1>3, <1>4, RemainingStart, RemainingNat
  <2>2. Rate * Remaining(sampler') <= Rate * Remaining(sampler) /\ Rate * Remaining(sampler') \in Nat
    BY <2>1, Pieces, RateTimes
  <2>3. Bound' = Bound /\ Remaining(sampler)' = Remaining(sampler') /\ Sampling' = Sampling
    BY <1>1 DEF Bound, AtCount, Lag, Capacity, Remaining, BeatIn, Slowest, Sampling
  <2> QED BY <1>1, <1>2, <1>5, <2>2, <2>3, Pieces, BoundsType DEF OpenFits
<1>8. CountFits'
  BY <1>4 DEF CountFits
<1> QED BY <1>5, <1>6, <1>7, <1>8 DEF BInv

\* What is counted under the limit leaves room for what has its token.
LEMMA SampleCountBacklog ==
    ASSUME IInv, IInv', BInv, Rate > 0, Limit > 0, SampleCount PROVE BInv'
<1>1. /\ sampler.at = "query"
      /\ sampler' = [sampler EXCEPT !.at = "counted", !.n = Least(backlog, Limit)]
      /\ UNCHANGED <<req, inflight, backlog, limbo, pending, proc, bucketVars>>
  BY DEF SampleCount
<1>2. TokensFit /\ SamplerFits /\ OpenFits /\ CountFits /\ BacklogFits
  BY DEF BInv
<1>3. sampler \in SamplerType /\ sampler' \in SamplerType
  BY DEF IInv, TypeOK, SamplerType
<1>4. /\ sampler'.at = "counted" /\ sampler'.n = Least(backlog, Limit)
      /\ sampler'.age = sampler.age /\ sampler'.beat = sampler.beat
      /\ sampler'.fails = sampler.fails /\ sampler'.toBeat = sampler.toBeat
  BY <1>1, <1>3 DEF SamplerType
<1>5. TokensFit' /\ BacklogFits' /\ Potential' = Potential
  BY <1>1, <1>2, SameRequests
<1>6. SamplerFits'
  BY <1>1, <1>2, <1>4 DEF SamplerFits
<1>7. OpenFits'
  <2>1. Remaining(sampler)' = Remaining(sampler)
    BY <1>1, <1>4 DEF Remaining, BeatIn, Slowest
  <2>2. Bound' = Bound /\ Sampling' = Sampling
    BY <1>1 DEF Bound, AtCount, Lag, Capacity, Sampling
  <2> QED BY <1>1, <1>2, <1>5, <2>1, <2>2 DEF OpenFits
<1>8. CountFits'
  <2> SUFFICES ASSUME Least(backlog, Limit) < Limit
               PROVE  Potential <= AtCount + Rate * sampler.age
    <3>1. AtCount' = AtCount
      BY <1>1 DEF AtCount, Capacity
    <3> QED BY <1>4, <1>5, <3>1 DEF CountFits
  <2>1. /\ Limit - 1 \in Nat /\ Limit - 1 + MaxLimbo \in Nat
        /\ Rows <= Limit - 1 + MaxLimbo
    BY Pieces, ApiAssumption DEF Least, Rows
  <2>2. /\ Cost * Rows <= Cost * (Limit - 1 + MaxLimbo)
        /\ Cost * (Limit - 1 + MaxLimbo) \in Nat
    BY <2>1, Pieces, CostTimes
  <2>3. Cost * (Limit - 1 + MaxLimbo) + Capacity + Rate * WriteBudget <= AtCount
    BY <2>1, BoundsType
  <2>4. PartsOf(Through) + Refilled <= Capacity + Rate * WriteBudget
    <3>1. WriteBudget \in Nat
      BY ApiAssumption
    <3>2. Young(WriteBudget) = Through
      <4>1. \A c \in Through : req[c].left \in 0 .. Most(ReadBudget, WriteBudget)
        BY Pieces DEF IInv, TypeOK
      <4> QED BY <3>1, <4>1, Budgets DEF Young
    <3> QED BY <1>2, <3>1, <3>2 DEF TokensFit
  <2>5. Rate * WriteBudget \in Nat
    BY ApiAssumption, RateTimes
  <2> QED BY <2>2, <2>3, <2>4, <2>5, Pieces, BoundsType DEF Potential
<1> QED BY <1>5, <1>6, <1>7, <1>8 DEF BInv

LEMMA SampleStoreBacklog ==
    ASSUME IInv, IInv', BInv, Rate > 0, Limit > 0, SampleStore PROVE BInv'
<1>1. /\ Sampling /\ sampler.at = "counted" /\ pending' = sampler.n
      /\ sampler' = [sampler EXCEPT !.at = "wait", !.age = 0, !.n = 0, !.fails = 0]
      /\ UNCHANGED <<req, inflight, backlog, limbo, proc, bucketVars>>
  BY DEF SampleStore
<1>2. TokensFit /\ SamplerFits /\ OpenFits /\ CountFits /\ BacklogFits
  BY DEF BInv
<1>3. sampler \in SamplerType /\ sampler' \in SamplerType
  BY DEF IInv, TypeOK, SamplerType
<1>4. /\ sampler'.at = "wait" /\ sampler'.fails = 0
      /\ sampler'.beat = sampler.beat /\ sampler'.toBeat = sampler.toBeat
  BY <1>1, <1>3 DEF SamplerType
<1>5. TokensFit' /\ BacklogFits' /\ Potential' = Potential
  BY <1>1, <1>2, SameRequests
<1>6. SamplerFits' /\ CountFits'
  BY <1>4 DEF SamplerFits, CountFits
<1>7. OpenFits'
  <2>1. CASE sampler.n < Limit
    <3>1. Potential <= AtCount + Rate * sampler.age
      BY <1>1, <1>2, <2>1 DEF CountFits
    <3>2. sampler.age + Remaining(sampler') <= Lag /\ Remaining(sampler') \in Nat
      BY <1>1, <1>2, <1>3, <1>4, SamplerPieces, RemainingStore, RemainingNat DEF SamplerFits
    <3>3. /\ Rate * (sampler.age + Remaining(sampler')) <= Rate * Lag
          /\ Rate * (sampler.age + Remaining(sampler'))
               = Rate * sampler.age + Rate * Remaining(sampler')
          /\ Rate * Remaining(sampler') \in Nat
      <4>1. sampler.age + Remaining(sampler') \in Nat
        BY <3>2, Pieces
      <4> QED BY <3>2, <4>1, Pieces, BoundsType, RateTimes
    <3>4. Potential + Rate * Remaining(sampler') <= Bound
      BY <3>1, <3>3, Pieces, BoundsType DEF Bound
    <3>5. Bound' = Bound /\ Remaining(sampler)' = Remaining(sampler')
      BY <1>1 DEF Bound, AtCount, Lag, Capacity, Remaining, BeatIn, Slowest
    <3> QED BY <1>5, <3>4, <3>5 DEF OpenFits
  <2>2. CASE ~(sampler.n < Limit)
    BY <1>1, <2>2 DEF OpenFits
  <2> QED BY <2>1, <2>2
<1> QED BY <1>5, <1>6, <1>7 DEF BInv

LEMMA SampleFailBacklog ==
    ASSUME IInv, IInv', BInv, Rate > 0, Limit > 0, SampleFail PROVE BInv'
<1>1. /\ sampler.at \in {"query", "counted"} /\ sampler.fails < MaxFails
      /\ sampler' = [sampler EXCEPT !.at = "wait", !.age = 0, !.n = 0, !.fails = @ + 1]
      /\ UNCHANGED <<req, inflight, backlog, limbo, pending, proc, bucketVars>>
  BY DEF SampleFail
<1>2. TokensFit /\ SamplerFits /\ OpenFits /\ CountFits /\ BacklogFits
  BY DEF BInv
<1>3. sampler \in SamplerType /\ sampler' \in SamplerType
  BY DEF IInv, TypeOK, SamplerType
<1>4. /\ sampler'.at = "wait" /\ sampler'.fails = sampler.fails + 1
      /\ sampler'.beat = sampler.beat /\ sampler'.toBeat = sampler.toBeat
  BY <1>1, <1>3 DEF SamplerType
<1>5. TokensFit' /\ BacklogFits' /\ Potential' = Potential
  BY <1>1, <1>2, SameRequests
<1>6. SamplerFits' /\ CountFits'
  BY <1>4 DEF SamplerFits, CountFits
<1>7. OpenFits'
  <2>1. Remaining(sampler') <= Remaining(sampler) /\ Remaining(sampler') \in Nat
    BY <1>1, <1>3, <1>4, RemainingFail, RemainingNat
  <2>2. Rate * Remaining(sampler') <= Rate * Remaining(sampler) /\ Rate * Remaining(sampler') \in Nat
    BY <2>1, Pieces, RateTimes
  <2>3. Bound' = Bound /\ Remaining(sampler)' = Remaining(sampler') /\ Sampling' = Sampling
    BY <1>1 DEF Bound, AtCount, Lag, Capacity, Remaining, BeatIn, Slowest, Sampling
  <2> QED BY <1>1, <1>2, <1>5, <2>2, <2>3, Pieces, BoundsType DEF OpenFits
<1> QED BY <1>5, <1>6, <1>7 DEF BInv

\* The shutdown: the sampler goes on until Close, and then no request is left.
LEMMA ProcessBacklog ==
    ASSUME IInv, IInv', BInv, Rate > 0, Limit > 0,
           Terminate \/ StopServing \/ Close \/ Exit
    PROVE  BInv'
<1>1. TokensFit /\ SamplerFits /\ OpenFits /\ CountFits /\ BacklogFits
  BY DEF BInv
<1>2. CASE Terminate \/ StopServing
  <2>1. /\ UNCHANGED <<req, backlog, limbo, pending, sampler, bucketVars>>
        /\ Sampling
    BY <1>2 DEF Terminate, StopServing, Sampling
  <2>2. TokensFit' /\ BacklogFits' /\ Potential' = Potential
    BY <1>1, <2>1, SameRequests
  <2> QED BY <2>1, <2>2, Pieces, NoMore
<1>3. CASE Close
  <2>1. /\ UNCHANGED <<req, backlog, limbo, bucketVars>> /\ sampler' = FreshSampler
        /\ ~Sampling'
    BY <1>3 DEF Close, Sampling, IInv, TypeOK
  <2>2. TokensFit' /\ BacklogFits'
    BY <1>1, <2>1, SameRequests
  <2>3. SamplerFits' /\ OpenFits' /\ CountFits'
    BY <2>1 DEF SamplerFits, OpenFits, CountFits, FreshSampler
  <2> QED BY <2>2, <2>3 DEF BInv
<1>4. CASE Exit
  <2>1. /\ UNCHANGED <<backlog, bucketVars>> /\ sampler' = FreshSampler
        /\ req' = [c \in Clients |-> Idle] /\ ~Sampling'
    BY <1>4 DEF Exit, Sampling
  <2>2. \A c \in Clients : req'[c].route = "query"
    BY <2>1 DEF Idle
  <2>3. Through' = {} /\ Working' = {} /\ \A d : Young(d)' = {}
    BY <2>2 DEF Through, Working, Young
  <2>4. PartsOf({}) <= PartsOf(Working) /\ \A d : PartsOf({}) <= PartsOf(Young(d))
    BY Pieces, PartsMonotone
  <2>5. PartsOf({}) \in Nat
    BY PartsType
  <2>6. Refilled' = Refilled /\ Capacity' = Capacity /\ Bound' = Bound
    BY <2>1, BucketAside DEF Capacity, Bound, AtCount, Lag
  <2>7. TokensFit'
    <3>1. ASSUME NEW d \in Nat PROVE PartsOf({}) + Refilled <= Capacity + Rate * d
      <4>1. PartsOf(Young(d)) + Refilled <= Capacity + Rate * d
        BY <1>1 DEF TokensFit
      <4> QED BY <2>4, <2>5, <4>1, Pieces, RateTimes
    <3> QED BY <2>2, <2>3, <2>6, <3>1 DEF TokensFit, PartsOf
  <2>8. BacklogFits'
    <3> DEFINE n == Cardinality(Working)
    <3>1. PartsOf(Working)' = 0
      BY <2>3, FS_EmptySet, BucketAssumption DEF PartsOf
    <3>2. n \in Nat /\ n = Cardinality(InOrder)
      <4>1. Working = InOrder
        BY DEF Working, Through, InOrder
      <4> QED BY <4>1, ApiAssumption, FS_Subset, FS_CardinalityType DEF InOrder
    <3>3. limbo' \in limbo .. limbo + n
      BY <1>4, <3>2, Pieces DEF Exit, Least
    <3>4. Rows + n \in Nat /\ Rows' \in Nat /\ Rows' <= Rows + n
      BY <2>1, <3>2, <3>3, Pieces DEF Rows
    <3>5. Cost * Rows' <= Cost * (Rows + n) /\ Cost * Rows' \in Nat
      BY <3>4, CostTimes
    <3>6. Cost * (Rows + n) = Cost * Rows + Cost * n /\ Cost * n = PartsOf(Working)
      BY <3>2, Pieces, BucketAssumption DEF PartsOf
    <3> HIDE DEF n
    <3> QED BY <1>1, <2>6, <3>1, <3>5, <3>6, Pieces, BoundsType DEF BacklogFits
  <2>9. SamplerFits' /\ OpenFits' /\ CountFits'
    BY <2>1 DEF SamplerFits, OpenFits, CountFits, FreshSampler
  <2> QED BY <2>7, <2>8, <2>9 DEF BInv
<1> QED BY <1>2, <1>3, <1>4

LEMMA RefillTicks ==
    ASSUME BucketTypeOK, BucketTick
    PROVE  Refilled' \in 0 .. Capacity /\ Refilled' <= Refilled + Rate
<1> USE BucketAssumption, CapacityNat
<1>1. /\ Capacity' = Capacity /\ tokens' = tokens /\ since' = Least(since + 1, Capacity)
      /\ tokens \in 0 .. Capacity /\ since \in 0 .. Capacity
  BY DEF Capacity, BucketTick, BucketTypeOK
<1>2. since' \in Nat /\ since' <= since + 1 /\ since \in Nat
  BY <1>1 DEF Least
<1>3. Rate * since' <= Rate * since + Rate /\ Rate * since' \in Nat /\ Rate * since \in Nat
  <2>1. Rate * since' <= Rate * (since + 1)
    <3>1. since + 1 \in Nat
      BY <1>2
    <3> QED BY <1>2, <3>1, RateTimes
  <2>2. Rate * (since + 1) = Rate * since + Rate
    BY <1>2, RateTimes
  <2>3. Rate * since' \in Nat /\ Rate * since \in Nat
    BY <1>2, RateTimes
  <2> QED BY <2>1, <2>2, <2>3
<1>4. Refilled' = Least(Capacity, tokens + Rate * since')
  BY <1>1 DEF Refilled
<1> QED BY <1>1, <1>3, <1>4 DEF Refilled, Least

\* A tick brings what the rate brings, and every order is a tick older.
LEMMA TickBacklog ==
    ASSUME IInv, IInv', BInv, Rate > 0, Limit > 0, Tick PROVE BInv'
<1>1. /\ TimeMayPass /\ BucketTick /\ BucketTypeOK
      /\ UNCHANGED <<inflight, backlog, limbo, pending>>
      /\ proc' = IF proc.at = "draining" THEN [proc EXCEPT !.age = @ + 1] ELSE proc
      /\ req' = [c \in Clients |->
                 IF req[c].at = "idle" THEN req[c] ELSE [req[c] EXCEPT !.left = @ - 1]]
  BY DEF Tick, IInv, TypeOK
<1>2. TokensFit /\ SamplerFits /\ OpenFits /\ CountFits /\ BacklogFits
  BY DEF BInv
<1>3. \A c \in Clients :
        /\ req'[c].at = req[c].at /\ req'[c].route = req[c].route
        /\ req[c].left \in Nat
        /\ req[c].at = "idle" => req'[c].left = req[c].left
        /\ req[c].at # "idle" => req'[c].left = req[c].left - 1
  <2>1. ASSUME NEW c \in Clients
        PROVE  /\ req'[c].at = req[c].at /\ req'[c].route = req[c].route
               /\ req[c].left \in Nat
               /\ req[c].at = "idle" => req'[c].left = req[c].left
               /\ req[c].at # "idle" => req'[c].left = req[c].left - 1
    <3>1. req[c] \in ReqType
      BY DEF IInv, TypeOK, ReqType
    <3>2. req[c].left \in Nat
      BY <3>1, Budgets DEF ReqType
    <3>3. req'[c] = IF req[c].at = "idle" THEN req[c] ELSE [req[c] EXCEPT !.left = @ - 1]
      BY <1>1
    <3> QED BY <3>1, <3>2, <3>3 DEF ReqType
  <2> QED BY <2>1
<1>4. Through' = Through /\ Working' = Working
  BY <1>3 DEF Through, Working
<1>5. Refilled' \in 0 .. Capacity /\ Refilled' <= Refilled + Rate /\ Capacity' = Capacity
  BY <1>1, RefillTicks DEF Capacity
<1>6. TokensFit'
  <2>1. \A c \in Clients : req'[c].route = "createOrder" => req'[c].left <= WriteBudget
    BY <1>2, <1>3, ApiAssumption DEF TokensFit
  <2>2. ASSUME NEW d \in Nat PROVE PartsOf(Young(d)') + Refilled' <= Capacity + Rate * d
    <3>1. \A c \in Young(d)' : /\ c \in Through /\ req[c].left <= WriteBudget
                               /\ WriteBudget - req[c].left + 1 <= d
      <4>1. ASSUME NEW c \in Young(d)'
            PROVE  /\ c \in Through /\ req[c].left <= WriteBudget
                   /\ WriteBudget - req[c].left + 1 <= d
        <5>1. c \in Through /\ c \in Clients /\ WriteBudget - req'[c].left <= d
          BY <1>4, <4>1, Pieces DEF Young
        <5>2. req[c].at # "idle" /\ req[c].route = "createOrder"
          BY <5>1 DEF Through
        <5>3. req'[c].left = req[c].left - 1 /\ req[c].left \in Nat
          BY <1>3, <5>1, <5>2
        <5>4. req[c].left <= WriteBudget
          BY <1>2, <5>1, <5>2 DEF TokensFit
        <5> QED BY <5>1, <5>3, <5>4, ApiAssumption
      <4> QED BY <4>1
    <3>2. \A c \in Through : req[c].left \in Nat
      BY <1>3, Pieces
    <3>3. CASE d = 0
      <4>1. Young(d)' = {}
        BY <3>1, <3>2, <3>3, ApiAssumption
      <4>2. PartsOf({}) = 0
        BY FS_EmptySet, BucketAssumption DEF PartsOf
      <4>3. Rate * 0 = 0
        BY BucketAssumption
      <4> QED BY <1>5, <3>3, <4>1, <4>2, <4>3, Pieces
    <3>4. CASE d # 0
      <4>1. d - 1 \in Nat /\ d = (d - 1) + 1
        BY <3>4
      <4>2. Young(d)' \subseteq Young(d - 1)
        <5>1. ASSUME NEW c \in Young(d)' PROVE c \in Young(d - 1)
          <6>1. WriteBudget - req[c].left <= d - 1
            BY <3>1, <3>2, <5>1, ApiAssumption
          <6> QED BY <3>1, <5>1, <6>1 DEF Young
        <5> QED BY <5>1
      <4>3. PartsOf(Young(d)') <= PartsOf(Young(d - 1)) /\ PartsOf(Young(d)') \in Nat
        BY <4>2, Pieces, PartsMonotone, PartsType
      <4>4. PartsOf(Young(d - 1)) + Refilled <= Capacity + Rate * (d - 1)
        BY <1>2, <4>1 DEF TokensFit
      <4>5. Rate * d = Rate * (d - 1) + Rate /\ Rate * (d - 1) \in Nat
        BY <4>1, RateTimes
      <4> QED BY <1>5, <4>3, <4>4, <4>5, Pieces, BucketAssumption
    <3> QED BY <3>3, <3>4
  <2> QED BY <1>5, <2>1, <2>2 DEF TokensFit, PartsOf
<1>7. Bound' = Bound /\ AtCount' = AtCount
  BY DEF Bound, AtCount, Lag, Capacity
<1>8. BacklogFits' /\ Rows' = Rows
  <2>1. Rows' = Rows
    BY <1>1 DEF Rows
  <2> QED BY <1>2, <1>4, <1>7, <2>1 DEF BacklogFits, PartsOf
<1>9. Potential' <= Potential + Rate /\ Potential' \in Nat
  <2>1. Potential' = Cost * Rows + PartsOf(Through) + Refilled'
    BY <1>4, <1>8 DEF Potential, PartsOf
  <2> QED BY <1>5, <2>1, Pieces, BucketAssumption DEF Potential
<1>10. Sampling' = Sampling
  BY <1>1 DEF Sampling, IInv, TypeOK
<1>11. CASE ~Sampling
  <2>1. sampler' = sampler
    BY <1>11 DEF Tick
  <2> QED BY <1>2, <1>6, <1>8, <1>10, <1>11, <2>1 DEF BInv, SamplerFits, OpenFits, CountFits
<1>12. CASE Sampling
  <2>1. sampler \in SamplerType /\ sampler' \in SamplerType
    BY DEF IInv, TypeOK, SamplerType
  <2>2. sampler' = [sampler EXCEPT
                     !.age = IF sampler.at = "wait" THEN 0 ELSE @ + 1,
                     !.toBeat = IF @ = 1 THEN Interval ELSE @ - 1,
                     !.beat = @ \/ sampler.toBeat = 1]
    BY <1>12 DEF Tick
  <2>3. /\ sampler'.at = sampler.at /\ sampler'.n = sampler.n /\ sampler'.fails = sampler.fails
        /\ sampler'.age = IF sampler.at = "wait" THEN 0 ELSE sampler.age + 1
        /\ sampler'.toBeat = IF sampler.toBeat = 1 THEN Interval ELSE sampler.toBeat - 1
        /\ sampler'.beat = (sampler.beat \/ sampler.toBeat = 1)
    BY <2>1, <2>2 DEF SamplerType
  <2>4. /\ sampler.at = "wait" => ~sampler.beat
        /\ sampler.at # "wait" => sampler.age < QueryTime
    BY <1>1, <1>12 DEF TimeMayPass
  <2>5. SamplerFits'
    BY <1>2, <2>1, <2>3, SamplerPieces, ApiAssumption DEF SamplerFits
  <2>6. OpenFits'
    <3>1. Remaining(sampler') + 1 = Remaining(sampler) /\ Remaining(sampler') \in Nat
      BY <2>1, <2>3, <2>4, RemainingTick, RemainingNat
    <3>2. /\ Rate * Remaining(sampler) = Rate * Remaining(sampler') + Rate
          /\ Rate * Remaining(sampler') \in Nat
      BY <3>1, RateTimes
    <3>3. Remaining(sampler)' = Remaining(sampler')
      BY DEF Remaining, BeatIn, Slowest
    <3>4. Potential + Rate * Remaining(sampler) <= Bound =>
          Potential' + Rate * Remaining(sampler') <= Bound
      BY <1>9, <3>2, Pieces, BoundsType, BucketAssumption
    <3> QED BY <1>1, <1>2, <1>7, <1>10, <3>3, <3>4 DEF OpenFits
  <2>7. CountFits'
    <3>1. sampler.at = "counted" => Rate * sampler'.age = Rate * sampler.age + Rate
      BY <2>3, Pieces, RateTimes
    <3>2. sampler.at = "counted" /\ Potential <= AtCount + Rate * sampler.age =>
          Potential' <= AtCount + Rate * sampler'.age
      BY <1>9, <3>1, Pieces, BoundsType, BucketAssumption
    <3> QED BY <1>2, <1>7, <1>10, <2>3, <3>2 DEF CountFits
  <2> QED BY <1>6, <1>8, <2>5, <2>6, <2>7 DEF BInv
<1> QED BY <1>11, <1>12

-----------------------------------------------------------------------------

\* The bucket is full, and the first count is as far away as any.
LEMMA BacklogInitially == Init => BInv
<1> SUFFICES ASSUME Init, Rate > 0, Limit > 0 PROVE BInv
  BY DEF BInv
<1>1. IInv
  BY Initially
<1>2. /\ sampler = FreshSampler /\ pending = 0
      /\ backlog \in 0 .. MaxStart /\ limbo \in 0 .. MaxLimbo
      /\ \A c \in Clients : req[c] = Idle
  BY DEF Init
<1>3. Through = {} /\ Working = {} /\ \A d : Young(d) = {}
  BY <1>2 DEF Through, Working, Young, Idle
<1>4. PartsOf({}) = 0
  BY FS_EmptySet, BucketAssumption DEF PartsOf
<1>5. TokensFit
  <2>1. \A d \in Nat : Rate * d \in Nat
    BY RateTimes
  <2>2. \A c \in Clients : req[c].route # "createOrder"
    BY <1>2 DEF Idle
  <2>3. Refilled \in 0 .. Capacity /\ Capacity \in Nat
    BY <1>1, Pieces
  <2> DEFINE brought(d) == Rate * d
  <2>4. \A d \in Nat : brought(d) \in Nat
    BY <2>1
  <2>5. \A d \in Nat : 0 + Refilled <= Capacity + brought(d)
    <3> HIDE DEF brought
    <3> QED BY <2>3, <2>4
  <2> QED BY <1>3, <1>4, <2>2, <2>5 DEF TokensFit
<1>6. /\ sampler.at = "wait" /\ sampler.fails = 0 /\ sampler.toBeat = Interval
      /\ sampler.beat = FALSE
  BY <1>2 DEF FreshSampler
<1>7. SamplerFits /\ CountFits
  BY <1>6 DEF SamplerFits, CountFits
<1>8. Cost * Rows + Capacity + Rate * WriteBudget <= AtCount
  <2>1. /\ Rows \in Nat /\ Rows <= MaxStart + MaxLimbo
        /\ MaxStart \in Nat /\ MaxStart + MaxLimbo \in Nat
    BY <1>2, ApiAssumption DEF Rows
  <2>2. /\ Cost * Rows <= Cost * (MaxStart + MaxLimbo)
        /\ Cost * (MaxStart + MaxLimbo) \in Nat /\ Cost * Rows \in Nat
    BY <2>1, CostTimes
  <2>3. Cost * (MaxStart + MaxLimbo) + Capacity + Rate * WriteBudget <= AtCount
    BY <2>1, BoundsType
  <2>4. Rate * WriteBudget \in Nat
    BY ApiAssumption, RateTimes
  <2> QED BY <2>2, <2>3, <2>4, CapacityNat, BoundsType
<1>9. Potential <= AtCount
  <2>1. Potential = Cost * Rows + 0 + Refilled
    BY <1>3, <1>4 DEF Potential
  <2>2. Rate * WriteBudget \in Nat
    BY ApiAssumption, RateTimes
  <2> QED BY <1>1, <1>8, <2>1, <2>2, Pieces, BoundsType
<1>10. OpenFits
  <2>1. 0 + Remaining(sampler) <= Lag
    BY <1>1, <1>6, Pieces, RemainingStore, ApiAssumption
  <2>2. Rate * Remaining(sampler) <= Rate * Lag
    BY <1>1, <2>1, Pieces, BoundsType, RateTimes
  <2> QED BY <1>1, <1>9, <2>2, Pieces, BoundsType DEF OpenFits, Bound
<1>11. BacklogFits
  BY <1>1, <1>3, <1>4, <1>9, Pieces, BoundsType DEF BacklogFits, Bound, Potential
<1> QED BY <1>5, <1>7, <1>10, <1>11 DEF BInv

LEMMA BacklogInductive == IInv /\ IInv' /\ BInv /\ [Next]_vars => BInv'
<1> SUFFICES ASSUME IInv, IInv', BInv, Rate > 0, Limit > 0, [Next]_vars PROVE BInv'
  BY DEF BInv
<1>1. CASE \E c \in Clients : Serve(c)
  BY <1>1, ServeBacklog
<1>2. CASE Deliver \/ LimboEnds
  BY <1>2, DeliverBacklog
<1>3. CASE Samples
  BY <1>3, SampleStartBacklog, SampleCountBacklog, SampleStoreBacklog, SampleFailBacklog
     DEF Samples
<1>4. CASE Terminate \/ StopServing \/ Close \/ Exit
  BY <1>4, ProcessBacklog
<1>5. CASE Tick
  BY <1>5, TickBacklog
<1>6. CASE UNCHANGED vars
  <2>1. UNCHANGED <<req, backlog, limbo, pending, sampler, proc, bucketVars>>
    BY <1>6 DEF vars, apiVars
  <2>2. TokensFit' /\ BacklogFits' /\ Potential' = Potential
    BY <2>1, SameRequests DEF BInv
  <2> QED BY <2>1, <2>2, Pieces, NoMore DEF Sampling
<1> QED BY <1>1, <1>2, <1>3, <1>4, <1>5, <1>6 DEF Next

\* backpressure.go:6: with a rate and a limit set, the backlog overshoots the
\* limit by no more than what the rate lets through in one budget of writes and
\* the time until the next count is stored, and by the COMMITs that MySQL has under
\* way for requests that are gone.
THEOREM BacklogSafe == Spec => []BacklogBounded
<1>1. IInv /\ BInv => BacklogBounded
  <2> SUFFICES ASSUME IInv, BInv, Rate > 0, Limit > 0
               PROVE  Cost * backlog <= Cost * (Most(Limit - 1, MaxStart) + MaxLimbo) + Overshoot
    BY DEF BacklogBounded
  <2>1. Cost * backlog <= Bound /\ Cost * backlog \in Nat
    <3>1. Cost * Rows <= Bound
      BY Pieces, BoundsType DEF BInv, BacklogFits
    <3>2. backlog <= Rows
      BY Pieces DEF Rows
    <3>3. Cost * backlog <= Cost * Rows /\ Cost * backlog \in Nat
      BY <3>2, Pieces, CostTimes
    <3> QED BY <3>1, <3>3, Pieces, BoundsType
  <2>2. Rate * (WriteBudget + Lag) = Rate * WriteBudget + Rate * Lag
    BY BoundsType, RateTimes, ApiAssumption
  <2>3. Rate * WriteBudget \in Nat /\ Rate * Lag \in Nat
    BY BoundsType, RateTimes, ApiAssumption
  <2> DEFINE highest == Most(Limit - 1, MaxStart) + MaxLimbo
  <2>4. Cost * highest \in Nat
    <3>1. highest \in Nat
      BY ApiAssumption DEF Most
    <3> HIDE DEF highest
    <3> QED BY <3>1, CostTimes
  <2>5. Bound = Cost * highest + Capacity + Rate * WriteBudget + Rate * Lag
    BY DEF Bound, AtCount
  <2>6. Overshoot = Capacity + (Rate * WriteBudget + Rate * Lag)
    BY <2>2 DEF Overshoot
  <2>7. Cost * backlog <= Cost * highest + Overshoot
    <3> HIDE DEF highest
    <3> QED BY <2>1, <2>3, <2>4, <2>5, <2>6, Pieces, CapacityNat
  <2> QED BY <2>7
<1> QED BY <1>1, Always, BacklogInitially, BacklogInductive, PTL DEF Spec
=============================================================================
