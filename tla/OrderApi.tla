------------------------------ MODULE OrderApi ------------------------------
(***************************************************************************)
(* One order-api process as its requests see it: the chain of middlewares  *)
(* (internal/api/admission.go), the handlers (internal/api/handler.go),    *)
(* the sampler behind the backlog limit (internal/api/backpressure.go) and *)
(* the process from its start to its shutdown (cmd/order-api/main.go).     *)
(*                                                                         *)
(* What the store does inside CreateOrder is in OrderStore, what the cache *)
(* does is in Cache: here they are outcomes.  Time goes in ticks; a step   *)
(* that does not wait for a server takes less than one.                    *)
(***************************************************************************)
EXTENDS TokenBucket, FiniteSets

CONSTANTS
    Clients,         \* each has one request at a time
    MaxInflight,     \* MAX_INFLIGHT; 0 switches the limit off
    ReadBudget,      \* ticks a request may take
    WriteBudget,
    Limit,           \* OUTBOX_BACKLOG_LIMIT; 0 switches the limit off
    Interval,        \* ticks between two samples
    QueryTime,       \* ticks a sample may take
    MaxFails,        \* bound: samples that fail in a row
    Grace,           \* ticks a connection accepted before the shutdown has
                     \* for its first request
    ShutdownTimeout, \* ticks Shutdown waits for requests
    MaxStart,        \* bound: rows that are PENDING when the process starts
    MaxLimbo         \* COMMITs MySQL may have under way for requests that are
                     \* gone: each has a server connection to itself

ASSUME ApiAssumption ==
    /\ IsFiniteSet(Clients)
    /\ MaxInflight \in Nat /\ Limit \in Nat
    /\ ReadBudget \in Nat \ {0} /\ WriteBudget \in Nat \ {0}
    /\ Interval \in Nat \ {0} /\ QueryTime \in Nat
    /\ MaxFails \in Nat /\ MaxStart \in Nat /\ MaxLimbo \in Nat
    /\ Grace \in Nat \ {0} /\ ShutdownTimeout \in Nat
ASSUME DrainAssumption ==
    /\ Grace + ReadBudget <= ShutdownTimeout
    /\ Grace + WriteBudget <= ShutdownTimeout

VARIABLES
    req,      \* each client's request: where it is, route, ticks left, holds a
              \* slot, order committed, answer
    inflight, \* len(admissionState.inflight)
    backlog,  \* PENDING rows of outbox_events
    limbo,    \* COMMITs sent by requests that are gone, which MySQL may still apply
    pending,  \* Backpressure.pending, as far as OverLimit can tell: capped by Limit
    sampler,  \* Backpressure.Run: where, ticks in the query, count, failures in a
              \* row, ticks to the next beat of the ticker and whether one waits
    proc      \* the process: where, ticks since SIGTERM

apiVars == <<req, inflight, backlog, limbo, pending, sampler, proc>>
vars == <<apiVars, bucketVars>>

Routes == {"createOrder", "query", "probe"}
Places == {"idle", "limit", "slot", "check", "work", "committed", "done"}
(* The codes as far as a client can act on them: 400, 404 and 409 are one. *)
Answers == {0, 200, 201, 409, 429, 500, 503, 504}

Idle == [at |-> "idle", route |-> "query", left |-> 0,
         slot |-> FALSE, made |-> FALSE, answer |-> 0]
FreshSampler == [at |-> "wait", age |-> 0, n |-> 0, fails |-> 0,
                 toBeat |-> Interval, beat |-> FALSE]

Init ==
    /\ BucketInit
    /\ req = [c \in Clients |-> Idle]
    /\ inflight = 0
    /\ backlog \in 0 .. MaxStart
    /\ limbo \in 0 .. MaxLimbo
    /\ pending = 0
    /\ sampler = FreshSampler
    /\ proc = [at |-> "serving", age |-> 0]

-----------------------------------------------------------------------------
(* Requests *)

isProbeRoute(route) == route = "probe"

(* isWriteRoute: it looks at the path alone, so the list of orders, which  *)
(* shares the path, has the budget of writes as well.                      *)
BudgetOf(route) == IF route = "createOrder" THEN WriteBudget ELSE ReadBudget

MoveTo(c, place) == req' = [req EXCEPT ![c].at = place]
AnswerWith(c, code) == req' = [req EXCEPT ![c].at = "done", ![c].answer = code]

(* Serving, or a connection that was accepted before the shutdown.         *)
Accepts ==
    \/ proc.at = "serving"
    \/ proc.at = "draining" /\ proc.age < Grace

(* The deadline starts before the limits are looked at.                    *)
Arrive(c) ==
    /\ Accepts
    /\ req[c].at = "idle"
    /\ \E route \in Routes :
          req' = [req EXCEPT ![c] = [Idle EXCEPT !.at = "limit", !.route = route,
                                                 !.left = BudgetOf(route)]]
    /\ UNCHANGED <<inflight, backlog, limbo, pending, sampler, proc, bucketVars>>

(* RateLimitMiddleware.  The token is gone even if there is no slot.       *)
RateLimit(c) ==
    /\ req[c].at = "limit"
    /\ \/ isProbeRoute(req[c].route) /\ MoveTo(c, "slot") /\ UNCHANGED bucketVars
       \/ ~isProbeRoute(req[c].route) /\ Allow(TRUE) /\ MoveTo(c, "slot")
       \/ ~isProbeRoute(req[c].route) /\ Allow(FALSE) /\ AnswerWith(c, 429)
    /\ UNCHANGED <<inflight, backlog, limbo, pending, sampler, proc>>

Behind(c) == IF req[c].route = "createOrder" THEN "check" ELSE "work"
NeedsSlot(c) == MaxInflight > 0 /\ ~isProbeRoute(req[c].route)

(* InFlightMiddleware: there is no queue.                                  *)
InFlight(c) ==
    /\ req[c].at = "slot"
    /\ \/ ~NeedsSlot(c) /\ MoveTo(c, Behind(c)) /\ UNCHANGED inflight
       \/ /\ NeedsSlot(c) /\ inflight < MaxInflight
          /\ inflight' = inflight + 1
          /\ req' = [req EXCEPT ![c].at = Behind(c), ![c].slot = TRUE]
       \/ /\ NeedsSlot(c) /\ inflight = MaxInflight
          /\ AnswerWith(c, 503)
          /\ UNCHANGED inflight
    /\ UNCHANGED <<backlog, limbo, pending, sampler, proc, bucketVars>>

OverLimit == Limit > 0 /\ pending >= Limit

(* createOrder before the transaction: the parameters, then the backlog.   *)
CheckOrder(c) ==
    /\ req[c].at = "check"
    /\ \/ AnswerWith(c, 409)
       \/ OverLimit /\ AnswerWith(c, 503)
       \/ ~OverLimit /\ MoveTo(c, "work")
    /\ UNCHANGED <<inflight, backlog, limbo, pending, sampler, proc, bucketVars>>

SlipPlaceOrderChecksLate(c) ==
    /\ req[c].at = "work" /\ req[c].route = "createOrder"
    /\ backlog' = backlog + 1
    /\ req' = [req EXCEPT ![c].made = TRUE,
                          ![c].at = IF OverLimit THEN "done" ELSE "committed",
                          ![c].answer = IF OverLimit THEN 503 ELSE 0]
    /\ UNCHANGED <<inflight, limbo, pending, sampler, proc, bucketVars>>

(* An error is answered, and the order has been committed all the same.    *)
AnswerCommitted(c, code) ==
    /\ req' = [req EXCEPT ![c] = [@ EXCEPT !.at = "done", !.made = TRUE, !.answer = code]]
    /\ backlog' = backlog + 1
    /\ UNCHANGED limbo

(* An error is answered while MySQL has the COMMIT under way.              *)
Abandon(c, code) ==
    /\ limbo < MaxLimbo
    /\ AnswerWith(c, code)
    /\ limbo' = limbo + 1
    /\ UNCHANGED backlog

(* CreateOrder has come back, and handleStoreErr has turned an error into  *)
(* an answer.  With 500 the order may exist all the same, or come to exist *)
(* later: its COMMIT was sent and the reply was lost.                      *)
PlaceOrder(c) ==
    /\ req[c].at = "work" /\ req[c].route = "createOrder"
    /\ \/ req' = [req EXCEPT ![c].at = "committed", ![c].made = TRUE]
          /\ backlog' = backlog + 1
          /\ UNCHANGED limbo
       \/ (\E code \in {200, 409, 500} : AnswerWith(c, code))
          /\ UNCHANGED <<backlog, limbo>>
       \/ AnswerCommitted(c, 500)
       \/ Abandon(c, 500)
    /\ UNCHANGED <<inflight, pending, sampler, proc, bucketVars>>

(* A read through the cache or the store, or the Ping of the probe.        *)
ReadAnswers(route) ==
    IF isProbeRoute(route) THEN {200, 503} ELSE {200, 409, 500, 503}

Read(c) ==
    /\ req[c].at = "work" /\ req[c].route # "createOrder"
    /\ \E code \in ReadAnswers(req[c].route) : AnswerWith(c, code)
    /\ UNCHANGED <<inflight, backlog, limbo, pending, sampler, proc, bucketVars>>

(* The context is done: the budget is used up, the client has gone, or     *)
(* srv.Close has cut the connection.  What waits for a server returns at   *)
(* once; an order may have been committed all the same, or be so later.    *)
CutAnswers(route) ==
    CASE route = "createOrder" -> {504}
      [] route = "query"       -> {200, 503, 504}
      [] route = "probe"       -> {200, 503}

Cut(c) ==
    /\ req[c].at = "work"
    /\ \E code \in CutAnswers(req[c].route) :
          \/ AnswerWith(c, code) /\ UNCHANGED <<backlog, limbo>>
          \/ req[c].route = "createOrder" /\ AnswerCommitted(c, code)
          \/ req[c].route = "createOrder" /\ Abandon(c, code)
    /\ UNCHANGED <<inflight, pending, sampler, proc, bucketVars>>

(* cch.Invalidate, then 201.  It never waits.  If the process had already  *)
(* closed invQueue the send would panic and Recovery answer 500.           *)
Invalidate(c) ==
    /\ req[c].at = "committed"
    /\ AnswerWith(c, IF proc.at = "closed" THEN 500 ELSE 201)
    /\ UNCHANGED <<inflight, backlog, limbo, pending, sampler, proc, bucketVars>>

SlipLeaveKeepsSlot(c) ==
    /\ req[c].at = "done"
    /\ req' = [req EXCEPT ![c] = Idle]
    /\ inflight' = IF req[c].slot /\ req[c].answer # 504 THEN inflight - 1 ELSE inflight
    /\ UNCHANGED <<backlog, limbo, pending, sampler, proc, bucketVars>>

(* The middlewares return, innermost first; the deferred function of       *)
(* InFlightMiddleware gives the slot back whatever the handler did.        *)
Leave(c) ==
    /\ req[c].at = "done"
    /\ req' = [req EXCEPT ![c] = Idle]
    /\ inflight' = IF req[c].slot THEN inflight - 1 ELSE inflight
    /\ UNCHANGED <<backlog, limbo, pending, sampler, proc, bucketVars>>

Serve(c) ==
    \/ Arrive(c) \/ RateLimit(c) \/ InFlight(c) \/ CheckOrder(c)
    \/ PlaceOrder(c) \/ Read(c) \/ Cut(c) \/ Invalidate(c) \/ Leave(c)
-----------------------------------------------------------------------------
(* The backlog *)

(* The relay marks a row SENT, or gives it up.                             *)
Deliver ==
    /\ backlog > 0
    /\ backlog' = backlog - 1
    /\ UNCHANGED <<req, inflight, limbo, pending, sampler, proc, bucketVars>>

(* MySQL applies a COMMIT that nobody waits for, or rolls it back.         *)
LimboEnds ==
    /\ limbo > 0
    /\ limbo' = limbo - 1
    /\ backlog' \in {backlog, backlog + 1}
    /\ UNCHANGED <<req, inflight, pending, sampler, proc, bucketVars>>

Sampling == proc.at \notin {"closed", "exited"}

(* The ticker beats and the query of Run is sent.                          *)
SampleStart ==
    /\ Sampling /\ sampler.at = "wait" /\ sampler.beat
    /\ sampler' = [sampler EXCEPT !.at = "query", !.age = 0, !.beat = FALSE]
    /\ UNCHANGED <<req, inflight, backlog, limbo, pending, proc, bucketVars>>

(* MySQL counts; the answer is on its way.                                 *)
SampleCount ==
    /\ Sampling /\ sampler.at = "query"
    /\ sampler' = [sampler EXCEPT !.at = "counted", !.n = Least(backlog, Limit)]
    /\ UNCHANGED <<req, inflight, backlog, limbo, pending, proc, bucketVars>>

SlipSampleStoreKeepsMost ==
    /\ Sampling /\ sampler.at = "counted"
    /\ pending' = Most(pending, sampler.n)
    /\ sampler' = [sampler EXCEPT !.at = "wait", !.age = 0, !.n = 0, !.fails = 0]
    /\ UNCHANGED <<req, inflight, backlog, limbo, proc, bucketVars>>

SampleStore ==
    /\ Sampling /\ sampler.at = "counted"
    /\ pending' = sampler.n
    /\ sampler' = [sampler EXCEPT !.at = "wait", !.age = 0, !.n = 0, !.fails = 0]
    /\ UNCHANGED <<req, inflight, backlog, limbo, proc, bucketVars>>

SlipSampleFailStoresZero ==
    /\ Sampling /\ sampler.at \in {"query", "counted"}
    /\ sampler.fails < MaxFails
    /\ pending' = 0
    /\ sampler' = [sampler EXCEPT !.at = "wait", !.age = 0, !.n = 0, !.fails = @ + 1]
    /\ UNCHANGED <<req, inflight, backlog, limbo, proc, bucketVars>>

(* The query fails or its context ends: the last value is kept.            *)
SampleFail ==
    /\ Sampling /\ sampler.at \in {"query", "counted"}
    /\ sampler.fails < MaxFails
    /\ sampler' = [sampler EXCEPT !.at = "wait", !.age = 0, !.n = 0, !.fails = @ + 1]
    /\ UNCHANGED <<req, inflight, backlog, limbo, pending, proc, bucketVars>>
Samples == SampleStart \/ SampleCount \/ SampleStore \/ SampleFail
-----------------------------------------------------------------------------
(* The process *)

AllIdle == \A c \in Clients : req[c].at = "idle"

(* SIGTERM: Shutdown closes the listener.                                  *)
Terminate ==
    /\ proc.at = "serving"
    /\ proc' = [at |-> "draining", age |-> 0]
    /\ UNCHANGED <<req, inflight, backlog, limbo, pending, sampler, bucketVars>>

SlipStopServingAtOnce ==
    /\ proc.at = "draining"
    /\ proc' = [proc EXCEPT !.at = "closing"]
    /\ UNCHANGED <<req, inflight, backlog, limbo, pending, sampler, bucketVars>>

(* Shutdown returns when no request is left, or when its time is up; then  *)
(* srv.Close cuts what is left (Cut), but waits for no handler.            *)
StopServing ==
    /\ proc.at = "draining"
    /\ AllIdle \/ proc.age = ShutdownTimeout
    /\ proc' = [proc EXCEPT !.at = "closing"]
    /\ UNCHANGED <<req, inflight, backlog, limbo, pending, sampler, bucketVars>>

(* main's deferred calls: the sampler is cancelled, invQueue is closed.    *)
Close ==
    /\ proc.at = "closing"
    /\ proc' = [proc EXCEPT !.at = "closed"]
    /\ sampler' = FreshSampler
    /\ UNCHANGED <<req, inflight, backlog, limbo, pending, bucketVars>>

InOrder == {c \in Clients : req[c].at = "work" /\ req[c].route = "createOrder"}

(* main returns, or the process is killed, with COMMITs under way.         *)
Exit ==
    /\ proc.at # "exited"
    /\ proc' = [at |-> "exited", age |-> 0]
    /\ req' = [c \in Clients |-> Idle]
    /\ inflight' = 0
    /\ limbo' \in limbo .. Least(MaxLimbo, limbo + Cardinality(InOrder))
    /\ sampler' = FreshSampler
    /\ UNCHANGED <<backlog, pending, bucketVars>>

(* Nobody whose time is up is still waiting.                               *)
TimeMayPass ==
    /\ proc.at # "exited"
    /\ \A c \in Clients : req[c].at = "idle" \/ req[c].left > 0
    /\ ~(sampler.at = "wait" /\ sampler.beat /\ Sampling)
    /\ sampler.at = "wait" \/ sampler.age < QueryTime
    /\ proc.at = "draining" => proc.age < ShutdownTimeout

Tick ==
    /\ TimeMayPass
    /\ req' = [c \in Clients |->
                 IF req[c].at = "idle" THEN req[c] ELSE [req[c] EXCEPT !.left = @ - 1]]
    /\ sampler' = IF ~Sampling THEN sampler ELSE
                  [sampler EXCEPT
                     !.age = IF sampler.at = "wait" THEN 0 ELSE @ + 1,
                     !.toBeat = IF @ = 1 THEN Interval ELSE @ - 1,
                     !.beat = @ \/ sampler.toBeat = 1]
    /\ proc' = IF proc.at = "draining" THEN [proc EXCEPT !.age = @ + 1] ELSE proc
    /\ BucketTick
    /\ UNCHANGED <<inflight, backlog, limbo, pending>>

Next ==
    \/ \E c \in Clients : Serve(c)
    \/ Deliver \/ LimboEnds
    \/ Samples
    \/ Terminate \/ StopServing \/ Close \/ Exit
    \/ Tick

Spec == Init /\ [][Next]_vars

(* A handler that waits for nobody runs; a server need never answer, but a *)
(* context that has ended is noticed.  Main and the sampler are scheduled. *)
Runs(c) ==
    \/ RateLimit(c) \/ InFlight(c) \/ CheckOrder(c) \/ Invalidate(c) \/ Leave(c)
    \/ req[c].left = 0 /\ Cut(c)

Fairness ==
    /\ \A c \in Clients : WF_req(Runs(c))
    /\ WF_sampler(Samples)
    /\ WF_proc(StopServing \/ Close)
    /\ WF_vars(Tick)

FairSpec == Spec /\ Fairness
-----------------------------------------------------------------------------
(* Properties *)

TypeOK ==
    /\ BucketTypeOK
    /\ req \in [Clients -> [at : Places, route : Routes,
                            left : 0 .. Most(ReadBudget, WriteBudget),
                            slot : BOOLEAN, made : BOOLEAN, answer : Answers]]
    /\ inflight \in Nat
    /\ backlog \in Nat
    /\ limbo \in 0 .. MaxLimbo
    /\ pending \in 0 .. Limit
    /\ sampler \in [at : {"wait", "query", "counted"}, age : 0 .. QueryTime,
                    n : 0 .. Limit, fails : 0 .. MaxFails,
                    toBeat : 1 .. Interval, beat : BOOLEAN]
    /\ proc \in [at : {"serving", "draining", "closing", "closed", "exited"},
                 age : 0 .. ShutdownTimeout]

(* admission.go:110-112: the requests in work never exceed the budget.     *)
(* Every slot that is taken belongs to a request that still runs, however  *)
(* the others ended, so none is lost.                                      *)
SlotsAreHeld ==
    /\ inflight = Cardinality({c \in Clients : req[c].slot})
    /\ inflight <= MaxInflight

(* backpressure.go:6: the limit is soft and may be overshot a little.  How *)
(* little: by the orders that had passed the rate limit when the rows were *)
(* counted, none longer ago than the budget of writes, and by those that   *)
(* the rate lets through until the next count that succeeds is stored.  A  *)
(* process takes the backlog for empty until its first sample, so as much  *)
(* may come on top of what it found when it started.  And a COMMIT whose   *)
(* request is gone is applied whenever MySQL gets to it: no count and no   *)
(* budget bounds these rows, only the number of connections.               *)
Lag == (MaxFails + 1) * Most(Interval, QueryTime) + QueryTime
Overshoot == Capacity + Rate * (WriteBudget + Lag)
BacklogBounded ==
    Rate > 0 /\ Limit > 0 =>
        Cost * backlog <= Cost * (Most(Limit - 1, MaxStart) + MaxLimbo) + Overshoot

(* handler.go:186-197, main.go:175: who is refused can send the request    *)
(* again: 4xx, 429 and 503 leave no order, 201 always leaves one.          *)
RefusalLeavesNothing ==
    \A c \in Clients :
        /\ req[c].answer \in {200, 409, 429, 503} => ~req[c].made
        /\ req[c].answer = 201 => req[c].made

(* main.go:175: the shutdown waits for the requests in work.  When         *)
(* invQueue is closed no handler is left that could send to it.            *)
DrainedBeforeClose == proc.at = "closed" => AllIdle

(* backpressure.go:40-51: a refusal ends with the backlog.  A process that *)
(* refuses orders and goes on serving accepts them again, unless the       *)
(* backlog is over the limit again.                                        *)
BacklogReleases ==
    pending >= Limit ~> pending < Limit \/ backlog >= Limit \/ proc.at # "serving"
=============================================================================
