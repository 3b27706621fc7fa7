------------------------------ MODULE Breaker -------------------------------
(***************************************************************************)
(* The client of the non-critical dependency (internal/resilience): a      *)
(* bounded wait for one of PoolSize slots (dependency.go), then the three- *)
(* state circuit breaker (circuitbreaker.go), then the call.               *)
(*                                                                         *)
(* CircuitBreaker.Allow is two steps: the switch under the mutex and,      *)
(* after the unlock, the compare-and-swap of probeInFlight.  What happens  *)
(* between the two is the point of this module.  Time is abstract: Cool    *)
(* says that openDuration is over.  A call takes at most DEP_TIMEOUT       *)
(* (200 ms), the cooldown is DEP_CB_OPEN_DURATION (10 s), so a call that   *)
(* was in flight when the breaker opened has ended when it cools.          *)
(***************************************************************************)
EXTENDS Integers, FiniteSets

CONSTANTS
    Callers,         \* requests of /products/:sku/extra
    PoolSize,        \* capacity of Client.sem
    FailThreshold    \* consecutive failures that open the breaker

ASSUME CallersAssumption == IsFiniteSet(Callers)
ASSUME PoolAssumption == PoolSize \in Nat \ {0}
ASSUME ThresholdAssumption == FailThreshold \in Nat \ {0}

VARIABLES
    healthy,      \* the dependency answers, and in time
    patient,      \* no client hangs up and no request runs out of time
    state,        \* CircuitBreaker.state
    consecFail,   \* CircuitBreaker.consecFail
    cooled,       \* openDuration has passed since openedAt
    probe,        \* CircuitBreaker.probeInFlight
    pc,           \* where each request is in GetExtra
    old,          \* bookkeeping: calls that were in flight when it last opened
    probing,      \* bookkeeping: calls that the compare-and-swap let through
    late          \* bookkeeping: the probe count was taken by a compare-and-swap
                  \* that came after the breaker had left half-open

weather == <<healthy, patient>>
breaker == <<state, consecFail, cooled, probe>>
vars == <<weather, breaker, pc, old, probing, late>>

States == {"closed", "open", "half-open"}

\* "idle": no request; "allow": holds a slot; "swap": between Allow's unlock and
\* its compare-and-swap; "call": let through.
Places == {"idle", "allow", "swap", "call"}

Slots == {c \in Callers : pc[c] # "idle"}
Goto(c, p) == pc' = [pc EXCEPT ![c] = p]

Init ==
    /\ healthy \in BOOLEAN
    /\ patient \in BOOLEAN
    /\ state = "closed"
    /\ consecFail = 0
    /\ cooled = FALSE
    /\ probe = 0
    /\ pc = [c \in Callers |-> "idle"]
    /\ old = {}
    /\ probing = {}
    /\ late = FALSE

-----------------------------------------------------------------------------
\* A slot is free.  A request that finds none within AcquireTO is degraded and
\* leaves no trace.
Acquire(c) ==
    /\ pc[c] = "idle"
    /\ Cardinality(Slots) < PoolSize
    /\ Goto(c, "allow")
    /\ UNCHANGED <<weather, breaker, old, probing, late>>

\* Slip: a request that finds the breaker open goes through.
SlipAllowOpen(c) ==
    /\ pc[c] = "allow"
    /\ IF state # "half-open"
       THEN Goto(c, "call") /\ UNCHANGED state
       ELSE Goto(c, "swap") /\ state' = "half-open"
    /\ UNCHANGED <<weather, consecFail, cooled, probe, old, probing, late>>

\* The part of Allow under the mutex.
AllowLocked(c) ==
    /\ pc[c] = "allow"
    /\ \/ /\ state = "closed"
          /\ Goto(c, "call")
          /\ UNCHANGED state
       \/ /\ state = "open" /\ ~cooled
          /\ Goto(c, "idle")
          /\ UNCHANGED state
       \/ /\ state = "half-open" \/ (state = "open" /\ cooled)
          /\ Goto(c, "swap")
          /\ state' = "half-open"
    /\ UNCHANGED <<weather, consecFail, cooled, probe, old, probing, late>>

\* Slip: the probe count is set whatever it was.
SlipSwap(c) ==
    /\ pc[c] = "swap"
    /\ Goto(c, "call")
    /\ probe' = 1
    /\ probing' = probing \cup {c}
    /\ late' = (state # "half-open")
    /\ UNCHANGED <<weather, state, consecFail, cooled, old>>

\* probeInFlight.CompareAndSwap(0, 1), after the unlock.
Swap(c) ==
    /\ pc[c] = "swap"
    /\ IF probe = 0
       THEN /\ Goto(c, "call")
            /\ probe' = 1
            /\ probing' = probing \cup {c}
            /\ late' = (state # "half-open")
       ELSE /\ Goto(c, "idle")
            /\ UNCHANGED <<probe, probing, late>>
    /\ UNCHANGED <<weather, state, consecFail, cooled, old>>

-----------------------------------------------------------------------------
\* The breaker opens while c reports; the other calls are in flight.
Opens(c) ==
    /\ state' = "open"
    /\ cooled' = FALSE
    /\ old' = {d \in Callers \ {c} : pc[d] = "call"}

\* Slip: failures are not counted.
SlipNeverOpens(c, ok) ==
    /\ state = "closed"
    /\ old' = old \ {c}
    /\ UNCHANGED <<breaker, late>>

\* ReportResult in state closed counts consecutive failures.
ReportClosed(c, ok) ==
    /\ state = "closed"
    /\ UNCHANGED <<probe, late>>
    /\ IF ~ok /\ consecFail + 1 >= FailThreshold
       THEN Opens(c) /\ consecFail' = 0
       ELSE /\ consecFail' = IF ok THEN 0 ELSE consecFail + 1
            /\ old' = old \ {c}
            /\ UNCHANGED <<state, cooled>>

\* Slip: a probe that fails does not give the probe count back.
SlipHalfOpen(c, ok) ==
    /\ state = "half-open"
    /\ IF ok
       THEN /\ state' = "closed"
            /\ consecFail' = 0
            /\ probe' = 0
            /\ late' = FALSE
            /\ old' = old \ {c}
            /\ UNCHANGED cooled
       ELSE /\ Opens(c)
            /\ UNCHANGED <<consecFail, probe, late>>

\* In state half-open whoever reports ends the probe.
ReportHalfOpen(c, ok) ==
    /\ state = "half-open"
    /\ probe' = 0
    /\ late' = FALSE
    /\ IF ok
       THEN /\ state' = "closed"
            /\ consecFail' = 0
            /\ old' = old \ {c}
            /\ UNCHANGED cooled
       ELSE /\ Opens(c)
            /\ UNCHANGED consecFail

\* In state open nothing is recorded, and the probe count stays as it is.
ReportOpen(c) ==
    /\ state = "open"
    /\ old' = old \ {c}
    /\ UNCHANGED <<breaker, late>>

\* What a call may report: it inherits the request's context, so a client that
\* hangs up or a budget that is spent fails it like the dependency does.
Results ==
    (IF healthy THEN {TRUE} ELSE {}) \cup (IF healthy /\ patient THEN {} ELSE {FALSE})

\* The call ends, its result is reported, the slot is free again.
ReportResult(c) ==
    /\ pc[c] = "call"
    /\ \E ok \in Results : ReportClosed(c, ok) \/ ReportHalfOpen(c, ok) \/ ReportOpen(c)
    /\ Goto(c, "idle")
    /\ probing' = probing \ {c}
    /\ UNCHANGED weather

-----------------------------------------------------------------------------
Cool ==
    /\ state = "open"
    /\ ~cooled
    /\ old = {}
    /\ cooled' = TRUE
    /\ UNCHANGED <<weather, state, consecFail, probe, pc, old, probing, late>>

\* The dependency fails and recovers, and clients are patient or not, as they like.
Weather ==
    /\ healthy' \in BOOLEAN
    /\ patient' \in BOOLEAN
    /\ UNCHANGED <<breaker, pc, old, probing, late>>

Request(c) == Acquire(c) \/ AllowLocked(c) \/ Swap(c) \/ ReportResult(c)

Next == (\E c \in Callers : Request(c)) \/ Cool \/ Weather

Spec == Init /\ [][Next]_vars

\* Requests keep coming, goroutines are scheduled, every call has its timeout,
\* and time passes.  Nothing is assumed of the weather.
FairSpec ==
    /\ Spec
    /\ \A c \in Callers : WF_vars(AllowLocked(c) \/ Swap(c) \/ ReportResult(c))
    /\ WF_vars(\E c \in Callers : Acquire(c))
    /\ WF_vars(Cool)

-----------------------------------------------------------------------------
TypeOK ==
    /\ healthy \in BOOLEAN
    /\ patient \in BOOLEAN
    /\ state \in States
    /\ consecFail \in 0 .. (FailThreshold - 1)
    /\ cooled \in BOOLEAN
    /\ probe \in 0 .. 1
    /\ pc \in [Callers -> Places]
    /\ old \subseteq Callers
    /\ probing \subseteq Callers
    /\ late \in BOOLEAN
    /\ Cardinality(Slots) <= PoolSize

\* "half-open: at most one probe in flight": of the calls let through by the
\* compare-and-swap there is never more than one, whatever has been reported
\* meanwhile.
OneProbe == \A c, d \in probing : c = d

\* An open breaker does let a request through, one that was overtaken between
\* Allow's unlock and its compare-and-swap.  It is the only one: of the calls that
\* were not in flight when the breaker opened there is never a second before it
\* has closed again.
OneCallPastOpening ==
    state # "closed" => \A c, d \in {e \in Callers : pc[e] = "call"} \ old : c = d

Settled == healthy /\ patient

\* When the dependency is well and the clients wait, from some time on, the breaker
\* closes and stays closed, unless the probe count is in the hands of a
\* compare-and-swap that came late.
Recovers == <>[]Settled => <>[](state = "closed" \/ late)

\* "After the dependency has recovered: the probe succeeds, closes automatically."
AlwaysRecovers == <>[]Settled => <>[](state = "closed")

\* A dependency that has failed for good is cut off: the breaker opens and does
\* not close again.
CutsOff == <>[]~healthy => <>[](state # "closed")
=============================================================================
