---------------------------- MODULE BreakerProofs ----------------------------
(***************************************************************************)
(* What is proved of Breaker for any number of requests, any pool and any  *)
(* threshold: one probe at a time; one request at the most that gets past  *)
(* an opening; and that only a compare-and-swap that comes late can leave  *)
(* the probe count behind.                                                 *)
(***************************************************************************)
EXTENDS Breaker, FiniteSetTheorems, TLAPS

USE CallersAssumption, PoolAssumption, ThresholdAssumption

-----------------------------------------------------------------------------
Places_OK ==
    /\ healthy \in BOOLEAN
    /\ patient \in BOOLEAN
    /\ state \in States
    /\ consecFail \in 0 .. (FailThreshold - 1)
    /\ cooled \in BOOLEAN
    /\ probe \in 0 .. 1
    /\ pc \in [Callers -> Places]
    /\ old \subseteq Callers
    /\ probing \subseteq Callers
    /\ late \in BOOLEAN

InCall == {c \in Callers : pc[c] = "call"}

\* Why there is one probe: whoever is in a call when the breaker is half-open
\* got there through the compare-and-swap, for the calls of the time before it
\* opened have ended.
IInv ==
    /\ Places_OK
    /\ probing \subseteq InCall
    /\ probing # {} => probe = 1
    /\ OneProbe
    /\ state # "closed" => InCall \ old \subseteq probing
    /\ state = "half-open" => old = {}
    /\ state = "open" /\ cooled => old = {}
    /\ late => probe = 1
    /\ probe = 1 /\ ~late => probing # {} /\ state = "half-open"

LEMMA Inductive == IInv /\ [Next]_vars => IInv'
<1> SUFFICES ASSUME IInv, [Next]_vars PROVE IInv'
  OBVIOUS
<1> USE DEF IInv, Places_OK, InCall, OneProbe, States, Places, Goto, breaker, weather
<1>1. ASSUME NEW c \in Callers, Acquire(c) PROVE IInv'
  BY <1>1 DEF Acquire
<1>2. ASSUME NEW c \in Callers, AllowLocked(c) PROVE IInv'
  <2>1. CASE state = "closed"
    BY <1>2, <2>1 DEF AllowLocked
  <2>2. CASE state = "open" /\ ~cooled
    BY <1>2, <2>2 DEF AllowLocked
  <2>3. CASE state = "open" /\ cooled
    BY <1>2, <2>3 DEF AllowLocked
  <2>4. CASE state = "half-open"
    BY <1>2, <2>4 DEF AllowLocked
  <2> QED BY <2>1, <2>2, <2>3, <2>4
<1>3. ASSUME NEW c \in Callers, Swap(c) PROVE IInv'
  <2>1. CASE probe = 0
    <3>1. /\ pc[c] = "swap" /\ pc' = [pc EXCEPT ![c] = "call"]
          /\ probe' = 1 /\ probing' = probing \cup {c}
          /\ late' = (state # "half-open")
          /\ UNCHANGED <<healthy, patient, state, consecFail, cooled, old>>
      BY <1>3, <2>1 DEF Swap
    <3>2. late' \in BOOLEAN
      BY ONLY <3>1
    <3>3. Places_OK'
      BY <3>1, <3>2
    <3>4. probing = {}
      BY <2>1
    <3>5. late' => probe' = 1
      BY <3>1
    <3>6. probe' = 1 /\ ~late' => probing' # {} /\ state' = "half-open"
      BY <3>1
    <3> QED BY <3>1, <3>3, <3>4, <3>5, <3>6
  <2>2. CASE probe # 0
    BY <1>3, <2>2 DEF Swap
  <2> QED BY <2>1, <2>2
<1>4. ASSUME NEW c \in Callers, ReportResult(c) PROVE IInv'
  <2>1. PICK ok \in BOOLEAN :
          ReportClosed(c, ok) \/ ReportHalfOpen(c, ok) \/ ReportOpen(c)
    <3>1. Results \subseteq BOOLEAN
      BY DEF Results
    <3> QED BY <1>4, <3>1 DEF ReportResult
  <2>2. /\ pc[c] = "call"
        /\ pc' = [pc EXCEPT ![c] = "idle"]
        /\ probing' = probing \ {c}
        /\ UNCHANGED <<healthy, patient>>
    BY <1>4 DEF ReportResult
  <2>3. CASE ReportClosed(c, ok)
    <3>1. CASE ~ok /\ consecFail + 1 >= FailThreshold
      <4>1. /\ state = "closed"
            /\ state' = "open" /\ cooled' = FALSE /\ consecFail' = 0
            /\ old' = {d \in Callers \ {c} : pc[d] = "call"}
            /\ UNCHANGED <<probe, late>>
        BY <2>3, <3>1 DEF ReportClosed, Opens
      <4>2. InCall' \subseteq old'
        BY <2>2, <4>1
      <4>3. cooled' \in BOOLEAN
        BY ONLY <4>1
      <4>4. Places_OK'
        BY <2>2, <4>1, <4>3
      <4> QED BY <2>2, <4>1, <4>2, <4>4
    <3>2. CASE ~(~ok /\ consecFail + 1 >= FailThreshold)
      BY <2>2, <2>3, <3>2 DEF ReportClosed
    <3> QED BY <3>1, <3>2
  <2>4. CASE ReportHalfOpen(c, ok)
    <3>1. probing \subseteq {c}
      BY <2>2, <2>4 DEF ReportHalfOpen
    <3>2. late' = FALSE /\ probe' = 0 /\ late' \in BOOLEAN
      <4>1. late' = FALSE /\ probe' = 0
        BY <2>4 DEF ReportHalfOpen
      <4>2. late' \in BOOLEAN
        BY ONLY <4>1
      <4> QED BY <4>1, <4>2
    <3>3. CASE ok
      BY <2>2, <2>4, <3>1, <3>2, <3>3 DEF ReportHalfOpen
    <3>4. CASE ~ok
      <4>1. /\ state' = "open" /\ cooled' = FALSE /\ probing' = {}
            /\ old' = {d \in Callers \ {c} : pc[d] = "call"}
            /\ UNCHANGED consecFail
        BY <2>2, <2>4, <3>1, <3>4 DEF ReportHalfOpen, Opens
      <4>2. InCall' \subseteq old'
        BY <2>2, <4>1
      <4>3. cooled' \in BOOLEAN
        BY ONLY <4>1
      <4>4. Places_OK'
        BY <2>2, <3>2, <4>1, <4>3
      <4> QED BY <2>2, <3>2, <4>1, <4>2, <4>4
    <3> QED BY <3>3, <3>4
  <2>5. CASE ReportOpen(c)
    BY <2>2, <2>5 DEF ReportOpen
  <2> QED BY <2>1, <2>3, <2>4, <2>5
<1>5. CASE Cool
  BY <1>5 DEF Cool
<1>6. CASE Weather
  BY <1>6 DEF Weather
<1>7. CASE UNCHANGED vars
  BY <1>7 DEF vars
<1> QED
  BY <1>1, <1>2, <1>3, <1>4, <1>5, <1>6, <1>7 DEF Next, Request

LEMMA InductiveInvariant == Spec => []IInv
<1>1. Init => IInv
  <2>1. Init => Places_OK
    <3> SUFFICES ASSUME Init PROVE Places_OK
      OBVIOUS
    <3>1. cooled \in BOOLEAN /\ late \in BOOLEAN
      BY ONLY Init DEF Init
    <3> QED BY <3>1 DEF Init, Places_OK, States, Places
  <2>2. Init => probing = {} /\ state = "closed" /\ probe = 0 /\ ~late
    BY DEF Init
  <2> QED BY <2>1, <2>2 DEF IInv, OneProbe
<1> QED BY <1>1, Inductive, PTL DEF Spec

\* Whatever is reported late, and however Allow is interleaved with it, at most
\* one call that the compare-and-swap of Allow let through is in flight.
THEOREM ProbeSafe == Spec => []OneProbe
<1>1. IInv => OneProbe
  BY DEF IInv
<1> QED BY <1>1, InductiveInvariant, PTL

-----------------------------------------------------------------------------
\* The slots taken are as many as the semaphore has.
SlotsBounded == Cardinality(Slots) <= PoolSize

LEMMA SlotsFinite == IsFiniteSet(Slots)
BY FS_Subset DEF Slots

\* A step that takes no slot leaves the bound alone.
LEMMA SlotsShrink ==
    ASSUME Slots' \subseteq Slots, SlotsBounded PROVE SlotsBounded'
<1>1. IsFiniteSet(Slots)
  BY SlotsFinite
<1>2. IsFiniteSet(Slots') /\ Cardinality(Slots') <= Cardinality(Slots)
  BY <1>1, FS_Subset
<1>3. Cardinality(Slots) \in Nat /\ Cardinality(Slots') \in Nat
  BY <1>1, <1>2, FS_CardinalityType
<1> QED BY <1>2, <1>3 DEF SlotsBounded

LEMMA SlotsStep == IInv /\ SlotsBounded /\ [Next]_vars => SlotsBounded'
<1> SUFFICES ASSUME IInv, SlotsBounded, [Next]_vars PROVE SlotsBounded'
  OBVIOUS
<1>t. pc \in [Callers -> Places]
  BY DEF IInv, Places_OK
<1>1. ASSUME NEW c \in Callers, Acquire(c) PROVE SlotsBounded'
  <2>1. Slots' = Slots \cup {c} /\ c \notin Slots
    BY <1>1, <1>t DEF Acquire, Goto, Slots
  <2>2. IsFiniteSet(Slots) /\ Cardinality(Slots) \in Nat
    BY SlotsFinite, FS_CardinalityType
  <2>3. Cardinality(Slots') = Cardinality(Slots) + 1
    BY <2>1, <2>2, FS_AddElement
  <2> QED BY <1>1, <2>2, <2>3 DEF Acquire, SlotsBounded
<1>2. ASSUME NEW c \in Callers, AllowLocked(c) \/ Swap(c) \/ ReportResult(c)
      PROVE SlotsBounded'
  <2>1. Slots' \subseteq Slots
    BY <1>2, <1>t DEF AllowLocked, Swap, ReportResult, Goto, Slots
  <2> QED BY <2>1, SlotsShrink
<1>3. CASE Cool \/ Weather \/ UNCHANGED vars
  <2>1. Slots' \subseteq Slots
    BY <1>3 DEF Cool, Weather, vars, Slots
  <2> QED BY <2>1, SlotsShrink
<1> QED BY <1>1, <1>2, <1>3 DEF Next, Request

\* The variables keep their types, and the pool is never exceeded.
THEOREM TypeCorrect == Spec => []TypeOK
<1>1. Init => SlotsBounded
  <2>1. Init => Slots = {}
    BY DEF Init, Slots
  <2> QED BY <2>1, FS_EmptySet DEF SlotsBounded
<1>2. IInv /\ SlotsBounded => TypeOK
  BY DEF IInv, Places_OK, SlotsBounded, TypeOK
<1> QED BY <1>1, <1>2, SlotsStep, InductiveInvariant, PTL DEF Spec

-----------------------------------------------------------------------------
\* An open breaker lets at most one request through, and so does a half-open one:
\* a second call that was not in flight when the breaker opened has to wait until it
\* has closed.
THEOREM PastOpening == Spec => []OneCallPastOpening
<1>1. IInv => OneCallPastOpening
  BY DEF IInv, OneProbe, InCall, OneCallPastOpening
<1> QED BY <1>1, InductiveInvariant, PTL

\* A late compare-and-swap is the only thing that can leave the probe count behind:
\* as long as it was taken in time, a call is in flight that will report, the
\* breaker waits half-open for that report, and the report gives the count back.
THEOREM ProbeIsGivenBack ==
    Spec => [](probe = 1 /\ ~late => probing # {} /\ state = "half-open")
<1>1. IInv => (probe = 1 /\ ~late => probing # {} /\ state = "half-open")
  BY DEF IInv
<1> QED BY <1>1, InductiveInvariant, PTL
=============================================================================
