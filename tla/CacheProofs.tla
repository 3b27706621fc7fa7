---------------------------- MODULE CacheProofs -----------------------------
(***************************************************************************)
(* What is proved of Cache for any numbers of requests, calls, slots and   *)
(* changes of the row, and any times: bounded staleness in Redis, one load *)
(* at a time, no slot lost, nobody left waiting.                           *)
(***************************************************************************)
EXTENDS Cache, FiniteSetTheorems, TLAPS

USE CallsAssumption, TimesAssumption, LimitsAssumption

\* Only the current version is not out of date.
AgesFit == \A v \in Versions : v >= db => age[v] = 0

\* singleflight's map names the call that runs, and no other runs.
MapFits ==
    /\ \A c \in Running : current = c
    /\ current # NoCall => current \in Running

\* What a load has read went out of date after it began.
LoadsFit ==
    \A c \in Calls : cpc[c] = "fill" =>
        /\ cval[c] <= db
        /\ age[cval[c]] <= cage[c]

\* What is out of date in Redis has the less time left the longer it is, or what is
\* left is of the second that an invalidation gave it.
RedisFits ==
    /\ pos.val <= db
    /\ pos # Nothing => /\ pos.left >= 1
                        /\ \/ age[pos.val] + pos.left <= TTL + FillTime
                           \/ cut + pos.left <= Second
    /\ neg > 0 => \/ age[0] + neg <= NegTTL + FillTime
                  \/ cut + neg <= Second

RedisTyped ==
    /\ pos \in [val : Versions, left : 0 .. Life(TTL)]
    /\ neg \in 0 .. Life(NegTTL)
    /\ cut \in 0 .. Second

\* There are no more invalidations to come than there were orders.
OwedFits == owed <= db /\ others <= db

\* The semaphore holds one slot for a load of this key.
SlotsFit == sem = busy + (IF Loading = {} THEN 0 ELSE 1)

IInv ==
    /\ TypeOK
    /\ OwedFits
    /\ AgesFit
    /\ MapFits
    /\ LoadsFit
    /\ RedisFits
    /\ SlotsFit

-----------------------------------------------------------------------------
LEMMA LivesFit ==
    /\ Life(TTL) \in Nat /\ TTL <= Life(TTL) /\ Second <= Life(TTL)
    /\ Life(NegTTL) \in Nat /\ NegTTL <= Life(NegTTL) /\ Second <= Life(NegTTL)
BY DEF Life

\* What Redis and the row are in a state that fits.
LEMMA RedisAndRow ==
    ASSUME IInv
    PROVE  /\ RedisTyped /\ RedisFits /\ db \in Nat /\ 0 \in Versions
           /\ \A v \in Versions : age[v] \in Nat
<1>1. TypeOK /\ RedisFits
  BY DEF IInv
<1>2. RedisTyped /\ db \in Versions /\ age \in [Versions -> 0 .. MaxAge]
  BY <1>1 DEF TypeOK, RedisTyped
<1>3. \A v \in Versions : age[v] \in 0 .. MaxAge
  BY ONLY <1>2
<1>4. \A v \in Versions : age[v] \in Nat
  BY <1>3
<1>5. db \in Nat /\ 0 \in Versions
  BY <1>2 DEF Versions
<1> QED BY <1>1, <1>2, <1>4, <1>5

LEMMA Initially == Init => IInv
<1> SUFFICES ASSUME Init PROVE IInv
  OBVIOUS
<1>1. TypeOK
  BY LivesFit DEF Init, TypeOK, Versions, Nothing
<1>2. OwedFits /\ AgesFit /\ MapFits /\ LoadsFit /\ SlotsFit
  BY DEF Init, OwedFits, AgesFit, MapFits, LoadsFit, SlotsFit, Running, Loading, Versions
<1>3. RedisFits
  BY DEF Init, RedisFits, Nothing
<1> QED BY <1>1, <1>2, <1>3 DEF IInv

\* The store of old values keeps its type.
LEMMA LocalKept ==
    ASSUME TypeOK, NEW v \in Versions, Put(v) \/ Get
    PROVE  local' \in [val : Versions, left : 0 .. StaleTTL]
BY DEF TypeOK, Put, Get, Entry, Nothing

\* A call of which Return(c) is the end leaves none running.
LEMMA ReturnFits ==
    ASSUME IInv, NEW c \in Running, Return(c)
    PROVE  /\ cpc' \in [Calls -> {"free", "slot", "load", "fill", "ready"}]
           /\ cval' \in [Calls -> Versions]
           /\ cage' \in [Calls -> 0 .. FillTime]
           /\ current' = NoCall
           /\ Running' = {}
           /\ Loading' = {}
           /\ \A d \in Calls : cpc'[d] # "fill"
<1>1. \A d \in Calls : d # c => cpc[d] \notin {"slot", "load", "fill"}
  BY DEF IInv, MapFits, Running
<1>2. /\ cpc \in [Calls -> {"free", "slot", "load", "fill", "ready"}]
      /\ cval \in [Calls -> Versions]
      /\ cage \in [Calls -> 0 .. FillTime]
      /\ c \in Calls
  BY DEF IInv, TypeOK, Running
<1>3. 0 \in Versions /\ 0 \in 0 .. FillTime
  BY DEF Versions
<1>4. cpc' \in [Calls -> {"free", "slot", "load", "fill", "ready"}] /\ current' = NoCall
  BY <1>2 DEF Return
<1>5. cval' \in [Calls -> Versions] /\ cage' \in [Calls -> 0 .. FillTime]
  BY <1>2, <1>3 DEF Return
<1>6. \A d \in Calls : cpc'[d] \notin {"slot", "load", "fill"}
  BY <1>1, <1>2 DEF Return
<1> QED BY <1>4, <1>5, <1>6 DEF Running, Loading

\* A step that leaves row, Redis, calls and slots alone keeps what is said of them.
LEMMA OthersKept ==
    ASSUME IInv, UNCHANGED <<row, redis, calls, slots, invalidation>>
    PROVE  OwedFits' /\ AgesFit' /\ MapFits' /\ LoadsFit' /\ RedisFits' /\ SlotsFit'
BY DEF IInv, OwedFits, AgesFit, MapFits, LoadsFit, RedisFits, SlotsFit, Running, Loading,
       row, redis, calls, slots, invalidation

LEMMA ReadStep ==
    ASSUME IInv, NEW r \in Readers, Read(r) PROVE IInv'
<1> USE DEF IInv
<1>1. CASE Hit(r)
  <2>1. local' \in [val : Versions, left : 0 .. StaleTTL]
    BY <1>1, LocalKept, pos.val \in Versions DEF Hit, TypeOK
  <2>2. TypeOK'
    BY <1>1, <2>1 DEF Hit, TypeOK, row, redis, calls, slots, invalidation, Versions
  <2> QED BY <1>1, <2>2, OthersKept DEF Hit, row, invalidation
<1>2. CASE ServeStale(r)
  <2>1. local' \in [val : Versions, left : 0 .. StaleTTL]
    BY <1>2, LocalKept, 0 \in Versions DEF ServeStale, Versions
  <2>2. TypeOK'
    BY <1>2, <2>1 DEF ServeStale, TypeOK, row, redis, calls, slots, invalidation, Versions
  <2> QED BY <1>2, <2>2, OthersKept DEF ServeStale, row, invalidation
<1>3. CASE Miss(r) \/ NegHit(r)
  <2>1. TypeOK'
    BY <1>3 DEF Miss, NegHit, TypeOK, row, redis, calls, slots, invalidation, Versions
  <2> QED BY <1>3, <2>1, OthersKept DEF Miss, NegHit, row, invalidation
<1>4. CASE BackFill(r)
  <2>1. CASE current # NoCall
    <3>1. TypeOK'
      BY <1>4, <2>1 DEF BackFill, DoChan, TypeOK, row, redis, slots, invalidation, Versions
    <3>2. UNCHANGED <<row, redis, calls, slots, invalidation>>
      BY <1>4, <2>1 DEF BackFill, DoChan, calls
    <3> QED BY <3>1, <3>2, OthersKept DEF row, invalidation
  <2>2. CASE current = NoCall
    <3>1. PICK c \in FreeCalls : /\ current' = c
                                 /\ cpc' = [cpc EXCEPT ![c] = "slot"]
                                 /\ at' = [at EXCEPT ![r] = c]
      BY <1>4, <2>2 DEF BackFill, DoChan
    <3>2. TypeOK'
      BY <1>4, <3>1 DEF BackFill, FreeCalls, TypeOK, row, redis, slots, invalidation, Versions
    <3>3. Running' = {c} /\ Loading' = {} /\ Loading = {}
      BY <2>2, <3>1 DEF FreeCalls, MapFits, Running, Loading, TypeOK
    <3>4. MapFits' /\ SlotsFit'
      BY <1>4, <3>1, <3>3 DEF BackFill, MapFits, SlotsFit, slots, FreeCalls
    <3>5. AgesFit' /\ LoadsFit' /\ RedisFits' /\ OwedFits'
      BY <1>4, <3>1 DEF BackFill, OwedFits, AgesFit, LoadsFit, RedisFits, row, redis, slots,
                        invalidation, TypeOK
    <3> QED BY <3>2, <3>4, <3>5
  <2> QED BY <2>1, <2>2
<1>5. CASE GiveUp(r)
  <2>1. local' \in [val : Versions, left : 0 .. StaleTTL]
    BY <1>5, LocalKept, 0 \in Versions DEF GiveUp, Versions
  <2>2. TypeOK'
    BY <1>5, <2>1 DEF GiveUp, TypeOK, row, redis, calls, slots, invalidation, Versions
  <2> QED BY <1>5, <2>2, OthersKept DEF GiveUp, row, invalidation
<1> QED BY <1>1, <1>2, <1>3, <1>4, <1>5 DEF Read

\* What is left to show of a step that ends a call.
LEMMA ReturnKeeps ==
    ASSUME IInv, NEW c \in Running, Return(c),
           UNCHANGED <<row, busy, at, invalidation>>,
           sem' = sem - (IF c \in Loading THEN 1 ELSE 0),
           local' \in [val : Versions, left : 0 .. StaleTTL],
           RedisTyped',
           RedisFits'
    PROVE  IInv'
<1> USE DEF IInv
<1>1. Loading = {} \/ Loading = {c}
  BY DEF MapFits, Running, Loading
<1>2. SlotsFit' /\ sem' \in 0 .. Slots
  BY <1>1, ReturnFits DEF SlotsFit, TypeOK, Loading
<1>3. TypeOK'
  BY <1>2, ReturnFits DEF TypeOK, RedisTyped, row, invalidation, Versions
<1>4. AgesFit' /\ MapFits' /\ LoadsFit' /\ OwedFits'
  BY ReturnFits DEF AgesFit, MapFits, LoadsFit, OwedFits, row, invalidation, TypeOK, Versions
<1> QED BY <1>2, <1>3, <1>4

LEMMA RunStep ==
    ASSUME IInv, NEW c \in Calls, Run(c) PROVE IInv'
<1> USE DEF IInv
<1>0. ASSUME NEW v \in Versions, Put(v) \/ Get
      PROVE  local' \in [val : Versions, left : 0 .. StaleTTL]
  BY <1>0, LocalKept
<1>1. CASE TakeSlot(c)
  <2>1. c \in Running /\ Loading = {} /\ Loading' = {c} /\ Running' = Running
    BY <1>1 DEF TakeSlot, MapFits, Running, Loading, TypeOK
  <2>2. TypeOK'
    <3>1. cpc' \in [Calls -> {"free", "slot", "load", "fill", "ready"}]
      BY <1>1 DEF TakeSlot, TypeOK
    <3>2. sem' \in 0 .. Slots
      BY <1>1 DEF TakeSlot, TypeOK
    <3> QED BY <1>1, <3>1, <3>2 DEF TakeSlot, TypeOK, row, redis, invalidation, Versions
  <2>3. SlotsFit' /\ MapFits'
    BY <1>1, <2>1 DEF TakeSlot, SlotsFit, MapFits, TypeOK
  <2>4. AgesFit' /\ LoadsFit' /\ RedisFits' /\ OwedFits'
    BY <1>1 DEF TakeSlot, OwedFits, AgesFit, LoadsFit, RedisFits, row, redis, invalidation, TypeOK
  <2> QED BY <2>2, <2>3, <2>4
<1>2. CASE SlotTimeout(c)
  <2>1. c \in Running \ Loading
    BY <1>2 DEF SlotTimeout, Running, Loading
  <2>2. local' \in [val : Versions, left : 0 .. StaleTTL]
    BY <1>0, <1>2, 0 \in Versions DEF SlotTimeout, Versions
  <2>3. RedisFits'
    BY <1>2 DEF SlotTimeout, RedisFits, row, redis
  <2> QED BY <1>2, <2>1, <2>2, <2>3, ReturnKeeps DEF SlotTimeout, slots, redis, TypeOK, RedisTyped
<1>3. CASE Load(c)
  <2>1. Loading' = Loading /\ Running' = Running
    BY <1>3 DEF Load, Running, Loading, TypeOK
  <2>2. TypeOK'
    BY <1>3 DEF Load, TypeOK, row, redis, slots, invalidation, Versions
  <2>3. LoadsFit'
    <3>1. /\ cpc \in [Calls -> {"free", "slot", "load", "fill", "ready"}]
          /\ cval \in [Calls -> Versions]
          /\ cage \in [Calls -> 0 .. FillTime]
          /\ db \in Versions
      BY DEF TypeOK
    <3>2. db \in Nat /\ age[db] = 0
      BY <3>1 DEF AgesFit, Versions
    <3>3. \A d \in Calls : cval'[d] = IF d = c THEN db ELSE cval[d]
      BY <1>3, <3>1 DEF Load
    <3>4. \A d \in Calls \ {c} : cpc'[d] = cpc[d]
      BY <1>3, <3>1 DEF Load
    <3> QED BY <1>3, <3>1, <3>2, <3>3, <3>4 DEF Load, LoadsFit, row
  <2>4. AgesFit' /\ MapFits' /\ RedisFits' /\ SlotsFit' /\ OwedFits'
    BY <1>3, <2>1 DEF Load, OwedFits, AgesFit, MapFits, RedisFits, SlotsFit, row, redis, slots,
                      invalidation
  <2> QED BY <2>2, <2>3, <2>4
<1>4. CASE LoadFails(c)
  <2>1. c \in Running \cap Loading
    BY <1>4 DEF LoadFails, Running, Loading
  <2>2. local' \in [val : Versions, left : 0 .. StaleTTL]
    BY <1>0, <1>4, 0 \in Versions DEF LoadFails, Versions
  <2>3. RedisFits'
    BY <1>4 DEF LoadFails, RedisFits, row, redis
  <2> QED BY <1>4, <2>1, <2>2, <2>3, ReturnKeeps DEF LoadFails, redis, TypeOK, RedisTyped
<1>5. CASE FillNegative(c)
  <2>1. c \in Running \cap Loading
    BY <1>5 DEF FillNegative, Running, Loading
  <2>2. RedisTyped'
    BY <1>5, LivesFit DEF FillNegative, TypeOK, RedisTyped
  <2>3. age[0] \in 0 .. FillTime
    BY <1>5 DEF FillNegative, LoadsFit, TypeOK, Versions
  <2>4. RedisFits'
    BY <1>5, <2>3 DEF FillNegative, RedisFits, row
  <2>5. local' \in [val : Versions, left : 0 .. StaleTTL]
    BY <1>5 DEF FillNegative, TypeOK
  <2> QED BY <1>5, <2>1, <2>2, <2>4, <2>5, ReturnKeeps DEF FillNegative
<1>6. CASE FillBack(c)
  <2>1. c \in Running \cap Loading
    BY <1>6 DEF FillBack, Running, Loading
  <2>2. local' \in [val : Versions, left : 0 .. StaleTTL]
    BY <1>0, <1>6, cval[c] \in Versions DEF FillBack, TypeOK
  <2>3. /\ cval[c] \in Versions /\ cval[c] <= db
        /\ age[cval[c]] \in 0 .. FillTime
    BY <1>6 DEF FillBack, LoadsFit, TypeOK
  <2>4. RedisTyped'
    BY <1>6, <2>3, LivesFit DEF FillBack, Entry, TypeOK, RedisTyped
  <2>5. RedisFits'
    <3>1. CASE pos' = pos
      BY <1>6, <3>1 DEF FillBack, RedisFits, row
    <3>2. CASE pos' = Entry(cval[c], TTL)
      BY <1>6, <2>3, <3>2 DEF FillBack, RedisFits, row, Entry
    <3> QED BY <1>6, <3>1, <3>2 DEF FillBack
  <2> QED BY <1>6, <2>1, <2>2, <2>4, <2>5, ReturnKeeps DEF FillBack
<1>7. CASE Deliver(c)
  <2>1. Loading' = Loading /\ Running' = Running
    BY <1>7 DEF Deliver, Running, Loading, TypeOK
  <2>2. TypeOK'
    BY <1>7 DEF Deliver, TypeOK, row, redis, slots, invalidation, Versions
  <2>3. LoadsFit'
    BY <1>7 DEF Deliver, LoadsFit, row, TypeOK
  <2>4. AgesFit' /\ MapFits' /\ RedisFits' /\ SlotsFit' /\ OwedFits'
    BY <1>7, <2>1 DEF Deliver, OwedFits, AgesFit, MapFits, RedisFits, SlotsFit, row, redis, slots,
                      invalidation
  <2> QED BY <2>2, <2>3, <2>4
<1> QED BY <1>1, <1>2, <1>3, <1>4, <1>5, <1>6, <1>7 DEF Run

\* Changes of the row: what was current has been out of date for no time at all.
LEMMA RowStep ==
    ASSUME IInv, Create \/ Order PROVE IInv'
<1> USE DEF IInv
<1>a. db \in Nat /\ MaxVersion \in Nat
  BY DEF TypeOK, Versions
<1>b. db' = db + 1 /\ db' <= MaxVersion
  BY <1>a DEF Create, Order
<1>1. db' = db + 1 /\ db' \in Versions /\ UNCHANGED <<age, redis, local, calls, slots, at>>
  BY <1>a, <1>b DEF Create, Order, Versions
<1>c. owed \in Nat /\ others \in Nat
  BY DEF TypeOK
<1>2. /\ owed' \in Nat /\ owed' <= db' /\ others' \in Nat /\ others' <= db'
      /\ queue' = queue /\ worker' = worker
  <2>1. /\ owed' \in {owed, owed + 1} /\ others' \in {others, others + 1}
        /\ queue' = queue /\ worker' = worker
    BY DEF Create, Order, invalidation
  <2> QED BY <1>a, <1>b, <1>c, <2>1 DEF OwedFits
<1>3. TypeOK'
  <2>1. Versions' = Versions
    BY DEF Versions
  <2>2. owed' \in 0 .. MaxVersion /\ others' \in 0 .. MaxVersion
    BY <1>a, <1>1, <1>2 DEF Versions
  <2> QED BY <1>1, <1>2, <2>1, <2>2 DEF TypeOK, redis, calls, slots
<1>4. Running' = Running /\ Loading' = Loading
  BY <1>1 DEF Running, Loading, calls
<1>5. AgesFit' /\ MapFits' /\ SlotsFit'
  BY <1>1, <1>4 DEF AgesFit, MapFits, SlotsFit, calls, slots, TypeOK, Versions
<1>6. LoadsFit' /\ RedisFits'
  <2>1. \A v \in Versions : age'[v] = age[v] /\ age[v] \in Nat
    BY <1>1 DEF TypeOK
  <2>2. /\ pos.val \in Versions /\ pos.left \in 0 .. Life(TTL)
        /\ \A c \in Calls : cval[c] \in Versions
    BY DEF TypeOK
  <2> QED BY <1>1, <1>a, <2>1, <2>2 DEF LoadsFit, RedisFits, calls, redis, Versions
<1>7. OwedFits'
  BY <1>2 DEF OwedFits
<1> QED BY <1>3, <1>5, <1>6, <1>7

\* The steps that only take from Redis.
Shrunk ==
    /\ pos' \in {pos, Nothing}
    /\ neg' \in {neg, 0}
    /\ cut' = cut

LEMMA ShrinkingKeeps ==
    ASSUME IInv, Shrunk, UNCHANGED row PROVE RedisFits' /\ RedisTyped'
<1>1. RedisTyped /\ RedisFits /\ db \in Nat /\ 0 \in Versions
  BY DEF IInv, TypeOK, RedisTyped, Versions
<1>2. Nothing \in [val : Versions, left : 0 .. Life(TTL)] /\ Nothing.val = 0
  BY <1>1, LivesFit DEF Nothing
<1>3. RedisTyped'
  BY <1>1, <1>2, LivesFit DEF Shrunk, RedisTyped
<1>4. db' = db /\ age' = age /\ cut' = cut
  BY DEF Shrunk, row
<1>5. neg' > 0 => neg' = neg
  BY DEF Shrunk
<1>6. pos'.val <= db
  BY <1>1, <1>2 DEF Shrunk, RedisFits
<1>7. pos' # Nothing => pos' = pos
  BY DEF Shrunk
<1>8. RedisFits'
  BY <1>1, <1>4, <1>5, <1>6, <1>7 DEF RedisFits
<1> QED BY <1>3, <1>8

\* EXPIRE: what is kept by it is kept for the second that begins with it.
LEMMA SetSecondKeeps ==
    ASSUME IInv, SetSecond, UNCHANGED row PROVE RedisFits' /\ RedisTyped'
<1>1. /\ RedisTyped /\ RedisFits /\ db \in Nat /\ 0 \in Versions
      /\ \A v \in Versions : age[v] \in Nat
  BY RedisAndRow
<1>2. CASE UNCHANGED <<pos, neg>>
  <2>1. cut' = cut
    BY <1>2 DEF SetSecond
  <2> QED BY <1>1, <1>2, <2>1 DEF RedisFits, RedisTyped, row
<1>3. CASE ~UNCHANGED <<pos, neg>>
  <2>1. /\ cut' = 0
        /\ pos' = pos \/ (pos # Nothing /\ pos' = Entry(pos.val, Second))
        /\ neg' = neg \/ (neg # 0 /\ neg' = Second)
    BY <1>3 DEF SetSecond
  <2>2. /\ Second \in Nat \ {0} /\ cut \in Nat /\ neg \in Nat
        /\ pos.left \in Nat /\ pos.val \in Versions
    BY <1>1, LivesFit DEF RedisTyped
  <2>3. neg' \in 0 .. Life(NegTTL)
    BY <1>1, <2>1, <2>2, LivesFit DEF RedisTyped
  <2>4. neg' > 0 => age[0] + neg' <= NegTTL + FillTime \/ cut' + neg' <= Second
    BY <1>1, <2>1, <2>2 DEF RedisFits
  <2>5. CASE pos' = pos
    <3>1. RedisTyped'
      BY <1>1, <2>1, <2>3, <2>5 DEF RedisTyped
    <3>2. pos # Nothing => \/ age[pos.val] + pos.left <= TTL + FillTime
                           \/ cut' + pos.left <= Second
      BY <1>1, <2>1, <2>2 DEF RedisFits
    <3> QED BY <1>1, <2>4, <2>5, <3>1, <3>2 DEF RedisFits, row
  <2>6. CASE pos # Nothing /\ pos' = Entry(pos.val, Second)
    <3>1. pos'.val = pos.val /\ pos'.left = Second
      BY <2>6 DEF Entry
    <3>2. RedisTyped'
      BY <2>1, <2>2, <2>3, <2>6, LivesFit DEF RedisTyped, Entry
    <3>3. cut' + pos'.left <= Second /\ pos'.left >= 1
      BY <2>1, <2>2, <3>1
    <3> QED BY <1>1, <2>4, <3>1, <3>2, <3>3 DEF RedisFits, row
  <2> QED BY <2>1, <2>5, <2>6
<1> QED BY <1>2, <1>3

\* What an invalidation leaves of the rest.
LEMMA InvalidationKeeps ==
    ASSUME IInv, UNCHANGED <<row, local, calls, slots, at>>,
           owed' \in 0 .. owed, others' \in 0 .. others,
           queue' \in 0 .. QueueSize, worker' \in {"idle", "del", "expire"},
           RedisFits', RedisTyped'
    PROVE  IInv'
<1> USE DEF IInv
<1>1. /\ owed' \in 0 .. MaxVersion /\ owed' <= owed
      /\ others' \in 0 .. MaxVersion /\ others' <= others
  BY LimitsAssumption DEF TypeOK
<1>2. OwedFits'
  <2>1. \A a, b, c \in Nat : a <= b /\ b <= c => a <= c
    OBVIOUS
  <2>2. owed \in Nat /\ others \in Nat /\ owed' \in Nat /\ others' \in Nat /\ db \in Nat
    BY <1>1, LimitsAssumption DEF TypeOK, Versions
  <2>3. db' = db /\ owed <= db /\ others <= db
    BY DEF OwedFits, row
  <2> QED BY <1>1, <2>1, <2>2, <2>3 DEF OwedFits
<1>3. TypeOK'
  BY <1>1 DEF TypeOK, RedisTyped, row, calls, slots, Versions
<1>4. AgesFit' /\ MapFits' /\ LoadsFit' /\ SlotsFit'
  BY DEF AgesFit, MapFits, LoadsFit, SlotsFit, Running, Loading, row, calls, slots,
         TypeOK, Versions
<1> QED BY <1>2, <1>3, <1>4

\* Invalidation adds nothing to Redis, but may keep what there is.
LEMMA InvalidationStep ==
    ASSUME IInv, \/ Invalidate \/ WorkerTakes \/ Delete \/ DeleteFails \/ Expire
                 \/ OthersExpire
    PROVE  IInv'
<1>1. /\ UNCHANGED <<row, local, calls, slots, at>>
      /\ owed' \in 0 .. owed
      /\ others' \in 0 .. others
      /\ queue' \in 0 .. QueueSize
      /\ worker' \in {"idle", "del", "expire"}
  BY DEF Invalidate, WorkerTakes, Delete, DeleteFails, Expire, OthersExpire, invalidation,
         IInv, TypeOK
<1>2. Shrunk \/ SetSecond
  BY DEF Invalidate, WorkerTakes, Delete, DeleteFails, Expire, OthersExpire, redis, Shrunk
<1>3. RedisFits' /\ RedisTyped'
  BY <1>1, <1>2, ShrinkingKeeps, SetSecondKeeps
<1> QED BY <1>1, <1>3, InvalidationKeeps

LEMMA SurroundingsStep ==
    ASSUME IInv, RedisLoses \/ OthersFill \/ Evict \/ OtherKeys \/ Restart PROVE IInv'
<1> USE DEF IInv
<1>1. CASE RedisLoses
  <2>1. RedisFits' /\ RedisTyped'
    BY <1>1, ShrinkingKeeps DEF RedisLoses, Shrunk
  <2>2. TypeOK'
    BY <1>1, <2>1 DEF RedisLoses, TypeOK, RedisTyped, row, calls, slots, invalidation, Versions
  <2>3. AgesFit' /\ MapFits' /\ LoadsFit' /\ SlotsFit' /\ OwedFits'
    BY <1>1 DEF RedisLoses, OwedFits, AgesFit, MapFits, LoadsFit, SlotsFit, Running, Loading, row,
                calls, slots, invalidation
  <2> QED BY <2>1, <2>2, <2>3
<1>2. CASE OthersFill
  <2>1. PICK v \in 0 .. db : /\ age[v] <= FillTime
                             /\ pos' = IF v = 0 THEN pos ELSE Entry(v, TTL)
                             /\ neg' = IF v = 0 THEN NegTTL ELSE neg
    BY <1>2 DEF OthersFill
  <2>2. UNCHANGED <<row, cut, local, calls, slots, at, invalidation>>
    BY <1>2 DEF OthersFill
  <2>3. v \in Versions /\ v <= db /\ age[v] \in 0 .. FillTime
    BY <2>1 DEF TypeOK, Versions
  <2>4. RedisTyped'
    BY <2>1, <2>2, <2>3, LivesFit DEF TypeOK, RedisTyped, Entry
  <2>5. TypeOK'
    BY <2>2, <2>4 DEF TypeOK, RedisTyped, row, calls, slots, invalidation, Versions
  <2>6. RedisFits'
    <3>1. CASE v = 0
      <4>1. pos' = pos /\ neg' = NegTTL /\ age[0] \in 0 .. FillTime
        BY <2>1, <2>3, <3>1
      <4>2. age' = age /\ db' = db /\ cut' = cut
        BY <2>2 DEF row
      <4> QED BY <4>1, <4>2 DEF RedisFits
    <3>2. CASE v # 0
      <4>1. pos' = Entry(v, TTL) /\ neg' = neg
        BY <2>1, <3>2
      <4> QED BY <2>2, <2>3, <4>1 DEF RedisFits, row, Entry
    <3> QED BY <3>1, <3>2
  <2>7. AgesFit' /\ MapFits' /\ LoadsFit' /\ SlotsFit' /\ OwedFits'
    BY <2>2 DEF OwedFits, AgesFit, MapFits, LoadsFit, SlotsFit, Running, Loading, row, calls, slots,
                invalidation
  <2> QED BY <2>5, <2>6, <2>7
<1>3. CASE Evict
  <2>1. local' \in [val : Versions, left : 0 .. StaleTTL]
    BY <1>3 DEF Evict, Nothing, Versions
  <2>2. Versions' = Versions
    BY DEF Versions
  <2>3. TypeOK'
    BY <1>3, <2>1, <2>2 DEF Evict, TypeOK, row, redis, calls, slots, invalidation
  <2> QED BY <1>3, <2>3, OthersKept DEF Evict, row, invalidation
<1>4. CASE OtherKeys
  <2>1. Loading' = Loading /\ Running' = Running
    BY <1>4 DEF OtherKeys, Running, Loading, calls
  <2>2. SlotsFit' /\ sem' \in 0 .. Slots /\ busy' \in 0 .. Slots
    BY <1>4, <2>1 DEF OtherKeys, SlotsFit, TypeOK
  <2>3. TypeOK'
    BY <1>4, <2>2 DEF OtherKeys, TypeOK, row, redis, calls, invalidation, Versions
  <2>4. AgesFit' /\ MapFits' /\ LoadsFit' /\ RedisFits' /\ OwedFits'
    BY <1>4, <2>1 DEF OtherKeys, OwedFits, AgesFit, MapFits, LoadsFit, RedisFits, row, redis, calls,
                      invalidation
  <2> QED BY <2>2, <2>3, <2>4
<1>5. CASE Restart
  <2>1. TypeOK'
    BY <1>5 DEF Restart, TypeOK, row, redis, Nothing, Versions
  <2>2. Running' = {} /\ Loading' = {}
    BY <1>5 DEF Restart, Running, Loading
  <2>3. MapFits' /\ SlotsFit'
    BY <1>5, <2>2 DEF Restart, MapFits, SlotsFit
  <2>4. AgesFit' /\ LoadsFit' /\ RedisFits' /\ OwedFits'
    BY <1>5 DEF Restart, OwedFits, AgesFit, LoadsFit, RedisFits, row, redis, TypeOK, Versions
  <2> QED BY <2>1, <2>3, <2>4
<1> QED BY <1>1, <1>2, <1>3, <1>4, <1>5

\* A tick: ages and what is left change places; MaxAge is never in the way,
\* because what is still there has less than that.
LEMMA TickStep ==
    ASSUME IInv, Tick PROVE IInv'
<1> USE DEF IInv
<1>0. /\ pos \in [val : Versions, left : 0 .. Life(TTL)]
      /\ neg \in 0 .. Life(NegTTL)
      /\ cut \in 0 .. Second
      /\ Life(TTL) \in Nat /\ Life(NegTTL) \in Nat
      /\ local \in [val : Versions, left : 0 .. StaleTTL]
      /\ db \in Nat /\ 0 \in Versions
      /\ \A v \in Versions : age[v] \in 0 .. MaxAge
      /\ \A c \in Calls : cval[c] \in Versions /\ cage[c] \in 0 .. FillTime
  <2>1. /\ pos \in [val : Versions, left : 0 .. Life(TTL)]
        /\ neg \in 0 .. Life(NegTTL)
        /\ cut \in 0 .. Second
        /\ local \in [val : Versions, left : 0 .. StaleTTL]
        /\ db \in Versions
        /\ \A v \in Versions : age[v] \in 0 .. MaxAge
        /\ \A c \in Calls : cval[c] \in Versions /\ cage[c] \in 0 .. FillTime
    BY DEF TypeOK
  <2>2. 0 \in Versions /\ db \in Nat
    BY <2>1 DEF Versions
  <2> QED BY <2>1, <2>2, LivesFit
<1>1. /\ age' \in [Versions -> 0 .. MaxAge]
      /\ \A v \in Versions : age'[v] \in Nat /\ age'[v] <= age[v] + 1
      /\ \A v \in Versions : v >= db => age'[v] = age[v]
      /\ db' = db
  <2>1. age' = [v \in Versions |-> IF v < db /\ age[v] < MaxAge THEN age[v] + 1 ELSE age[v]]
    BY DEF Tick
  <2>2. ASSUME NEW v \in Versions
        PROVE  /\ age'[v] \in 0 .. MaxAge
               /\ age'[v] <= age[v] + 1
               /\ v >= db => age'[v] = age[v]
    <3>1. age[v] \in 0 .. MaxAge /\ v \in Nat
      BY <1>0 DEF Versions
    <3>2. age'[v] = IF v < db /\ age[v] < MaxAge THEN age[v] + 1 ELSE age[v]
      BY <2>1
    <3> QED BY <1>0, <3>1, <3>2
  <2>3. age' \in [Versions -> 0 .. MaxAge]
    BY <2>1, <2>2
  <2> QED BY <2>2, <2>3 DEF Tick
<1>2. /\ pos' = Nothing \/ (pos.left > 1 /\ pos' = Entry(pos.val, pos.left - 1))
      /\ neg' = 0 \/ (neg > 1 /\ neg' = neg - 1)
      /\ local' = Nothing \/ (local.left > 1 /\ local' = Entry(local.val, local.left - 1))
      /\ cut' \in 0 .. Second /\ cut' <= cut + 1
  BY <1>0 DEF Tick, Aged
<1>3. /\ Loading' = Loading /\ Running' = Running
      /\ \A c \in Calls : cpc[c] = "fill" => cage'[c] = cage[c] + 1
      /\ cage' \in [Calls -> 0 .. FillTime]
  BY DEF Tick, Loading, Running, TypeOK
<1>4. TypeOK'
  <2>1. pos' \in [val : Versions, left : 0 .. Life(TTL)]
    BY <1>0, <1>2 DEF Nothing, Entry
  <2>2. neg' \in 0 .. Life(NegTTL)
    BY <1>0, <1>2
  <2>3. local' \in [val : Versions, left : 0 .. StaleTTL]
    BY <1>0, <1>2 DEF Nothing, Entry
  <2> QED BY <1>1, <1>2, <1>3, <2>1, <2>2, <2>3 DEF Tick, TypeOK, slots, invalidation, Versions
<1>5. neg' > 0 => age'[0] + neg' <= NegTTL + FillTime \/ cut' + neg' <= Second
  <2>1. age[0] \in Nat /\ age'[0] \in Nat /\ age'[0] <= age[0] + 1
    BY <1>0, <1>1
  <2> QED BY <1>0, <1>2, <2>1 DEF RedisFits
<1>6. RedisFits'
  <2>1. CASE pos' = Nothing
    <3>1. pos'.val <= db'
      BY <1>0, <1>1, <2>1 DEF Nothing
    <3> QED BY <1>5, <2>1, <3>1 DEF RedisFits
  <2>2. CASE pos.left > 1 /\ pos' = Entry(pos.val, pos.left - 1)
    <3>1. pos'.val = pos.val /\ pos'.left = pos.left - 1
      BY <2>2 DEF Entry
    <3>2. pos # Nothing
      BY <2>2 DEF Nothing
    <3>3. /\ age[pos.val] \in Nat /\ age'[pos.val] \in Nat
          /\ age'[pos.val] <= age[pos.val] + 1
          /\ pos.left \in Nat
      BY <1>0, <1>1
    <3>4. \/ age'[pos'.val] + pos'.left <= TTL + FillTime
          \/ cut' + pos'.left <= Second
      BY <1>0, <1>2, <2>2, <3>1, <3>2, <3>3 DEF RedisFits
    <3>5. pos'.left >= 1
      BY <2>2, <3>1, <3>3
    <3> QED BY <1>1, <1>5, <3>1, <3>4, <3>5 DEF RedisFits
  <2> QED BY <1>2, <2>1, <2>2
<1>7. LoadsFit'
  <2> SUFFICES ASSUME NEW c \in Calls, cpc'[c] = "fill"
               PROVE  cval'[c] <= db' /\ age'[cval'[c]] <= cage'[c]
    BY DEF LoadsFit
  <2>1. cpc[c] = "fill" /\ cval'[c] = cval[c] /\ cval[c] \in Versions
    BY <1>0 DEF Tick
  <2>2. /\ age'[cval[c]] \in Nat /\ age[cval[c]] \in Nat
        /\ age'[cval[c]] <= age[cval[c]] + 1
    BY <1>0, <1>1, <2>1
  <2>3. cage[c] \in Nat /\ cage'[c] = cage[c] + 1
    BY <1>0, <1>3, <2>1
  <2> QED BY <1>1, <2>1, <2>2, <2>3 DEF LoadsFit
<1>8. AgesFit' /\ MapFits' /\ SlotsFit' /\ OwedFits'
  BY <1>1, <1>3 DEF Tick, AgesFit, MapFits, SlotsFit, OwedFits, slots, invalidation
<1> QED BY <1>4, <1>6, <1>7, <1>8

LEMMA Inductive == IInv /\ [Next]_vars => IInv'
<1> SUFFICES ASSUME IInv, [Next]_vars PROVE IInv'
  OBVIOUS
<1>1. CASE UNCHANGED vars
  <2>1. TypeOK'
    BY <1>1 DEF IInv, TypeOK, vars, row, redis, calls, slots, invalidation, Versions
  <2> QED BY <1>1, <2>1, OthersKept DEF IInv, vars, row, invalidation
<1> QED BY <1>1, ReadStep, RunStep, RowStep, InvalidationStep, SurroundingsStep, TickStep
        DEF Next

LEMMA InductiveInvariant == Spec => []IInv
BY Initially, Inductive, PTL DEF Spec

-----------------------------------------------------------------------------
\* The variables keep their types; in particular the semaphore and the queue keep
\* within their capacities.
THEOREM TypeCorrect == Spec => []TypeOK
<1>1. IInv => TypeOK
  BY DEF IInv
<1> QED BY <1>1, InductiveInvariant, PTL

\* What Redis holds is out of date for less than TTL + FillTime, for any order of
\* back-fills, orders, invalidations and their failures, but for the second after
\* an invalidation of this or another process that deleted nothing.
THEOREM StalenessBounded == Spec => []HitsBounded
<1>1. ASSUME IInv PROVE HitsBounded
  <2>1. RedisTyped /\ RedisFits /\ 0 \in Versions /\ \A v \in Versions : age[v] \in Nat
    BY <1>1, RedisAndRow
  <2>2. pos.left \in Nat /\ pos.val \in Versions /\ neg \in Nat /\ cut \in Nat
    BY <2>1, LivesFit DEF RedisTyped
  <2>3. pos # Nothing => age[pos.val] < TTL + FillTime \/ cut < Second
    <3>1. age[pos.val] \in Nat
      BY <2>1, <2>2
    <3> QED BY <2>1, <2>2, <3>1 DEF RedisFits
  <2>4. neg > 0 => age[0] < NegTTL + FillTime \/ cut < Second
    BY <2>1, <2>2 DEF RedisFits
  <2> QED BY <2>3, <2>4 DEF HitsBounded
<1> QED BY <1>1, InductiveInvariant, PTL

\* singleflight with Forget inside the call runs one load at a time.
THEOREM LoadsMerged == Spec => []OneLoad
<1>1. IInv => OneLoad
  BY DEF IInv, MapFits, OneLoad
<1> QED BY <1>1, InductiveInvariant, PTL

\* The semaphore counts the loads that run.
THEOREM SlotsKept == Spec => []SlotsAccounted
<1>1. ASSUME IInv PROVE SlotsAccounted
  <2>1. CASE Loading = {}
    BY <1>1, <2>1, FS_EmptySet DEF IInv, SlotsFit, SlotsAccounted, TypeOK
  <2>2. CASE Loading # {}
    <3>1. PICK c \in Calls : Loading = {c}
      BY <1>1, <2>2 DEF IInv, MapFits, Loading, Running
    <3>2. Cardinality(Loading) = 1
      BY <3>1, FS_Singleton
    <3> QED BY <1>1, <2>2, <3>2 DEF IInv, SlotsFit, SlotsAccounted, TypeOK
  <2> QED BY <2>1, <2>2
<1> QED BY <1>1, InductiveInvariant, PTL

-----------------------------------------------------------------------------
\* Who waits for a call waits for one that is still to deliver, though GiveUp,
\* Forget and followers that come after it rearrange who waits for what.
WaitersHaveCalls == \A r \in Readers : at[r] \in Calls => cpc[at[r]] # "free"

\* Reading takes a call from the map, where only running ones are, or starts one.
LEMMA ReadKeepsWaiters ==
    ASSUME IInv, WaitersHaveCalls, NEW q \in Readers, Read(q)
    PROVE  WaitersHaveCalls'
<1>1. ASSUME UNCHANGED calls, \A r \in Readers : at'[r] = at[r] \/ at'[r] \notin Calls
      PROVE  WaitersHaveCalls'
  BY <1>1 DEF WaitersHaveCalls, calls
<1>2. CASE Hit(q) \/ ServeStale(q)
  BY <1>1, <1>2 DEF Hit, ServeStale
<1>3. CASE Miss(q) \/ NegHit(q) \/ GiveUp(q)
  <2>1. UNCHANGED calls /\ at' \in {[at EXCEPT ![q] = "neg"], [at EXCEPT ![q] = "idle"]}
    BY <1>3 DEF Miss, NegHit, GiveUp
  <2>2. "neg" \notin Calls /\ "idle" \notin Calls
    OBVIOUS
  <2> QED BY <1>1, <2>1, <2>2 DEF IInv, TypeOK
<1>4. CASE BackFill(q)
  <2>1. CASE current # NoCall /\ at' = [at EXCEPT ![q] = current] /\ UNCHANGED <<current, cpc>>
    BY <2>1 DEF IInv, TypeOK, MapFits, Running, WaitersHaveCalls
  <2>2. ASSUME NEW c \in FreeCalls,
               cpc' = [cpc EXCEPT ![c] = "slot"], at' = [at EXCEPT ![q] = c]
        PROVE  WaitersHaveCalls'
    BY <2>2 DEF IInv, TypeOK, FreeCalls, WaitersHaveCalls
  <2> QED BY <1>4, <2>1, <2>2 DEF BackFill, DoChan
<1> QED BY <1>2, <1>3, <1>4 DEF Read

\* Until it delivers, and then to all, a call goes through places that are not "free".
LEMMA RunKeepsWaiters ==
    ASSUME IInv, WaitersHaveCalls, NEW c \in Calls, Run(c)
    PROVE  WaitersHaveCalls'
<1>1. ASSUME NEW s \in {"load", "fill", "ready"}, cpc' = [cpc EXCEPT ![c] = s], at' = at
      PROVE  WaitersHaveCalls'
  BY <1>1 DEF IInv, TypeOK, WaitersHaveCalls
<1>2. CASE TakeSlot(c) \/ Load(c)
  BY <1>1, <1>2 DEF TakeSlot, Load
<1>3. CASE SlotTimeout(c) \/ LoadFails(c) \/ FillNegative(c) \/ FillBack(c)
  BY <1>1, <1>3 DEF SlotTimeout, LoadFails, FillNegative, FillBack, Return
<1>4. CASE Deliver(c)
  BY <1>4 DEF Deliver, IInv, TypeOK, WaitersHaveCalls
<1> QED BY <1>2, <1>3, <1>4 DEF Run

\* No follower is forgotten, whatever singleflight and its Forget do: there is no
\* reader whose answer nobody is going to send.
THEOREM NobodyLeftBehind == Spec => []WaitersHaveCalls
<1>1. Init => WaitersHaveCalls
  BY DEF Init, WaitersHaveCalls
<1>2. IInv /\ WaitersHaveCalls /\ [Next]_vars => WaitersHaveCalls'
  <2> SUFFICES ASSUME IInv, WaitersHaveCalls, [Next]_vars PROVE WaitersHaveCalls'
    OBVIOUS
  <2>1. CASE \E r \in Readers : Read(r)
    BY <2>1, ReadKeepsWaiters
  <2>2. CASE \E c \in Calls : Run(c)
    BY <2>2, RunKeepsWaiters
  <2>3. CASE Restart
    BY <2>3 DEF Restart, WaitersHaveCalls
  <2>4. ASSUME UNCHANGED <<cpc, at>> PROVE WaitersHaveCalls'
    BY <2>4 DEF WaitersHaveCalls
  <2>5. CASE \/ Create \/ Order \/ Invalidate \/ WorkerTakes \/ Delete \/ DeleteFails
             \/ Expire \/ RedisLoses \/ OthersFill \/ OthersExpire \/ Evict \/ OtherKeys \/ Tick
             \/ UNCHANGED vars
    BY <2>4, <2>5 DEF Create, Order, Invalidate, WorkerTakes, Delete, DeleteFails, Expire,
         RedisLoses, OthersFill, OthersExpire, Evict, OtherKeys, Tick, calls, vars
  <2> QED BY <2>1, <2>2, <2>3, <2>5 DEF Next
<1> QED BY <1>1, <1>2, InductiveInvariant, PTL DEF Spec
=============================================================================
