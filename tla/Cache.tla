-------------------------------- MODULE Cache --------------------------------
(***************************************************************************)
(* The read cache of one order-api process (internal/cache/cache.go) for   *)
(* one key: Redis, back-fills from MySQL merged by singleflight and        *)
(* limited by a semaphore, the process's store of old values, and the      *)
(* invalidation that follows an order.                                     *)
(*                                                                         *)
(* A value is a version of the row.  Version 0 is "no such article"; the   *)
(* step to 1 is its creation (seeded at start-up, no invalidation), each   *)
(* later one an order.  Time goes in ticks; what expires counts down, and  *)
(* ages count how long a version has been out of date.  A tick is about    *)
(* a BackfillTimeout: an operation of Redis takes less.                    *)
(*                                                                         *)
(* Other keys of the process are seen in three places: they use slots of   *)
(* the semaphore (busy), fill the queue of invalidations and push entries  *)
(* out of the store of old values.                                         *)
(* Other processes fill and delete in Redis as this one does.              *)
(***************************************************************************)
EXTENDS Integers, FiniteSets

CONSTANTS
    Readers,      \* requests that read the key
    Calls,        \* executions of singleflight's function, reused; bound on
                  \* how many have not delivered
    NoCall,
    MaxVersion,   \* bound: changes of the row
    TTL, NegTTL,  \* ticks an entry of Redis lives
    Second,       \* ticks an entry lives on when it could not be deleted
    StaleTTL,     \* ticks an old value is kept
    FillTime,     \* ticks from the start of a load to the end of its SET
    Slots,        \* BackfillMaxConcur
    QueueSize,    \* InvalidateQueueSize
    MaxAge        \* bound: ages are counted up to this

ASSUME CallsAssumption == NoCall \notin Calls /\ {"idle", "neg"} \cap Calls = {}
ASSUME TimesAssumption ==
    /\ TTL \in Nat \ {0} /\ NegTTL \in Nat \ {0} /\ StaleTTL \in Nat \ {0}
    /\ Second \in Nat \ {0}
    /\ FillTime \in Nat
    /\ MaxAge \in Nat /\ MaxAge >= TTL + FillTime /\ MaxAge >= NegTTL + FillTime
ASSUME LimitsAssumption ==
    /\ MaxVersion \in Nat
    /\ Slots \in Nat \ {0}
    /\ QueueSize \in Nat \ {0}

VARIABLES
    db,      \* the committed version
    age,     \* ticks since each version was superseded
    pos,     \* the positive key in Redis, [val, left]
    neg,     \* ticks the negative key has left
    cut,     \* bookkeeping: ticks since a failed DEL last set their time with EXPIRE
    local,   \* the key's entry in staleStore, [val, left]
    current, \* sf.m[key]
    cpc,     \* where each call is in runBounded
    cval,    \* the version it loaded
    cage,    \* ticks since its load began
    sem,     \* len(backfillSem)
    busy,    \* slots of other keys
    at,      \* each reader: "idle", "neg" before the EXISTS, or the call waited for
    owed,    \* orders committed whose handler has still to invalidate
    others,  \* the same in other processes
    queue,   \* the article's entries in invQueue
    worker   \* where invalidateWorker is

row == <<db, age>>
redis == <<pos, neg, cut>>
calls == <<current, cpc, cval, cage>>
slots == <<sem, busy>>
invalidation == <<owed, others, queue, worker>>
vars == <<row, redis, local, calls, slots, at, invalidation>>

Versions == 0 .. MaxVersion
Nothing == [val |-> 0, left |-> 0]
Entry(v, n) == [val |-> v, left |-> n]

Init ==
    /\ db = 0
    /\ age = [v \in Versions |-> 0]
    /\ pos = Nothing
    /\ neg = 0
    /\ cut = Second
    /\ local = Nothing
    /\ current = NoCall
    /\ cpc = [c \in Calls |-> "free"]
    /\ cval = [c \in Calls |-> 0]
    /\ cage = [c \in Calls |-> 0]
    /\ sem = 0
    /\ busy = 0
    /\ at = [r \in Readers |-> "idle"]
    /\ owed = 0
    /\ others = 0
    /\ queue = 0
    /\ worker = "idle"

-----------------------------------------------------------------------------
\* staleStore.put skips the write while the entry has more than half its time.
Put(v) ==
    local' = IF local # Nothing /\ 2 * local.left > StaleTTL THEN local
             ELSE Entry(v, StaleTTL)

\* staleStore.get gives an entry it finds a whole TTL again.
Get == local' = IF local = Nothing THEN Nothing ELSE Entry(local.val, StaleTTL)

-----------------------------------------------------------------------------
\* readCache finds the key, and the hit refreshes the old value.
Hit(r) ==
    /\ at[r] = "idle"
    /\ pos # Nothing
    /\ Put(pos.val)
    /\ UNCHANGED <<row, redis, calls, slots, at, invalidation>>

\* GET fails and there is an old value to answer with.
ServeStale(r) ==
    /\ at[r] = "idle"
    /\ local # Nothing
    /\ Get
    /\ UNCHANGED <<row, redis, calls, slots, at, invalidation>>

\* The key is not there: EXISTS of the negative key is next.
Miss(r) ==
    /\ at[r] = "idle"
    /\ pos = Nothing
    /\ at' = [at EXCEPT ![r] = "neg"]
    /\ UNCHANGED <<row, redis, local, calls, slots, invalidation>>

NegHit(r) ==
    /\ at[r] = "neg"
    /\ neg > 0
    /\ at' = [at EXCEPT ![r] = "idle"]
    /\ UNCHANGED <<row, redis, local, calls, slots, invalidation>>

FreeCalls == {c \in Calls : cpc[c] = "free"}

\* Slip: Forget is called before the work and not after it.
SlipDoChan(r) ==
    \E c \in FreeCalls :
        /\ cpc' = [cpc EXCEPT ![c] = "slot"]
        /\ at' = [at EXCEPT ![r] = c]
        /\ UNCHANGED current

\* DoChan: join the current call or start one.
DoChan(r) ==
    \/ /\ current # NoCall
       /\ at' = [at EXCEPT ![r] = current]
       /\ UNCHANGED <<current, cpc>>
    \/ \E c \in FreeCalls :
        /\ current = NoCall
        /\ current' = c
        /\ cpc' = [cpc EXCEPT ![c] = "slot"]
        /\ at' = [at EXCEPT ![r] = c]

\* No negative key, or EXISTS fails; or GET failed and there is no old value.
BackFill(r) ==
    /\ at[r] = "neg" \/ (at[r] = "idle" /\ local = Nothing)
    /\ DoChan(r)
    /\ UNCHANGED <<row, redis, local, cval, cage, slots, invalidation>>

\* The request's context ends first: staleOrReject.
GiveUp(r) ==
    /\ at[r] \in Calls
    /\ Get
    /\ at' = [at EXCEPT ![r] = "idle"]
    /\ UNCHANGED <<row, redis, calls, slots, invalidation>>

-----------------------------------------------------------------------------
\* runBounded has returned and the deferred Forget has run.
Return(c) ==
    /\ cpc' = [cpc EXCEPT ![c] = "ready"]
    /\ cval' = [cval EXCEPT ![c] = 0]
    /\ cage' = [cage EXCEPT ![c] = 0]
    /\ current' = NoCall

\* A slot of the semaphore, ...
TakeSlot(c) ==
    /\ cpc[c] = "slot"
    /\ sem < Slots
    /\ sem' = sem + 1
    /\ cpc' = [cpc EXCEPT ![c] = "load"]
    /\ UNCHANGED <<row, redis, local, current, cval, cage, busy, at, invalidation>>

\* Slip: the wait for a slot has no end.
SlipSlotTimeout(c) ==
    /\ FALSE
    /\ UNCHANGED vars

\* ... or none within acquireTO.
SlotTimeout(c) ==
    /\ cpc[c] = "slot"
    /\ sem = Slots
    /\ Get
    /\ Return(c)
    /\ UNCHANGED <<row, redis, slots, at, invalidation>>

\* load reads the row.
Load(c) ==
    /\ cpc[c] = "load"
    /\ cval' = [cval EXCEPT ![c] = db]
    /\ cpc' = [cpc EXCEPT ![c] = "fill"]
    /\ UNCHANGED <<row, redis, local, current, cage, slots, at, invalidation>>

\* Slip: the slot is given back on success only.
SlipLoadFails(c) ==
    /\ cpc[c] = "load"
    /\ Get
    /\ Return(c)
    /\ UNCHANGED <<row, redis, slots, at, invalidation>>

\* Slip: the old value that answers for a failed load is written to Redis, too.
SlipLoadFailsFill(c) ==
    /\ cpc[c] = "load"
    /\ Get
    /\ pos' = IF local = Nothing THEN pos ELSE Entry(local.val, TTL)
    /\ Return(c)
    /\ sem' = sem - 1
    /\ UNCHANGED <<row, neg, cut, busy, at, invalidation>>

\* load fails or BackfillTimeout is over: staleOrReject, and the slot is free.
LoadFails(c) ==
    /\ cpc[c] = "load"
    /\ Get
    /\ Return(c)
    /\ sem' = sem - 1
    /\ UNCHANGED <<row, redis, busy, at, invalidation>>

\* There is no such row: the negative key is set, or Redis fails.
FillNegative(c) ==
    /\ cpc[c] = "fill"
    /\ cval[c] = 0
    /\ neg' \in {neg, NegTTL}
    /\ Return(c)
    /\ sem' = sem - 1
    /\ UNCHANGED <<row, pos, cut, local, busy, at, invalidation>>

\* fillBack: Redis if it will, the old value anyway.
FillBack(c) ==
    /\ cpc[c] = "fill"
    /\ cval[c] # 0
    /\ pos' \in {pos, Entry(cval[c], TTL)}
    /\ Put(cval[c])
    /\ Return(c)
    /\ sem' = sem - 1
    /\ UNCHANGED <<row, neg, cut, busy, at, invalidation>>

\* singleflight gives the result to all who wait.
Deliver(c) ==
    /\ cpc[c] = "ready"
    /\ cpc' = [cpc EXCEPT ![c] = "free"]
    /\ at' = [r \in Readers |-> IF at[r] = c THEN "idle" ELSE at[r]]
    /\ UNCHANGED <<row, redis, local, current, cval, cage, slots, invalidation>>

-----------------------------------------------------------------------------
\* The article is created.
Create ==
    /\ db = 0
    /\ MaxVersion > 0
    /\ db' = 1
    /\ UNCHANGED <<age, redis, local, calls, slots, at, invalidation>>

\* An order for it commits, here or in another process.  Its handler goes on to
\* Invalidate, unless it was told of an error although the COMMIT took effect.
Order ==
    /\ db \in 1 .. (MaxVersion - 1)
    /\ db' = db + 1
    /\ \/ UNCHANGED <<owed, others>>
       \/ owed' = owed + 1 /\ UNCHANGED others
       \/ others' = others + 1 /\ UNCHANGED owed
    /\ UNCHANGED <<age, redis, local, calls, slots, at, queue, worker>>

\* Invalidate: a queue that is full, also of other articles, drops this one.
Invalidate ==
    /\ owed > 0
    /\ owed' = owed - 1
    /\ \/ queue < QueueSize /\ queue' = queue + 1
       \/ UNCHANGED queue
    /\ UNCHANGED <<row, redis, local, calls, slots, at, others, worker>>

WorkerTakes ==
    /\ worker = "idle"
    /\ queue > 0
    /\ queue' = queue - 1
    /\ worker' = "del"
    /\ UNCHANGED <<row, redis, local, calls, slots, at, owed, others>>

\* DEL of both keys, ...
Delete ==
    /\ worker = "del"
    /\ pos' = Nothing
    /\ neg' = 0
    /\ worker' = "idle"
    /\ UNCHANGED <<row, cut, local, calls, slots, at, owed, others, queue>>

\* ... or an error, after which the keys may be gone all the same ...
DeleteFails ==
    /\ worker = "del"
    /\ pos' \in {pos, Nothing}
    /\ neg' \in {neg, 0}
    /\ worker' = "expire"
    /\ UNCHANGED <<row, cut, local, calls, slots, at, owed, others, queue>>

\* ... and EXPIRE gives each that is not a second from now, if that works: it cannot
\* when the DEL has used up the context that both share.  It is not asked what the
\* key had left, so a second may be less than that or more.
SetSecond ==
    /\ pos' \in {pos, IF pos = Nothing THEN pos ELSE Entry(pos.val, Second)}
    /\ neg' \in {neg, IF neg = 0 THEN 0 ELSE Second}
    /\ cut' = IF UNCHANGED <<pos, neg>> THEN cut ELSE 0

Expire ==
    /\ worker = "expire"
    /\ SetSecond
    /\ worker' = "idle"
    /\ UNCHANGED <<row, local, calls, slots, at, owed, others, queue>>

-----------------------------------------------------------------------------
\* Redis loses what it has, or another process deletes it.
RedisLoses ==
    /\ pos' \in {pos, Nothing}
    /\ neg' \in {neg, 0}
    /\ UNCHANGED <<row, cut, local, calls, slots, at, invalidation>>

\* Another process fills the key, or a back-fill of the other key of the article
\* sets the negative one: with what was true when its load began.
OthersFill ==
    \E v \in 0 .. db :
        /\ age[v] <= FillTime
        /\ pos' = IF v = 0 THEN pos ELSE Entry(v, TTL)
        /\ neg' = IF v = 0 THEN NegTTL ELSE neg
        /\ UNCHANGED <<row, cut, local, calls, slots, at, invalidation>>

\* The DEL of another process fails and its EXPIRE does not.
OthersExpire ==
    /\ others > 0
    /\ others' = others - 1
    /\ SetSecond
    /\ UNCHANGED <<row, local, calls, slots, at, owed, queue, worker>>

\* A full staleStore makes room for another key.
Evict ==
    /\ local' = Nothing
    /\ UNCHANGED <<row, redis, calls, slots, at, invalidation>>

\* Back-fills of other keys.
OtherKeys ==
    /\ \/ sem < Slots /\ sem' = sem + 1 /\ busy' = busy + 1
       \/ busy > 0 /\ sem' = sem - 1 /\ busy' = busy - 1
    /\ UNCHANGED <<row, redis, local, calls, at, invalidation>>

\* The process ends, by Close or a crash, and a new one starts with nothing.
Restart ==
    /\ local' = Nothing
    /\ current' = NoCall
    /\ cpc' = [c \in Calls |-> "free"]
    /\ cval' = [c \in Calls |-> 0]
    /\ cage' = [c \in Calls |-> 0]
    /\ sem' = 0
    /\ busy' = 0
    /\ at' = [r \in Readers |-> "idle"]
    /\ owed' = 0
    /\ queue' = 0
    /\ worker' = "idle"
    /\ UNCHANGED <<row, redis, others>>

Aged(e) == IF e.left <= 1 THEN Nothing ELSE Entry(e.val, e.left - 1)
Running == {c \in Calls : cpc[c] \in {"slot", "load", "fill"}}
Loading == {c \in Calls : cpc[c] \in {"load", "fill"}}

\* Time passes, but not past the end of a load and its SET, which have theirs.
Tick ==
    /\ \A c \in Loading : cage[c] < FillTime
    /\ pos' = Aged(pos)
    /\ neg' = IF neg = 0 THEN 0 ELSE neg - 1
    /\ cut' = IF cut < Second THEN cut + 1 ELSE cut
    /\ local' = Aged(local)
    /\ age' = [v \in Versions |-> IF v < db /\ age[v] < MaxAge THEN age[v] + 1 ELSE age[v]]
    /\ cage' = [c \in Calls |-> IF c \in Loading THEN cage[c] + 1 ELSE cage[c]]
    /\ UNCHANGED <<db, current, cpc, cval, slots, at, invalidation>>

-----------------------------------------------------------------------------
Read(r) ==
    \/ Hit(r) \/ ServeStale(r) \/ Miss(r) \/ NegHit(r) \/ BackFill(r) \/ GiveUp(r)

Run(c) ==
    \/ TakeSlot(c) \/ SlotTimeout(c) \/ Load(c) \/ LoadFails(c)
    \/ FillNegative(c) \/ FillBack(c) \/ Deliver(c)

Next ==
    \/ \E r \in Readers : Read(r)
    \/ \E c \in Calls : Run(c)
    \/ Create \/ Order \/ Invalidate \/ WorkerTakes \/ Delete \/ DeleteFails \/ Expire
    \/ RedisLoses \/ OthersFill \/ OthersExpire \/ Evict \/ OtherKeys \/ Restart \/ Tick

Spec == Init /\ [][Next]_vars

\* Goroutines run and have their timeouts; time passes whatever they do.  Requests
\* need not give up, Redis need not work, and the worker need not run.
FairSpec ==
    /\ Spec
    /\ \A c \in Calls : WF_vars(Run(c))
    /\ SF_vars(Tick)

-----------------------------------------------------------------------------
\* The longest that a key with this TTL may have left.
Life(ttl) == IF ttl < Second THEN Second ELSE ttl

TypeOK ==
    /\ db \in Versions
    /\ age \in [Versions -> 0 .. MaxAge]
    /\ pos \in [val : Versions, left : 0 .. Life(TTL)]
    /\ neg \in 0 .. Life(NegTTL)
    /\ cut \in 0 .. Second
    /\ local \in [val : Versions, left : 0 .. StaleTTL]
    /\ current \in Calls \cup {NoCall}
    /\ cpc \in [Calls -> {"free", "slot", "load", "fill", "ready"}]
    /\ cval \in [Calls -> Versions]
    /\ cage \in [Calls -> 0 .. FillTime]
    /\ sem \in 0 .. Slots
    /\ busy \in 0 .. Slots
    /\ at \in [Readers -> {"idle", "neg"} \cup Calls]
    /\ owed \in 0 .. MaxVersion
    /\ others \in 0 .. MaxVersion
    /\ queue \in 0 .. QueueSize
    /\ worker \in {"idle", "del", "expire"}

\* "Stale reads are bounded": what Redis answers with is out of date for less than
\* a TTL and the time of a back-fill, whatever invalidations were dropped, failed
\* or overtaken, and nothing that has a value is called missing for longer; except
\* within a second of an invalidation that could not delete the key and by that
\* kept it.
HitsBounded ==
    /\ pos # Nothing => age[pos.val] < TTL + FillTime \/ cut < Second
    /\ neg > 0 => age[0] < NegTTL + FillTime \/ cut < Second

\* "One key is loaded once at a time", although Forget runs inside the call it
\* forgets and requests that gave up come again.
OneLoad == \A c, d \in Running : c = d

\* No slot is lost: the semaphore counts the loads that run, of this key and of
\* the others.
SlotsAccounted == sem = busy + Cardinality(Loading)

\* A request that waits for a merged back-fill is answered, also when all slots
\* stay taken and it has no deadline of its own.
WaitersAnswered == \A r \in Readers : at[r] \in Calls ~> at[r] \notin Calls

\* Once orders stop Redis comes to answer with the truth or not at all, although
\* no invalidation need get through.
HitsSettle == <>[](pos # Nothing => pos.val = db)

\* "The old values served while Redis is away are at most 2 TTL behind": counted
\* from the last time that Redis or MySQL gave the value, which may have been out
\* of date itself for as long as HitsBounded says.
OldValuesBounded ==
    local # Nothing => age[local.val] <= TTL + FillTime + 2 * StaleTTL
=============================================================================
