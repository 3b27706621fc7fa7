# A specification of the flash-order system

TLA+ modules, TLC configurations and TLAPS proofs for the order system in
`src/`: a Go service that sells a limited stock over HTTP, with MySQL as the
source of truth, Redis in front of the reads, a transactional outbox, Kafka and
a consumer that writes each event once.

Contents: [the system](#the-system), [modules](#modules),
[runs](#what-the-runs-check), [findings](#what-the-specification-found),
[proofs](#what-is-proved), [what is left out](#what-is-not-modelled),
[plan](#plan).

## The system

```
 client --HTTP--> order-api (2 replicas)                        dependency
                   admission -> handler -> cache -> Redis           ^
                                  |   \________ breaker ____________|
                                  v
                               MySQL: products, inventory, orders,
                                      idempotency_keys, outbox_events,
                                      inbox_events, notifications
                                  ^            |
                                  |            v
                     consumer <- Kafka <- outbox-relay (1 replica)
```

Every arrow is a call with a timeout. Nothing but MySQL and Kafka survives a
process.

| Component (source) | State | Operations | What is hard | What makes it correct |
|---|---|---|---|---|
| Business model (`internal/order/model.go`) | stock, orders by key | `TryPlaceOrder` | nothing: it is sequential | it is the definition of correct |
| Order store (`internal/store/mysql/store.go`) | five tables, row locks, the AUTO_INCREMENT counter | `CreateOrder`, `tryInsertIdem`, `withTxRetry`, queries | concurrent inserts of one key, the deadlock that a rollback leaves, retries, a COMMIT whose answer is lost | stock is conserved; one order per key; one event per order; answers agree; every call ends; it implements `TryPlaceOrder` |
| Outbox and relay (`outbox.go`, `internal/relay/relay.go`) | `outbox_events`; one batch per round | `writeOutbox`, `FetchPendingOutbox`, `MarkOutboxFailed`, `MarkOutboxSentBatch`, `RequeueDead`, `drainOnce` | partial acknowledgement, a crash before the mark, two relays during an update, read-then-save of whole rows | SENT implies in Kafka; only undecodable rows die; SENT is final; every row is settled |
| Kafka client (`internal/mq/kafka/kafka.go`) | none | `ProduceBatch`, `Fetch`, `Commit`, `ensureTopic` | an error says nothing about what was written | seen through relay and consumer |
| Consumer (`internal/consumer/processor.go`, `cmd/consumer`) | two bounded channels, batches, a watermark per partition | reader, workers, committer, shutdown | workers finish in any order, cancellation, crash, rebalance | an offset is committed only over what is in the inbox; the lag drains; the pipeline never locks up |
| Inbox (`ProcessInboxBatch` in `outbox.go`) | `inbox_events`, `notifications` | one transaction per batch | the same event again | an event has one effect |
| Breaker (`internal/resilience`) | pool, state, failure count, probe count | `GetExtra`, `Allow`, `ReportResult` | `Allow` unlocks before its compare-and-swap; results report in a state other than the one they were let through in | one probe at a time; one request at most gets past an opening; a dead dependency is cut off, a recovered one used again |
| Cache (`internal/cache/cache.go`) | Redis, a local store of old values, a singleflight group, a back-fill semaphore, an invalidation queue | reads with back-fill, `Invalidate`, worker, `Close` | a back-fill that overtakes an invalidation, a full queue, Redis away | bounded staleness, one load per key, bounded load on MySQL |
| Admission (`internal/api/admission.go`, `backpressure.go`, `internal/ratelimit`) | token bucket, in-flight slots, a sampled backlog | three middlewares, `OverLimit` | time, stale samples | bounds on rate, concurrency and backlog |
| Handlers (`internal/api/handler.go`) | none | `createOrder`, queries, probes | an answer that must agree with what was committed | an answer means what happened |
| Order API process (`cmd/order-api/main.go`) | the server, the sampler, the cache | start, SIGTERM, `Shutdown`, `Close` | handlers that still run when what they use is closed | nothing is closed that a handler still needs |
| Recovery tools (`cmd/event-replay`, `cmd/reconcile`) | the same tables, a ledger at the clients, a baseline | dump, restore, replay scope, row checks, ledger check, injection | a restored database that is older than the topic and the inbox; a check that runs while orders commit | nothing lost that was answered, no false alarm, everything notified |
| Pagination (`GetOrdersByCursor`) | a cursor at the client | one query | transactions that commit behind the cursor | no order twice in a walk |

The pieces meet in four places: the handler calls `CreateOrder` and, after it,
`Cache.Invalidate`; `CreateOrder` and the relay meet in `outbox_events`; relay
and consumer meet in the Kafka log, which may hold a row several times and in
another order than the table; the backpressure sampler counts the PENDING rows.
`OrderApi` has the first and the last of these, `Recovery` the two between.

## Modules

| Module | Stands for | Proofs |
|---|---|---|
| `PlaceOrder` | `TryPlaceOrder` as an abstract specification: one atomic business step per request, an answer that reports it or only says "error" | |
| `OrderStore` | `Store.CreateOrder` as concurrent transactions | `OrderStoreProofs` |
| `EventDelivery` | what the outbox promises of an event, as an abstract specification: nothing of relays, batches, attempts or faults | in `OutboxRelayProofs` |
| `OutboxRelay` | outbox table and relays; implements `EventDelivery` | `OutboxRelayProofs` |
| `Consumer` | the consumer process, one partition, and the inbox | `ConsumerProofs` |
| `Breaker` | dependency client and circuit breaker | `BreakerProofs` |
| `Cache` | the read cache of one order-api process, for one key | `CacheProofs` |
| `TokenBucket` | the rate limiter in discrete time | in `OrderApiProofs` |
| `OrderApi` | one order-api process: middlewares, handlers, backlog sampler, shutdown; EXTENDS `TokenBucket` | `OrderApiProofs` |
| `Recovery` | order, outbox, relay, topic and inbox composed, under dumps, disasters and restores; the reconciler and `event-replay` | `RecoveryProofs` |
| `OrderHistory` | a walk through the list of orders by cursor | `OrderHistoryProofs` |
| `MC...` | the small instances for TLC | |

`map` in `PROJECT.json` gives the lines of each definition. A definition whose
name begins with `Slip` is a mistake that could be made in the code next to it
(a guard dropped, an error ignored, a reset forgotten). Nothing refers to it;
the `mutants` in `PROJECT.json` name the property that fails when it takes the
place of the definition it stands before. It shows that the property can fail.

### OrderStore

A request is a call of `CreateOrder`. `pc` is the statement it is about to run:
`insert` (the idempotency row), `order` (price, order row, back-fill, event),
`deduct` (the conditional UPDATE), `commit`. Rows of an open transaction are
invisible to the others, so they are not state: what a transaction wrote follows
from its `pc`, and `Commit` publishes order, idempotency row, event and
deduction together. What other transactions do notice are InnoDB's locks, kept
as the places of the transaction that has them:

- the row lock of an inserted idempotency key (`KeyTaken`), on which other
  inserts of that key wait (`waitKey`). When its owner rolls back, InnoDB grants
  each waiter the shared lock that it asked for (`shareKey`), and two such
  waiters deadlock (`Deadlock`, error 1213);
- the row lock on `inventory` (`StockLocked`), taken by the UPDATE and kept to
  the end.

`withTxRetry` is `Retry` and `BackedOff`. `Fail` is everything else that can end
a call: the deadline, the client, the connection, the server, the process. If it
strikes during COMMIT the transaction is in `limbo`: the server may apply it
(`Commit`) or drop it (`LimboRollback`) when nobody listens any more. A retry of
the client is another request with the same key.

`PlaceOrder` is implemented by reading the committed tables as the business
state and the decided outcome as the verdict; `notFound` of the store is "out of
stock" for `TryPlaceOrder`, which does not know articles apart from stock.

### OutboxRelay

`Fetch` reads and decodes; `LoadFailed` and `SaveFailed` are the two statements
of `MarkOutboxFailed`, between which anything may happen; `ProduceOk` and
`ProduceFailed` are the outcomes of `ProduceBatch`, the latter with any part of
the batch in Kafka; `MarkSent` is the UPDATE by id. `Abort` ends a round
anywhere. Rows become visible in any order because ids are taken before COMMIT.

`EventDelivery` is the header of `outbox.go` and `EventStatus` as a
specification: an event enters PENDING (`Enter`), is published any number of
times (`Publish`), settled only when Kafka has it (`Settle`), given up only when
Kafka never got it (`GiveUp`) and may be taken up again (`TakeUp`). It has the
variables `status` and `published` of `OutboxRelay`, so the mapping is by name.
An operator's `RequeueDead` is not the only thing that implements `TakeUp`: so
does a relay that saves a row it read before another one gave it up, which puts
DEAD back to PENDING.

### Consumer

`Fetch` is the reader; `Take`, `TimerFlush`, `Process`, `Send` one worker;
`MarkDone` and `Flush` the committer. `Process` is the transaction of
`ProcessInboxBatch`: events already in the inbox are ignored. A failed
transaction is retried for ever and changes nothing, so it has no action of its
own. `Abandon` and `WorkerStops` are the exits when the context is cancelled;
`Replaced` the new process after a shutdown; `Crash` the same without one.
`Rebalance` takes the partition away and gives it back, the group's offset where
another member left it; the processor's memory is not told. `base` is
bookkeeping for one property: the first message that this process finished.

### Breaker

`Acquire` is the bounded wait for a slot, `AllowLocked` the part of `Allow`
under the mutex, `Swap` its compare-and-swap after the unlock, `ReportResult`
the end of the call. A call inherits the context of its request, so it fails
when the dependency does (`healthy`) and also when the client hangs up or the
request's budget is spent (`patient`); `Results` is what it may report. `Cool`
is the end of `openDuration`. Its guard asks that the calls in flight when the
breaker opened have ended: a call takes at most `DEP_TIMEOUT` (200 ms) and the
breaker stays open `DEP_CB_OPEN_DURATION` (10 s). `old`, `probing` and `late`
are bookkeeping: the calls in flight when it last opened, those let through by
the compare-and-swap, and whether the probe count was taken by one that came
when the breaker had left half-open.

Comment and code differ here: an open breaker may let a request through, and the
breaker of a healthy dependency may stay shut for ever (finding 2). The
properties say what is left. `OneCallPastOpening`: of the requests that were not
in flight when the breaker opened there is one at most. `Recovers`: from some
time on the breaker stays closed, if the dependency is well and clients wait,
unless a compare-and-swap came late.

### Cache

A value is a version of the row, so that being out of date can be counted:
`age[v]` is how long ago version `v` was superseded. `pos` and `neg` are the two
keys in Redis with the time they have left, `local` the entry of the process's
`staleStore`. A reader (`at`) goes through `readCache` (`Hit`, `Miss`, `NegHit`;
`ServeStale` when GET fails) into `doBackfill` (`BackFill`), where it waits for
a call of singleflight; `cpc` is where that call is in `runBounded`. `current`
is what singleflight has under the key; `Return` contains the deferred `Forget`,
`Deliver` is what follows it. A reader may `GiveUp` while its call goes on. The
slots of the semaphore are shared with other keys (`OtherKeys`).

An order commits in `Order` and is handed to `Invalidate` later or, if its
handler was told of an error, never; the queue drops what it has no room for,
and other articles use it, too; `Delete`, `DeleteFails` and `Expire` are
`delKeys`. EXPIRE sets the time to a second whatever is left (`SetSecond`), so
it shortens a life or lengthens it, again with every order whose DEL fails; and
it shares DEL's context, so it may do nothing at all. `OthersExpire` is the same
in another order-api process. `cut` counts the ticks since a key was last given
its second: `HitsBounded` says that a hit is out of date for less than a TTL and
a back-fill, or that an EXPIRE has kept the key alive within the last second.

`Tick` is time. It waits for a load and its SET, which take at most `FillTime`
(`BackfillTimeout`, the time of a Redis operation, and the injected delay of an
experiment); everything else may be overtaken by it. The stock and the article
of a product are two keys with one negative key; the module has one of the two.
`OthersFill` is the back-fill of another process, or of the other key.

### TokenBucket and OrderApi

A token is `Cost` parts, so that a tick may bring a fraction of one, as the
floating point of the code does. `since` is the time since the last `Allow`, as
`now - last` in the code; `ahead` is bookkeeping: by how much the tokens given
out exceed the rate, at worst over all the spans of time that end now.

A request (`req`) goes through the middlewares in the order of `main.go`:
`Arrive` starts its deadline, `RateLimit` takes a token, `InFlight` a slot,
`CheckOrder` is the part of `createOrder` before the transaction, `PlaceOrder`
its outcome, `Invalidate` what follows a COMMIT, `Leave` the way out through the
deferred release. `Cut` is a context that ends under a request in work, whether
through its deadline, its client or the server; the order may be committed all
the same (`AnswerCommitted`), or be so later: `Abandon` leaves a COMMIT in
`limbo`, where `LimboEnds` applies or drops it when nobody waits any more, as in
`OrderStore`, even after the process has ended. Each has a connection of MySQL
to itself, so there are at most `MaxLimbo` (`max_connections` is 151, EXP-13).
`made` is bookkeeping for `RefusalLeavesNothing`.

`backlog` is the true number of PENDING rows, `pending` what the process takes
it for. `SampleStart`, `SampleCount` and `SampleStore` are one query of the
sampler: rows may come and go between the count and its arrival. `SampleFail`
keeps the last value. The ticker of Go holds one beat back (`beat`) for a
sampler that is late. `pending` is capped by `Limit`, above which `OverLimit`
does not tell values apart.

`Terminate` is SIGTERM; `StopServing` the end of `Shutdown`, with or without its
timeout; `Close` the deferred calls of `main`; `Exit` the end, or a SIGKILL at
any time. For `Grace` ticks after SIGTERM a connection that was accepted before
may still send its first request: `net/http` gives it 5 s, within which the
code's own `HTTP_READ_TIMEOUT` ends slow bodies. As deployed the budgets are 500
ms and 1 s and `Shutdown` has 10 s, so `DrainAssumption` holds.

400, 404 and 409 are one answer, and so are the two probes. The list of orders
has the budget of writes because it shares the path. `event-replay` and
`RequeueDead` add rows past the limit; `BacklogBounded` is about orders.

### Recovery

The tables of MySQL are one record (`db`), so that a read view, a dump and a
restore are a value. A transaction that places an order is two steps, for an id
is given out before the COMMIT. `Publish` and `Mark` are the relay, with
`RestartRelay` between; `GiveUp` is a row that becomes DEAD; `Process` the
transaction of the inbox, with both `INSERT IGNORE`s. `topic` is a set: any
message in it may come again. `Skip` is the consumer's offsets passing a message
that is not in the inbox, which findings 1 and 4 say may happen; it is then in
`skipped` and comes no more, unless it is published again.

`DumpBegins` opens the read view of `mysqldump`, `DumpEnds` writes the file;
`Archive` copies the binlog to the host, which `backup.sh` does only when it is
run, after its dump (`full`) or by itself (`binlogs`). What is committed after
the last run is in no copy. `backup` is where a recovery leads to: the tables of
the last dump, or from there to the end of the archived binlog. A recovery from
the dump although a newer archive exists is that of a behaviour without the
`Archive`, on which nothing else depends. The dump and the archive are of the
first site, the only one `backup.sh` knows. `CountOrders` and `ReadStock` are
the two statements of the reconciler's snapshot. `safe` is bookkeeping: the
orders that clients had been told of when the read view was opened or the binlog
copied.

`Lose` ends the site. `Restore` starts a new one from the backup, on an empty
topic and a new group: the experiment gives both a name of their own for each
site, and creates the topic before the consumer starts. The AUTO_INCREMENT
counter stands in the dump but not as of its read view, so it may be anything
between. `StartApi` lets orders in again before `Resume` executes what
`replay-scope` prints and starts relay and consumer (step R4 of EXP-18 leaves
the reset out, for there the consumer had caught up before the loss).

DEAD rows stay as they are: neither the replay scope nor the checks touch them.
`Lost` and `Mismatched` are the ledger check, `OrdersWithoutEvent`,
`InboxOrphans` and `NotifsWithoutOrder` the row checks, each evaluated in the
present state.

### OrderHistory

An order gets id and `created_at` before its COMMIT, and `created_at` is the
clock of whichever replica served it, to the millisecond. So `Place` may bring
an order with any free id at any time, also one behind the cursor. `NextPage` is
one request: one row more than the page is fetched, the page is cut, the last
row shown is the next cursor. `before`, `shown` and `again` are bookkeeping.
What comes into sight behind the cursor during a walk is not shown, and
`WalkIsExact` does not ask for it: it promises the orders that were there when
the walk began.

## What the runs check

| Run | Properties | Instance |
|---|---|---|
| `order_store` | `TypeOK`, `InventoryConserved`, `OneOrderPerKey`, `OneEventPerOrder`, `AnswersAgree`, `WaitsEnd`, `ImplementsPlaceOrder`, `EveryRequestEnds` | 3 requests, 2 keys, 1 article with one unit and 1 that does not exist, 1 retry |
| `outbox_relay` | `SentIsPublished`, `DeadMeansExhausted`, `ImplementsDelivery`, `EveryRowSettled` | 2 relays, 3 rows of which 2 undecodable, batches of 2, 2 attempts, 2 faults, 1 requeue |
| `consumer` | `TypeOK`, `WatermarkIsContiguous`, `NothingStranded`, `PipelineMoves`, `LagDrains` | 2 workers, a log of 4 messages, one of which cannot be decoded and one repeats an event, channels of 1, batches of 2, 1 crash, 1 shutdown |
| `consumer_single` | `CommittedIsProcessed`, `EverythingProcessed` | 1 worker, the same log, channels of 2, batches of 2, 1 crash, 1 rebalance |
| `breaker` | `OneProbe`, `OneCallPastOpening`, `CutsOff`, `Recovers` | 3 requests, 3 slots, threshold 2 |
| `cache` | `HitsBounded`, `OneLoad`, `SlotsAccounted`, `WaitersAnswered`, `HitsSettle` | 1 reader, 2 calls, versions: absent, created, ordered; 1 slot, queue of 1, TTL 2, negative TTL 1, `Second` 2, `StaleTTL` 2, `FillTime` 1 |
| `order_api` | `WithinRate`, `SlotsAreHeld`, `BacklogBounded`, `RefusalLeavesNothing`, `DrainedBeforeClose`, `BacklogReleases` | 2 clients, 1 slot, half a token a tick and a burst of one, backlog limit 1, 1 row at the start, 1 COMMIT in limbo, samples every tick, 1 failed sample in a row, `Grace` 1, `ShutdownTimeout` 2 |
| `recovery` | `NoFalseAlarm`, `LossBounded`, `NothingForgotten`, `NotifiedRightly`, `EveryOrderNotified` | 2 keys, one unit, 2 ids, 1 injected event, 1 dump, 1 disaster |
| `history` | `WalkIsExact` | 5 ids, 3 times, limits 0 to 3 of which 0 is not allowed |
| `consumer_overtaken`, `breaker_stuck`, `cache_old_values` | `CommittedIsProcessed`, `AlwaysRecovers`, `OldValuesBounded`, violated | see [findings](#what-the-specification-found) |

`MCConsumerShutdown.cfg` and `MCConsumerRebalance.cfg` are further instances in
which a property is violated, described there. `MCRecoveryTwoOrders.cfg` is a
second instance of `Recovery`, which passes: two orders and no injected event
(509 000 states).

Where a type invariant or an invariant that follows from others is proved for
every instance, its run does not repeat it.

**Why the bounds are enough.** Three requests over two keys are the least that
make two waiters behind an owner that rolls back (the deadlock), a replay beside
a conflict, and two buyers of the last unit while a third waits. One retry shows
both branches of `withTxRetry`; its limit of the code is larger and changes
nothing but the count. `MaxId` is 6 because each of three requests can use one
value for each of its two attempts, so the counter never runs out. In
`outbox_relay` the two undecodable rows fill a batch, so the row behind them
depends on their being given up, and two relays with two attempts make a lost
attempt and a save after a requeue. In `consumer` channels of one fill at once
and the log has a message that cannot be decoded between some that can. The
breaker needs two requests, and two slots, for a late swap to be overtaken by a
whole probe of another, and a third for one that comes after both. An order
touches one article, so a second one in stock would add nothing to
`order_store`. In `cache` two calls are one that is delivering and one that has
been started after it; the reader that gave up and comes again is the second
reader (singleflight tells them apart by nothing), and `CacheProofs` has any
number; one slot can be taken by another key. Ages are counted up to `MaxAge`,
the largest age that a property tells from a smaller one. `Second` is one tick
more than a second has, because an EXPIRE need not come at a tick; it is as long
as a positive key lives and longer than a negative one, so EXPIRE lengthens
lives as well as it cuts them short. In `order_api` two clients are one that has
the slot and one that is refused, or one that is told to wait while the other's
order is counted; half a token a tick makes the fraction of the bucket matter,
one failed sample makes `pending` as stale as `BacklogBounded` allows for, one
COMMIT in limbo comes after every count, and the shutdown's two ticks are
exactly what `DrainAssumption` asks for. In `recovery` two keys compete for one
unit and two ids, so an id that was lost can be given to the other key; one
injected event can take the id before the first order. In `history` five orders
over three times make ties, pages that end within one, and orders placed before
and behind every cursor.

**Symmetry** is not used: every passing instance of more than one process checks
liveness, too.

**Deadlock** is checked in the runs of the breaker, the cache and the history,
where requests never stop coming. The others stop when every request is
answered, every row settled, the log read, the process gone or the ids used up;
that nothing stops before is what their liveness properties say.

**Fairness.**

- `OrderStore`: statements, COMMITs, backoff timers and InnoDB's deadlock
  detection come to an end (`WF` of `Step(r)`). Submitting, lock-wait timeouts
  and failures are free: no progress depends on an error.
- `OutboxRelay`: the ticker fires and statements return (`WF` of `Drain(p)` for
  each relay). Faults are bounded by `MaxFaults`, which says that Kafka and the
  database are back in the end.
- `Consumer`: goroutines run, timers fire, a commit succeeds in the end (`WF` of
  `Flush /\ toCommit' = {}`), and Kubernetes replaces a process told to stop
  (`WF` of `Replaced`). Channel operations need only weak fairness because a
  full channel stays full until its one reader acts.
- `Breaker`: goroutines run and calls end (they have a timeout), requests keep
  coming (`WF` of some `Acquire`, not of each), time passes. The dependency's
  health and the clients' patience are not constrained; `Recovers` and `CutsOff`
  assume what they need of them in their premises.
- `Cache`: a call goes on and has its timeouts (`WF` of `Run(c)`), and time
  passes (`SF` of `Tick`: that a load is just then running does not stop a
  clock). Readers, Redis and the invalidation worker are not asked for anything,
  so `HitsSettle` holds although no DEL need ever succeed.
- `OrderApi`: a handler that waits for nobody goes on, and one whose deadline
  has passed is cut (`Runs(c)`); the sampler is scheduled and its query has a
  timeout (`Samples`); `main` goes on after `Shutdown`; time passes: `WF` of
  each, of the first three on the one variable that they all change. No server
  need answer and the relay need deliver nothing: `BacklogReleases` says only
  that a process does not go on refusing when the backlog is below the limit.
- `Recovery`: relay and consumer run on (`WF` of `Publish \/ GiveUp`, and of
  some `Process` or `Skip`), and a relay is not restarted each time between
  publishing and marking (`SF` of `Mark`). That each message is processed would
  be more than the consumer is sure of, so `EveryOrderNotified` leaves out what
  it has passed: an order is notified in the end unless its event is DEAD or was
  skipped unprocessed. No operator need do anything, so `EveryOrderNotified`
  speaks of a site that stays up.

## What the specification found

Three of them are runs in which TLC finds the property violated by what the code
does:

1. `consumer_overtaken`: the watermark starts at whichever message finishes
   first (`processor.go:255`). With 8 workers a later message may finish while
   an earlier one is in its transaction; its offset is committed, and a crash
   then skips the earlier one. With one worker it cannot happen
   (`consumer_single`), and after the first message it cannot happen either
   (`WatermarkIsContiguous`).
2. `breaker_stuck`: a request that turned the breaker half-open and is
   overtaken before its compare-and-swap (`circuitbreaker.go:110`) takes the
   probe count when the breaker is open or closed again. Its report gives
   nothing back (118-121), and from the next half-open on every request is
   refused although the dependency is healthy. By the same way a request gets
   through an open breaker. It takes two slots; the deployment has 8. The run
   `breaker` shows that this is the only way not to recover.
3. `cache_old_values`: a hit in `staleStore` extends the entry by a whole TTL
   (`cache.go:544`) and nothing counts from the last refresh, so the bound of
   twice the TTL in `cache.go:516` and EXP-08 does not hold. `OldValuesBounded`
   is generous: it allows that the value was already as old as `HitsBounded`
   admits when it was put there. The run has a TTL of 1 and a `StaleTTL` of 2
   ticks, for an entry must live more than one tick to be extended.

Two more are found by running TLC on the configuration named:

4. `MCConsumerShutdown.cfg`, `CommittedIsProcessed`: on SIGTERM a batch whose
   transaction was abandoned is still reported as finished
   (`processor.go:115`) and may be committed by the last flush.
5. `MCConsumerRebalance.cfg`, `LagDrains`: `partitionState` outlives a rebalance
   (`processor.go:250`). When another member moved the offset on, the watermark
   waits for an offset that this process never gets, and the lag never drains.
   With one replica this takes a rolling update or a broker that moves the
   group.

The rest are places where code and comment differ. The modules follow the code,
and `PROJECT.json` quotes both sides.

| Where | What the code does |
|---|---|
| `cache.go:497` | EXPIRE sets a second whatever is left, so it also keeps keys alive; and it shares DEL's context, so after a DEL that timed out it does nothing |
| `cache.go:227` | after `Close` the worker still works off the queue |
| `relay.go:6` | a failure of Kafka is not counted as an attempt |
| `outbox.go:98` | events are not sent in the order of their orders |
| `processor.go:30` | `MaxInflight` bounds each channel, not the messages in flight |
| `event-replay/main.go:61` | with a smallest id of 1 the first injected event gets id 0, not -1 |
| `reconcile/main.go:228` | an injected event, once consumed, makes the check fail |
| `reconcile/main.go:123` | only part of the snapshot is read in one transaction |
| `admission.go:67` | probes have the budget of reads |
| `backpressure.go:51` | a sample may be older than the interval, and failures keep one below the limit, too |

## What is proved

For every value of the constants (any number of requests, relays, slots, any
stock, any limits), from the named assumptions in the modules and nothing else.

**OrderStore** (`OrderStoreProofs`): type correctness, all the invariants of
`order_store`, `NotFoundMeansUnknown` (a replay finds its order), and that it
implements `PlaceOrder`. `IInv` adds to the invariants what they rest on. None
of them is inductive alone: that a COMMIT does not make a second order for a key
needs `KeyLocks` (who has inserted the row is alone, and no committed row
exists); that it does not oversell needs `StockLocks` (the unit seen by the
UPDATE is still there at the COMMIT); that orders do not share an id needs
`FreshIds`; that an event is not repeated needs `SpentRequests` (a request with
an event has nothing left to write); that answers agree needs `Answers` and
`Results`, which follow an outcome from the transaction to the client. The proof
splits the actions into those that only move a request (`SilentStep`, where
`LocksKept` says when a move respects the locks), those that decide
(`DecidingStep`), those that answer (`AnsweringStep`), `InsertOrderStep` and
`CommitStep`. `Refinement` then maps each action: the COMMIT to `Accept`, the
replay, the refusals, `Respond` and failures to the actions of the same meaning,
and all else to a stutter.

`WaitsEnd` is the lock order: behind every request that waits for a lock stands
one that can move, at most two locks away. The two locks are taken in one order,
the idempotency row before the stock, so an owner of the first may wait for the
stock (`OwnerMoves`) and the owner of the stock for nothing; `KeyLocks` says
that there is one owner, and `DupHasRow` that who met a committed row still
finds it. Two inserts that hold a shared lock after a rollback are the one
circle, and the one that InnoDB breaks. `EveryRequestEnds` rests on this.

`ModelMeansItsRules` is about `PlaceOrder` alone: any behaviour of the abstract
model conserves the stock, has one order per key, one request that created it,
verdicts that name it, and answers that are the verdict or an error. So
`ImplementsPlaceOrder` is worth what it claims, for this store or another one.

**OutboxRelay** (`OutboxRelayProofs`): type correctness, `SentIsPublished`,
`OnlyUndecodableDie`, `DeadMeansExhausted`, the action property `SentIsFinal`,
and that it implements `EventDelivery`. The strengthening is `HandsFitTable`
(what a relay is about to mark was acknowledged, and what it fetched was
committed) and `Kinds` (undecodable rows are never sent, decodable ones never
die). Why a save of a stale row never does harm is in them: the only rows saved
are undecodable, and the status saved goes with the count saved.

`Refinement` has a lemma for each action that the table or Kafka notices:
`WriteEnters`, `ProducePublishes`, `MarkSettles`, `SaveGivesUp` (a save gives
the row up, takes it up again, or is a stutter) and `RequeueTakesUp`. What a
relay has in its hands is old, so each of them needs the invariant: `IdsGoOut`
says that rows fetched as PENDING are still PENDING or SENT.
`PromiseMeansAtLeastOnce` shows what the promise is worth without any relay:
SENT implies in Kafka, SENT stays, and nothing that Kafka has is given up.

**Consumer** (`ConsumerProofs`): type correctness and `WatermarkIsContiguous`
without further assumptions; `NothingStranded` where there is no rebalance;
`CommittedIsProcessed` for one worker and no SIGTERM. `NothingStranded` is false
with a rebalance (finding 5), `CommittedIsProcessed` with two workers or a
SIGTERM (findings 1 and 4). Three invariants are behind them: `Reported`
(whatever a worker has reported, or is reporting, is in the inbox, unless the
process was told to stop), `Gapless` (what lies between a message the process
holds and the reader is held, too, or is done) and `InOrder` (the next message
that the one worker reports, `Front`, has nothing unfinished before it, and the
first one to be reported is where the watermark starts). `RunIsInterval` shows
what `Advance` does to the watermark: the run is an interval that ends before
the first message that is missing.

`PipelineMoves`, without a rebalance: as long as there is lag, the reader, the
committer or a worker can go on, for channels of any capacity. The three wait
for each other through two bounded channels, and a worker that reports waits for
the committer alone, which waits for nobody; so they could come to rest only on
a message that was dropped, or on an offset that nobody is going to commit.
`Gapless` excludes the first, `Marks` the second: what the watermark has reached
is with Kafka or its last message is in `toCommit`. `Unread` has the time before
the first message is finished. With a rebalance it fails the same way as
`LagDrains` does. `OffsetNeverBack` follows from `Marks`: without a rebalance no
step moves the group's offset back, no crash, shutdown or repeated commit.

**Breaker** (`BreakerProofs`): type correctness with the bound of the pool,
`OneProbe` and `OneCallPastOpening`, for any pool. The invariant behind them:
once the breaker is not closed, every call in flight is either from before it
opened, or came through the compare-and-swap, which lets one through at a time;
and when it is half-open none is from before. So whoever reports in half-open is
the probe.

`ProbeIsGivenBack` says how narrow finding 2 is: unless a compare-and-swap came
late, the probe count is taken only while a probe is in flight and the breaker
is half-open, so its report will give it back. It is what `Recovers` rests on.

**Cache** (`CacheProofs`): type correctness, `HitsBounded`, `OneLoad`,
`SlotsAccounted` and `NobodyLeftBehind`. `HitsBounded` is not inductive: an old
value with much time left would break it later. The invariant adds `RedisFits`
(age and time left together never exceed TTL and `FillTime`, or the time left
and the time since the last EXPIRE a second), `AgesFit` (nothing is out of date
that is current) and `LoadsFit` (what a running load holds has been out of date
for no longer than the load runs); `OneLoad` rests on `MapFits` (whatever runs
is what singleflight has under the key), `SlotsAccounted` on `SlotsFit`.
`NobodyLeftBehind` is what `WaitersAnswered` rests on: a reader waits only for a
call that is still to deliver, because what is in singleflight's map is running
(`MapFits`) and a call that delivers leaves nobody waiting. The proof of
`HitsBounded` needs no invalidation to succeed: those that do make hits fresher,
those that fail are its exception, the bound is due to the TTL alone.

**OrderApi and TokenBucket** (`OrderApiProofs`): type correctness, `WithinRate`,
`SlotsAreHeld`, `RefusalLeavesNothing`, `DrainedBeforeClose` and
`BacklogBounded`. `WithinRate` follows from `ahead + Refilled <= Capacity`: what
was given out in advance and what is still in the bucket come from the same
store. `SlotsAreHeld` counts the requests that hold a slot, which each action
changes by one at most. `RefusalLeavesNothing` needs `ReqFits`, which says for
each place in the chain what a request there may have done. `DrainedBeforeClose`
rests on `DrainFits`: while the process drains, the time since SIGTERM and the
time a request has left never exceed `ShutdownTimeout`, because
`DrainAssumption` says that the last request to arrive still fits. So the guard
of `StopServing` that looks at the clock opens only when no request is left.

`BacklogBounded` has an invariant of its own, `BInv`. No step but a tick raises
the `Potential`: the rows that are there or in limbo, the orders that hold a
token, and the tokens still in the bucket. A count sees all rows but those in
limbo, which are `MaxLimbo` at the most. When a count under the limit is made,
`TokensFit` bounds what is above that count: the orders that hold a token are no
older than the budget of writes, and the rate and the bucket admitted no more in
that time. `CountFits` takes this to the moment the count is stored, and
`OpenFits` from there to the next one that is, through every sample that fails,
with `Remaining` as the ticks that are left. While the last count is over the
limit, only orders past the check are still placed, and they are in the bound
already (`BacklogFits`). The bound holds for one process; rows that others add
come on top. With the rate limit or the backlog limit switched off there is
none, and the property says nothing.

**Recovery** (`RecoveryProofs`): type correctness, `NoFalseAlarm`,
`LossBounded`, `NothingForgotten` and `NotifiedRightly`, for any number of keys,
dumps and disasters. The invariant says of every copy of the tables, whether
live, read view or dump, that it is `Sound` (each order has its event and the
stock its balance; an inbox row has its event; a notification of a real id has
its order) and that the live ids lie below the counter (`IdsFit`). `TopicFits`
carries it over the topic, whose messages come from rows that are still there;
`Copies` says that the orders of read view and backup are among the live ones,
`LedgerFits` that until a site is lost the clients' ledger is, too, and that
directly after the first recovery no id stands for another order. `SafeFits` is
what `LossBounded` adds: what clients were told of before a read view was opened
or the binlog copied is in the copy, hence in every site restored from it.

`NothingForgotten` is end to end, from the order's COMMIT to its notification,
through two relay steps, a topic that dies with its site and an inbox that is as
old as the dump. It needs `OnItsWay` (while relay and consumer run, what is SENT
and not in the inbox is in this site's topic, or was there and was skipped) and,
of every copy of the tables, `Traced` (an event has one order, an inbox row
comes with its order's notification). `Resume` is what makes `OnItsWay` true
again after a restore: the replay scope is exactly the SENT rows that no inbox
has. `NotifiedRightly` is the half of it that duplicates could break: an order
has one notification, for the client who placed it. Ids are given out again
after a loss, so a message of the lost site would notify another client's order;
that the new site has a topic of its own (`Restore`) is what the proof uses,
next to `OpenIsNew`: a key whose transaction is open has no order yet, so its
COMMIT cannot give an event a second one.

**OrderHistory** (`OrderHistoryProofs`): type correctness and `WalkIsExact`. The
invariant: whatever was shown does not lie behind the cursor. The order by time
and id is total on rows with different ids, which is what makes the page end
where the next one begins; with the time alone (`SlipBehind`) it is not.

## What is only model-checked

The liveness properties (`EveryRequestEnds`, `EveryRowSettled`, `LagDrains`,
`EverythingProcessed`, `Recovers`, `CutsOff`, `WaitersAnswered`, `HitsSettle`,
`BacklogReleases`, `EveryOrderNotified`): the prover does not handle liveness
under fairness. Every safety property of a passing run is proved, and so is a
safety property that some of these rest on: `WaitsEnd` for `EveryRequestEnds`,
`PipelineMoves` for `LagDrains`, `ProbeIsGivenBack` for `Recovers`,
`NobodyLeftBehind` for `WaitersAnswered`, `NothingForgotten` for
`EveryOrderNotified`.

## What is not modelled

- Quantities other than one, prices, users: the handler refuses other
  quantities, and a key stands for a user and an idempotency key.
- Partitions beyond one in `Consumer` (they share the channels, not the
  watermark); payloads; metrics; configuration; start-up (`InitSchema`,
  `ensureTopic`); `GetProduct`, `GetStock` and `GetLatestOrder`, which are
  single reads and whose answers are outcomes in `Cache` and `OrderApi`.
- In `Cache`: coalescing switched off (an experiment's control), and values in
  Redis that cannot be parsed, which `fillBack` never writes. `Close` against
  handlers that outlive the shutdown is in `OrderApi`.
- In `OrderApi`: `BAD_MODE` (an experiment's switch that answers 500 before
  anything is done), the metrics server, and bodies and headers.
- In `Recovery`: a second article, `RequeueDead`, and the global counts of a
  snapshot, which are printed and compared with nothing. The archived binlog
  ends with a whole transaction, `Archive` being that moment: a tail torn
  because tar reads while MySQL writes (EXP-18:163) comes after it. A second
  site is lost and rebuilt from the same backup, not backed up itself.
- InnoDB's locks that these statements do not meet: gap locks, and the locks of
  the order's and event's rows, whose keys are never shared.
- The load tests, the dependency simulator and the deployment, from which the
  bounds and the number of processes are taken.

## Plan

Done: the order store and its refinement, outbox and relay and what they promise
of an event, consumer, breaker, cache, the API process with its admission,
recovery with the composition of order, outbox, topic and inbox, pagination; the
proofs of all of them, and of what the two abstract specifications are worth by
themselves.

Left: the liveness of the composed pipeline from abstract specifications of its
parts; several partitions.
