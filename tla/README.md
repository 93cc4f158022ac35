# token-price-proxy in TLA+

A verification development for the token price proxy: TLA+ modules translated
from its Go code, TLC configurations that check them on small instances, and
proofs for TLAPS that hold for every value of the constants. Paths are relative
to the root of the repository; `price_service.go` and the like stand for
`internal/module/price/service/price_service.go`, and so on.

- [The system](#the-system): components, state, operations, what is hard
- [Modules](#modules) and [runs](#runs): what models what, what is checked
- [Coalescing](#coalescing-of-price-requests), [the coin queue](#the-coin-queue),
  [historical prices](#historical-prices),
  [logs and notifications](#logs-and-notifications),
  [the choice of sources](#the-choice-of-sources), [data sources](#data-sources),
  [tokens, limits and handlers](#tokens-limits-and-handlers): correspondence,
  bounds, fairness, proofs
- [What is proved](#what-is-proved) and
  [where code and comments disagree](#where-code-and-comments-disagree)
- [Not modelled](#not-modelled) and [plan](#plan)

## The system

The proxy answers HTTP requests for current and historical token prices from a
Redis cache, and asks several data sources on a miss. Several processes ("pods")
share one Redis and one Postgres; within a process every request, every worker,
every ticker and every received message is a goroutine.

| component | state | operations | hard behaviour | what makes it correct |
|---|---|---|---|---|
| request coalescing (`price_service.go` 40-578, 1081-1128) | in memory: three `sync.Map`s (key → waiting calls, call → keys it waits for, call → channel); in Redis: unique set, queue, cached results, a pub/sub channel | `GetPrice`, `GetBatchPrice`, `WaitFor(Batch)Result(s)`, `EnqueueUniqueRequest(s)`, `ProcessPriceRequests`, `NotifyProducer`, `processMessage` | unlocked read-modify-write of the maps; results before or after the timer; sends on closed channels; lost messages; crashes | each call ends, once, with prices quoted for its tokens; no key is fetched twice at a time or refused for ever; `ok` means cached |
| source selection (`price_service.go` 580-1079) | the sets of coins without a price, per source | `FetchAndProcessBatchPrices`, `GetHistoricalPrice`, `GetBatchHistoricalPrice` | a price overwritten by nil, order of sources, a source that fails for part of a batch | every token gets the price of the first source that has one |
| coin queue (`coins_repository.go` 57-179, 371-509) | Redis list and set, `coins` table, lock | `AddToQueue`, `ProcessQueue`, `UpsertCoins` | push against drain, expired lock, failed batch, crash with the lock | drains exclude each other; what is read is written before it is deleted |
| coin store (`coins_repository.go` 180-369, 510-527) | cached coins, `coins` table | `GetCoinsByID`, `GetCoinsByOneID`, `RefreshCoinListCache`, `RefreshAllCoinsCache`, `DeleteCoinByID` | cache refreshed from an old read; recursion over associated coins; cache deleted before the commit | the cache comes to agree with the table |
| historical price queue (`coin_historical_price_repository.go`) | Redis list and sets, table of prices, cached prices | `SaveHistoricalPrices`, `ProcessQueue`, `GetHistoricalPrices` | results matched to requests through two iterations of a map; pipelined reads | one queued price per coin and day, the latest |
| log and notification queues (`request_log_repository.go`, `slack_notification_repository.go`) | Redis lists and a sorted set | add, drain, top notifications | the scheduler deletes the list whether the drain failed or not | an entry is handled or still queued |
| scheduler (`scheduler.go`) | tickers, one Redis lock per job | one loop per job | tick in several pods, lock that expires, crash | a job runs in one pod at a time and runs again |
| Redis lock (`shared/redis.go` 170-187) | a key with a time to live | `AcquireLock`, `ReleaseLock` | no owner in the key; lost answers; expiry | mutual exclusion while the time to live lasts |
| coins throttler (`shared/coins_throttler.go`) | counts per coin, blacklist | count, block, release | counts of concurrent calls | a coin is blocked exactly after the allowed failures |
| rate limiter (`rate_limiter_service.go`, middleware) | Redis counters, cached tokens | one check per request | window boundaries, missing time to live | no more than the limit per window |
| application tokens (`app_token_*.go`) | cached tokens, table | create, update, delete, look up | cache against table | a deleted token is not served |
| price controller (`price_controller.go`), the server's contexts | the response of a connection's context, a goroutine per batch | one handler per kind of request, `withTimeout`, deferred logs | a goroutine outlives its request and writes to a context that is in use again; panics | a client gets its own answer; a batch ends; what was answered is logged |
| data sources (`*_gecko*_service.go`, `defi_llama_service.go`, `dodoex_route_service.go`) | cached prices, rows, lists of chains, token data, the hits of a network | current and historical prices of one coin or a batch | caching, saving and answering in different orders; an error in the middle of a batch; two commands for a counter | a price is of the coin and day it is filed under; the limit ends; errors stay with their coin |
| coins controller, alerts, configuration, bootstrap | none of their own | parsing, formatting, HTTP calls, wiring | - | - |

They interact as follows. A controller calls the coalescing pipeline; its worker
calls source selection, which calls the data sources, updates the throttler and
hands prices to the historical queue. Draining the historical queue puts coins
on the coin queue. The scheduler's tickers drain the queues and refresh the cache
of coins. Everything that is shared between processes is in Redis or Postgres;
the maps of the pipeline are shared by the goroutines of one process.

`PROJECT.json` lists every component and, at its line, every hazard.

## Modules

| module | role |
|---|---|
| `PriceAnswers` | abstract: what a caller of the price service is promised |
| `PriceCoalescer` | the coalescing pipeline; implements `PriceAnswers` |
| `RedisLock` | the lock of `shared/redis.go`, extended by the modules that use it |
| `CoinQueue` | coin queue, upsert, cache refresh and their two scheduler jobs |
| `DrainedQueue` | abstract: what a queue that is drained into a table promises |
| `HistoricalQueue` | saving, draining and looking up historical prices; implements `DrainedQueue` |
| `TaskQueue` | the queues of request logs and of notifications, and the top notifications |
| `CoinsThrottler` | the throttle of coins, command by command |
| `PriceSources` | which source is asked for which coin; extends `CoinsThrottler` |
| `DataSources` | the five clients of the sources around one cache, table and history |
| `AppTokens` | tokens with their cached rates, and the rate limiter |
| `PriceHandlers` | requests from the middleware to the response; extends `AppTokens` |
| `MC*`, `*.cfg` | instances of these for TLC |
| `*_proofs` | theorems about the module of that name; those of `PriceSources` are also about `CoinsThrottler`, those of `PriceHandlers` about `AppTokens` |
| `PositionLemmas` | lemmas about the greatest position of a list, for the proofs of the queues |

Actions carry the names of the functions, variables those of the maps, columns and
Redis keys, where TLA+ allows it. The section "Planted bugs" of a module holds
wrong variants of its definitions: with one of them in the place of the right one,
the property it is paired with in `PROJECT.json` fails. No action uses them.

How the modules meet. `PriceCoalescer` takes source selection as a function that
quotes a price or none for each coin, which is what `PriceSources` describes in
full; `PriceSources` takes each source as one that finds any subset of what it is
asked for, which `DataSources` describes. `DataSources` takes the history as saved
and looked up in one step, which `HistoricalQueue` describes; that one hands the
coins of today's prices to `AddToQueue`, described in `CoinQueue`. `CoinsThrottler`
saves notifications, whose queue and release are in `TaskQueue`; the release of
its keys is an action of its own (`Release`). `PriceHandlers` takes the service as
one that answers or fails at any time. So a fault or a delay of one part is a
choice that the model of its caller allows.

## Runs

| run | instance | shows |
|---|---|---|
| `batch` | a `GetPrice` and a `GetBatchPrice` that share a key | `NoDeadEntries`: an ended call is in no shared map; `OkMeansCached`, `PricesAreQuoted` |
| `race` | a `GetBatchPrice` of two keys, two worker and two message goroutines, one fault, fair | `TypeOK` with the capacity of the channels; `OneFetchPerKey`; `RequestEnds`, `HandlersEnd`: a goroutine blocked in its send with the mutex held still ends; `QueueDrains`, as long as one worker has its script |
| `pods` | two processes, one call each, one fault or crash | `QueueMatchesSet`, `AnswersSpec` |
| `drain` | two `AddToQueue` in two processes, each of which drains, and a ticker; batches of one; one fault | `TypeOK`; `DrainsAreExclusive`; `OnlyUnreadAreLost`: what a drain deletes unwritten was pushed after it read the list, or the drain gave up |
| `settle` | a drain, an edit and a whole refresh, which rewrites the source of another coin, in two processes, one fault or crash, one lock that expires early, fair | `EntriesLeave`: no entry stays for ever, also when the holder of a lock dies; `CacheSettles`: the cache ends up equal to the table |
| `empty` | a drain and an edit | `NeverEmptied` fails |
| `historical` | two saves that share a day, one of them with two prices of it, a ticker, a lookup; batches of one; one fault | `LastPushedWins`, `MarkedAreQueued`, `LookupsAreCurrent`, and the refinement `DrainedAsPromised` |
| `tasks` | three callers, two workers, two tickers, one fault and one midnight, for logs and for notifications | `TakenAreWritten`, `WrittenOnce`, `CountersAreExact`, `TodaysAreReleased` |
| `select` | two requests in each of three modes, an associated and an unknown coin, three kinds of rows, one prohibited source, one fault | `CountsExpire`, `PricesAreOwn`, `GivenUpAfterAll`, `FirstPriceStays` |
| `prohibited` | the same, with CoinGecko prohibited | `ProhibitedNeverAsked` fails |
| `calls` | a batch of two coins next to a call for one of them, for every source, for now and for past days, DefiLlama also answering under a strange key, one error anywhere | `PricesBelong`, `CachedAreSaved`, `PricedHaveRows`, `NetworkReopens`, `QuotesAreAnswered`, `FreshAreAsked` |
| `requests` | casts of up to four requests and changes of a token, a rate that is no whole number, one error, fair | `WithinRate`, `CachedIsCurrent`, `OwnAnswers`, `BatchesEnd`, `AnswersAreLogged` |

`CHECK_DEADLOCK FALSE` is there where calls are one-shot: once all have ended
nothing is left to do. Where tickers tick for ever (`drain`, `settle`, `empty`,
`historical`, `tasks`) deadlock is checked.

## Coalescing of price requests

### Correspondence

`PriceCoalescer` makes every access to a shared map, a channel or a Redis key a
step of its own, since no lock covers two of them. A call goes through `pc`:

    idle -> open (GetPrice) -> probe (ProbeCache, one key at a time)
         -> load/store (the unlocked update of keysRequestIDMap) -> keymap
         -> enqueue (the Lua script, atomic) -> wait
         -> read (ReceiveOk) or direct (TimeOut)
         -> unchan -> unkeys -> close (the deferred deletes) -> done

`GetPrice` registers before it waits, `GetBatchPrice` stores its key map only
after it has registered all of its ids; the module keeps both orders. A Redis
error ends the call (`RedisFails`). The timer of the `select` may fire at any
time while a call waits. The worker of each process goes through `worker[p]`:

    starts -> pops (LoadScript) or returned (LoadScriptFails)

It loads the script once (429-435); if that fails it returns, and its process
lives on without a worker. A Redis that restarts keeps its data and loses the
script (`ScriptsLost`): a worker past its start then runs the same hash in vain
for ever (440-444), as `PopRequests` needs the script, until a process that comes
back loads it again. A working worker pops up to `FetchSize`
entries and removes them from the unique set in one script (`PopRequests`), cuts
them into batches of `BatchSize` (`Batches`), and for each batch fetches, caches
and publishes key by key (`FetchJob`, `SetResult`, `NotifyProducer`); it pops again
only when all batches are done. A message becomes a goroutine (`message[h]`) with
one task per waiting call (`at[h][i]`): load the key map, lock, delete the key,
check whether the map is empty, send; the deferred delete of the entry is
`DeleteRequestKey`. `SendOk` is enabled only while the channel has room, which is
how a send blocks with the mutex held. `SendOnClosedChannel` and
`ConcurrentMapWrites` end the process, as the Go runtime does.

What is abstracted:

- a key is a model value; two keys that differ in symbol or network share a coin
  (`CoinOf`), as their results share a cache key;
- source selection is a function that quotes a price or none for each coin;
- a call that bypasses the cache only runs source selection and is left out;
- the cached results expire at any time (`ExpireResult`), within the fault bound;
- `append` to a loaded id list copies it. In Go it may write to the spare
  capacity of an array several lists share, which needs at least three ids; the
  effect, a lost id, is one that `StoreRequestIDs` has at every length;
- the number of goroutines that handle messages at a time is `Handlers`;
- a restart of Redis is `ScriptsLost`; what else it does to a worker (an EvalSha
  that fails and is tried again) is a delay. The scripts of the calls are run by
  text and need no loading.

The abstract specification `PriceAnswers` has no machinery at all: sources quote
prices; a request is opened and then answered once, token by token with a quoted
price or none, refused, or abandoned with its process. The refinement
(`AnswersSpec`) maps the stages of a call to these states and `answer` to the
reply; a late `ok`, a message for a dead call or a second timer may do nothing
visible.

### Bounds and fairness

Two calls, two keys and two goroutines are what the races need: a lost id takes
two calls for one key, a message for a call that is still registering two keys of
one call, and sharing a Redis two processes with a call each. One price suffices,
as a wrong price shows as one never quoted for its coin. `MaxFaults` = 1 lets each
kind of fault happen at every point; two faults only shorten calls that have
failed already. The processes of `pods` are interchangeable with their calls and
goroutines, and so are declared symmetric (`Alike`); the run has no liveness.

Fairness: a goroutine that can take a step takes one (weak fairness on a call
that has begun, on the worker and on each message goroutine), which is what the
Go scheduler does; the timer of a `select` always fires, so that a waiting call
has a step. No fairness for new calls, faults and crashes.

`QueueDrains` says that every queued key is popped, unless no worker is left that
can (`NonePops`): each has returned, or runs a script that Redis has lost. This
is what the code does; nothing restarts a worker but the restart of its process.

### Proofs

`PriceCoalescer_proofs` proves, from the named assumptions on the constants only:

- `TypeCorrect`. `TypeOK` is not inductive: that `SetResult` writes a quoted
  price needs `JobsOK`, which describes a batch at each of its stages. The
  capacity of the channel is part of it.
- `QueueMatchesSetCorrect`. Inductive as it stands, once a lemma says what the
  filter of the Lua script returns (`SelectionIsExact`).
- `OneFetchPerKeyCorrect`. It rests on `QueueMatchesSet`: a popped prefix lists
  no key twice, and the batches are disjoint intervals of it.
- `OkMeansCachedCorrect`. The invariant `OkInv` follows a key from the worker to
  the call: a key is announced only when its result is cached (`Announced`); a key
  that has left a stored key map is served (`KeyMaps`); a task past its delete
  (`Tasks`) and a channel with an `ok` (`Channels`) belong to calls all of whose
  keys are served; and a served key stays served (`ServedKept`), an expired
  result counting as such.

- `PricesAreQuotedCorrect`. Inductive together with the types: the property
  says of every place that holds a price (the batches of a worker, the cache, the
  calls) whose coin it was quoted for.
- `NoDeadEntriesCorrect`. The invariant `EntriesLive` is the order of the deferred
  deletes: a call is in the channel map only before it has left it, and in the
  key map only before it has left that. A step of another goroutine never puts a
  call into either.
- `AnswersCorrect`: every step of the pipeline is, under the refinement mapping,
  one of `PriceAnswers` or changes nothing there (one lemma per abstract
  action, then one step per action). The invariants used are `TypeInv` and
  `PricesAreQuoted`: the answer of a call is a price quoted for each token.

Only model-checked: the liveness properties, which are out of reach of the
prover.

## The coin queue

### Correspondence

`CoinQueue` has four kinds of goroutines: calls of `AddToQueue`, edits
(`AddCoin`, `UpdateCoin`), and the tickers `StartCoinsProcessQueue` and
`StartSyncCoinsCache` of each process. Through `pc`:

    AddToQueue:   idle -> push -> length -> lock (the list is long) or done
    ticker:       idle -> lock            (Tick takes the lock of the job)
    ProcessQueue: lock -> read -> upsert <-> refresh -> cache -> delete
                  -> clear -> unlock;  upsert -> abort -> unlock on an error
    ticker:       untick -> idle          (EndTick)
    edit:         idle -> upsert -> refresh -> cache -> done
    cache ticker: idle -> update -> refresh -> cache -> untick

`AddToQueue` reads the coins from the cache (its caller, the drain of historical
prices, does so before) and pushes each; `PushCoin` has no test for membership
because the code asks in a pipeline that has not run. `UpsertCoins` takes batches of
a map in any order; `Upserted` lets the first coin of a batch decide whether the
column is written, for all of them. A refresh reads the rows in one step and writes
the cache in another; that of all coins first sets the price source of every row
that CoinGecko lists (`SetSources`, `coins_repository.go:358`), which the module
takes for the column of the coins in `Listed`, set to `Gecko`. `DropQueue` deletes
the whole list, after the upsert and again in the deferred function, which also runs
after an error (`abort`).

`RedisLock` keeps in `holder` who set the key, which no code reads. `ExpireLock`
lets the key go at any time: when its holder has died or has given it up that is
free; while the holder still counts on it (`InUse`) it is an overrun, at most
`MaxOverruns` of them. A SETNX whose answer is lost may have set the key.

What is abstracted: a coin is its id and one nullable column that stands for all
of them; the rows exist from the start; the pipeline that pushes one coin, the
scan that deletes the set keys and the pipeline that caches the rows are one step
each; the five minutes and four hours of the tickers and the intervals between
attempts are interleaving; coins associated with another coin and deletion are
left out. A failed commit ends a drain like a failed statement. The loop that
retries deadlocks (`coins_repository.go:475`) never comes to a second attempt,
because the error carries a prefix by the time it is compared (158, 481), and so
`UpsertFails` gives up at once.

### Bounds and fairness

Two drains in two processes are needed and enough for every race on the
lock; a batch of one coin, with two coins queued, makes a drain of several
batches, each of which can fail; a `RunSize` of one or two makes `AddToQueue`
drain, where the code has 1000. Two attempts at the lock stand for three: they
tell a first, a further and a last attempt apart. One fault at every point
includes crashes at every point. In `settle` one coin and two values are what a
stale cache needs; the second coin is one that CoinGecko lists. `drain` has
496,211 distinct states, `settle` 239,314.

Fairness: goroutines keep running, tickers tick, and Redis removes a key whose
time has come when nobody uses it. Calls need not be made; faults need not
happen.

### Proofs

`CoinQueue_proofs` proves, from the named assumptions only, for any number of
processes, calls and coins:

- `TypeCorrect`. Needs `RowsFit`: what `rows` holds at "refresh" are ids and at
  "cache" coins.
- `DrainsAreExclusiveCorrect`, under the assumption `MaxOverruns = 0`, that no
  lock expires while it is used. It is needed: a drain longer than fifteen
  seconds goes on without its lock. The
  invariant `DrainsHold` says that a draining goroutine is the one that set the
  key; crashes, lost answers and the release of others keep it, because a goroutine
  releases the key of the queue only at the end of a drain of its own
  (`StagesFit`).
- `OnlyUnreadAreLostCorrect`, with early expiries and crashes. The invariant
  `DrainsCover` says that each entry a drain has read is written, or its id is among
  the coins still to be written; when it comes to the delete the latter are none.
  It starts from `LastOfEachCovers`: removing duplicates keeps a coin of every id
  of the list, whose proof needs the greatest of a finite set of positions
  (`Greatest`, from the well-foundedness of strict inclusion).

Only model-checked: `EntriesLeave` and `CacheSettles`, which are liveness.

## Historical prices

### Correspondence

`HistoricalQueue` has calls of `SaveHistoricalPrices`, calls of
`GetHistoricalPrices` for one coin and day, and the ticker
`StartCoinHistoricalPriceProcessQueue` of each process. A "day" of the module is a
coin and a day. Through `pc`:

    save:   idle -> cache (one price at a time) -> push (one at a time) -> length
            -> lock (the list is long) or done
    drain:  lock -> read -> write <-> write -> delete -> unmark -> unlock
            (write again from the first batch after a deadlock)
    ticker: idle -> lock ... unlock -> untick -> idle
    lookup: idle -> table -> fill -> done;  idle -> done if the price is cached or
            the day is today;  table -> failed if the query fails

`CheckMarks` keeps the mix-up of the code: the questions whether a day is marked
are issued in one iteration of a map and answered in another (67, 77), so any
permutation of the answers is possible. What the code does with a price whose day
is marked already, looking for an older entry in the list, reads the list in a
pipeline that has not run (91), so such a price is cached and no more. `WriteBatch`
is one transaction, `Upserted` the INSERT ... ON CONFLICT of its rows in order.
`Deadlock` starts with the first batch again (188-200); the last one, and every
other error, go on to the deletion of the list and of all marks (`DrainFails`),
which is where the code ends up through its deferred functions. A query of a
look-up that fails is logged and skipped (285-289): its caller gets no price and
no error, exactly as for a day without a row. "failed" is that end, kept apart
from "done" so that `LookupsAreCurrent` can say what all other look-ups find.

`DrainedQueue` is the queue without locks, marks, batches and retries: entries are
pushed; a drain reads the list, stores what it has read, and clears it only when all of
that is stored, unless something has failed. The refinement maps "a drain is
between its read and its delete" to the length it has read.

What is abstracted: a mark and its push are separate only where the pipeline can be cut
(`SaveFails`); the rows have a coin, a day and a price; what expires is a cached
price, at any time. That a drain hands its coins to `AddToQueue` is left to
`CoinQueue`.

### Bounds and fairness

Two saves of one day, one of which holds two prices of it, give three prices for
one row; batches of one make a drain of several transactions, and `MaxRetries` = 2
a retry and a last attempt. `RunSize` = 3 lets a save drain, or leave it to the
ticker. One fault at every point includes a crash at every point. `MaxOverruns`
is 0: a lock that expires during a drain makes two drains, of which the one with
the older list may write last; `CoinQueue` has a run with overruns. No liveness is
checked here, hence no fairness.

### Proofs

`HistoricalQueue_proofs` proves, from the named assumptions, for any number of
processes, calls, prices and days, any size of batches and any number of retries:

- `TypeCorrect`. Next to the types it says at which stages a goroutine of each
  kind can be (`StagesFit`), that the table is asked for past days only
  (`PastFit`), and that a drain has written no more than it has read
  (`WrittenFit`).
- `MarkedAreQueuedCorrect`, by `MarksInv`: the property with all stages of a drain
  but the one between its two deletions.
- `LookupsAreCurrentCorrect`, by `LookInv`: what is cached for today and what a
  save has in hand are prices to be saved, a row stays a row, and a look-up fills
  the cache with nothing that is missing. A look-up whose query has failed is
  excepted, as the code gives it no price.
- `LastPushedWinsCorrect`, for behaviours in which no lock has expired in use
  (`overruns = 0`). `LockInv` makes a drain the only one; then by `WriteInv` the
  list begins with what it has read, what it has written is stored, and
  the row of a day holds the last entry of that day written so far, also after
  a deadlock has sent it back to the first batch.
- `DrainedAsPromisedCorrect`, the refinement of `DrainedQueue`, for
  `MaxOverruns = 0`.

The restriction is needed and is the code's: with an expired lock two drains
write at once, and the one with the older list may write last.

## Logs and notifications

### Correspondence

`TaskQueue` is both queues, which share their code line for line up to what a
drain writes and when it deletes; `kind` says which. A caller puts its entry on a
bounded channel, or drops it (`Insert`); workers push it (`TakeTask`, `RunTask`).
Through `pc` of a ticker:

    logs:  idle -> lock -> read -> write ... -> late -> unlock -> tickdel -> untick
    slack: idle -> lock -> read -> early -> write ... -> unlock -> tickdel -> untick

"early", "late" and "tickdel" are the three places that delete the list: the drain
of notifications before it writes (`slack_notification_repository.go:135`), the
drain of logs at its end, and the scheduler, whether the drain failed or not
(`scheduler.go:132`, 150). `Units` merges notifications of a coin into a row with
a counter, in the order of a map. `Count` is the upsert, whose counter begins anew
for a row that is soft-deleted (187) and whose date becomes that of the last
notification about the coin in the list (137-148, 189). `ReadTop` and `ReleaseTop`
are `ProcessTopNotifications`: rows of the current day with the highest counters
(`TopSets`, 211-215), deleted one by one later; a delete may fail, and the process
may die with the rows it has read (`ReleaseFails`). At midnight (`Midnight`) the
rows of the day before are no longer looked at, unless there is a new notification.

Errors that the code ignores are steps as well: after a failed LRANGE the ticker
deletes the list that nobody has read (`ReadFails`), and a failed DEL of a drain or
of the ticker leaves the list (`DeleteList`).

What is abstracted: an entry is who sent it and the coin it is about; the throttle
keys that a release deletes are in `CoinsThrottler`; dates matter for notifications
only; the deletion of old rows is left out.

### Bounds and fairness

Three entries, two of them about one coin, against a channel of two, batches of
one and `TopSize` = 1, so that the channel overflows, a drain has several batches,
and a row must wait for its turn. Two tickers in two processes race for the lock.
`MaxDays` = 1: one midnight makes rows of today and of yesterday.
Fair are the top notifications, which a ticker runs each minute; nothing is
assumed of pushes, drains, faults and midnights.

`TodaysAreReleased` says that a row whose uncounted notifications are all of today
is released before the day ends, also if it is an old row that was released on
another day. Two things it does not say, as the code does not do them: a row left
over from yesterday is released only after a new notification about its coin, and
a row below the top ten may starve as long as others are notified about (the
property has finitely many notifications).

The other three properties allow for a declared failure, a process that died or a batch
that was written again, and say nothing of what is pushed between the read and a
deletion: that is lost, in this code, by every tick.

### Proofs

`TaskQueue_proofs` proves, from the named assumptions, for any number of callers,
workers and processes, any capacity of the channel and any size of batches, for
logs and for notifications:

- `TypeCorrect`.
- `TakenAreWrittenCorrect`, with early expiries and all faults. The rows of a drain,
  merged or not, cover what it has read (`UnitsFit`); those it has written are in
  the table, and unless something has failed it leaves the loop with all of them
  written (`TakenInv`).
- `WrittenOnceCorrect` and `CountersAreExactCorrect`, for behaviours in which
  nothing was declared to have failed or been written again and no lock expired
  in use. `OnceInv`: an entry is in one place on its way to the list (`OnePlace`); what
  a drain has read and not written is not in the table (`RowsAreNew`), nor is what
  is in the list, but for logs whose drain has yet to delete it (`ListIsNew`); and
  a live row counts what came in since its release (`Counted`). `LockInv` makes a
  drain the only one.

Only model-checked: `TodaysAreReleased`, which is liveness.

## The choice of sources

### Correspondence

`CoinsThrottler` has each command of `CoinsThrottle` as a step of one of several
requests: INCR, EXPIRE for the first, the query and SET, INCR and EXPIRE of the
alerted key (`Alert`, `ExpireAlert`, 136-141), DEL of the count. Each may fail
(`ThrottleFails`): the call returns, or goes on without the command, and after a
failed DEL it still reports the coin, whose count stays. The time to live of a key
is a label, and the key may go at any time (`ThrottleEnds`, `CountEnds`,
`AlertEnds`), a count or an alerted key only when it has one. `Release` is the
early release by `ProcessTopNotifications`. `RefuseChainIdMap` is `Refused`.

`PriceSources` goes through the queries of a request with `step`. A behaviour is
about one `mode`: current prices or historical prices of a batch, or the
historical price of one coin.

    batch:  StartBatch -> Query, one per element of Plan -> FinishBatch
            -> ThrottleNext and the steps of the throttle, coin by coin
    single: StartSingle -> AskSource, one per element of SinglePlan -> FinishSingle

`Plan` is the order of the code: the sources noted in the rows, then the default
ones, each for the coins that are still in its set (`left`). `Query` asks for the
ids of `AskAs`, gives a price to its coin and to the coins of the batch associated
with it (`MeantFor`), and takes only the ids found out of the sets (`LeftOf`), so a
coin that shares its price is asked again; throttled coins get a nil entry and a
notification. When the coins cannot be read the request ends at once, with nothing
asked and nothing throttled (597-600, 785-788, 898-901: `StartBatch`,
`SingleFails`). A single query checks the *noted* name of a source against the
prohibited ones (805) and then asks the service of that name, which is GeckoTerminal
for every name but two (`AskedFor`, 817-818). `DesignatedSet` includes that nothing
is asked of CoinGecko on-chain for being noted in the historical case.

What is abstracted: a source finds any subset of what it is asked; prices are
named by coin and source; keys of different dates of one coin are one; the
association of a coin is taken at the end of the chain that `GetCoinsByOneID`
follows, without cycles (`SourceAssumption`). The price a throttled coin keeps in
`PricesAreOwn` may be that of an earlier source.

### Bounds

Two requests that meet in the count of an unknown coin, each with one more coin,
associated or with a row: enough for a batch in which one coin is found, one
throttled and one shared. `MaxCount` = 2 instead of 3 tells a first, a further and
a last failure apart. The rows note each source at least once. `Refused` is empty
in the runs: a refused coin behaves like one that is always throttled. `select`
has 3,505,065 distinct states.

### Proofs

`PriceSources_proofs` proves, from the named assumptions, for any number of
requests and coins, any rows and any associations:

- `TypeCorrect`.
- `CountsExpireCorrect`: while no command has failed, a count or an alerted key
  without a time to live belongs to a request that is about to set it. Strengthened
  by: a request that throttles has a coin in hand.
- `PricesAreOwnCorrect`: `Own` and, for the single query, `SinglesFit`: the coin
  in hand is the end of an association from the start on.
- `FirstPriceStaysCorrect`, an action property. It rests on `FoundLeave`: a coin
  that has a price of its own is in no default set any more, and, as its
  designated source comes before, in no designated set that is still to be
  queried. So no later query, nor a throttle found by one, touches its entry.
- `GivenUpAfterAllCorrect`, by `OthersStay`: a coin without an entry is still in the
  set of each default source to come and has been asked of each that is past.

## Data sources

### Correspondence

`DataSources` has the calls of `job`, each for some coins of one source, now or
for a day, as a batch or not, with or without the cache. Each coin goes through
the stages of its source in `at[call][coin]`:

    current price:
      coingecko      look -> ready (one request for all) -> cache -> hold (saved for all)
      geckoterminal  look -> limit -> count -> expire -> request -> cache -> row
                     -> insert -> save
      onchain        platforms -> networks -> look -> request -> cache -> save
      defillama      chains -> look -> ready -> row -> insert -> cache -> save
      dodoex         look -> request -> cache -> save
    history:
      coingecko      past -> turn -> request -> hold;  today: look ...
      geckoterminal  past -> again -> info -> fetchInfo -> row -> insert -> pools
                     -> ohlcv;  today: look ...
      onchain        past -> platforms -> networks -> again -> pools -> ohlcv
      defillama      chains -> again -> request -> row -> insert -> save

What differs between the five is kept: what comes between the cache and the history
(the other coins of the call for CoinGecko, the row for GeckoTerminal), which errors
end a coin and which a call (`BreaksCall`, `RowFails`, `SaveFails`), that CoinGecko
answers a cached price also to a call for a fresh one (388), that a lost EXPIRE
leaves the count of a network without a time to live. DefiLlama's batch takes the
index of an answered key from a map without a test whether it is there
(`defi_llama_service.go:396`): a key of the answer that no coin of the call has
counts as index 0, and its price is answered, cached and saved for the first coin.
`Request` lets a price of `Stranger` come in that way (`Misfiles`, `FirstCoin`).
`SyncCoins` writes CoinGecko's list over the rows. A coin whose row cannot be read
or inserted goes through `RowFails`.

What is abstracted: of a price of the first coin and one filed under it by
mistake, the later stands, as the loop goes through a map; the first coin is a
fixed one of the call; there is one network, and the day does not change during a
behaviour; reading the history never fails, and saving it is one step (module
`HistoricalQueue`); a source has a price, has none, or fails, for each coin; a price is a
record of coin, day and call; associated coins are resolved by the caller;
GeckoTerminal's empty price after a failed history counts as none, as its callers
treat it, and its branch for an error with a price (251) is dead code. The
history of CoinGecko on-chain has no caller in the repository and is modelled as
it is written. The DODOEX route and the HTTP services are external.

### Bounds

A batch of two coins, one of which another call asks for at the same time, is what
the races on the cache, the row and the history need; the fourteen plans put each source
against a call that looks in the table or inserts, for now, for today and for a past
day, and with a coin of a chain DefiLlama does not know. One error at any point.
`Limit` = 1 closes the network at the second hit. The run has 2,105,940 distinct
states.

### Proofs

`DataSources_proofs` proves all six invariants of the run for any number of calls,
coins, days, jobs and faults, from `SourceAssumption`, `RouteAssumption` (the DODOEX
route has methods for current prices only) and `NoneAssumption` (`None` is neither a
source nor a price). The invariant `IInv`, which TLC has checked on the instance of
the run, has four layers:

- `Pair`, of a call and a coin: the stage is one of the source for the day asked
  for; the day is that of the job, or the current price of today is asked for
  instead; the price at hand is of that coin and day, is there before it is cached or
  saved, and is the call's own if the call is fresh (`Fits`). Cached token data are
  at work in the history of GeckoTerminal only (`Reusable`), a price had is at hand
  (`Quotable`), and a coin about to be saved has its row where the source
  checks it (`Rowed`).
- `OneCall`: a call has begun with all its coins or with none; it is broken only
  where its source breaks calls (`BrokenFits`), and DefiLlama has no price before
  every coin has its chain (`Chained`), which is why `QuotesAreAnswered` holds for it
  although a coin of an unknown chain ends the batch; what is answered is what is at
  hand (`Answered`).
- `StoresFit`, `RowsFit`, `SavedFits`: what is cached or saved is of its coin and
  day, but for the first coin of such a batch; a cached row is a row; a price that
  is cached is saved, or some call is at a stage from which it can only go on to
  save it (`Saves`). Every source caches first, and the call about to save may be
  another than the one that cached.
- `HitsFit`: the hits of a key without a time to live are covered by the coins
  between INCR and EXPIRE and by the lost commands.

A step of one coin is shown to be `Legal` for it, and `LocalStep` or `PlainStep`
carries the rest of the invariant; steps of a whole call go through `WholeKept`.
`PricesBelongCorrect` follows from `StoresFit`, `Answered` and `Fits`: a price that
is cached, saved or answered for a coin is one of that coin and day, or (`Belongs`)
one that a current batch of DefiLlama was given under a strange key, and then the
coin is the first of that batch. No other path misfiles a price.
`FreshAreAskedCorrect` follows from `Answered` and `Fits`, `QuotesAreAnsweredCorrect` from
`Quotable`, `BrokenFits` and `Chained`, and the other three from the layer named
for them.

## Tokens, limits and handlers

### Correspondence

`AppTokens` has the rows of a token (several, as `AddAppToken` inserts without a
look), its cached rate and the key of the rate limiter. `at` goes through

    look-up: look -> row -> fill          (GetAppTokenByToken)
    add:     save -> set
    update:  look ... clear -> save -> set
    insert:  the same, for an update without the id of its row
    delete:  clear -> save

with the cache cleared before the row is written. DEL and SET of the cache and of
the count may fail, which the code ignores (`FillFails`, `CommandFails`). `Allow` is
the Lua script, which lets a request in whose key is missing, whatever the rate, and
sets the time to live each time, so that the window slides. A rate is a float64
(`app_token.go:6`) that the script compares with a whole number: the module has
rates in units of 1/`Scale`, and `used >= rate` lets two requests in at a rate of
one and a half. `Tick` passes time; `Second` ticks are a second.

`PriceHandlers` takes a request from `Arrive` through the look-up of its rate to
`Refuse` or `LetIn`, its handler, and `Return`, where the server sends the
response of the context and uses the context for the next request of the
connection. A batch runs in a goroutine of its own (`fn`): parse, ask the service,
respond, log, the deferred log coming first when the handler returns an error. The
handler waits for it (`Finish`) or for three minutes (`TimeOut`, at any time). A
batch of historical prices that comes as a GET has its dates parsed into a variable
that shadows the one that is used (254), and the goroutine's panic ends the process
(`Panic`, kind "undated").

What is abstracted: a response is its kind and the request it answers; parameters
are parsed or refused, the service answers or fails, at any time; CORS is a
request that is answered at once ("preflight").

### Bounds and fairness

The casts are sets of requests and calls that come together: a batch, a single
request and a preflight on one connection, for what a late goroutine can write to;
four anonymous requests in one second against the default rate; two requests of a
token with a rate of one and a half (`Scale` = 2) against an update, a deletion or a
second row; a look-up against two changes. Two ticks tell the beginning of a second
from its end. One error of Redis or Postgres.

Fairness: handlers go on while the process is up; a batch has its deadline, so a
handler that waits has a step. Nothing is assumed of the goroutine. Of the cached
tokens no liveness is claimed: `CachedIsCurrent` is an invariant that says which
calls can leave a wrong rate behind (`outdated`, a history variable), and that no
other does: a call that had read or written the row before another changed it, a
look-up between the two steps of a deletion, a lost command. A look-up between the
clear and the commit of an *update* does not, because the update sets the cache
itself.

`rate_limiter_service_test.go:95-117` asserts that of ten requests in a row more
than five are let in at a rate of five. The script does not do that as long as the
ten come within a second of each other: `WithinRate` states, and
the proof shows, that there are at most five in a second. The test would need pauses in
which the key expires.

### Proofs

`PriceHandlers_proofs` proves, from the named assumptions, for any number of
requests, connections, tokens and calls:

- `TypeCorrect`.
- `WithinRateCorrect`. The invariant `Counts` ties the history to the key: a request
  let in less than a second ago is one of the `used` of its token, because the key
  lives longer than what is left of the second (`since[r] + ttl[t] > Second`), and
  `used` is at most a rate the token has had, rounded up, or one. An update or a
  deletion resets the key, which is what `reset` excludes.
- `CachedIsCurrentCorrect`. `Fresh`: what a look-up or a change is about to cache is
  the rate of the only row, or it is among those `behind`; and between the steps of a
  deletion nothing is cached, unless the token is `outdated`.
- `OwnAnswersCorrect`. The invariant says which goroutines are at work while their
  handler waits (`GoroutinesFit`), that a connection serves one request at a time
  (`OneAtATime`), and whose response a context may hold (`BodiesFit`).
- `AnswersAreLoggedCorrect`. `LogsFit`: as long as no batch has timed out, a
  response in a context is logged or its log is the next step of its request.

## What is proved

For every value of the constants, from the assumptions named in the modules
and no others; the inductive invariants are described with each component.

| module | theorems |
|---|---|
| `PriceCoalescer_proofs` | `TypeCorrect`, `QueueMatchesSetCorrect`, `OneFetchPerKeyCorrect`, `OkMeansCachedCorrect`, `PricesAreQuotedCorrect`, `NoDeadEntriesCorrect`, `AnswersCorrect` (the refinement of `PriceAnswers`) |
| `CoinQueue_proofs` | `TypeCorrect`, `DrainsAreExclusiveCorrect` (if no lock expires in use), `OnlyUnreadAreLostCorrect` |
| `HistoricalQueue_proofs` | `TypeCorrect`, `MarkedAreQueuedCorrect`, `LookupsAreCurrentCorrect`, `LastPushedWinsCorrect` (while no lock has expired in use), `DrainedAsPromisedCorrect` (the refinement of `DrainedQueue`, if no lock expires in use) |
| `TaskQueue_proofs` | `TypeCorrect`, `TakenAreWrittenCorrect`, `WrittenOnceCorrect`, `CountersAreExactCorrect` (while no lock has expired in use) |
| `PriceSources_proofs` | `TypeCorrect`, `CountsExpireCorrect`, `PricesAreOwnCorrect`, `FirstPriceStaysCorrect`, `GivenUpAfterAllCorrect` |
| `DataSources_proofs` | `TypeCorrect`, `PricesBelongCorrect`, `CachedAreSavedCorrect`, `PricedHaveRowsCorrect`, `NetworkReopensCorrect`, `QuotesAreAnsweredCorrect`, `FreshAreAskedCorrect` |
| `PriceHandlers_proofs` | `TypeCorrect`, `WithinRateCorrect`, `CachedIsCurrentCorrect`, `OwnAnswersCorrect`, `AnswersAreLoggedCorrect` |

Model-checked only: the liveness properties (`RequestEnds`, `HandlersEnd`,
`QueueDrains`, `EntriesLeave`, `CacheSettles`, `TodaysAreReleased`,
`BatchesEnd`), as liveness under fairness is out of the prover's reach. Every safety
property of the passing runs, state or action, and both refinements are theorems.

## Where code and comments disagree

Two are runs that TLC ends with a counterexample; `PROJECT.json` quotes the line.

| run | code | what happens |
|---|---|---|
| `empty` | `coins_repository.go:118` | a batch may overwrite a stored column with an empty one |
| `prohibited` | `price_service.go:838` | a single historical query falls back to sources that are prohibited for historical queries |

The models describe the following as the code does it, and the properties allow
for it where it matters:

| code | what happens |
|---|---|
| `price_service.go:548` | the mutex that "protects the access to the map" is local to one message: two messages delete from one map at once |
| `price_service.go:431`, 440 | a worker whose script is not loaded returns for good; one whose script Redis has lost tries it for ever |
| `price_service.go:158`, 550 | a call that registers while another does, or while a result is handed out, is registered nowhere and runs into its timer |
| `price_service.go:768` | the status 429 of a batch is kept in entries that are not looked at, so its coins are throttled like others |
| `price_service.go:700`, 1013 | coins that share the price of an associated coin are not taken out of the sets, and later sources replace their price |
| `coins_repository.go:383` | membership is read from a pipeline that has not run, so a coin is queued as often as it is added |
| `coins_repository.go:427` | a drain longer than fifteen seconds goes on without its lock, and releases that of its successor |
| `coins_repository.go:455`, 502 | what is pushed while a drain writes is deleted with the list |
| `coins_repository.go:481` | deadlocks are never retried, as the error carries a prefix (158) by the time it is compared |
| `coins_repository.go:530` | the throttle asks whether a coin exists with the key of a historical price, which no coin has |
| `coin_historical_price_repository.go:67`, 91 | answers are given to other questions; an older price in the queue is never found |
| `coin_historical_price_repository.go:285` | a failed query is answered like a day without a price |
| `slack_notification_repository.go:211` | rows left over from yesterday are not released until there is a new notification |
| `defi_llama_service.go:396` | a key of the answer that was not asked for counts as the first coin |
| `scheduler.go:132`, 150 | after a failed LRANGE the list is deleted unread |
| `app_token_repository.go:110` | a look-up during a deletion leaves the deleted token in the cache until it expires |
| `rate_limiter_service.go:45` | a rate that is no whole number is rounded up |
| `rate_limiter_service_test.go:95` | asserts more requests than the rate within a second, which the script does not let in |
| `slack_notification_repository.go:233` | the throttle keys of historical batches end in a time, not a date, and are not released early |
| `coin_gecko_service.go:388` | a fresh price that was just asked for is dropped for a cached one |
| `README.md:32` | a "manually configured" source in the row of a coin is overwritten by the next insert of a service and by `SyncCoins` |
| `price_controller.go:254` | the dates of a GET are lost and the process panics |

Read in the code, without a model: `REFUSE_CHAIN_IDS` of the environment has no
effect (`env.go:195`); a successful `UpdateCoin` answers "Failed to delete token"
(`coins_controller.go:81`).

## Not modelled

- The coins controller and the coin service: they pass their arguments on to
  `CoinRepository`. `DeleteCoinByID`, and the recursion of `GetCoinsByOneID` over
  coins that return another coin's data (which does not end on a cycle), are
  planned.
- `StartProcessDeleteOldData`: DELETE statements by `created_at`. For request logs
  these are rows nothing else reads. For notifications they need not be: the upsert
  does not renew `created_at`, so a live row that was inserted more than three days
  ago is deleted physically (`slack_notification_repository.go:266`), counter and
  all, and the next notification about its coin begins a new one. The counters of
  `CountersAreExact` are those of rows that are younger.
- Slack alerts: one HTTP call per alert, throttled per error.
- Configuration, environment, bootstrap, database connections, routing, logging:
  wiring, read at the start.
- HTTP requests and parsing of responses: what a source returns is a choice of the
  environment. Formatting of responses.
- Calls of `GetPrice` that bypass the cache: they only run source selection.

## Plan

`CoinStore`: deletion against refreshes, and associated coins, whose recursion is
checked against a reference definition over all small graphs of coins.

## Running

    tlc -workers 2 -config Coalescer_pods.cfg MCPriceCoalescer
    tlc -workers 2 -config CoinQueue_drain.cfg MCCoinQueue
    tlc -workers 2 -config Historical_queue.cfg MCHistoricalQueue
    tlc -workers 2 -config Task_queue.cfg MCTaskQueue
    tlc -workers 2 -config Sources_select.cfg MCPriceSources
    tlc -workers 2 -config Sources_calls.cfg MCDataSources
    tlc -workers 2 -config Handlers_requests.cfg MCPriceHandlers
    tlapm PriceSources_proofs.tla
