-------------------------- MODULE HistoricalQueue --------------------------
(***************************************************************************)
(* The queue of historical prices                                          *)
(* (price/repository/coin_historical_price_repository.go).  A save caches  *)
(* its prices, marks each new coin and day with a Redis set of its own and *)
(* pushes the price on a list; a drain, from a ticker of the scheduler or  *)
(* from a save that finds the list long, writes the list to the table,     *)
(* then deletes the list and the marks.  A lookup asks the cache, then the *)
(* table, and fills the cache.                                             *)
(*                                                                         *)
(* A day stands for a coin and a day.  Each worker runs in a process of its*)
(* own.                                                                    *)
(***************************************************************************)
EXTENDS Naturals, Sequences, FiniteSets, RedisLock

CONSTANTS
    Savers,       \* calls of SaveHistoricalPrices
    Tickers,      \* a StartCoinHistoricalPriceProcessQueue per process
    Lookups,      \* calls of GetHistoricalPrices
    Days, Today,  \* the coins and days, those of the current day
    Prices,
    None,         \* no price
    Saves,        \* Saves[s]: the prices call s saves, in order
    InitTable,
    RunSize,      \* historicalQueueRunSize
    BatchSize,    \* rows of one transaction
    LockAttempts, \* lockRetryCount
    MaxRetries,   \* maxRetries, of a transaction that deadlocks
    MaxFaults     \* bound on the other errors, the expired prices and the
                  \* deaths of a behaviour

Workers == Savers \cup Tickers \cup Lookups
Columns == Prices \cup {None}

ASSUME WorkerAssumption ==
    /\ Savers \cap (Tickers \cup Lookups) = {} /\ Tickers \cap Lookups = {}
    /\ Free \notin Workers

ASSUME PriceAssumption ==
    /\ None \notin Prices /\ Today \subseteq Days
    /\ Saves \in [Savers -> Seq([day : Days, price : Prices])]
    /\ InitTable \in [Days -> Columns]

ASSUME BoundAssumption ==
    /\ {RunSize, BatchSize, LockAttempts, MaxRetries} \subseteq Nat \ {0}
    /\ MaxFaults \in Nat

VARIABLES
    \* the goroutine of each worker
    pc,
    attempt,  \* of getting the lock, then of writing the table
    todo,     \* the prices a save has still to cache
    piped,    \* those it has still to push
    seen,     \* the list as the drain read it
    written,  \* how many of them are in the table
    asked, found,  \* the day of a lookup and the price it has found
    \* Redis and Postgres
    queue, marks, cache, table,
    \* history: the entries written; a write failed or a process died
    stored, broken,
    faults

lookVars  == <<asked, found>>
workVars  == <<attempt, todo, piped, seen, written, lookVars>>
queueVars == <<queue, marks>>
tableVars == <<table, stored>>
vars == <<pc, workVars, queueVars, cache, tableVars, broken, lockVars, faults>>

\* The keys of the locks.
QueueLock == "lock:historical_prices_queue"
TickLock  == "coin_historical_price_process_queue_lock"
LockKeys  == {QueueLock, TickLock}

Draining == {"read", "write", "delete", "unmark", "unlock"}
Stages   == Draining \cup {"idle", "cache", "push", "length", "lock", "untick",
                           "table", "fill", "done", "failed", "lost"}

Entry == [day : Days, price : Prices, by : Savers]
Elems(s) == {s[i] : i \in DOMAIN s}

\* The last entry of each day.
LastOfEach(q) ==
    {q[i] : i \in {j \in DOMAIN q : \A k \in DOMAIN q : k > j => q[k].day # q[j].day}}

\* The end of the batch that is written next.
Upto(w) == IF written[w] + BatchSize < Len(seen[w])
           THEN written[w] + BatchSize ELSE Len(seen[w])

Drains(w) == w \notin Lookups /\ pc[w] \in Draining

Goto(w, stage) == pc' = [pc EXCEPT ![w] = stage]

Fault == faults < MaxFaults /\ faults' = faults + 1

Init ==
    /\ pc = [w \in Workers |-> "idle"]
    /\ attempt = [w \in Workers |-> 1]
    /\ todo = [w \in Workers |-> {}] /\ piped = [w \in Workers |-> {}]
    /\ seen = [w \in Workers |-> <<>>] /\ written = [w \in Workers |-> 0]
    /\ asked = [l \in Lookups |-> None] /\ found = [l \in Lookups |-> None]
    /\ queue = <<>> /\ marks = {}
    /\ cache = [d \in Days |-> None] /\ table = InitTable
    /\ stored = {} /\ broken = FALSE /\ faults = 0
    /\ InitLocks(LockKeys)

-----------------------------------------------------------------------------
(* Planted bugs.  Each operator below is a wrong variant of the definition *)
(* of the same parameters it is paired with in PROJECT.json; no action uses *)
(* them.                                                                   *)

\* A day that has a price keeps it.
InsertedOnly(batch) ==
    [d \in Days |->
        IF table[d] = None /\ \E i \in DOMAIN batch : batch[i].day = d
                    THEN (CHOOSE e \in LastOfEach(batch) : e.day = d).price
                    ELSE table[d]]

\* The current day is looked up in the table, too.
LookInCacheThenTable(l) ==
    /\ l \in Lookups /\ pc[l] = "idle"
    /\ \E d \in Days :
          /\ asked' = [asked EXCEPT ![l] = d]
          /\ found' = [found EXCEPT ![l] = cache[d]]
          /\ Goto(l, IF cache[d] # None THEN "done" ELSE "table")
    /\ UNCHANGED <<attempt, todo, piped, seen, written, queueVars, cache,
                   tableVars, broken, lockVars, faults>>

\* Only the marks of what was read are deleted.
DeleteMarksSeen(w) ==
    /\ pc[w] = "unmark"
    /\ marks' = marks \ {e.day : e \in Elems(seen[w])}
    /\ Goto(w, "unlock")
    /\ UNCHANGED <<workVars, queue, cache, tableVars, broken, lockVars, faults>>

\* A transaction that deadlocked is skipped.
NextBatch(w) ==
    /\ attempt' = [attempt EXCEPT ![w] = @ + 1]
    /\ written' = [written EXCEPT ![w] = Upto(w)]
    /\ Goto(w, IF Upto(w) = Len(seen[w]) THEN "delete" ELSE "write")

-----------------------------------------------------------------------------
(* SaveHistoricalPrices.                                                   *)

\* The answers to the questions of the first loop are given to the prices in
\* the order of a second loop over the same map, which is another one.
CheckMarks(s) ==
    LET new == LastOfEach(Saves[s]) IN
    /\ s \in Savers /\ pc[s] = "idle"
    /\ \E answerOf \in [new -> new] :
          /\ \A e \in new : \E f \in new : answerOf[f] = e
          /\ piped' = [piped EXCEPT ![s] =
                {[day |-> e.day, price |-> e.price, by |-> s] :
                    e \in {f \in new : answerOf[f].day \notin marks}}]
    /\ todo' = [todo EXCEPT ![s] = new]
    /\ Goto(s, IF new = {} THEN "done" ELSE "cache")
    /\ UNCHANGED <<attempt, seen, written, lookVars, queueVars, cache, tableVars,
                   broken, lockVars, faults>>

\* A price whose answer was that its day is marked is cached, and no more: the
\* list it looks for an older one in is read in a pipeline that has not run.
CachePrice(s) ==
    /\ pc[s] = "cache"
    /\ \E e \in todo[s] :
          /\ cache' = [cache EXCEPT ![e.day] = e.price]
          /\ todo' = [todo EXCEPT ![s] = @ \ {e}]
          /\ Goto(s, IF todo[s] # {e} THEN "cache"
                     ELSE IF piped[s] # {} THEN "push" ELSE "length")
    /\ UNCHANGED <<attempt, piped, seen, written, lookVars, queueVars, tableVars,
                   broken, lockVars, faults>>

PushPrice(s) ==
    /\ pc[s] = "push"
    /\ \E e \in piped[s] :
          /\ marks' = marks \cup {e.day}
          /\ queue' = Append(queue, e)
          /\ piped' = [piped EXCEPT ![s] = @ \ {e}]
          /\ Goto(s, IF piped[s] = {e} THEN "length" ELSE "push")
    /\ UNCHANGED <<attempt, todo, seen, written, lookVars, cache, tableVars, broken,
                   lockVars, faults>>

CheckLength(s) ==
    /\ pc[s] = "length"
    /\ Goto(s, IF Len(queue) >= RunSize THEN "lock" ELSE "done")
    /\ UNCHANGED <<workVars, queueVars, cache, tableVars, broken, lockVars, faults>>

\* A pipeline is cut, also between the mark of a price and its push.
SaveFails(s) ==
    /\ Fault /\ pc[s] \in {"push", "length"}
    /\ \/ UNCHANGED marks
       \/ \E e \in piped[s] : marks' = marks \cup {e.day}
    /\ piped' = [piped EXCEPT ![s] = {}]
    /\ broken' = TRUE
    /\ Goto(s, "done")
    /\ UNCHANGED <<attempt, todo, seen, written, lookVars, queue, cache, tableVars,
                   lockVars>>

-----------------------------------------------------------------------------
(* ProcessQueue and its ticker.                                            *)

Tick(w) ==
    /\ w \in Tickers /\ pc[w] = "idle"
    /\ AcquireLock(TickLock, w)
    /\ Goto(w, "lock")
    /\ UNCHANGED <<workVars, queueVars, cache, tableVars, broken, faults>>

EndTick(w) ==
    /\ pc[w] = "untick"
    /\ ReleaseLock(TickLock)
    /\ Goto(w, "idle")
    /\ UNCHANGED <<workVars, queueVars, cache, tableVars, broken, faults>>

\* Back to the caller: the ticker, or SaveHistoricalPrices, which returns.
Leave(w) == Goto(w, IF w \in Tickers THEN "untick" ELSE "done")

Lock(w) ==
    /\ pc[w] = "lock"
    /\ AcquireLock(QueueLock, w)
    /\ attempt' = [attempt EXCEPT ![w] = 1]
    /\ Goto(w, "read")
    /\ UNCHANGED <<todo, piped, seen, written, lookVars, queueVars, cache, tableVars,
                   broken, faults>>

\* After the last attempt ProcessQueue returns no error.
LockTaken(w) ==
    /\ pc[w] = "lock" /\ holder[QueueLock] # Free
    /\ IF attempt[w] < LockAttempts
       THEN attempt' = [attempt EXCEPT ![w] = @ + 1] /\ UNCHANGED pc
       ELSE attempt' = [attempt EXCEPT ![w] = 1] /\ Leave(w)
    /\ UNCHANGED <<todo, piped, seen, written, lookVars, queueVars, cache, tableVars,
                   broken, lockVars, faults>>

ReadQueue(w) ==
    /\ pc[w] = "read"
    /\ seen' = [seen EXCEPT ![w] = queue]
    /\ written' = [written EXCEPT ![w] = 0]
    /\ Goto(w, IF queue = <<>> THEN "unlock" ELSE "write")
    /\ UNCHANGED <<attempt, todo, piped, lookVars, queueVars, cache, tableVars,
                   broken, lockVars, faults>>

\* The rows are inserted one by one; a day that has a row gets the new price.
Upserted(batch) ==
    [d \in Days |-> IF \E i \in DOMAIN batch : batch[i].day = d
                    THEN (CHOOSE e \in LastOfEach(batch) : e.day = d).price
                    ELSE table[d]]

\* One transaction.  After the last one the coins of today's prices are given to
\* AddToQueue (module CoinQueue): whatever it returns, the list is deleted next.
WriteBatch(w) ==
    LET batch == SubSeq(seen[w], written[w] + 1, Upto(w)) IN
    /\ pc[w] = "write"
    /\ table' = Upserted(batch)
    /\ stored' = stored \cup Elems(batch)
    /\ written' = [written EXCEPT ![w] = Upto(w)]
    /\ Goto(w, IF Upto(w) = Len(seen[w]) THEN "delete" ELSE "write")
    /\ UNCHANGED <<attempt, todo, piped, seen, lookVars, queueVars, cache, broken,
                   lockVars, faults>>

\* All batches are written again.
WriteAgain(w) ==
    /\ attempt' = [attempt EXCEPT ![w] = @ + 1]
    /\ written' = [written EXCEPT ![w] = 0]
    /\ UNCHANGED pc

\* After the last deadlock, as after any other error, the list is deleted.
Deadlock(w) ==
    /\ pc[w] = "write"
    /\ IF attempt[w] < MaxRetries
       THEN WriteAgain(w) /\ UNCHANGED broken
       ELSE /\ broken' = TRUE /\ Goto(w, "delete")
            /\ UNCHANGED <<attempt, written>>
    /\ UNCHANGED <<todo, piped, seen, lookVars, queueVars, cache, tableVars, lockVars,
                   faults>>

\* Another error of the database, or of Redis, which is noticed only on a read.
DrainFails(w) ==
    /\ Fault
    /\ \/ pc[w] = "read" /\ Goto(w, "unlock")
       \/ pc[w] = "write" /\ Goto(w, "delete")
       \/ pc[w] = "delete" /\ Goto(w, "unmark")
       \/ pc[w] = "unmark" /\ Goto(w, "unlock")
       \/ pc[w] = "unlock" /\ Leave(w)
    /\ broken' = TRUE
    /\ UNCHANGED <<workVars, queueVars, cache, tableVars, lockVars>>

DeleteList(w) ==
    /\ pc[w] = "delete"
    /\ queue' = <<>>
    /\ Goto(w, "unmark")
    /\ UNCHANGED <<workVars, marks, cache, tableVars, broken, lockVars, faults>>

DeleteMarks(w) ==
    /\ pc[w] = "unmark"
    /\ marks' = {}
    /\ Goto(w, "unlock")
    /\ UNCHANGED <<workVars, queue, cache, tableVars, broken, lockVars, faults>>

Unlock(w) ==
    /\ pc[w] = "unlock"
    /\ ReleaseLock(QueueLock)
    /\ seen' = [seen EXCEPT ![w] = <<>>]
    /\ written' = [written EXCEPT ![w] = 0]
    /\ attempt' = [attempt EXCEPT ![w] = 1]
    /\ Leave(w)
    /\ UNCHANGED <<todo, piped, lookVars, queueVars, cache, tableVars, broken, faults>>

-----------------------------------------------------------------------------
(* GetHistoricalPrices, for one coin and day.                              *)

LookInCache(l) ==
    /\ l \in Lookups /\ pc[l] = "idle"
    /\ \E d \in Days :
          /\ asked' = [asked EXCEPT ![l] = d]
          /\ found' = [found EXCEPT ![l] = cache[d]]
          /\ Goto(l, IF cache[d] # None \/ d \in Today THEN "done" ELSE "table")
    /\ UNCHANGED <<attempt, todo, piped, seen, written, queueVars, cache,
                   tableVars, broken, lockVars, faults>>

\* A query that fails is logged and skipped: the caller gets no price and no
\* error, as for a day without a row; only the model tells the two ends apart.
LookInTable(l) ==
    LET row == table[asked[l]] IN
    /\ pc[l] = "table"
    /\ \/ /\ found' = [found EXCEPT ![l] = row]
          /\ Goto(l, IF row = None THEN "done" ELSE "fill")
          /\ UNCHANGED faults
       \/ Fault /\ Goto(l, "failed") /\ UNCHANGED found
    /\ UNCHANGED <<attempt, todo, piped, seen, written, asked, queueVars, cache,
                   tableVars, broken, lockVars>>

FillCache(l) ==
    /\ pc[l] = "fill"
    /\ cache' = [cache EXCEPT ![asked[l]] = found[l]]
    /\ Goto(l, "done")
    /\ UNCHANGED <<workVars, queueVars, tableVars, broken, lockVars, faults>>

-----------------------------------------------------------------------------
ExpirePrice(d) ==
    /\ Fault /\ cache[d] # None
    /\ cache' = [cache EXCEPT ![d] = None]
    /\ UNCHANGED <<pc, workVars, queueVars, tableVars, broken, lockVars>>

\* The process dies: a ticker comes back with it.  The locks stay.
Crash(w) ==
    /\ Fault /\ pc[w] \notin {"idle", "done", "failed", "lost"}
    /\ Goto(w, IF w \in Tickers THEN "idle" ELSE "lost")
    /\ todo' = [todo EXCEPT ![w] = {}] /\ piped' = [piped EXCEPT ![w] = {}]
    /\ seen' = [seen EXCEPT ![w] = <<>>] /\ written' = [written EXCEPT ![w] = 0]
    /\ attempt' = [attempt EXCEPT ![w] = 1]
    /\ broken' = TRUE
    /\ UNCHANGED <<lookVars, queueVars, cache, tableVars, lockVars>>

InUse(l) ==
    \E w \in Workers :
        /\ holder[l] = w
        /\ IF l = QueueLock THEN Drains(w) ELSE pc[w] # "idle"

Expire(l) ==
    /\ ExpireLock(l, InUse(l))
    /\ UNCHANGED <<pc, workVars, queueVars, cache, tableVars, broken, faults>>

-----------------------------------------------------------------------------
Save(s) ==
    \/ CheckMarks(s) \/ CachePrice(s) \/ PushPrice(s) \/ CheckLength(s)
    \/ SaveFails(s)

Drain(w) ==
    \/ Tick(w) \/ EndTick(w) \/ Lock(w) \/ LockTaken(w) \/ ReadQueue(w)
    \/ WriteBatch(w) \/ Deadlock(w) \/ DrainFails(w) \/ DeleteList(w)
    \/ DeleteMarks(w) \/ Unlock(w)

LookUp(l) == LookInCache(l) \/ LookInTable(l) \/ FillCache(l)

Next ==
    \/ \E w \in Workers : Save(w) \/ Drain(w) \/ LookUp(w) \/ Crash(w)
    \/ \E d \in Days : ExpirePrice(d)
    \/ \E l \in LockKeys : Expire(l)

Spec == Init /\ [][Next]_vars

-----------------------------------------------------------------------------
\* Every variable keeps its type.
TypeOK ==
    /\ pc \in [Workers -> Stages]
    /\ attempt \in [Workers -> 1..(IF LockAttempts > MaxRetries THEN LockAttempts
                                ELSE MaxRetries)]
    /\ todo \in [Workers -> SUBSET [day : Days, price : Prices]]
    /\ piped \in [Workers -> SUBSET Entry]
    /\ seen \in [Workers -> Seq(Entry)] /\ written \in [Workers -> Nat]
    /\ asked \in [Lookups -> Days \cup {None}] /\ found \in [Lookups -> Columns]
    /\ queue \in Seq(Entry) /\ marks \subseteq Days
    /\ cache \in [Days -> Columns] /\ table \in [Days -> Columns]
    /\ stored \subseteq Entry /\ broken \in BOOLEAN /\ faults \in Nat
    /\ holder \in [LockKeys -> Workers \cup {Free}] /\ overruns \in Nat

\* A drain that has written its batches without an error, some of them twice
\* after a deadlock (188-200), leaves in the table the price pushed last for
\* each coin and day: the order of the list survives batches and retries.
LastPushedWins ==
    \A w \in Workers :
        pc[w] = "delete" /\ ~broken =>
            \A e \in LastOfEach(seen[w]) : table[e.day] = e.price

\* While no drain is at work and nothing has failed, a marked coin and day has
\* an entry in the list.  A mark without one would have every later price of
\* that day dropped by a save (83-122), since a mark has no time to live.
MarkedAreQueued ==
    ~broken /\ (\A w \in Workers : ~Drains(w)) =>
        \A d \in marks : \E i \in DOMAIN queue : queue[i].day = d

\* For the current day a look-up answers no price but one saved since, never the
\* older row of the table; for a past day that has a row it finds a price, however
\* drains, saves and expiries interleave with it, or its query failed (269-289).
LookupsAreCurrent ==
    \A l \in Lookups :
        /\ asked[l] \in Today /\ found[l] # None =>
              \E s \in Savers : [day |-> asked[l], price |-> found[l]] \in Elems(Saves[s])
        /\ asked[l] \in Days \ Today /\ pc[l] = "done" /\ InitTable[asked[l]] # None =>
              found[l] # None

\* The list is drained as DrainedQueue promises: by one drain at a time, which
\* stores what it has read before the list is cleared.
Abstract == INSTANCE DrainedQueue WITH
    Entries <- Entry, list <- queue, failed <- broken,
    read <- IF \E w \in Workers : pc[w] \in {"write", "delete"}
            THEN Len(seen[CHOOSE w \in Workers : pc[w] \in {"write", "delete"}])
            ELSE 0

DrainedAsPromised == Abstract!Spec
=============================================================================
