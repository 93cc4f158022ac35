------------------------------ MODULE CoinQueue ------------------------------
(***************************************************************************)
(* The queue of coin updates (price/repository/coins_repository.go).       *)
(* AddToQueue pushes coins, as the cache knows them, on a Redis list;      *)
(* ProcessQueue drains the whole list into the coins table under a Redis   *)
(* lock, from a ticker of the scheduler or from an AddToQueue that finds   *)
(* the list long.  UpsertCoins writes the table batch by batch, and        *)
(* refreshes the cache after each batch; the coin service calls it too,    *)
(* for one coin.  A ticker refreshes the whole cache.                      *)
(*                                                                         *)
(* A coin is its id and one column that may be empty, which stands for     *)
(* every nullable column; the refresh of the whole cache sets the price    *)
(* source of the coins CoinGecko lists, which is such a column.  Coins     *)
(* associated with another coin are left out.                              *)
(***************************************************************************)
EXTENDS Naturals, Sequences, FiniteSets, RedisLock

CONSTANTS
    Adders,       \* calls of AddToQueue
    Editors,      \* calls of AddCoin or UpdateCoin
    Tickers,      \* a StartCoinsProcessQueue per process
    Refreshers,   \* a StartSyncCoinsCache per process
    Pods, PodOf,  \* the processes, and the process of each of the above
    CoinIDs,
    Adds,         \* Adds[a]: the ids of the coins call a adds
    Edit,         \* Edit[e]: the coin and the column call e writes
    Values,       \* of the column
    Nil,          \* the column is empty
    Absent,       \* the coin is not cached
    InitCoins,    \* the table at the start
    Listed,       \* the coins whose row has an id of CoinGecko
    Gecko,        \* what the column of those is set to
    RunSize,      \* queue length at which an AddToQueue drains the queue
    BatchSize,    \* coins written in one transaction
    LockAttempts, \* attempts to get the lock
    MaxFaults     \* bound on the errors of Redis and of the database, the
                  \* expired coins and the crashes of a behaviour

Workers == Adders \cup Editors \cup Tickers \cup Refreshers
Columns == Values \cup {Nil}

ASSUME WorkerAssumption ==
    /\ PodOf \in [Workers -> Pods]
    /\ Adders \cap (Editors \cup Tickers \cup Refreshers) = {}
    /\ Editors \cap (Tickers \cup Refreshers) = {}
    /\ Tickers \cap Refreshers = {}
    /\ Free \notin Workers

ASSUME CoinAssumption ==
    /\ Adds \in [Adders -> SUBSET CoinIDs]
    /\ Edit \in [Editors -> CoinIDs \X Columns]
    /\ InitCoins \in [CoinIDs -> Columns]
    /\ Listed \subseteq CoinIDs /\ Gecko \in Values
    /\ Absent \notin Columns

ASSUME BoundAssumption ==
    /\ RunSize \in Nat \ {0} /\ BatchSize \in Nat \ {0}
    /\ LockAttempts \in Nat \ {0} /\ MaxFaults \in Nat

VARIABLES
    \* the goroutine of each worker
    pc,
    attempt,   \* of getting the lock
    todo,      \* the entries an AddToQueue has still to push
    seen,      \* the queue as the drain read it
    rest,      \* the coins UpsertCoins has still to write
    rows,      \* the rows to cache: the ids asked for, then what was read
    \* Redis
    queue, members, cache,
    \* Postgres
    coins,
    \* history: the entries written to the table, those deleted unwritten
    stored, lost,
    faults

workVars  == <<todo, seen, rest, rows>>
localVars == <<pc, attempt, workVars>>
queueVars == <<queue, members, lost>>
tableVars == <<coins, stored>>
vars == <<localVars, queueVars, cache, tableVars, lockVars, faults>>

\* The keys of the locks.
QueueLock == "lock:coins_queue"
TickLock  == "coins_process_queue_lock"
CacheLock == "sync_coins_cache_lock"
LockKeys  == {QueueLock, TickLock, CacheLock}

Resting  == {"idle", "done", "lost"}
Draining == {"read", "upsert", "refresh", "cache", "delete", "clear", "abort",
             "unlock"}
Stages   == Resting \cup Draining \cup {"push", "length", "lock", "update", "untick"}

Elems(s) == {s[i] : i \in DOMAIN s}
Coin  == [id : CoinIDs, col : Columns]
Entry == [id : CoinIDs, col : Columns, by : Adders]
CoinOf(e) == [id |-> e.id, col |-> e.col]

\* The coins of a queue, the last one of each id.
LastOfEach(q) ==
    {CoinOf(q[i]) : i \in {j \in DOMAIN q :
                             \A k \in DOMAIN q : k > j => q[k].id # q[j].id}}

\* The lock around the ticks of a worker, and the worker of a drain that is in
\* the section the lock of the queue is for.
OwnLock(w) == IF w \in Tickers THEN TickLock ELSE CacheLock
Drains(w)  == w \in Adders \cup Tickers /\ pc[w] \in Draining

Goto(w, stage) == pc' = [pc EXCEPT ![w] = stage]

Fault == faults < MaxFaults /\ faults' = faults + 1

Init ==
    /\ pc = [w \in Workers |-> "idle"]
    /\ attempt = [w \in Workers |-> 1]
    /\ todo = [w \in Workers |-> {}]
    /\ seen = [w \in Workers |-> <<>>]
    /\ rest = [w \in Workers |-> {}]
    /\ rows = [w \in Workers |-> {}]
    /\ queue = <<>> /\ members = {}
    /\ coins = InitCoins /\ cache = InitCoins
    /\ stored = {} /\ lost = {}
    /\ faults = 0
    /\ InitLocks(LockKeys)

-----------------------------------------------------------------------------
(* Planted bugs.  Each operator below is a wrong variant of the definition *)
(* of the same parameters it is paired with in PROJECT.json; no action uses *)
(* them.                                                                   *)

\* One attempt too many.
TryAgainOnceMore(w) ==
    IF attempt[w] <= LockAttempts
    THEN attempt' = [attempt EXCEPT ![w] = @ + 1] /\ Goto(w, "lock")
    ELSE /\ Goto(w, IF w \in Tickers THEN "untick" ELSE "done")
         /\ UNCHANGED attempt

\* The deferred release is set up before the lock is had.
LockTakenReleases(w) ==
    /\ pc[w] = "lock" /\ holder[QueueLock] # Free
    /\ ReleaseLock(QueueLock)
    /\ Goto(w, IF w \in Tickers THEN "untick" ELSE "done")
    /\ UNCHANGED <<attempt, workVars, queueVars, cache, tableVars, faults>>

\* A drain leaves a short queue alone.
ReadLongQueue(w) ==
    /\ pc[w] = "read"
    /\ seen' = [seen EXCEPT ![w] = queue]
    /\ rest' = [rest EXCEPT ![w] = LastOfEach(queue)]
    /\ Goto(w, IF Len(queue) < RunSize THEN "unlock" ELSE "upsert")
    /\ UNCHANGED <<attempt, todo, rows, queueVars, cache, tableVars, lockVars,
                   faults>>

\* Only the first batch is written.
AfterFirstBatch(w) ==
    Goto(w, IF w \in Refreshers THEN "untick"
            ELSE IF w \in Editors THEN "done" ELSE "delete")

\* A cached coin is not replaced.
CacheMissingRows(w) ==
    /\ pc[w] = "cache"
    /\ cache' = [c \in CoinIDs |->
          IF cache[c] = Absent /\ \E r \in rows[w] : r.id = c
          THEN (CHOOSE r \in rows[w] : r.id = c).col ELSE cache[c]]
    /\ rows' = [rows EXCEPT ![w] = {}]
    /\ Goto(w, IF w \in Refreshers THEN "untick"
               ELSE IF rest[w] # {} THEN "upsert"
               ELSE IF w \in Editors THEN "done" ELSE "delete")
    /\ UNCHANGED <<attempt, todo, seen, rest, queueVars, tableVars, lockVars,
                   faults>>

-----------------------------------------------------------------------------
(* AddToQueue.                                                             *)

\* The coins are taken from the cache; those it does not hold are left out.
GetCoinsByID(a) ==
    /\ a \in Adders /\ pc[a] = "idle"
    /\ LET known == {c \in Adds[a] : cache[c] # Absent} IN
       /\ todo' = [todo EXCEPT ![a] =
                      {[id |-> c, col |-> cache[c], by |-> a] : c \in known}]
       /\ Goto(a, IF known = {} THEN "done" ELSE "push")
    /\ UNCHANGED <<attempt, seen, rest, rows, queueVars, cache, tableVars,
                   lockVars, faults>>

\* Whether the set holds the coin is asked in a pipeline that has not run, so
\* the answer is always no.
PushCoin(e) ==
    /\ members' = members \cup {e.id}
    /\ queue' = Append(queue, e)

AddToQueue(a) ==
    /\ pc[a] = "push"
    /\ \E e \in todo[a] :
          /\ PushCoin(e)
          /\ todo' = [todo EXCEPT ![a] = @ \ {e}]
          /\ Goto(a, IF todo[a] = {e} THEN "length" ELSE "push")
    /\ UNCHANGED <<attempt, seen, rest, rows, lost, cache, tableVars, lockVars,
                   faults>>

CheckLength(a) ==
    /\ pc[a] = "length"
    /\ Goto(a, IF Len(queue) >= RunSize THEN "lock" ELSE "done")
    /\ attempt' = [attempt EXCEPT ![a] = 1]
    /\ UNCHANGED <<workVars, queueVars, cache, tableVars, lockVars, faults>>

-----------------------------------------------------------------------------
(* The tickers of the scheduler.                                           *)

\* A tick that finds its lock taken does nothing.
Tick(w) ==
    /\ w \in Tickers \cup Refreshers /\ pc[w] = "idle"
    /\ AcquireLock(OwnLock(w), w)
    /\ attempt' = [attempt EXCEPT ![w] = 1]
    /\ IF w \in Tickers
       THEN Goto(w, "lock") /\ UNCHANGED rows
       ELSE Goto(w, "update") /\ rows' = [rows EXCEPT ![w] = CoinIDs]
    /\ UNCHANGED <<todo, seen, rest, queueVars, cache, tableVars, faults>>

EndTick(w) ==
    /\ pc[w] = "untick"
    /\ ReleaseLock(OwnLock(w))
    /\ Goto(w, "idle")
    /\ UNCHANGED <<attempt, workVars, queueVars, cache, tableVars, faults>>

-----------------------------------------------------------------------------
(* ProcessQueue.                                                           *)

\* Back to the caller: the ticker, or AddToQueue, which returns.
Leave(w) == Goto(w, IF w \in Tickers THEN "untick" ELSE "done")

Lock(w) ==
    /\ pc[w] = "lock"
    /\ AcquireLock(QueueLock, w)
    /\ Goto(w, "read")
    /\ UNCHANGED <<attempt, workVars, queueVars, cache, tableVars, faults>>

TryAgain(w) ==
    IF attempt[w] < LockAttempts
    THEN attempt' = [attempt EXCEPT ![w] = @ + 1] /\ Goto(w, "lock")
    ELSE Leave(w) /\ UNCHANGED attempt

LockTaken(w) ==
    /\ pc[w] = "lock" /\ holder[QueueLock] # Free
    /\ TryAgain(w)
    /\ UNCHANGED <<workVars, queueVars, cache, tableVars, lockVars, faults>>

ReadQueue(w) ==
    /\ pc[w] = "read"
    /\ seen' = [seen EXCEPT ![w] = queue]
    /\ rest' = [rest EXCEPT ![w] = LastOfEach(queue)]
    /\ Goto(w, IF queue = <<>> THEN "unlock" ELSE "upsert")
    /\ UNCHANGED <<attempt, todo, rows, queueVars, cache, tableVars, lockVars,
                   faults>>

-----------------------------------------------------------------------------
(* UpsertCoins and the refresh of the cache.                               *)

\* AddCoin and UpdateCoin.
EditCoin(e) ==
    /\ e \in Editors /\ pc[e] = "idle"
    /\ rest' = [rest EXCEPT ![e] = {[id |-> Edit[e][1], col |-> Edit[e][2]]}]
    /\ Goto(e, "upsert")
    /\ UNCHANGED <<attempt, todo, seen, rows, queueVars, cache, tableVars,
                   lockVars, faults>>

\* The coins of the next transaction: they come from a map, in any order.
Batches(C) ==
    {B \in SUBSET C : Cardinality(B) = IF Cardinality(C) < BatchSize
                                       THEN Cardinality(C) ELSE BatchSize}

\* The rows of the coins of B are there already.  The first coin decides for
\* all of them whether the column is written.
Upserted(B, first) ==
    [c \in CoinIDs |-> IF first.col # Nil /\ \E b \in B : b.id = c
                       THEN (CHOOSE b \in B : b.id = c).col ELSE coins[c]]

UpsertCoins(w) ==
    /\ pc[w] = "upsert"
    /\ \E B \in Batches(rest[w]) : \E first \in B :
          /\ coins' = Upserted(B, first)
          /\ rest' = [rest EXCEPT ![w] = @ \ B]
          /\ rows' = [rows EXCEPT ![w] = {b.id : b \in B}]
          /\ stored' = stored \cup
                {e \in Elems(seen[w]) : \E b \in B : b.id = e.id}
    /\ Goto(w, "refresh")
    /\ UNCHANGED <<attempt, todo, seen, queueVars, cache, lockVars, faults>>

\* The transaction is rolled back.  UpsertCoins puts words of its own before the
\* message of the database, so that a deadlock is not recognised and the drain
\* gives up like after any other error.
UpsertFails(w) ==
    /\ Fault /\ pc[w] = "upsert"
    /\ Goto(w, IF w \in Editors THEN "done" ELSE "abort")
    /\ UNCHANGED <<attempt, workVars, queueVars, cache, tableVars, lockVars>>

AfterBatch(w) ==
    Goto(w, IF w \in Refreshers THEN "untick"
            ELSE IF rest[w] # {} THEN "upsert"
            ELSE IF w \in Editors THEN "done" ELSE "delete")

\* Before the whole table is read.
SetSources(w) ==
    /\ pc[w] = "update"
    /\ coins' = [c \in CoinIDs |-> IF c \in Listed THEN Gecko ELSE coins[c]]
    /\ Goto(w, "refresh")
    /\ UNCHANGED <<attempt, workVars, queueVars, cache, stored, lockVars, faults>>

ReadRows(w) ==
    /\ pc[w] = "refresh"
    /\ rows' = [rows EXCEPT ![w] = {[id |-> c, col |-> coins[c]] : c \in @}]
    /\ Goto(w, "cache")
    /\ UNCHANGED <<attempt, todo, seen, rest, queueVars, cache, tableVars,
                   lockVars, faults>>

CacheRows(w) ==
    /\ pc[w] = "cache"
    /\ cache' = [c \in CoinIDs |-> IF \E r \in rows[w] : r.id = c
                    THEN (CHOOSE r \in rows[w] : r.id = c).col ELSE cache[c]]
    /\ rows' = [rows EXCEPT ![w] = {}]
    /\ AfterBatch(w)
    /\ UNCHANGED <<attempt, todo, seen, rest, queueVars, tableVars, lockVars,
                   faults>>

\* A failed refresh is not noticed.
RefreshFails(w) ==
    /\ Fault /\ pc[w] \in {"update", "refresh", "cache"}
    /\ rows' = [rows EXCEPT ![w] = {}]
    /\ AfterBatch(w)
    /\ UNCHANGED <<attempt, todo, seen, rest, queueVars, cache, tableVars,
                   lockVars>>

-----------------------------------------------------------------------------
(* The end of a drain.                                                     *)

\* The list is deleted with whatever it holds by now.
DropQueue ==
    /\ queue' = <<>>
    /\ lost' = lost \cup (Elems(queue) \ stored)

\* After the last coin was written ...
DeleteQueue(w) ==
    /\ pc[w] = "delete"
    /\ DropQueue
    /\ Goto(w, "clear")
    /\ UNCHANGED <<attempt, workVars, members, cache, tableVars, lockVars,
                   faults>>

\* ... and again by the deferred function, also after an error.
Clear(w) ==
    /\ pc[w] \in {"clear", "abort"}
    /\ DropQueue
    /\ members' = {}
    /\ Goto(w, "unlock")
    /\ UNCHANGED <<attempt, workVars, cache, tableVars, lockVars, faults>>

Unlock(w) ==
    /\ pc[w] = "unlock"
    /\ ReleaseLock(QueueLock)
    /\ seen' = [seen EXCEPT ![w] = <<>>]
    /\ rest' = [rest EXCEPT ![w] = {}]
    /\ Leave(w)
    /\ UNCHANGED <<attempt, todo, rows, queueVars, cache, tableVars, faults>>

-----------------------------------------------------------------------------
(* Redis fails or forgets; a process dies.                                 *)

\* An AddToQueue returns the error; what it has pushed stays.
AddFails(a) ==
    /\ Fault /\ pc[a] \in {"push", "length"}
    /\ todo' = [todo EXCEPT ![a] = {}]
    /\ Goto(a, "done")
    /\ UNCHANGED <<attempt, seen, rest, rows, queueVars, cache, tableVars,
                   lockVars>>

\* A failed SETNX counts as a refusal, even if the key was set.
LockFails(w) ==
    /\ Fault /\ pc[w] = "lock"
    /\ UNCHANGED lockVars \/ AcquireLock(QueueLock, w)
    /\ TryAgain(w)
    /\ UNCHANGED <<workVars, queueVars, cache, tableVars>>

\* The other commands of a drain: on a failed read it returns, a failed delete
\* or release goes unnoticed.
DrainFails(w) ==
    /\ Fault
    /\ \/ pc[w] = "read" /\ Goto(w, "unlock")
       \/ pc[w] = "delete" /\ Goto(w, "clear")
       \/ pc[w] \in {"clear", "abort"} /\ Goto(w, "unlock")
       \/ pc[w] = "unlock" /\ Leave(w)
       \/ pc[w] = "untick" /\ Goto(w, "idle")
    /\ UNCHANGED <<attempt, workVars, queueVars, cache, tableVars, lockVars>>

ExpireCoin(c) ==
    /\ Fault /\ cache[c] # Absent
    /\ cache' = [cache EXCEPT ![c] = Absent]
    /\ UNCHANGED <<localVars, queueVars, tableVars, lockVars>>

\* The tickers come back with the process, the calls do not.  The locks stay.
Crash(p) ==
    LET Mine == {w \in Workers : PodOf[w] = p} IN
    /\ Fault
    /\ pc' = [w \in Workers |->
                 IF w \notin Mine \/ pc[w] \in Resting THEN pc[w]
                 ELSE IF w \in Tickers \cup Refreshers THEN "idle" ELSE "lost"]
    /\ todo' = [w \in Workers |-> IF w \in Mine THEN {} ELSE todo[w]]
    /\ seen' = [w \in Workers |-> IF w \in Mine THEN <<>> ELSE seen[w]]
    /\ rest' = [w \in Workers |-> IF w \in Mine THEN {} ELSE rest[w]]
    /\ rows' = [w \in Workers |-> IF w \in Mine THEN {} ELSE rows[w]]
    /\ UNCHANGED <<attempt, queueVars, cache, tableVars, lockVars>>

\* Whether the worker that set the key still counts on it.
InUse(l) ==
    \E w \in Workers :
        /\ holder[l] = w
        /\ IF l = QueueLock THEN Drains(w) ELSE pc[w] # "idle"

Expire(l) ==
    /\ ExpireLock(l, InUse(l))
    /\ UNCHANGED <<localVars, queueVars, cache, tableVars, faults>>

-----------------------------------------------------------------------------
Work(w) ==
    \/ AddToQueue(w) \/ CheckLength(w)
    \/ Lock(w) \/ LockTaken(w) \/ ReadQueue(w)
    \/ UpsertCoins(w) \/ UpsertFails(w)
    \/ SetSources(w) \/ ReadRows(w) \/ CacheRows(w) \/ RefreshFails(w)
    \/ DeleteQueue(w) \/ Clear(w) \/ Unlock(w) \/ EndTick(w)
    \/ AddFails(w) \/ LockFails(w) \/ DrainFails(w)

Environment ==
    \/ \E c \in CoinIDs : ExpireCoin(c)
    \/ \E p \in Pods : Crash(p)
    \/ \E l \in LockKeys : Expire(l)

Next ==
    \/ \E w \in Workers : GetCoinsByID(w) \/ EditCoin(w) \/ Tick(w) \/ Work(w)
    \/ Environment

Spec == Init /\ [][Next]_vars

\* Goroutines keep running, tickers tick, and Redis expires what nobody uses.
Fairness ==
    /\ \A w \in Workers : WF_vars(Work(w)) /\ WF_vars(Tick(w))
    /\ \A l \in LockKeys : WF_vars(~InUse(l) /\ Expire(l))

FairSpec == Spec /\ Fairness

-----------------------------------------------------------------------------
WorkTypes ==
    /\ pc \in [Workers -> Stages]
    /\ attempt \in [Workers -> 1..LockAttempts]
    /\ todo \in [Workers -> SUBSET Entry]
    /\ seen \in [Workers -> Seq(Entry)]
    /\ rest \in [Workers -> SUBSET Coin]
    /\ rows \in [Workers -> SUBSET (Coin \cup CoinIDs)]

\* Every variable keeps its type.
TypeOK ==
    /\ WorkTypes
    /\ queue \in Seq(Entry) /\ members \subseteq CoinIDs
    /\ cache \in [CoinIDs -> Columns \cup {Absent}]
    /\ coins \in [CoinIDs -> Columns]
    /\ stored \subseteq Entry /\ lost \subseteq Entry
    /\ holder \in [LockKeys -> Workers \cup {Free}]
    /\ overruns \in Nat /\ faults \in Nat

\* Claimed by the comment on the lock, "operations of several pods on the queue
\* are mutually exclusive" (425): two drains never overlap.  It holds as long as
\* no drain takes longer than the fifteen seconds of the lock.
DrainsAreExclusive ==
    \A v, w \in Workers : Drains(v) /\ Drains(w) => v = w

\* A drain that does not fail loses only entries that were pushed after it read
\* the queue: those it read are written before the list is deleted (477-502).
OnlyUnreadAreLost ==
    [][\A e \in lost' \ lost : \E w \in Workers :
          /\ pc[w] \in {"delete", "clear", "abort"}
          /\ pc[w] = "abort" \/ e \notin Elems(seen[w])]_vars

\* Claimed by the comment on the update, "only updates fields that are not
\* empty" (109): a column that has a value is not emptied.
NeverEmptied ==
    [][\A c \in CoinIDs : coins[c] # Nil => coins'[c] # Nil]_vars

\* Every queued entry leaves the queue, also when a process dies with the lock
\* in hand.
EntriesLeave ==
    \A a \in Adders : \A c \in Adds[a], v \in Columns :
        LET e == [id |-> c, col |-> v, by |-> a] IN
        (e \in Elems(queue)) ~> (e \notin Elems(queue))

\* Once the last drain and the last edit are over the cache comes to agree with
\* the table, for good: refreshes that race with writers are made up for by a
\* later tick.
CacheSettles == <>[](cache = coins)
=============================================================================
