--------------------------- MODULE PriceCoalescer ---------------------------
(***************************************************************************)
(* The request coalescing pipeline of the price service                    *)
(* (price/service/price_service.go).  GetPrice and GetBatchPrice look a    *)
(* token up in the Redis cache and, on a miss, register themselves in three*)
(* in-memory maps, put the key of the token on a Redis queue that holds    *)
(* every key at most once, and wait for "ok" on a channel of capacity one  *)
(* or for a timer.  A worker per process pops the queue, fetches the       *)
(* prices, caches them and publishes the keys; a goroutine per received    *)
(* message wakes the requests registered for the key.                      *)
(*                                                                         *)
(* Every access to a shared map, channel or Redis key is a step of its     *)
(* own.  A process may die: by itself, or because a goroutine sends on a   *)
(* closed channel or loses the race on a Go map.                           *)
(***************************************************************************)
EXTENDS Naturals, Sequences, FiniteSets

CONSTANTS
    Pods,         \* the processes of the proxy that share one Redis
    Requests,     \* calls of GetPrice or GetBatchPrice that use the cache
    Batched,      \* the requests that are calls of GetBatchPrice
    ExcludeRoute, \* the requests that exclude the dodoexRoute source
    PodOf,        \* PodOf[r]: the process that serves request r
    Want,         \* Want[r]: the keys request r asks for (hash of chain,
                  \* address, symbol and network)
    Keys,
    CoinOf,       \* CoinOf[k]: the chain and address of key k; keys that
                  \* differ in symbol or network share it
    Coins,
    Prices,
    Handlers,     \* the processMessage goroutines alive at a time
    SlotPod,      \* SlotPod[h]: the process goroutine h belongs to
    Junk,         \* the empty string, enqueued for every cached item
    None,         \* no message: the goroutine does not exist
    NoPrice,      \* a nil price, cached as "-1"
    Absent,       \* no such Redis key; read as the empty price
    FetchSize,    \* queue entries popped at a time
    BatchSize,    \* queue entries one worker goroutine processes
    MaxFaults     \* bound on the Redis errors, lost messages, expired results,
                  \* lost scripts and crashes of a behaviour

Quotes == Prices \cup {NoPrice}
Cached == Quotes \cup {Absent}

ASSUME RequestAssumption ==
    /\ Batched \subseteq Requests /\ ExcludeRoute \subseteq Requests
    /\ PodOf \in [Requests -> Pods] /\ SlotPod \in [Handlers -> Pods]
    /\ Want \in [Requests -> Seq(Keys)] /\ CoinOf \in [Keys -> Coins]
    /\ \A r \in Requests : Want[r] # <<>>
    /\ \A r \in Requests \ Batched : Len(Want[r]) = 1

ASSUME ValueAssumption ==
    Junk \notin Keys /\ None \notin Keys /\ NoPrice \notin Prices
    /\ Absent \notin Quotes

ASSUME SizeAssumption ==
    FetchSize \in Nat \ {0} /\ BatchSize \in Nat \ {0} /\ MaxFaults \in Nat

VARIABLES
    \* the calling goroutines
    pc, todo, requestIDs, resultMap, answer,
    \* shared maps and channels of a process
    keysRequestIDMap,     \* [pod][key]: ids waiting for key, <<>> if absent
    requestIDKeysMap,     \* the requests whose key map is stored
    requestKeyMap,        \* [r]: the keys request r still waits for
    requestIDChannelMap,  \* the requests whose channel is stored
    resultChannel,        \* [r]: number of "ok" in the channel of r
    closed,               \* the requests whose channel is closed
    \* Redis
    unique_price_requests, price_requests_queue, price_result,
    price_results_channel,     \* [pod][key]: messages sent, not yet handled
    script,                    \* Redis knows the script that pops the queue
    \* goroutines of ProcessPriceRequests: [pod]: its loop, a set of batches
    worker, jobs,
    \* goroutines of processMessage and, for each, its goroutine per waiter
    message, waiters, at,
    \* history: what the sources quoted, the coins whose result expired
    quoted, expired,
    faults

callVars     == <<todo, requestIDs, resultMap, answer>>
clientVars   == <<pc, callVars>>
keyMapVars   == <<requestIDKeysMap, requestKeyMap>>
channelVars  == <<requestIDChannelMap, resultChannel, closed>>
registryVars == <<keysRequestIDMap, keyMapVars, channelVars>>
queueVars    == <<unique_price_requests, price_requests_queue>>
historyVars  == <<quoted, expired>>
workerVars   == <<worker, script>>
remoteVars   == <<queueVars, price_result, jobs, workerVars, historyVars>>
handlerVars  == <<message, waiters, at>>
systemVars   == <<remoteVars, price_results_channel, handlerVars>>
vars == <<clientVars, registryVars, systemVars, faults>>

-----------------------------------------------------------------------------
\* The stages of a call, of a batch of the worker and of a waiter's goroutine.
Resting == {"idle", "done", "lost"}
Stages == Resting \cup
    {"open", "probe", "load", "store", "keymap", "enqueue", "wait", "read",
     "direct", "unchan", "unkeys", "close"}
JobStages  == {"fetch", "set", "notify"}
WorkerStages == {"starts", "pops", "returned"}
TaskStages == {"load", "lock", "delete", "check", "send", "done"}
Locked     == {"delete", "check", "send"}  \* stages that hold the mutex

Elems(s) == {s[i] : i \in DOMAIN s}
Entries  == Keys \cup {Junk}
Job      == [keys : Seq(Entries), stage : JobStages, price : [Coins -> Quotes]]

Distinct(s) == \A i, j \in DOMAIN s : s[i] = s[j] => i = j

\* The sequence (there is one) of the elements of W in the order in which args
\* first lists them: what a loop over args keeps when it drops the rest.
Precedes(args, d, e) ==
    \E a \in DOMAIN args : args[a] = d /\ \A b \in 1..a : args[b] # e
Selections(args, W) ==
    {s \in [1..Cardinality(W) -> W] :
        \A i, j \in 1..Cardinality(W) : i < j => Precedes(args, s[i], s[j])}

Misses(r) == {i \in DOMAIN Want[r] : resultMap[r][i] = Absent}
Wanted(r) == {Want[r][i] : i \in Misses(r)}
CoinAt(r, i) == CoinOf[Want[r][i]]

\* The arguments of the Lua script.  GetBatchPrice passes the empty key for
\* every item it found in the cache.
requestKeys(r) ==
    [i \in DOMAIN Want[r] |-> IF i \in Misses(r) THEN Want[r][i] ELSE Junk]

Goto(r, stage) == pc' = [pc EXCEPT ![r] = stage]

Fault == faults < MaxFaults /\ faults' = faults + 1

\* Step of the goroutine of the i-th waiter of message h.
Task(h, i, from, to) ==
    /\ message[h] # None /\ i \in DOMAIN at[h]
    /\ at[h][i] = from
    /\ at' = [at EXCEPT ![h][i] = to]

Init ==
    /\ pc = [r \in Requests |-> "idle"]
    /\ todo = [r \in Requests |-> {}]
    /\ requestIDs = [r \in Requests |-> <<>>]
    /\ resultMap = [r \in Requests |-> [i \in DOMAIN Want[r] |-> Absent]]
    /\ answer = [r \in Requests |-> <<>>]
    /\ keysRequestIDMap = [p \in Pods |-> [k \in Keys |-> <<>>]]
    /\ requestIDKeysMap = {}
    /\ requestKeyMap = [r \in Requests |-> {}]
    /\ requestIDChannelMap = {}
    /\ resultChannel = [r \in Requests |-> 0]
    /\ closed = {}
    /\ unique_price_requests = {}
    /\ price_requests_queue = <<>>
    /\ price_result = [c \in Coins |-> Absent]
    /\ price_results_channel = [p \in Pods |-> [k \in Keys |-> 0]]
    /\ worker = [p \in Pods |-> "starts"]
    /\ script = FALSE
    /\ jobs = [p \in Pods |-> {}]
    /\ message = [h \in Handlers |-> None]
    /\ waiters = [h \in Handlers |-> <<>>]
    /\ at = [h \in Handlers |-> <<>>]
    /\ quoted = {}
    /\ expired = {}
    /\ faults = 0

-----------------------------------------------------------------------------
(* Planted bugs.  Each operator below is a wrong variant of the definition *)
(* of the same parameters it is paired with in PROJECT.json; no action uses *)
(* them.                                                                   *)

\* The script pushes a key whether or not SADD added it.
EnqueueAll(args) ==
    /\ unique_price_requests' = unique_price_requests \cup Elems(args)
    /\ \E new \in Selections(args, Elems(args)) :
          price_requests_queue' = price_requests_queue \o new

\* A late "ok" is still received after the call has ended.
ReceiveOkLate(r) ==
    /\ pc[r] \in {"wait", "done"} /\ resultChannel[r] > 0
    /\ resultChannel' = [resultChannel EXCEPT ![r] = @ - 1]
    /\ Goto(r, "read")
    /\ UNCHANGED <<callVars, keysRequestIDMap, keyMapVars, requestIDChannelMap,
                   closed, systemVars, faults>>

\* The timer is looked at only once the channel is ready.
TimeOutIfReady(r) ==
    /\ pc[r] = "wait" /\ resultChannel[r] > 0
    /\ Goto(r, "direct")
    /\ UNCHANGED <<callVars, registryVars, systemVars, faults>>

\* The deferred function leaves the key map behind.
DeleteKeyMapForgotten(r) ==
    /\ pc[r] = "unkeys"
    /\ Goto(r, "close")
    /\ UNCHANGED <<callVars, registryVars, systemVars, faults>>

\* The deferred function does not close the channel.
CloseForgotten(r) ==
    /\ pc[r] = "close"
    /\ Goto(r, "done")
    /\ UNCHANGED <<callVars, registryVars, systemVars, faults>>

\* The script pops only when more than FetchSize entries are queued.
OnlyFullBatches ==
    IF Len(price_requests_queue) <= FetchSize THEN <<>>
    ELSE SubSeq(price_requests_queue, 1, FetchSize)

\* Each slice ends one entry too late.
OverlappingBatches(taken) ==
    {SubSeq(taken, first, IF first + BatchSize <= Len(taken)
                          THEN first + BatchSize ELSE Len(taken)) :
        first \in {i \in 1..Len(taken) : (i - 1) % BatchSize = 0}}

\* The results and the request keys are out of step.
ResultOfLast(j) == j.price[CoinOf[j.keys[Len(j.keys)]]]

\* The key map is not required to be empty.
NotifyOnAnyKey(h, i) ==
    /\ Task(h, i, "check", IF waiters[h][i] \in requestIDChannelMap
                           THEN "send" ELSE "done")
    /\ UNCHANGED <<clientVars, registryVars, remoteVars, price_results_channel,
                   message, waiters, faults>>

\* The channel takes any number of messages.
SendOkUnbounded(h, i) ==
    /\ message[h] # None /\ i \in DOMAIN waiters[h]
    /\ waiters[h][i] \notin closed
    /\ Task(h, i, "send", "done")
    /\ resultChannel' = [resultChannel EXCEPT ![waiters[h][i]] = @ + 1]
    /\ UNCHANGED <<clientVars, keysRequestIDMap, keyMapVars,
                   requestIDChannelMap, closed, remoteVars,
                   price_results_channel, message, waiters, faults>>

-----------------------------------------------------------------------------
(* The calling goroutine: GetPrice and GetBatchPrice.                      *)

\* GetPrice returns a cached price at once.  A cached "-1" is a miss, and so
\* is a Redis error.
GetPrice(r) ==
    /\ pc[r] = "idle" /\ r \notin Batched
    /\ LET v == price_result[CoinAt(r, 1)] IN
       \/ /\ v \in Prices
          /\ answer' = [answer EXCEPT ![r] = <<v>>]
          /\ Goto(r, "done")
          /\ UNCHANGED faults
       \/ /\ v \notin Prices
          /\ Goto(r, "open")
          /\ UNCHANGED <<answer, faults>>
       \/ /\ v \in Prices /\ Fault
          /\ Goto(r, "open")
          /\ UNCHANGED answer
    /\ UNCHANGED <<todo, requestIDs, resultMap, registryVars, systemVars>>

\* The channel is made and stored: after the cache lookup in GetPrice, first
\* thing in GetBatchPrice.
StoreChannel(r) ==
    /\ \/ /\ pc[r] = "open"
          /\ todo' = [todo EXCEPT ![r] = {1}]
          /\ Goto(r, "load")
       \/ /\ pc[r] = "idle" /\ r \in Batched
          /\ Goto(r, "probe")
          /\ UNCHANGED todo
    /\ requestIDChannelMap' = requestIDChannelMap \cup {r}
    /\ UNCHANGED <<requestIDs, resultMap, answer, keysRequestIDMap, keyMapVars,
                   resultChannel, closed, systemVars, faults>>

\* GetBatchPrice reads all its tokens in one pipeline.
ProbeCache(r) ==
    /\ pc[r] = "probe"
    /\ LET hit == [i \in DOMAIN Want[r] |-> price_result[CoinAt(r, i)]]
           missed == {i \in DOMAIN Want[r] : hit[i] = Absent}
       IN  /\ resultMap' = [resultMap EXCEPT ![r] = hit]
           /\ todo' = [todo EXCEPT ![r] = missed]
           /\ Goto(r, IF missed = {} THEN "keymap" ELSE "load")
    /\ UNCHANGED <<requestIDs, answer, registryVars, systemVars, faults>>

\* The next missed item of the registration loop.
Nextmost(r, i) == i \in todo[r] /\ \A j \in todo[r] : i <= j

LoadRequestIDs(r, i) ==
    /\ pc[r] = "load" /\ Nextmost(r, i)
    /\ requestIDs' = [requestIDs EXCEPT ![r] =
                         keysRequestIDMap[PodOf[r]][Want[r][i]]]
    /\ Goto(r, IF r \in Batched THEN "store" ELSE "keymap")
    /\ UNCHANGED <<todo, resultMap, answer, registryVars, systemVars, faults>>

\* The ids loaded before, with this one appended, replace whatever the map
\* holds now.
StoreRequestIDs(r, i) ==
    /\ pc[r] = "store" /\ Nextmost(r, i)
    /\ keysRequestIDMap' = [keysRequestIDMap EXCEPT
                               ![PodOf[r]][Want[r][i]] =
                                   Append(requestIDs[r], r)]
    /\ todo' = [todo EXCEPT ![r] = @ \ {i}]
    /\ Goto(r, IF r \notin Batched THEN "enqueue"
               ELSE IF todo[r] = {i} THEN "keymap" ELSE "load")
    /\ requestIDs' = [requestIDs EXCEPT ![r] = <<>>]
    /\ UNCHANGED <<resultMap, answer, keyMapVars, channelVars, systemVars,
                   faults>>

\* GetPrice stores its key map before its id, GetBatchPrice after all of them.
StoreKeyMap(r) ==
    /\ pc[r] = "keymap"
    /\ requestIDKeysMap' = requestIDKeysMap \cup {r}
    /\ requestKeyMap' = [requestKeyMap EXCEPT ![r] = Wanted(r)]
    /\ Goto(r, IF r \in Batched THEN "enqueue" ELSE "store")
    /\ UNCHANGED <<callVars, keysRequestIDMap, channelVars, systemVars,
                   faults>>

\* The Lua script: each key not in the set is added to it and to the queue.
EnqueueUniqueRequests(args) ==
    /\ unique_price_requests' = unique_price_requests \cup Elems(args)
    /\ \E new \in Selections(args, Elems(args) \ unique_price_requests) :
          price_requests_queue' = price_requests_queue \o new

Enqueue(r) ==
    /\ pc[r] = "enqueue"
    /\ EnqueueUniqueRequests(requestKeys(r))
    /\ Goto(r, IF Misses(r) = {} THEN "read" ELSE "wait")
    /\ UNCHANGED <<callVars, registryVars, price_result, price_results_channel,
                   jobs, workerVars, handlerVars, historyVars, faults>>

\* Redis fails while the call uses it: the call returns the error, whether or
\* not the script had run.
RedisFails(r) ==
    /\ Fault
    /\ \/ pc[r] \in {"probe", "enqueue"} /\ UNCHANGED queueVars
       \/ pc[r] = "enqueue" /\ EnqueueUniqueRequests(requestKeys(r))
       \/ pc[r] = "read" /\ r \in Batched /\ Misses(r) # {}
          /\ UNCHANGED queueVars
    /\ Goto(r, "unchan")
    /\ UNCHANGED <<callVars, registryVars, price_result, price_results_channel,
                   jobs, workerVars, handlerVars, historyVars>>

\* The select: "ok" or the timer, either when both are ready.
ReceiveOk(r) ==
    /\ pc[r] = "wait" /\ resultChannel[r] > 0
    /\ resultChannel' = [resultChannel EXCEPT ![r] = @ - 1]
    /\ Goto(r, "read")
    /\ UNCHANGED <<callVars, keysRequestIDMap, keyMapVars, requestIDChannelMap,
                   closed, systemVars, faults>>

TimeOut(r) ==
    /\ pc[r] = "wait"
    /\ Goto(r, "direct")
    /\ UNCHANGED <<callVars, registryVars, systemVars, faults>>

\* After "ok" the call reads the cache again.  GetPrice goes on to the sources
\* when it finds "-1" and may use the route; it answers nil when it finds
\* nothing, or cannot read.  GetBatchPrice answers the empty price for what it
\* does not find.
ReadResult(r) ==
    /\ pc[r] = "read"
    /\ \/ /\ r \in Batched
          /\ answer' = [answer EXCEPT ![r] = [i \in DOMAIN Want[r] |->
                           IF i \in Misses(r) THEN price_result[CoinAt(r, i)]
                                              ELSE resultMap[r][i]]]
          /\ Goto(r, "unchan")
          /\ UNCHANGED faults
       \/ /\ r \notin Batched
          /\ LET v == price_result[CoinAt(r, 1)] IN
             \/ /\ v \in Prices
                /\ answer' = [answer EXCEPT ![r] = <<v>>]
                /\ Goto(r, "unchan")
                /\ UNCHANGED faults
             \/ /\ v = NoPrice /\ r \notin ExcludeRoute
                /\ Goto(r, "direct")
                /\ UNCHANGED <<answer, faults>>
             \/ /\ v = Absent \/ (v = NoPrice /\ r \in ExcludeRoute)
                /\ answer' = [answer EXCEPT ![r] = <<NoPrice>>]
                /\ Goto(r, "unchan")
                /\ UNCHANGED faults
             \/ /\ Fault
                /\ answer' = [answer EXCEPT ![r] = <<NoPrice>>]
                /\ Goto(r, "unchan")
    /\ UNCHANGED <<todo, requestIDs, resultMap, registryVars, systemVars>>

\* FetchAndProcessBatchPrices called by the request itself: it asks for every
\* item, leaves the cache alone, and fails when the coins cannot be read.
FetchDirect(r) ==
    /\ pc[r] = "direct"
    /\ \/ \E f \in [{CoinAt(r, i) : i \in DOMAIN Want[r]} -> Quotes] :
             /\ answer' = [answer EXCEPT ![r] =
                              [i \in DOMAIN Want[r] |-> f[CoinAt(r, i)]]]
             /\ quoted' = quoted \cup
                   {<<c, f[c]>> : c \in {d \in DOMAIN f : f[d] \in Prices}}
             /\ UNCHANGED faults
       \/ Fault /\ UNCHANGED <<answer, quoted>>
    /\ Goto(r, "unchan")
    /\ UNCHANGED <<todo, requestIDs, resultMap, registryVars, queueVars,
                   price_result, price_results_channel, jobs, workerVars,
                   handlerVars, expired>>

\* The deferred function: two deletes and a close, after which the local
\* variables are gone.  The id stays in keysRequestIDMap.
DeleteChannel(r) ==
    /\ pc[r] = "unchan"
    /\ requestIDChannelMap' = requestIDChannelMap \ {r}
    /\ Goto(r, "unkeys")
    /\ UNCHANGED <<callVars, keysRequestIDMap, keyMapVars, resultChannel,
                   closed, systemVars, faults>>

DeleteKeyMap(r) ==
    /\ pc[r] = "unkeys"
    /\ requestIDKeysMap' = requestIDKeysMap \ {r}
    /\ Goto(r, "close")
    /\ UNCHANGED <<callVars, keysRequestIDMap, requestKeyMap, channelVars,
                   systemVars, faults>>

CloseChannel(r) ==
    /\ pc[r] = "close"
    /\ closed' = closed \cup {r}
    /\ resultMap' = [resultMap EXCEPT ![r] = [i \in DOMAIN Want[r] |-> Absent]]
    /\ todo' = [todo EXCEPT ![r] = {}]
    /\ Goto(r, "done")
    /\ UNCHANGED <<requestIDs, answer, keysRequestIDMap, keyMapVars,
                   requestIDChannelMap, resultChannel, systemVars, faults>>

-----------------------------------------------------------------------------
(* The worker: ProcessPriceRequests.                                       *)

\* The script is loaded once, before the loop.
LoadScript(p) ==
    /\ worker[p] = "starts"
    /\ worker' = [worker EXCEPT ![p] = "pops"]
    /\ script' = TRUE
    /\ UNCHANGED <<clientVars, registryVars, queueVars, price_result, jobs,
                   historyVars, price_results_channel, handlerVars, faults>>

\* When it cannot be loaded the worker returns, and the process lives on
\* without one.
LoadScriptFails(p) ==
    /\ Fault /\ worker[p] = "starts"
    /\ worker' = [worker EXCEPT ![p] = "returned"]
    /\ UNCHANGED <<clientVars, registryVars, queueVars, price_result, jobs,
                   script, historyVars, price_results_channel, handlerVars>>

\* What the second Lua script takes off the queue.
Popped ==
    IF Len(price_requests_queue) < FetchSize THEN price_requests_queue
    ELSE SubSeq(price_requests_queue, 1, FetchSize)

\* The goroutines the popped entries are shared among.
Batches(taken) ==
    {SubSeq(taken, first, IF first + BatchSize <= Len(taken)
                          THEN first + BatchSize - 1 ELSE Len(taken)) :
        first \in {i \in 1..Len(taken) : (i - 1) % BatchSize = 0}}

\* The popped entries leave the queue and their keys leave the set, all but the
\* empty key, which the pattern of the script never matches.
\* The loop pops again only when all the goroutines of the last round ended.
\* A script that Redis does not know, or any other error of it, pops nothing:
\* the loop goes round with the same hash, and never loads the script again.
PopRequests(p) ==
    /\ worker[p] = "pops" /\ script
    /\ jobs[p] = {} /\ price_requests_queue # <<>>
    /\ price_requests_queue' =
          SubSeq(price_requests_queue, Len(Popped) + 1,
                 Len(price_requests_queue))
    /\ unique_price_requests' =
          unique_price_requests \ (Elems(Popped) \ {Junk})
    /\ jobs' = [jobs EXCEPT ![p] =
          {[keys |-> b, stage |-> "fetch",
            price |-> [c \in Coins |-> NoPrice]] : b \in Batches(Popped)}]
    /\ UNCHANGED <<clientVars, registryVars, price_result, workerVars,
                   price_results_channel, handlerVars, historyVars, faults>>

\* Entries that do not have five parts are dropped; the rest is fetched.  With
\* no entry left, or when the coins cannot be read, the goroutine ends.
FetchJob(p, j) ==
    /\ j \in jobs[p] /\ j.stage = "fetch"
    /\ \/ \E valid \in Selections(j.keys, Elems(j.keys) \ {Junk}) :
          \E f \in [{CoinOf[k] : k \in Elems(valid)} -> Quotes] :
             /\ jobs' = [jobs EXCEPT ![p] = (@ \ {j}) \cup
                   IF valid = <<>> THEN {} ELSE
                   {[keys |-> valid, stage |-> "set", price |->
                        [c \in Coins |-> IF c \in DOMAIN f THEN f[c]
                                                           ELSE NoPrice]]}]
             /\ quoted' = quoted \cup
                   {<<c, f[c]>> : c \in {d \in DOMAIN f : f[d] \in Prices}}
             /\ UNCHANGED faults
       \/ /\ Fault
          /\ jobs' = [jobs EXCEPT ![p] = @ \ {j}]
          /\ UNCHANGED quoted
    /\ UNCHANGED <<clientVars, registryVars, queueVars, price_result,
                   workerVars, price_results_channel, handlerVars, expired>>

\* The goroutine goes on to the next result, or ends.
Advance(p, j) ==
    jobs' = [jobs EXCEPT ![p] = (@ \ {j}) \cup
               IF Len(j.keys) = 1 THEN {}
               ELSE {[j EXCEPT !.keys = Tail(@), !.stage = "set"]}]

\* results[i] belongs to requestKeys[i].
ResultOf(j) == j.price[CoinOf[Head(j.keys)]]

\* Each result is cached under its coin, then announced under its key; when
\* Redis refuses to cache it, it is not announced.
SetResult(p, j) ==
    /\ j \in jobs[p] /\ j.stage = "set"
    /\ LET c == CoinOf[Head(j.keys)] IN
       \/ /\ price_result' = [price_result EXCEPT ![c] = ResultOf(j)]
          /\ jobs' = [jobs EXCEPT ![p] =
                         (@ \ {j}) \cup {[j EXCEPT !.stage = "notify"]}]
          /\ UNCHANGED faults
       \/ /\ Fault
          /\ Advance(p, j)
          /\ UNCHANGED price_result
    /\ UNCHANGED <<clientVars, registryVars, queueVars, price_results_channel,
                   workerVars, handlerVars, historyVars>>

\* Published to the subscribers of all processes.
NotifyProducer(p, j) ==
    /\ j \in jobs[p] /\ j.stage = "notify"
    /\ price_results_channel' = [q \in Pods |->
          [price_results_channel[q] EXCEPT ![Head(j.keys)] = @ + 1]]
    /\ Advance(p, j)
    /\ UNCHANGED <<clientVars, registryVars, queueVars, price_result,
                   workerVars, handlerVars, historyVars, faults>>

-----------------------------------------------------------------------------
(* The subscriber: startResultSubscriber and processMessage.               *)

\* The goroutine of a message loads the ids registered for its key, if any,
\* and starts a goroutine for each.  Goroutines of several messages run in any
\* order.
ProcessMessage(h, k) ==
    LET p == SlotPod[h] IN
    /\ message[h] = None /\ price_results_channel[p][k] > 0
    /\ price_results_channel' = [price_results_channel EXCEPT ![p][k] = @ - 1]
    /\ \/ /\ keysRequestIDMap[p][k] = <<>>
          /\ UNCHANGED handlerVars
       \/ /\ keysRequestIDMap[p][k] # <<>>
          /\ message' = [message EXCEPT ![h] = k]
          /\ waiters' = [waiters EXCEPT ![h] = keysRequestIDMap[p][k]]
          /\ at' = [at EXCEPT ![h] =
                       [i \in 1..Len(keysRequestIDMap[p][k]) |-> "load"]]
    /\ UNCHANGED <<clientVars, registryVars, remoteVars, faults>>

\* A message that finds the subscription down is gone.
LoseMessage(p, k) ==
    /\ Fault /\ price_results_channel[p][k] > 0
    /\ price_results_channel' = [price_results_channel EXCEPT ![p][k] = @ - 1]
    /\ UNCHANGED <<clientVars, registryVars, remoteVars, handlerVars>>

LoadKeyMap(h, i) ==
    /\ Task(h, i, "load",
            IF waiters[h][i] \in requestIDKeysMap THEN "lock" ELSE "done")
    /\ UNCHANGED <<clientVars, registryVars, remoteVars, price_results_channel,
                   message, waiters, faults>>

\* The mutex is a local variable of processMessage.
LockMutex(h, i) ==
    /\ \A j \in DOMAIN at[h] : at[h][j] \notin Locked
    /\ Task(h, i, "lock", "delete")
    /\ UNCHANGED <<clientVars, registryVars, remoteVars, price_results_channel,
                   message, waiters, faults>>

DeleteKey(h, i) ==
    /\ Task(h, i, "delete", "check")
    /\ requestKeyMap' = [requestKeyMap EXCEPT ![waiters[h][i]] =
                            @ \ {message[h]}]
    /\ UNCHANGED <<clientVars, keysRequestIDMap, requestIDKeysMap, channelVars,
                   remoteVars, price_results_channel, message, waiters,
                   faults>>

CheckKeyMap(h, i) ==
    /\ Task(h, i, "check",
            IF requestKeyMap[waiters[h][i]] = {}
               /\ waiters[h][i] \in requestIDChannelMap
            THEN "send" ELSE "done")
    /\ UNCHANGED <<clientVars, registryVars, remoteVars, price_results_channel,
                   message, waiters, faults>>

\* Blocks, with the mutex held, while the channel holds an "ok".
SendOk(h, i) ==
    /\ message[h] # None /\ i \in DOMAIN waiters[h]
    /\ waiters[h][i] \notin closed /\ resultChannel[waiters[h][i]] = 0
    /\ Task(h, i, "send", "done")
    /\ resultChannel' = [resultChannel EXCEPT ![waiters[h][i]] = @ + 1]
    /\ UNCHANGED <<clientVars, keysRequestIDMap, keyMapVars,
                   requestIDChannelMap, closed, remoteVars,
                   price_results_channel, message, waiters, faults>>

\* All the waiters' goroutines ended: the key leaves the map, with the ids it
\* holds by now.
DeleteRequestKey(h) ==
    /\ message[h] # None
    /\ \A i \in DOMAIN at[h] : at[h][i] = "done"
    /\ keysRequestIDMap' =
          [keysRequestIDMap EXCEPT ![SlotPod[h]][message[h]] = <<>>]
    /\ message' = [message EXCEPT ![h] = None]
    /\ waiters' = [waiters EXCEPT ![h] = <<>>]
    /\ at' = [at EXCEPT ![h] = <<>>]
    /\ UNCHANGED <<clientVars, keyMapVars, channelVars, remoteVars,
                   price_results_channel, faults>>

-----------------------------------------------------------------------------
(* Redis expires a result or loses its scripts; a process dies.            *)

ExpireResult(c) ==
    /\ Fault /\ price_result[c] # Absent
    /\ price_result' = [price_result EXCEPT ![c] = Absent]
    /\ expired' = expired \cup {c}
    /\ UNCHANGED <<clientVars, registryVars, queueVars, price_results_channel,
                   jobs, workerVars, handlerVars, quoted>>

\* A restart of Redis keeps its data but none of the loaded scripts.
ScriptsLost ==
    /\ Fault /\ script
    /\ script' = FALSE
    /\ UNCHANGED <<clientVars, registryVars, queueVars, price_result, jobs,
                   worker, historyVars, price_results_channel, handlerVars>>

\* Everything in the memory of process p is gone, popped requests included;
\* Redis keeps the queue, the set and the cache.  The process comes back empty.
Dies(p) ==
    LET Mine == {r \in Requests : PodOf[r] = p} IN
    /\ pc' = [r \in Requests |->
                 IF r \in Mine /\ pc[r] \notin Resting THEN "lost" ELSE pc[r]]
    /\ todo' = [r \in Requests |-> IF r \in Mine THEN {} ELSE todo[r]]
    /\ requestIDs' = [r \in Requests |->
                         IF r \in Mine THEN <<>> ELSE requestIDs[r]]
    /\ resultMap' = [r \in Requests |-> IF r \in Mine
                         THEN [i \in DOMAIN Want[r] |-> Absent]
                         ELSE resultMap[r]]
    /\ keysRequestIDMap' = [keysRequestIDMap EXCEPT ![p] = [k \in Keys |-> <<>>]]
    /\ requestIDKeysMap' = requestIDKeysMap \ Mine
    /\ requestIDChannelMap' = requestIDChannelMap \ Mine
    /\ requestKeyMap' = [r \in Requests |->
                            IF r \in Mine THEN {} ELSE requestKeyMap[r]]
    /\ resultChannel' = [r \in Requests |->
                            IF r \in Mine THEN 0 ELSE resultChannel[r]]
    /\ closed' = closed \ Mine
    /\ price_results_channel' =
          [price_results_channel EXCEPT ![p] = [k \in Keys |-> 0]]
    /\ jobs' = [jobs EXCEPT ![p] = {}]
    /\ worker' = [worker EXCEPT ![p] = "starts"]
    /\ message' = [h \in Handlers |->
                      IF SlotPod[h] = p THEN None ELSE message[h]]
    /\ waiters' = [h \in Handlers |->
                      IF SlotPod[h] = p THEN <<>> ELSE waiters[h]]
    /\ at' = [h \in Handlers |-> IF SlotPod[h] = p THEN <<>> ELSE at[h]]
    /\ UNCHANGED <<answer, queueVars, price_result, script, historyVars>>

Crash(p) == Fault /\ Dies(p)

\* A send on a closed channel panics, also when it was blocked before.
SendOnClosedChannel(h, i) ==
    /\ message[h] # None /\ i \in DOMAIN at[h]
    /\ at[h][i] = "send" /\ waiters[h][i] \in closed
    /\ Dies(SlotPod[h])
    /\ UNCHANGED faults

\* Two goroutines write the key map of one request.  The Go runtime may notice,
\* and then stops the process; otherwise both deletes take effect.
Racing(h, i) ==
    \E g \in Handlers \ {h} : \E j \in DOMAIN at[g] :
        /\ message[h] # None /\ i \in DOMAIN at[h]
        /\ at[h][i] = "delete" /\ at[g][j] = "delete"
        /\ waiters[g][j] = waiters[h][i]

ConcurrentMapWrites(h, i) ==
    /\ Racing(h, i)
    /\ Dies(SlotPod[h])
    /\ UNCHANGED faults

-----------------------------------------------------------------------------
Call(r) ==
    \/ GetPrice(r) \/ StoreChannel(r) \/ ProbeCache(r)
    \/ \E i \in DOMAIN Want[r] : LoadRequestIDs(r, i) \/ StoreRequestIDs(r, i)
    \/ StoreKeyMap(r) \/ Enqueue(r) \/ RedisFails(r)
    \/ ReceiveOk(r) \/ TimeOut(r) \/ ReadResult(r) \/ FetchDirect(r)
    \/ DeleteChannel(r) \/ DeleteKeyMap(r) \/ CloseChannel(r)

Work(p) ==
    \/ LoadScript(p) \/ PopRequests(p)
    \/ \E j \in jobs[p] : FetchJob(p, j) \/ SetResult(p, j)
                          \/ NotifyProducer(p, j)

Handle(h) ==
    \/ \E k \in Keys : ProcessMessage(h, k)
    \/ \E i \in DOMAIN at[h] :
          \/ LoadKeyMap(h, i) \/ LockMutex(h, i) \/ DeleteKey(h, i)
          \/ CheckKeyMap(h, i) \/ SendOk(h, i)
          \/ SendOnClosedChannel(h, i) \/ ConcurrentMapWrites(h, i)
    \/ DeleteRequestKey(h)

Environment ==
    \/ \E c \in Coins : ExpireResult(c)
    \/ \E p \in Pods, k \in Keys : LoseMessage(p, k)
    \/ ScriptsLost
    \/ \E p \in Pods : Crash(p) \/ LoadScriptFails(p)

Next == \/ \E r \in Requests : Call(r)
        \/ \E p \in Pods : Work(p)
        \/ \E h \in Handlers : Handle(h)
        \/ Environment

Spec == Init /\ [][Next]_vars

\* Goroutines keep running and the timer of the select fires; when a call is
\* made, when a message is lost and when a process dies is up to the outside.
Fairness ==
    /\ \A r \in Requests : WF_vars(pc[r] # "idle" /\ Call(r))
    /\ \A p \in Pods : WF_vars(Work(p))
    /\ \A h \in Handlers : WF_vars(Handle(h))

FairSpec == Spec /\ Fairness

-----------------------------------------------------------------------------
(* What the pipeline keeps true.                                           *)

CallTypes ==
    /\ pc \in [Requests -> Stages]
    /\ todo \in [Requests -> SUBSET Nat]
    /\ requestIDs \in [Requests -> Seq(Requests)]
    /\ DOMAIN resultMap = Requests
    /\ \A r \in Requests : resultMap[r] \in [DOMAIN Want[r] -> Cached]
    /\ DOMAIN answer = Requests
    /\ \A r \in Requests :
          answer[r] = <<>> \/ answer[r] \in [DOMAIN Want[r] -> Cached]

RegistryTypes ==
    /\ keysRequestIDMap \in [Pods -> [Keys -> Seq(Requests)]]
    /\ requestIDKeysMap \subseteq Requests
    /\ requestKeyMap \in [Requests -> SUBSET Keys]
    /\ requestIDChannelMap \subseteq Requests
    /\ resultChannel \in [Requests -> {0, 1}]
    /\ closed \subseteq Requests

QueueTypes ==
    /\ unique_price_requests \subseteq Entries
    /\ price_requests_queue \in Seq(Entries)

CacheTypes ==
    /\ price_result \in [Coins -> Cached]
    /\ price_results_channel \in [Pods -> [Keys -> Nat]]

JobTypes == jobs \in [Pods -> SUBSET Job]

WorkerTypes == worker \in [Pods -> WorkerStages] /\ script \in BOOLEAN

HandlerTypes ==
    /\ message \in [Handlers -> Keys \cup {None}]
    /\ waiters \in [Handlers -> Seq(Requests)]
    /\ at \in [Handlers -> Seq(TaskStages)]

HistoryTypes == quoted \subseteq Coins \X Prices /\ expired \subseteq Coins

\* Every variable keeps its type.
TypeOK == /\ CallTypes /\ RegistryTypes /\ QueueTypes /\ CacheTypes
          /\ JobTypes /\ WorkerTypes /\ HandlerTypes /\ HistoryTypes /\ faults \in Nat

\* The unique set and the queue agree (the two Lua scripts, 416-428 and
\* 1081-1128): no key is queued twice, and a key that the set holds back is
\* in the queue, so that no key is refused for good.  Only the empty key is
\* never taken out of the set.
QueueMatchesSet ==
    /\ Distinct(price_requests_queue)
    /\ Elems(price_requests_queue) \subseteq unique_price_requests
    /\ unique_price_requests \ {Junk} \subseteq Elems(price_requests_queue)

\* A process never fetches a key twice at a time: the batches that run
\* concurrently share no key (the splitting at 451-461, and the pop that waits
\* for all of them at 505), although a key may be queued again, and fetched by
\* another process, while it is being fetched.
OneFetchPerKey ==
    \A p \in Pods : \A j \in jobs[p] :
        /\ Distinct(j.keys)
        /\ \A l \in jobs[p] \ {j} : Elems(l.keys) \cap Elems(j.keys) = {}

Served(k) == price_result[CoinOf[k]] # Absent \/ CoinOf[k] \in expired

\* A call is woken by "ok" only when the result of every key it missed has been
\* cached: it then finds each of them, unless Redis expired it in between.  It
\* rests on the result being cached before it is announced (492-500), and on
\* the key map being stored only when it is complete (148-149, 264).
OkMeansCached ==
    \A r \in Requests :
        (pc[r] = "wait" /\ resultChannel[r] > 0) \/ pc[r] = "read"
            => \A k \in Wanted(r) : Served(k)

\* Every price in the cache, on its way there, or returned by a call was quoted
\* for that very token by some source.
PricesAreQuoted ==
    /\ \A c \in Coins : price_result[c] \in Prices
                            => <<c, price_result[c]>> \in quoted
    /\ \A p \in Pods : \A j \in jobs[p] : \A c \in Coins :
          j.price[c] \in Prices => <<c, j.price[c]>> \in quoted
    /\ \A r \in Requests : \A i \in DOMAIN Want[r] :
          /\ resultMap[r][i] \in Prices
                => <<CoinAt(r, i), resultMap[r][i]>> \in quoted
          /\ (answer[r] # <<>> /\ answer[r][i] \in Prices)
                => <<CoinAt(r, i), answer[r][i]>> \in quoted

\* A call that has ended, or whose process died, has left the channel map and
\* the key map (the deferred function, 138-142): no goroutine finds it there.
NoDeadEntries ==
    \A r \in requestIDChannelMap \cup requestIDKeysMap :
        pc[r] \notin Resting

\* Every call ends.
RequestEnds ==
    \A r \in Requests : (pc[r] # "idle") ~> (pc[r] \in Resting)

\* No process will ever pop again unless one of them is restarted.
NonePops ==
    \A p \in Pods : worker[p] = "returned" \/ (worker[p] = "pops" /\ ~script)

\* Every queued key is popped, unless every worker has given up: the worker
\* never waits for its goroutines for ever (455, 505), and only a script that
\* was not loaded, or got lost, stops it (431-435, 440-444); a process that
\* comes back loads the script for all of them.
QueueDrains ==
    \A k \in Keys : (k \in Elems(price_requests_queue))
                        ~> (k \notin Elems(price_requests_queue) \/ NonePops)

\* Every goroutine of processMessage ends, or ends the process: a send that
\* blocks with the mutex held (561-572) is freed by the receiver or by the
\* close.
HandlersEnd ==
    \A h \in Handlers : (message[h] # None) ~> (message[h] = None)

\* The calls get what the price service promises.
Answers ==
    INSTANCE PriceAnswers WITH
        Asks <- [r \in Requests |-> [i \in DOMAIN Want[r] |-> CoinAt(r, i)]],
        status <- [r \in Requests |->
            CASE pc[r] = "idle" -> "new"
              [] pc[r] = "done" -> IF answer[r] = <<>> THEN "refused"
                                                       ELSE "answered"
              [] pc[r] = "lost" -> "abandoned"
              [] OTHER -> "open"],
        reply <- [r \in Requests |->
                     IF pc[r] = "done" THEN answer[r] ELSE <<>>],
        quoted <- quoted

AnswersSpec == Answers!Spec
=============================================================================
