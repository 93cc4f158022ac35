----------------------- MODULE PriceCoalescer_proofs ------------------------
(***************************************************************************)
(* Proofs about PriceCoalescer for any number of processes, calls, keys    *)
(* and goroutines.                                                         *)
(***************************************************************************)
EXTENDS PriceCoalescer, SequenceTheorems, FiniteSetTheorems,
        FunctionTheorems, TLAPS

-----------------------------------------------------------------------------
(* Sequences of keys.                                                      *)

\* A sequence has finitely many elements.
LEMMA ElemsFinite ==
    ASSUME NEW S, NEW s \in Seq(S)
    PROVE  /\ Elems(s) \subseteq S
           /\ IsFiniteSet(Elems(s))
<1>1. s \in [1..Len(s) -> Elems(s)] /\ Len(s) \in Nat
  BY LenProperties, SMT DEF Elems
<1>2. Elems(s) \subseteq S
  BY <1>1, ElementOfSeq, SMT DEF Elems
<1>3. \A e \in Elems(s) : \E i \in 1..Len(s) : s[i] = e
  BY <1>1, LenProperties, SMT DEF Elems
<1>4. s \in Surjection(1..Len(s), Elems(s))
  BY <1>1, <1>3, Fun_IsSurj
<1>5. IsFiniteSet(1..Len(s))
  BY <1>1, FS_Interval, SMT
<1>6. IsFiniteSet(Elems(s))
  BY <1>4, <1>5, FS_Surjection
<1> QED BY <1>2, <1>6

\* What a loop over args selects is a sequence of the selected elements, each
\* once.
LEMMA SelectionIsExact ==
    ASSUME NEW S, NEW args \in Seq(S), NEW W \in SUBSET Elems(args),
           NEW s \in Selections(args, W)
    PROVE  s \in Seq(W) /\ Elems(s) = W /\ Distinct(s)
<1>1. IsFiniteSet(W)
  BY ElemsFinite, FS_Subset
<1> DEFINE n == Cardinality(W)
<1>2. n \in Nat
  BY <1>1, FS_CardinalityType
<1>3. s \in [1..n -> W]
  BY DEF Selections
<1>4. s \in Seq(W)
  BY <1>2, <1>3, SeqDef, SMT
<1>5. \A i, j \in 1..n : i < j => s[i] # s[j]
  <2> SUFFICES ASSUME NEW i \in 1..n, NEW j \in 1..n, i < j, s[i] = s[j]
               PROVE  FALSE
    OBVIOUS
  <2>1. Precedes(args, s[i], s[j])
    BY DEF Selections
  <2>2. PICK a \in DOMAIN args :
            args[a] = s[i] /\ \A b \in 1..a : args[b] # s[j]
    BY <2>1 DEF Precedes
  <2>3. a \in 1..a
    BY <2>2, LenProperties, SMT
  <2> QED BY <2>2, <2>3
<1>6. \A i, j \in 1..n : s[i] = s[j] => i = j
  BY <1>2, <1>5, SMT
<1>7. DOMAIN s = 1..n
  BY <1>3
<1>8. Distinct(s)
  BY <1>6, <1>7 DEF Distinct
<1>9. s \in Injection(1..n, W)
  BY <1>3, <1>6, Fun_IsInj
<1>10. IsFiniteSet(1..n) /\ Cardinality(1..n) = n
  BY <1>2, FS_Interval, SMT
<1>11. s \in Surjection(1..n, W)
  BY <1>1, <1>9, <1>10, FS_Injection
<1>12. \A w \in W : \E i \in 1..n : s[i] = w
  BY <1>11 DEF Surjection
<1>13. Elems(s) = W
  BY <1>3, <1>7, <1>12 DEF Elems
<1> QED BY <1>4, <1>8, <1>13

LEMMA MultipleOf ==
    ASSUME NEW n \in Nat \ {0}, NEW x \in Nat, x % n = 0
    PROVE  x = n * (x \div n) /\ x \div n \in Nat
OBVIOUS

\* Multiples of n differ by n at least.
LEMMA MultiplesApart ==
    ASSUME NEW n \in Nat \ {0}, NEW x \in Nat, NEW y \in Nat,
           x % n = 0, y % n = 0, x < y
    PROVE  x + n <= y
<1> DEFINE a == x \div n
           b == y \div n
<1>1. x = n * a /\ a \in Nat
  BY MultipleOf
<1>2. y = n * b /\ b \in Nat
  BY MultipleOf
<1> HIDE DEF a, b
<1>3. a < b
  BY <1>1, <1>2
<1>4. PICK d \in Nat : b = a + 1 + d
  BY <1>1, <1>2, <1>3
<1>5. n * b = n * a + n + n * d /\ n * d >= 0
  BY <1>1, <1>4
<1> QED BY <1>1, <1>2, <1>5

-----------------------------------------------------------------------------
(* Type correctness.                                                       *)

\* A batch that has been fetched holds the keys of real requests, at least one.
JobOK(j) == j.stage # "fetch" => j.keys \in Seq(Keys) /\ j.keys # <<>>
JobsOK == \A p \in Pods : \A j \in jobs[p] : JobOK(j)

TypeInv == TypeOK /\ JobsOK

USE RequestAssumption, ValueAssumption, SizeAssumption

LEMMA TypeInit == Init => TypeInv
<1> SUFFICES ASSUME Init PROVE TypeInv
  OBVIOUS
<1>1. CallTypes
  BY DEF Init, CallTypes, Stages, Resting, Cached, Quotes
<1>2. RegistryTypes /\ QueueTypes /\ CacheTypes
  BY DEF Init, RegistryTypes, QueueTypes, CacheTypes, Cached, Quotes, Entries
<1>3. JobTypes /\ JobsOK /\ HandlerTypes /\ HistoryTypes /\ faults \in Nat
  BY DEF Init, JobTypes, JobsOK, HandlerTypes, HistoryTypes
<1>4. WorkerTypes
  <2>1. worker \in [Pods -> WorkerStages]
    BY SMT DEF Init, WorkerStages
  <2>2. script \in BOOLEAN
    BY Zenon DEF Init
  <2> QED BY <2>1, <2>2, Zenon DEF WorkerTypes
<1> QED BY <1>1, <1>2, <1>3, <1>4, Zenon DEF TypeInv, TypeOK

\* What a step leaves alone keeps its type.
LEMMA TypeFrame ==
    ASSUME TypeInv
    PROVE  /\ UNCHANGED clientVars => CallTypes'
           /\ UNCHANGED registryVars => RegistryTypes'
           /\ UNCHANGED queueVars => QueueTypes'
           /\ UNCHANGED <<price_result, price_results_channel>> => CacheTypes'
           /\ UNCHANGED jobs => JobTypes' /\ JobsOK'
           /\ UNCHANGED workerVars => WorkerTypes'
           /\ UNCHANGED handlerVars => HandlerTypes'
           /\ UNCHANGED historyVars => HistoryTypes'
           /\ UNCHANGED faults \/ Fault => faults' \in Nat
           /\ UNCHANGED systemVars
                => /\ QueueTypes' /\ CacheTypes' /\ JobTypes' /\ JobsOK'
                   /\ WorkerTypes' /\ HandlerTypes' /\ HistoryTypes'
           /\ UNCHANGED remoteVars
                => /\ QueueTypes' /\ JobTypes' /\ JobsOK' /\ WorkerTypes'
                   /\ HistoryTypes'
<1> USE DEF TypeInv, TypeOK
<1>1. UNCHANGED clientVars => CallTypes'
  BY DEF clientVars, callVars, CallTypes
<1>2. UNCHANGED registryVars => RegistryTypes'
  BY DEF registryVars, keyMapVars, channelVars, RegistryTypes
<1>3. UNCHANGED queueVars => QueueTypes'
  BY DEF queueVars, QueueTypes
<1>4. UNCHANGED <<price_result, price_results_channel>> => CacheTypes'
  BY DEF CacheTypes
<1>5. UNCHANGED jobs => JobTypes' /\ JobsOK'
  BY DEF JobTypes, JobsOK
<1>5a. UNCHANGED workerVars => WorkerTypes'
  BY DEF workerVars, WorkerTypes
<1>6. UNCHANGED handlerVars => HandlerTypes'
  BY DEF handlerVars, HandlerTypes
<1>7. UNCHANGED historyVars => HistoryTypes'
  BY DEF historyVars, HistoryTypes
<1>8. UNCHANGED faults \/ Fault => faults' \in Nat
  BY DEF Fault
<1>9. UNCHANGED systemVars
        => /\ UNCHANGED queueVars /\ UNCHANGED jobs /\ UNCHANGED handlerVars
           /\ UNCHANGED <<price_result, price_results_channel>>
           /\ UNCHANGED workerVars /\ UNCHANGED historyVars
  BY DEF systemVars, remoteVars
<1>10. UNCHANGED remoteVars
         => /\ UNCHANGED queueVars /\ UNCHANGED jobs
            /\ UNCHANGED workerVars /\ UNCHANGED historyVars
  BY DEF remoteVars
<1> QED BY <1>1, <1>2, <1>3, <1>4, <1>5, <1>5a, <1>6, <1>7, <1>8, <1>9, <1>10

\* Loading the script, or losing it, changes only what the workers know of it.
LEMMA ScriptFrame ==
    ASSUME NEW p, LoadScript(p) \/ LoadScriptFails(p) \/ ScriptsLost
    PROVE  /\ UNCHANGED clientVars /\ UNCHANGED registryVars
           /\ UNCHANGED queueVars /\ UNCHANGED jobs
           /\ UNCHANGED <<price_result, price_results_channel>>
           /\ UNCHANGED historyVars /\ UNCHANGED handlerVars
           /\ UNCHANGED faults \/ Fault
BY Zenon DEF LoadScript, LoadScriptFails, ScriptsLost

LEMMA TypeScript ==
    ASSUME TypeInv, NEW p \in Pods, LoadScript(p) \/ LoadScriptFails(p)
    PROVE  TypeInv'
<1>0. worker \in [Pods -> WorkerStages] /\ script \in BOOLEAN
  BY Zenon DEF TypeInv, TypeOK, WorkerTypes
<1>1. WorkerTypes'
  <2>1. worker' = [worker EXCEPT ![p] = "pops"]
        \/ worker' = [worker EXCEPT ![p] = "returned"]
    BY Zenon DEF LoadScript, LoadScriptFails
  <2>2. worker' \in [Pods -> WorkerStages]
    BY <1>0, <2>1, SMT DEF WorkerStages
  <2>3. script' \in BOOLEAN
    BY <1>0, Zenon DEF LoadScript, LoadScriptFails
  <2> QED BY <2>2, <2>3, Zenon DEF WorkerTypes
<1> QED BY <1>1, ScriptFrame, TypeFrame, Zenon DEF TypeInv, TypeOK

\* A step of a call that changes only the variables of the calls and of the
\* registry keeps the other types.
LEMMA TypeCallFrame ==
    ASSUME TypeInv, UNCHANGED systemVars, UNCHANGED faults \/ Fault,
           CallTypes', RegistryTypes'
    PROVE  TypeInv'
BY TypeFrame DEF TypeInv, TypeOK

LEMMA SingleAnswer ==
    ASSUME NEW r \in Requests \ Batched, NEW v \in Cached
    PROVE  <<v>> \in [DOMAIN Want[r] -> Cached]
<1>1. Want[r] \in Seq(Keys) /\ Len(Want[r]) = 1
  OBVIOUS
<1>2. DOMAIN Want[r] = 1..1
  BY <1>1
<1> QED BY <1>2

LEMMA AnswerTypes ==
    ASSUME CallTypes, NEW r \in Requests, NEW stage \in Stages,
           Goto(r, stage), UNCHANGED <<todo, requestIDs, resultMap>>,
           \/ UNCHANGED answer
           \/ \E a \in [DOMAIN Want[r] -> Cached] :
                 answer' = [answer EXCEPT ![r] = a]
    PROVE  CallTypes'
<1>1. pc' \in [Requests -> Stages]
  BY DEF CallTypes, Goto
<1>2. DOMAIN answer' = Requests
  BY DEF CallTypes
<1>3. \A q \in Requests :
         answer'[q] = <<>> \/ answer'[q] \in [DOMAIN Want[q] -> Cached]
  BY DEF CallTypes
<1> QED BY <1>1, <1>2, <1>3 DEF CallTypes

LEMMA TypeGetPrice ==
    ASSUME TypeInv, NEW r \in Requests, GetPrice(r)
    PROVE  TypeInv'
<1> USE DEF TypeInv, TypeOK, GetPrice
<1> DEFINE v == price_result[CoinAt(r, 1)]
<1>1. CASE v \in Prices /\ answer' = [answer EXCEPT ![r] = <<v>>]
           /\ Goto(r, "done")
  <2>1. <<v>> \in [DOMAIN Want[r] -> Cached]
    BY <1>1, SingleAnswer DEF Cached, Quotes
  <2>2. \E a \in [DOMAIN Want[r] -> Cached] :
            answer' = [answer EXCEPT ![r] = a]
    BY <1>1, <2>1
  <2>3. CallTypes'
    BY <1>1, <2>2, AnswerTypes DEF Stages, Resting
  <2> QED BY <2>3, TypeFrame, TypeCallFrame
<1>2. CASE Goto(r, "open") /\ UNCHANGED answer
  <2>1. CallTypes'
    BY <1>2, AnswerTypes DEF Stages
  <2> QED BY <2>1, TypeFrame, TypeCallFrame
<1> QED BY <1>1, <1>2

LEMMA TypeStoreChannel ==
    ASSUME TypeInv, NEW r \in Requests, StoreChannel(r)
    PROVE  TypeInv'
<1> USE DEF TypeInv, TypeOK, StoreChannel
<1>1. pc' \in [Requests -> Stages]
  BY DEF CallTypes, Goto, Stages
<1>2. todo' \in [Requests -> SUBSET Nat]
  <2>1. \/ UNCHANGED todo
        \/ \E T \in SUBSET Nat : todo' = [todo EXCEPT ![r] = T]
    BY {1} \in SUBSET Nat
  <2>2. todo \in [Requests -> SUBSET Nat]
    BY DEF CallTypes
  <2> HIDE DEF StoreChannel, TypeInv
  <2> QED BY <2>1, <2>2
<1>3. CallTypes'
  BY <1>1, <1>2 DEF CallTypes
<1>4. RegistryTypes'
  BY DEF RegistryTypes, keyMapVars
<1> QED BY <1>3, <1>4, TypeCallFrame

LEMMA TypeProbeCache ==
    ASSUME TypeInv, NEW r \in Requests, ProbeCache(r)
    PROVE  TypeInv'
<1> USE DEF TypeInv, TypeOK, ProbeCache
<1>1. DOMAIN Want[r] \subseteq Nat
  OBVIOUS
<1>2. \A i \in DOMAIN Want[r] : price_result[CoinAt(r, i)] \in Cached
  BY DEF CacheTypes, CoinAt
<1>3. CallTypes'
  BY <1>1, <1>2 DEF CallTypes, Goto, Stages
<1>4. RegistryTypes'
  BY TypeFrame
<1> QED BY <1>3, <1>4, TypeCallFrame

LEMMA TypeRegister ==
    ASSUME TypeInv, NEW r \in Requests, NEW i \in DOMAIN Want[r],
           LoadRequestIDs(r, i) \/ StoreRequestIDs(r, i)
    PROVE  TypeInv'
<1> USE DEF TypeInv, TypeOK
<1>1. Want[r][i] \in Keys /\ PodOf[r] \in Pods
  OBVIOUS
<1>2. CASE LoadRequestIDs(r, i)
  <2>1. CallTypes'
    BY <1>1, <1>2 DEF LoadRequestIDs, CallTypes, RegistryTypes, Goto, Stages
  <2> QED BY <1>2, <2>1, TypeFrame, TypeCallFrame DEF LoadRequestIDs
<1>3. CASE StoreRequestIDs(r, i)
  <2>1. Append(requestIDs[r], r) \in Seq(Requests)
    BY AppendProperties DEF CallTypes
  <2>2. CallTypes'
    BY <1>3 DEF StoreRequestIDs, CallTypes, Goto, Stages
  <2>3. RegistryTypes'
    BY <1>1, <1>3, <2>1
       DEF StoreRequestIDs, RegistryTypes, keyMapVars, channelVars
  <2> QED BY <1>3, <2>2, <2>3, TypeCallFrame DEF StoreRequestIDs
<1> QED BY <1>2, <1>3

LEMMA TypeStoreKeyMap ==
    ASSUME TypeInv, NEW r \in Requests, StoreKeyMap(r)
    PROVE  TypeInv'
<1> USE DEF TypeInv, TypeOK, StoreKeyMap
<1>1. Wanted(r) \subseteq Keys
  BY DEF Wanted, Misses
<1>2. CallTypes'
  BY DEF CallTypes, callVars, Goto, Stages
<1>3. RegistryTypes'
  BY <1>1 DEF RegistryTypes, channelVars
<1> QED BY <1>2, <1>3, TypeCallFrame

\* The lemmas of the remaining steps of a call.
LEMMA TypeQueueStep ==
    ASSUME TypeInv, NEW r \in Requests, EnqueueUniqueRequests(requestKeys(r))
    PROVE  QueueTypes'
<1> DEFINE args == requestKeys(r)
<1>1. args \in Seq(Entries)
  BY DEF requestKeys, Entries
<1>2. Elems(args) \subseteq Entries
  BY <1>1, ElemsFinite
<1>3. PICK new \in Selections(args, Elems(args) \ unique_price_requests) :
          price_requests_queue' = price_requests_queue \o new
  BY DEF EnqueueUniqueRequests
<1>4. new \in Seq(Entries)
  <2>1. new \in Seq(Elems(args) \ unique_price_requests)
    BY <1>1, SelectionIsExact
  <2> QED BY <1>2, <2>1, SeqMonotonic
<1>5. price_requests_queue' \in Seq(Entries)
  BY <1>3, <1>4, ConcatProperties DEF TypeInv, TypeOK, QueueTypes
<1> QED BY <1>2, <1>5
        DEF EnqueueUniqueRequests, TypeInv, TypeOK, QueueTypes

LEMMA TypeEnqueue ==
    ASSUME TypeInv, NEW r \in Requests, Enqueue(r) \/ RedisFails(r)
    PROVE  TypeInv'
<1> USE DEF TypeInv, TypeOK
<1>1. QueueTypes'
  BY TypeQueueStep, TypeFrame DEF Enqueue, RedisFails
<1>2. UNCHANGED <<price_result, price_results_channel>> /\ UNCHANGED jobs
      /\ UNCHANGED workerVars /\ UNCHANGED handlerVars /\ UNCHANGED historyVars
      /\ UNCHANGED registryVars /\ (UNCHANGED faults \/ Fault)
  BY DEF Enqueue, RedisFails
<1>3. CallTypes'
  <2>1. PICK stage \in Stages : Goto(r, stage)
    BY DEF Enqueue, RedisFails, Stages
  <2>2. UNCHANGED callVars
    BY DEF Enqueue, RedisFails
  <2> QED BY <2>1, <2>2, AnswerTypes DEF callVars
<1> QED BY <1>1, <1>2, <1>3, TypeFrame

LEMMA TypeWait ==
    ASSUME TypeInv, NEW r \in Requests, ReceiveOk(r) \/ TimeOut(r)
    PROVE  TypeInv'
<1> USE DEF TypeInv, TypeOK
<1>1. CallTypes'
  BY AnswerTypes DEF ReceiveOk, TimeOut, callVars, Stages
<1>2. RegistryTypes'
  <2>1. CASE ReceiveOk(r)
    <3>1. resultChannel[r] = 1
      BY <2>1 DEF ReceiveOk, RegistryTypes
    <3>2. resultChannel' \in [Requests -> {0, 1}]
      BY <2>1, <3>1 DEF ReceiveOk, RegistryTypes
    <3> QED BY <2>1, <3>2 DEF ReceiveOk, RegistryTypes, keyMapVars
  <2>2. CASE TimeOut(r)
    BY <2>2, TypeFrame DEF TimeOut
  <2> QED BY <2>1, <2>2
<1> QED BY <1>1, <1>2, TypeCallFrame DEF ReceiveOk, TimeOut

LEMMA TypeReadResult ==
    ASSUME TypeInv, NEW r \in Requests, ReadResult(r)
    PROVE  TypeInv'
<1> USE DEF TypeInv, TypeOK
<1>1. PICK stage \in {"unchan", "direct"} : Goto(r, stage)
  BY DEF ReadResult
<1>2. \A i \in DOMAIN Want[r] : CoinAt(r, i) \in Coins
  BY DEF CoinAt
<1>3. \/ UNCHANGED answer
      \/ \E a \in [DOMAIN Want[r] -> Cached] :
            answer' = [answer EXCEPT ![r] = a]
  <2>1. CASE r \in Batched
    <3> DEFINE a == [i \in DOMAIN Want[r] |->
                       IF i \in Misses(r) THEN price_result[CoinAt(r, i)]
                                          ELSE resultMap[r][i]]
    <3>1. a \in [DOMAIN Want[r] -> Cached]
      BY <1>2 DEF CacheTypes, CallTypes
    <3>2. answer' = [answer EXCEPT ![r] = a]
      BY <2>1 DEF ReadResult
    <3> QED BY <3>1, <3>2
  <2>2. CASE r \notin Batched
    <3>1. \A v \in Cached : <<v>> \in [DOMAIN Want[r] -> Cached]
      BY <2>2, SingleAnswer
    <3>2. NoPrice \in Cached /\ Prices \subseteq Cached
      BY DEF Cached, Quotes
    <3>3. \/ UNCHANGED answer
          \/ \E v \in Cached : answer' = [answer EXCEPT ![r] = <<v>>]
      BY <2>2, <3>2 DEF ReadResult
    <3> QED BY <3>1, <3>3
  <2> QED BY <2>1, <2>2
<1>4. CallTypes'
  BY <1>1, <1>3, AnswerTypes DEF ReadResult, Stages
<1>5. UNCHANGED registryVars /\ UNCHANGED systemVars
      /\ (UNCHANGED faults \/ Fault)
  BY DEF ReadResult
<1> QED BY <1>4, <1>5, TypeFrame, TypeCallFrame

\* What the sources quote is a pair of a coin and a price.
LEMMA QuotesTyped ==
    ASSUME HistoryTypes, NEW D \in SUBSET Coins, NEW f \in [D -> Quotes],
           UNCHANGED expired,
           quoted' = quoted \cup
              {<<c, f[c]>> : c \in {d \in DOMAIN f : f[d] \in Prices}}
    PROVE  HistoryTypes'
BY DEF HistoryTypes

LEMMA TypeFetchDirect ==
    ASSUME TypeInv, NEW r \in Requests, FetchDirect(r)
    PROVE  TypeInv'
<1> USE DEF TypeInv, TypeOK
<1> DEFINE D == {CoinAt(r, i) : i \in DOMAIN Want[r]}
<1>1. D \subseteq Coins
  BY DEF CoinAt
<1>2. CASE \E f \in [D -> Quotes] :
              /\ answer' = [answer EXCEPT ![r] =
                               [i \in DOMAIN Want[r] |-> f[CoinAt(r, i)]]]
              /\ quoted' = quoted \cup
                    {<<c, f[c]>> : c \in {d \in DOMAIN f : f[d] \in Prices}}
  <2>1. PICK f \in [D -> Quotes] :
               /\ answer' = [answer EXCEPT ![r] =
                                [i \in DOMAIN Want[r] |-> f[CoinAt(r, i)]]]
               /\ quoted' = quoted \cup
                     {<<c, f[c]>> : c \in {d \in DOMAIN f : f[d] \in Prices}}
    BY <1>2
  <2>2. [i \in DOMAIN Want[r] |-> f[CoinAt(r, i)]]
           \in [DOMAIN Want[r] -> Cached]
    BY <2>1 DEF Cached
  <2>3. CallTypes'
    BY <2>1, <2>2, AnswerTypes DEF FetchDirect, Stages
  <2>4. HistoryTypes'
    BY <1>1, <2>1, QuotesTyped DEF FetchDirect
  <2>5. UNCHANGED registryVars /\ UNCHANGED queueVars /\ UNCHANGED jobs
        /\ UNCHANGED workerVars /\ UNCHANGED handlerVars /\ (UNCHANGED faults \/ Fault)
        /\ UNCHANGED <<price_result, price_results_channel>>
    BY DEF FetchDirect
  <2> QED BY <2>3, <2>4, <2>5, TypeFrame
<1>3. CASE UNCHANGED <<answer, quoted>>
  <2>1. CallTypes'
    BY <1>3, AnswerTypes DEF FetchDirect, Stages
  <2>2. UNCHANGED registryVars /\ UNCHANGED queueVars /\ UNCHANGED jobs
        /\ UNCHANGED workerVars /\ UNCHANGED handlerVars /\ (UNCHANGED faults \/ Fault)
        /\ UNCHANGED <<price_result, price_results_channel>>
        /\ UNCHANGED historyVars
    BY <1>3 DEF FetchDirect, historyVars
  <2> QED BY <2>1, <2>2, TypeFrame
<1> QED BY <1>2, <1>3 DEF FetchDirect

LEMMA TypeCleanUp ==
    ASSUME TypeInv, NEW r \in Requests,
           DeleteChannel(r) \/ DeleteKeyMap(r) \/ CloseChannel(r)
    PROVE  TypeInv'
<1> USE DEF TypeInv, TypeOK
<1>1. CASE DeleteChannel(r)
  <2>1. CallTypes'
    BY <1>1, AnswerTypes DEF DeleteChannel, callVars, Stages
  <2>2. RegistryTypes'
    BY <1>1 DEF DeleteChannel, RegistryTypes, keyMapVars
  <2> QED BY <1>1, <2>1, <2>2, TypeCallFrame DEF DeleteChannel
<1>2. CASE DeleteKeyMap(r)
  <2>1. CallTypes'
    BY <1>2, AnswerTypes DEF DeleteKeyMap, callVars, Stages
  <2>2. RegistryTypes'
    BY <1>2 DEF DeleteKeyMap, RegistryTypes, channelVars
  <2> QED BY <1>2, <2>1, <2>2, TypeCallFrame DEF DeleteKeyMap
<1>3. CASE CloseChannel(r)
  <2>1. pc' \in [Requests -> Stages] /\ todo' \in [Requests -> SUBSET Nat]
    BY <1>3 DEF CloseChannel, CallTypes, Goto, Stages, Resting
  <2>2. DOMAIN resultMap' = Requests
        /\ \A q \in Requests : resultMap'[q] \in [DOMAIN Want[q] -> Cached]
    BY <1>3 DEF CloseChannel, CallTypes, Cached
  <2>3. CallTypes'
    BY <1>3, <2>1, <2>2 DEF CloseChannel, CallTypes
  <2>4. RegistryTypes'
    BY <1>3 DEF CloseChannel, RegistryTypes, keyMapVars
  <2> QED BY <1>3, <2>3, <2>4, TypeCallFrame DEF CloseChannel
<1> QED BY <1>1, <1>2, <1>3

LEMMA TypeCall ==
    ASSUME TypeInv, NEW r \in Requests, Call(r)
    PROVE  TypeInv'
BY TypeGetPrice, TypeStoreChannel, TypeProbeCache, TypeRegister,
   TypeStoreKeyMap, TypeEnqueue, TypeWait, TypeReadResult, TypeFetchDirect,
   TypeCleanUp DEF Call

LEMMA TypePopRequests ==
    ASSUME TypeInv, NEW p \in Pods, PopRequests(p)
    PROVE  TypeInv'
<1> USE DEF TypeInv, TypeOK
<1> DEFINE q == price_requests_queue
<1>1. q \in Seq(Entries) /\ Len(q) \in Nat
  BY DEF QueueTypes
<1>2. Popped \in Seq(Entries) /\ Len(Popped) \in Nat
  BY <1>1, SubSeqProperties DEF Popped
<1>3. SubSeq(q, Len(Popped) + 1, Len(q)) \in Seq(Entries)
  <2>1. \A i \in (Len(Popped) + 1)..Len(q) : q[i] \in Entries
    BY <1>1, <1>2, ElementOfSeq
  <2> QED BY <1>1, <1>2, <2>1, SubSeqProperties
<1>4. QueueTypes'
  BY <1>3 DEF QueueTypes, PopRequests
<1>5. \A b \in Batches(Popped) : b \in Seq(Entries)
  <2> SUFFICES ASSUME NEW b \in Batches(Popped)
               PROVE  b \in Seq(Entries)
    OBVIOUS
  <2>1. PICK first \in 1..Len(Popped), last \in 1..Len(Popped) :
            b = SubSeq(Popped, first, last)
    <3>1. PICK first \in {i \in 1..Len(Popped) : (i - 1) % BatchSize = 0} :
              b = SubSeq(Popped, first,
                         IF first + BatchSize <= Len(Popped)
                         THEN first + BatchSize - 1 ELSE Len(Popped))
      BY DEF Batches
    <3> DEFINE last == IF first + BatchSize <= Len(Popped)
                       THEN first + BatchSize - 1 ELSE Len(Popped)
    <3>2. last \in 1..Len(Popped)
      BY <1>2
    <3> QED BY <3>1, <3>2
  <2>2. \A i \in first..last : Popped[i] \in Entries
    BY <1>2, <2>1, ElementOfSeq
  <2> QED BY <2>1, <2>2, SubSeqProperties
<1> DEFINE New == {[keys |-> b, stage |-> "fetch",
                    price |-> [c \in Coins |-> NoPrice]] :
                      b \in Batches(Popped)}
<1>6. \A j \in New : j \in Job /\ j.stage = "fetch"
  BY <1>5 DEF Job, JobStages, Quotes
<1>7. jobs' = [jobs EXCEPT ![p] = New]
  BY DEF PopRequests
<1>8. JobTypes' /\ JobsOK'
  BY <1>6, <1>7 DEF JobTypes, JobsOK, JobOK
<1>9. UNCHANGED clientVars /\ UNCHANGED registryVars
      /\ UNCHANGED <<price_result, price_results_channel>>
      /\ UNCHANGED workerVars /\ UNCHANGED handlerVars
      /\ UNCHANGED historyVars /\ UNCHANGED faults
  BY DEF PopRequests
<1> HIDE DEF TypeInv
<1> QED BY <1>4, <1>8, <1>9, TypeFrame DEF TypeInv

\* Replacing a batch by well-formed ones keeps the type of the batches.
LEMMA JobsReplaced ==
    ASSUME TypeInv, NEW p \in Pods, NEW j, NEW New,
           \A l \in New : l \in Job /\ JobOK(l),
           jobs' = [jobs EXCEPT ![p] = (@ \ {j}) \cup New]
    PROVE  JobTypes' /\ JobsOK'
BY DEF TypeInv, TypeOK, JobTypes, JobsOK

LEMMA TypeFetchJob ==
    ASSUME TypeInv, NEW p \in Pods, NEW j \in jobs[p], FetchJob(p, j)
    PROVE  TypeInv'
<1>1. j \in Job /\ j.keys \in Seq(Entries)
  BY DEF TypeInv, TypeOK, JobTypes, Job
<1> DEFINE Valid == Selections(j.keys, Elems(j.keys) \ {Junk})
           Found(valid) == {CoinOf[k] : k \in Elems(valid)}
           Filled(valid, f) ==
               IF valid = <<>> THEN {} ELSE
               {[keys |-> valid, stage |-> "set", price |->
                   [c \in Coins |-> IF c \in DOMAIN f THEN f[c]
                                                     ELSE NoPrice]]}
           Seen(f) == {<<c, f[c]>> : c \in {d \in DOMAIN f : f[d] \in Prices}}
<1>2. (JobTypes' /\ JobsOK') /\ HistoryTypes'
  <2>1. CASE \E valid \in Valid : \E f \in [Found(valid) -> Quotes] :
               /\ jobs' = [jobs EXCEPT ![p] = (@ \ {j}) \cup Filled(valid, f)]
               /\ quoted' = quoted \cup Seen(f)
    <3>1. PICK valid \in Valid : \E f \in [Found(valid) -> Quotes] :
               /\ jobs' = [jobs EXCEPT ![p] = (@ \ {j}) \cup Filled(valid, f)]
               /\ quoted' = quoted \cup Seen(f)
      BY <2>1
    <3>2. PICK f \in [Found(valid) -> Quotes] :
               /\ jobs' = [jobs EXCEPT ![p] = (@ \ {j}) \cup Filled(valid, f)]
               /\ quoted' = quoted \cup Seen(f)
      BY <3>1
    <3>3. valid \in Seq(Keys) /\ Elems(valid) \subseteq Keys
      <4>1. valid \in Seq(Elems(j.keys) \ {Junk})
            /\ Elems(valid) = Elems(j.keys) \ {Junk}
        BY <1>1, SelectionIsExact
      <4>2. Elems(j.keys) \ {Junk} \subseteq Keys
        BY <1>1, ElemsFinite DEF Entries
      <4> QED BY <4>1, <4>2, SeqMonotonic
    <3>4. Found(valid) \subseteq Coins
      BY <3>3
    <3>5. [c \in Coins |-> IF c \in DOMAIN f THEN f[c] ELSE NoPrice]
             \in [Coins -> Quotes]
      BY DEF Quotes
    <3>6. valid \in Seq(Entries)
      BY <3>3, SeqMonotonic DEF Entries
    <3>7. \A l \in Filled(valid, f) : l \in Job /\ JobOK(l)
      <4> DEFINE g == [c \in Coins |-> IF c \in DOMAIN f THEN f[c] ELSE NoPrice]
                 l == [keys |-> valid, stage |-> "set", price |-> g]
      <4>1. g \in [Coins -> Quotes]
        BY <3>5
      <4> HIDE DEF g
      <4>2. l \in Job /\ l.keys = valid
        BY <3>6, <4>1 DEF Job, JobStages
      <4>3. valid # <<>> => JobOK(l)
        BY <3>3, <4>2 DEF JobOK
      <4> HIDE DEF l
      <4>4. Filled(valid, f) = IF valid = <<>> THEN {} ELSE {l}
        BY DEF l, g
      <4> QED BY <4>2, <4>3, <4>4
    <3>8. JobTypes' /\ JobsOK'
      <4> HIDE DEF Filled
      <4> QED BY <3>2, <3>7, JobsReplaced
    <3>9. HistoryTypes'
      BY <3>2, <3>4, QuotesTyped DEF FetchJob, TypeInv, TypeOK
    <3> QED BY <3>8, <3>9
  <2>2. CASE jobs' = [jobs EXCEPT ![p] = @ \ {j}] /\ UNCHANGED quoted
    <3>1. JobTypes' /\ JobsOK'
      BY <2>2 DEF TypeInv, TypeOK, JobTypes, JobsOK
    <3>2. UNCHANGED historyVars
      BY <2>2 DEF FetchJob, historyVars
    <3> QED BY <3>1, <3>2, TypeFrame
  <2> QED BY <2>1, <2>2 DEF FetchJob
<1>3. UNCHANGED clientVars /\ UNCHANGED registryVars /\ UNCHANGED queueVars
      /\ UNCHANGED <<price_result, price_results_channel>>
      /\ UNCHANGED workerVars /\ UNCHANGED handlerVars
      /\ (UNCHANGED faults \/ Fault)
  BY DEF FetchJob
<1> QED BY <1>2, <1>3, TypeFrame DEF TypeInv, TypeOK

LEMMA TypeAdvance ==
    ASSUME TypeInv, NEW p \in Pods, NEW j \in jobs[p], j.stage # "fetch",
           Advance(p, j)
    PROVE  JobTypes' /\ JobsOK'
<1>1. j \in Job /\ j.keys \in Seq(Keys) /\ j.keys # <<>>
  BY DEF TypeInv, TypeOK, JobTypes, JobsOK, JobOK
<1> DEFINE next == [j EXCEPT !.keys = Tail(@), !.stage = "set"]
<1>2. Tail(j.keys) \in Seq(Keys) /\ Len(Tail(j.keys)) = Len(j.keys) - 1
      /\ Len(j.keys) \in Nat \ {0}
  BY <1>1, HeadTailProperties, EmptySeq
<1>3. Tail(j.keys) \in Seq(Entries)
  BY <1>2, SeqMonotonic DEF Entries
<1>4. next \in Job /\ next.keys = Tail(j.keys)
  BY <1>1, <1>3 DEF Job, JobStages
<1>5. CASE Len(j.keys) = 1
  <2> DEFINE New == {}
  <2>1. jobs' = [jobs EXCEPT ![p] = (@ \ {j}) \cup New]
    BY <1>5 DEF Advance
  <2>2. \A l \in New : l \in Job /\ JobOK(l)
    OBVIOUS
  <2> HIDE DEF New
  <2> QED BY <2>1, <2>2, JobsReplaced
<1>6. CASE Len(j.keys) # 1
  <2>1. jobs' = [jobs EXCEPT ![p] = (@ \ {j}) \cup {next}]
    BY <1>6 DEF Advance
  <2>2. Tail(j.keys) # <<>>
    <3>1. Len(Tail(j.keys)) # 0
      BY <1>2, <1>6
    <3> HIDE DEF next
    <3> QED BY <1>2, <3>1, EmptySeq
  <2>3. \A l \in {next} : l \in Job /\ JobOK(l)
    <3> HIDE DEF next
    <3> QED BY <1>2, <1>4, <2>2 DEF JobOK
  <2> HIDE DEF next
  <2> QED BY <2>1, <2>3, JobsReplaced
<1> QED BY <1>5, <1>6

LEMMA TypeSetResult ==
    ASSUME TypeInv, NEW p \in Pods, NEW j \in jobs[p], SetResult(p, j)
    PROVE  TypeInv'
<1>1. j \in Job /\ j.keys \in Seq(Keys) /\ j.keys # <<>> /\ j.stage = "set"
  BY DEF TypeInv, TypeOK, JobTypes, JobsOK, JobOK, SetResult
<1>2. Head(j.keys) \in Keys /\ CoinOf[Head(j.keys)] \in Coins
  BY <1>1, HeadTailProperties
<1>3. ResultOf(j) \in Cached
  BY <1>1, <1>2 DEF ResultOf, Job, Cached
<1> DEFINE next == [j EXCEPT !.stage = "notify"]
<1>4. next \in Job /\ next.keys = j.keys
  BY <1>1 DEF Job, JobStages
<1>5. ASSUME price_result' = [price_result EXCEPT ![CoinOf[Head(j.keys)]] =
                                 ResultOf(j)],
             jobs' = [jobs EXCEPT ![p] = (@ \ {j}) \cup {next}]
      PROVE  (JobTypes' /\ JobsOK') /\ CacheTypes'
  <2>1. \A l \in {next} : l \in Job /\ JobOK(l)
    BY <1>1, <1>4 DEF JobOK
  <2>2. JobTypes' /\ JobsOK'
    <3> HIDE DEF next
    <3> QED BY <1>5, <2>1, JobsReplaced
  <2>3. CacheTypes'
    BY <1>3, <1>5 DEF SetResult, CacheTypes, TypeInv, TypeOK
  <2> QED BY <2>2, <2>3
<1>6. ASSUME Advance(p, j), UNCHANGED price_result
      PROVE  (JobTypes' /\ JobsOK') /\ CacheTypes'
  <2>1. JobTypes' /\ JobsOK'
    BY <1>1, <1>6, TypeAdvance
  <2>2. UNCHANGED <<price_result, price_results_channel>>
    BY <1>6 DEF SetResult
  <2> QED BY <2>1, <2>2, TypeFrame
<1>7. UNCHANGED clientVars /\ UNCHANGED registryVars /\ UNCHANGED queueVars
      /\ UNCHANGED handlerVars /\ UNCHANGED historyVars
      /\ UNCHANGED workerVars /\ (UNCHANGED faults \/ Fault)
  BY DEF SetResult
<1>8. (JobTypes' /\ JobsOK') /\ CacheTypes'
  BY <1>5, <1>6 DEF SetResult
<1> QED BY <1>7, <1>8, TypeFrame DEF TypeInv, TypeOK

LEMMA TypeNotifyProducer ==
    ASSUME TypeInv, NEW p \in Pods, NEW j \in jobs[p], NotifyProducer(p, j)
    PROVE  TypeInv'
<1>1. JobTypes' /\ JobsOK'
  BY TypeAdvance DEF NotifyProducer
<1>2. CacheTypes'
  <2> DEFINE k == Head(j.keys)
  <2>0. k \in Keys
    <3>1. j.keys \in Seq(Keys) /\ j.keys # <<>>
      BY DEF TypeInv, JobsOK, JobOK, NotifyProducer
    <3> QED BY <3>1, HeadTailProperties
  <2> HIDE DEF k
  <2>1. \A f \in [Keys -> Nat] : [f EXCEPT ![k] = @ + 1] \in [Keys -> Nat]
    BY <2>0
  <2>2. price_results_channel' = [q \in Pods |->
           [price_results_channel[q] EXCEPT ![k] = @ + 1]]
    BY DEF NotifyProducer, k
  <2>3. price_results_channel \in [Pods -> [Keys -> Nat]]
    BY DEF CacheTypes, TypeInv, TypeOK
  <2>4. price_results_channel' \in [Pods -> [Keys -> Nat]]
    BY <2>1, <2>2, <2>3
  <2> QED BY <2>4 DEF NotifyProducer, CacheTypes, TypeInv, TypeOK
<1>3. UNCHANGED clientVars /\ UNCHANGED registryVars /\ UNCHANGED queueVars
      /\ UNCHANGED workerVars /\ UNCHANGED handlerVars
      /\ UNCHANGED historyVars /\ UNCHANGED faults
  BY DEF NotifyProducer
<1> QED BY <1>1, <1>2, <1>3, TypeFrame DEF TypeInv, TypeOK

LEMMA TypeWork ==
    ASSUME TypeInv, NEW p \in Pods, Work(p)
    PROVE  TypeInv'
BY TypeScript, TypePopRequests, TypeFetchJob, TypeSetResult,
   TypeNotifyProducer DEF Work

\* A step of one waiter's goroutine keeps the types of the handlers.
LEMMA TypeTask ==
    ASSUME TypeInv, NEW h \in Handlers, NEW i, NEW from, NEW to \in TaskStages,
           Task(h, i, from, to), UNCHANGED <<message, waiters>>
    PROVE  HandlerTypes'
<1>1. at \in [Handlers -> Seq(TaskStages)] /\ i \in DOMAIN at[h]
  BY DEF TypeInv, TypeOK, HandlerTypes, Task
<1>2. [at[h] EXCEPT ![i] = to] \in Seq(TaskStages)
  BY <1>1, LenProperties, ExceptSeq
<1>3. at' = [at EXCEPT ![h] = [at[h] EXCEPT ![i] = to]]
  BY DEF Task
<1>4. at' \in [Handlers -> Seq(TaskStages)]
  BY <1>1, <1>2, <1>3
<1> QED BY <1>4 DEF TypeInv, TypeOK, HandlerTypes

LEMMA TypeProcessMessage ==
    ASSUME TypeInv, NEW h \in Handlers, NEW k \in Keys, ProcessMessage(h, k)
    PROVE  TypeInv'
<1> USE DEF TypeInv, TypeOK
<1> DEFINE p == SlotPod[h]
           ids == keysRequestIDMap[p][k]
<1>1. p \in Pods
  OBVIOUS
<1>2. ids \in Seq(Requests)
  BY <1>1 DEF RegistryTypes
<1>3. HandlerTypes'
  <2>1. [i \in 1..Len(ids) |-> "load"] \in Seq(TaskStages)
    BY <1>2, LenProperties DEF TaskStages
  <2>2. CASE UNCHANGED handlerVars
    BY <2>2, TypeFrame
  <2>3. CASE /\ message' = [message EXCEPT ![h] = k]
             /\ waiters' = [waiters EXCEPT ![h] = ids]
             /\ at' = [at EXCEPT ![h] = [i \in 1..Len(ids) |-> "load"]]
    BY <1>2, <2>1, <2>3 DEF HandlerTypes
  <2> QED BY <2>2, <2>3 DEF ProcessMessage
<1>4. CacheTypes'
  BY <1>1 DEF CacheTypes, ProcessMessage, remoteVars
<1>5. UNCHANGED clientVars /\ UNCHANGED registryVars /\ UNCHANGED remoteVars
      /\ UNCHANGED faults
  BY DEF ProcessMessage
<1> QED BY <1>3, <1>4, <1>5, TypeFrame

LEMMA TypeWaiterStep ==
    ASSUME TypeInv, NEW h \in Handlers, NEW i,
           \/ LoadKeyMap(h, i) \/ LockMutex(h, i) \/ DeleteKey(h, i)
           \/ CheckKeyMap(h, i) \/ SendOk(h, i)
    PROVE  TypeInv'
<1>1. UNCHANGED clientVars /\ UNCHANGED remoteVars /\ UNCHANGED faults
      /\ UNCHANGED <<price_result, price_results_channel>>
  BY DEF LoadKeyMap, LockMutex, DeleteKey, CheckKeyMap, SendOk, remoteVars
<1>2. HandlerTypes'
  <2>1. PICK from, to \in TaskStages : Task(h, i, from, to)
    BY DEF LoadKeyMap, LockMutex, DeleteKey, CheckKeyMap, SendOk, TaskStages
  <2>2. UNCHANGED <<message, waiters>>
    BY DEF LoadKeyMap, LockMutex, DeleteKey, CheckKeyMap, SendOk
  <2> QED BY <2>1, <2>2, TypeTask
<1>3. RegistryTypes'
  <2>1. CASE DeleteKey(h, i)
    <3>1. requestKeyMap \in [Requests -> SUBSET Keys]
      BY DEF TypeInv, TypeOK, RegistryTypes
    <3>2. requestKeyMap' \in [Requests -> SUBSET Keys]
      BY <2>1, <3>1 DEF DeleteKey
    <3> QED BY <2>1, <3>2
            DEF DeleteKey, channelVars, RegistryTypes, TypeInv, TypeOK
  <2>2. CASE SendOk(h, i)
    <3> DEFINE w == waiters[h][i]
    <3>1. resultChannel \in [Requests -> {0, 1}]
      BY DEF TypeInv, TypeOK, RegistryTypes
    <3>2. resultChannel[w] = 0
          /\ resultChannel' = [resultChannel EXCEPT ![w] = @ + 1]
      BY <2>2 DEF SendOk
    <3>3. resultChannel' \in [Requests -> {0, 1}]
      <4> HIDE DEF w
      <4>1. CASE w \in Requests
        BY <3>1, <3>2, <4>1
      <4>2. CASE w \notin Requests
        <5>1. resultChannel' = resultChannel
          BY <3>1, <3>2, <4>2
        <5> QED BY <3>1, <5>1
      <4> QED BY <4>1, <4>2
    <3> QED BY <2>2, <3>3
            DEF SendOk, keyMapVars, RegistryTypes, TypeInv, TypeOK
  <2>3. CASE LoadKeyMap(h, i) \/ LockMutex(h, i) \/ CheckKeyMap(h, i)
    <3>1. UNCHANGED registryVars
      BY <2>3 DEF LoadKeyMap, LockMutex, CheckKeyMap
    <3> QED BY <3>1, TypeFrame
  <2> QED BY <2>1, <2>2, <2>3
<1> QED BY <1>1, <1>2, <1>3, TypeFrame DEF TypeInv, TypeOK

LEMMA TypeDeleteRequestKey ==
    ASSUME TypeInv, NEW h \in Handlers, DeleteRequestKey(h)
    PROVE  TypeInv'
<1>1. UNCHANGED clientVars /\ UNCHANGED remoteVars /\ UNCHANGED faults
      /\ UNCHANGED <<price_result, price_results_channel>>
  BY DEF DeleteRequestKey, remoteVars
<1>2. HandlerTypes'
  BY EmptySeq DEF DeleteRequestKey, HandlerTypes, TypeInv, TypeOK
<1>3. RegistryTypes'
  <2>1. keysRequestIDMap' \in [Pods -> [Keys -> Seq(Requests)]]
    BY EmptySeq DEF DeleteRequestKey, RegistryTypes, TypeInv, TypeOK
  <2> QED BY <2>1 DEF DeleteRequestKey, keyMapVars, channelVars,
                      RegistryTypes, TypeInv, TypeOK
<1> QED BY <1>1, <1>2, <1>3, TypeFrame DEF TypeInv, TypeOK

\* The death of a process leaves every variable well typed.
LEMMA TypeDies ==
    ASSUME TypeInv, NEW p \in Pods, Dies(p), UNCHANGED faults \/ Fault
    PROVE  TypeInv'
<1>1. CallTypes'
  <2>1. CallTypes
    BY DEF TypeInv, TypeOK
  <2>2. pc' \in [Requests -> Stages] /\ todo' \in [Requests -> SUBSET Nat]
    BY <2>1 DEF Dies, CallTypes, Stages, Resting
  <2>3. requestIDs' \in [Requests -> Seq(Requests)]
    BY <2>1, EmptySeq DEF Dies, CallTypes
  <2>4. DOMAIN resultMap' = Requests
        /\ \A r \in Requests : resultMap'[r] \in [DOMAIN Want[r] -> Cached]
    BY <2>1 DEF Dies, CallTypes, Cached
  <2> QED BY <2>1, <2>2, <2>3, <2>4 DEF Dies, CallTypes
<1>2. RegistryTypes'
  <2>1. RegistryTypes
    BY DEF TypeInv, TypeOK
  <2>2. keysRequestIDMap' \in [Pods -> [Keys -> Seq(Requests)]]
    BY <2>1, EmptySeq DEF Dies, RegistryTypes
  <2>3. requestKeyMap' \in [Requests -> SUBSET Keys]
        /\ resultChannel' \in [Requests -> {0, 1}]
    BY <2>1 DEF Dies, RegistryTypes
  <2>4. /\ requestIDKeysMap' \subseteq Requests
        /\ requestIDChannelMap' \subseteq Requests /\ closed' \subseteq Requests
    BY <2>1 DEF Dies, RegistryTypes
  <2> QED BY <2>2, <2>3, <2>4 DEF RegistryTypes
<1>3. CacheTypes'
  BY DEF Dies, CacheTypes, TypeInv, TypeOK
<1>4. JobTypes' /\ JobsOK'
  BY DEF Dies, JobTypes, JobsOK, TypeInv, TypeOK
<1>5. HandlerTypes'
  <2>1. HandlerTypes
    BY DEF TypeInv, TypeOK
  <2>2. message' \in [Handlers -> Keys \cup {None}]
    BY <2>1 DEF Dies, HandlerTypes
  <2>3. waiters' \in [Handlers -> Seq(Requests)]
    BY <2>1, EmptySeq DEF Dies, HandlerTypes
  <2>4. at' \in [Handlers -> Seq(TaskStages)]
    BY <2>1, EmptySeq DEF Dies, HandlerTypes
  <2> QED BY <2>2, <2>3, <2>4 DEF HandlerTypes
<1>6. UNCHANGED queueVars /\ UNCHANGED historyVars
  BY DEF Dies
<1>7. WorkerTypes'
  BY DEF Dies, WorkerTypes, WorkerStages, TypeInv, TypeOK
<1> QED BY <1>1, <1>2, <1>3, <1>4, <1>5, <1>6, <1>7, TypeFrame DEF TypeInv, TypeOK

LEMMA TypeHandle ==
    ASSUME TypeInv, NEW h \in Handlers, Handle(h)
    PROVE  TypeInv'
<1>1. SlotPod[h] \in Pods
  OBVIOUS
<1>2. ASSUME NEW i, SendOnClosedChannel(h, i) \/ ConcurrentMapWrites(h, i)
      PROVE  TypeInv'
  BY <1>1, <1>2, TypeDies DEF SendOnClosedChannel, ConcurrentMapWrites
<1> QED BY <1>2, TypeProcessMessage, TypeWaiterStep, TypeDeleteRequestKey
        DEF Handle

LEMMA TypeEnvironment ==
    ASSUME TypeInv, Environment
    PROVE  TypeInv'
<1>1. ASSUME NEW c \in Coins, ExpireResult(c)
      PROVE  TypeInv'
  <2>1. CacheTypes' /\ HistoryTypes'
    BY <1>1 DEF ExpireResult, CacheTypes, HistoryTypes, Cached, TypeInv, TypeOK
  <2>2. UNCHANGED clientVars /\ UNCHANGED registryVars /\ UNCHANGED queueVars
        /\ UNCHANGED jobs /\ UNCHANGED workerVars /\ UNCHANGED handlerVars
        /\ Fault
    BY <1>1 DEF ExpireResult
  <2> QED BY <2>1, <2>2, TypeFrame DEF TypeInv, TypeOK
<1>2. ASSUME NEW p \in Pods, NEW k \in Keys, LoseMessage(p, k)
      PROVE  TypeInv'
  <2>1. CacheTypes'
    BY <1>2 DEF LoseMessage, CacheTypes, remoteVars, TypeInv, TypeOK
  <2>2. UNCHANGED clientVars /\ UNCHANGED registryVars
        /\ UNCHANGED remoteVars /\ UNCHANGED handlerVars /\ Fault
    BY <1>2 DEF LoseMessage
  <2> QED BY <2>1, <2>2, TypeFrame DEF TypeInv, TypeOK
<1>3. ASSUME NEW p \in Pods, Crash(p)
      PROVE  TypeInv'
  BY <1>3, TypeDies DEF Crash
<1>4. ASSUME NEW p \in Pods, LoadScriptFails(p)
      PROVE  TypeInv'
  BY <1>4, TypeScript, Zenon
<1>5. CASE ScriptsLost
  <2>1. WorkerTypes'
    BY <1>5 DEF ScriptsLost, WorkerTypes, TypeInv, TypeOK
  <2> QED BY <1>5, <2>1, ScriptFrame, TypeFrame, Zenon DEF TypeInv, TypeOK
<1> QED BY <1>1, <1>2, <1>3, <1>4, <1>5 DEF Environment

LEMMA TypeNext == TypeInv /\ [Next]_vars => TypeInv'
<1> SUFFICES ASSUME TypeInv, [Next]_vars PROVE TypeInv'
  OBVIOUS
<1>1. CASE Next
  BY <1>1, TypeCall, TypeWork, TypeHandle, TypeEnvironment DEF Next
<1>2. CASE UNCHANGED vars
  BY <1>2, TypeFrame DEF vars, systemVars, TypeInv, TypeOK
<1> QED BY <1>1, <1>2

\* In every behaviour of the pipeline, for any number of processes, calls,
\* keys and goroutines, every variable keeps its type: in particular a result
\* channel never holds more than its capacity of one, an entry the worker
\* takes up is a key or the empty string, and a batch past its fetch has keys.
THEOREM TypeCorrect == Spec => []TypeOK
<1>1. TypeInv => TypeOK
  BY DEF TypeInv
<1> QED BY TypeInit, TypeNext, <1>1, PTL DEF Spec

-----------------------------------------------------------------------------
(* The queue and the unique set.                                           *)

\* Appending a sequence of other elements, each once, keeps a sequence
\* without repetition, and adds exactly its elements.
LEMMA DistinctConcat ==
    ASSUME NEW S, NEW s \in Seq(S), NEW t \in Seq(S),
           Distinct(s), Distinct(t), Elems(s) \cap Elems(t) = {}
    PROVE  Distinct(s \o t) /\ Elems(s \o t) = Elems(s) \cup Elems(t)
<1>1. /\ Len(s) \in Nat /\ Len(t) \in Nat
      /\ DOMAIN s = 1..Len(s) /\ DOMAIN t = 1..Len(t)
      /\ DOMAIN (s \o t) = 1..(Len(s) + Len(t))
  BY ConcatProperties, LenProperties
<1>2. \A i \in 1..(Len(s) + Len(t)) :
         (s \o t)[i] = IF i <= Len(s) THEN s[i] ELSE t[i - Len(s)]
  BY ConcatProperties
<1>3. \A i \in 1..(Len(s) + Len(t)) :
         \/ i \in DOMAIN s /\ (s \o t)[i] = s[i]
         \/ i - Len(s) \in DOMAIN t /\ (s \o t)[i] = t[i - Len(s)]
            /\ i \notin DOMAIN s
  BY <1>1, <1>2
<1>4. Distinct(s \o t)
  <2> SUFFICES ASSUME NEW i \in 1..(Len(s) + Len(t)),
                      NEW j \in 1..(Len(s) + Len(t)),
                      (s \o t)[i] = (s \o t)[j]
               PROVE  i = j
    BY <1>1 DEF Distinct
  <2>1. CASE i \in DOMAIN s /\ j \in DOMAIN s
    BY <1>3, <2>1 DEF Distinct
  <2>2. CASE i \notin DOMAIN s /\ j \notin DOMAIN s
    <3>1. i - Len(s) = j - Len(s)
      BY <1>3, <2>2 DEF Distinct
    <3> QED BY <1>1, <3>1
  <2>3. CASE ~(i \in DOMAIN s <=> j \in DOMAIN s)
    <3>1. \/ (s \o t)[i] \in Elems(s) /\ (s \o t)[j] \in Elems(t)
          \/ (s \o t)[j] \in Elems(s) /\ (s \o t)[i] \in Elems(t)
      BY <1>3, <2>3 DEF Elems
    <3> QED BY <3>1
  <2> QED BY <2>1, <2>2, <2>3
<1>5. Elems(s \o t) \subseteq Elems(s) \cup Elems(t)
  BY <1>1, <1>3 DEF Elems
<1>6. Elems(s) \subseteq Elems(s \o t)
  <2>1. \A i \in DOMAIN s : i \in DOMAIN (s \o t) /\ (s \o t)[i] = s[i]
    BY <1>1, <1>2
  <2> QED BY <2>1 DEF Elems
<1>7. Elems(t) \subseteq Elems(s \o t)
  <2>1. \A i \in DOMAIN t :
           Len(s) + i \in DOMAIN (s \o t) /\ (s \o t)[Len(s) + i] = t[i]
    BY <1>1, <1>2
  <2> QED BY <2>1 DEF Elems
<1> QED BY <1>4, <1>5, <1>6, <1>7

\* A slice of a sequence without repetition has none either; two slices that
\* do not overlap share no element.
LEMMA DistinctSlice ==
    ASSUME NEW S, NEW s \in Seq(S), Distinct(s),
           NEW m \in 1..(Len(s) + 1), NEW n \in 0..Len(s)
    PROVE  /\ SubSeq(s, m, n) \in Seq(S)
           /\ Distinct(SubSeq(s, m, n))
           /\ Elems(SubSeq(s, m, n)) = {s[i] : i \in m..n}
<1>1. Len(s) \in Nat /\ DOMAIN s = 1..Len(s)
  BY LenProperties
<1>2. \A i \in m..n : s[i] \in S
  BY <1>1, ElementOfSeq
<1>3. SubSeq(s, m, n) \in Seq(S)
  BY <1>1, <1>2, SubSeqProperties
<1> DEFINE len == IF m <= n THEN n - m + 1 ELSE 0
<1>4. /\ DOMAIN SubSeq(s, m, n) = 1..len
      /\ \A i \in 1..len : SubSeq(s, m, n)[i] = s[m + i - 1]
  BY <1>1, <1>2, SubSeqProperties
<1>5. Distinct(SubSeq(s, m, n))
  BY <1>1, <1>4 DEF Distinct
<1>6. Elems(SubSeq(s, m, n)) \subseteq {s[i] : i \in m..n}
  BY <1>1, <1>4 DEF Elems
<1>7. {s[i] : i \in m..n} \subseteq Elems(SubSeq(s, m, n))
  <2> SUFFICES ASSUME NEW i \in m..n
               PROVE  s[i] \in Elems(SubSeq(s, m, n))
    OBVIOUS
  <2>1. i - m + 1 \in 1..len /\ m + (i - m + 1) - 1 = i
    BY <1>1
  <2> HIDE DEF len
  <2>2. SubSeq(s, m, n)[i - m + 1] = s[i]
    BY <1>4, <2>1
  <2> QED BY <1>4, <2>1, <2>2 DEF Elems
<1> QED BY <1>3, <1>5, <1>6, <1>7

LEMMA QueueEnqueued ==
    ASSUME TypeInv, QueueMatchesSet, NEW r \in Requests,
           EnqueueUniqueRequests(requestKeys(r))
    PROVE  QueueMatchesSet'
<1> DEFINE args == requestKeys(r)
           q == price_requests_queue
<1>1. args \in Seq(Entries)
  BY DEF requestKeys, Entries
<1>2. q \in Seq(Entries)
  BY DEF TypeInv, TypeOK, QueueTypes
<1>3. PICK new \in Selections(args, Elems(args) \ unique_price_requests) :
          price_requests_queue' = q \o new
  BY DEF EnqueueUniqueRequests
<1>4. /\ new \in Seq(Elems(args) \ unique_price_requests) /\ Distinct(new)
      /\ Elems(new) = Elems(args) \ unique_price_requests
  BY <1>1, SelectionIsExact
<1>5. new \in Seq(Entries)
  <2>1. Elems(args) \subseteq Entries
    BY <1>1, ElemsFinite
  <2> QED BY <1>4, <2>1, SeqMonotonic
<1>6. Distinct(q \o new) /\ Elems(q \o new) = Elems(q) \cup Elems(new)
  <2>1. Elems(q) \cap Elems(new) = {} /\ Distinct(q)
    BY <1>4 DEF QueueMatchesSet
  <2> HIDE DEF q
  <2> QED BY <1>2, <1>4, <1>5, <2>1, DistinctConcat
<1>7. unique_price_requests' = unique_price_requests \cup Elems(args)
  BY DEF EnqueueUniqueRequests
<1> QED BY <1>3, <1>4, <1>6, <1>7 DEF QueueMatchesSet

\* What the worker pops and what it leaves split the queue in two.
LEMMA QueueSplit ==
    ASSUME TypeInv, QueueMatchesSet, NEW p \in Pods, PopRequests(p)
    PROVE  /\ Popped \in Seq(Entries) /\ Distinct(Popped)
           /\ Distinct(price_requests_queue')
           /\ Elems(price_requests_queue')
                 = Elems(price_requests_queue) \ Elems(Popped)
<1> DEFINE q == price_requests_queue
           n == IF Len(q) < FetchSize THEN Len(q) ELSE FetchSize
<1>1. q \in Seq(Entries) /\ Len(q) \in Nat /\ DOMAIN q = 1..Len(q)
      /\ Distinct(q)
  BY LenProperties DEF TypeInv, TypeOK, QueueTypes, QueueMatchesSet
<1>2. n \in 0..Len(q)
  BY <1>1
<1>3. Popped = SubSeq(q, 1, n)
  <2>1. CASE Len(q) < FetchSize
    <3>1. q = SubSeq(q, 1, Len(q))
      BY <1>1, SubSeqFull
    <3> QED BY <2>1, <3>1 DEF Popped
  <2>2. CASE ~(Len(q) < FetchSize)
    BY <2>2 DEF Popped
  <2> QED BY <2>1, <2>2
<1> HIDE DEF n, q
<1>4. /\ Popped \in Seq(Entries) /\ Distinct(Popped)
      /\ Elems(Popped) = {q[i] : i \in 1..n}
  BY <1>1, <1>2, <1>3, DistinctSlice
<1>5. Len(Popped) = n
  <2>1. \A i \in 1..n : q[i] \in Entries
    BY <1>1, <1>2, ElementOfSeq
  <2> QED BY <1>1, <1>2, <1>3, <2>1, SubSeqProperties
<1>6. price_requests_queue' = SubSeq(q, n + 1, Len(q))
  BY <1>5 DEF PopRequests, q
<1>7. /\ Distinct(SubSeq(q, n + 1, Len(q)))
      /\ Elems(SubSeq(q, n + 1, Len(q))) = {q[i] : i \in (n + 1)..Len(q)}
  <2>1. n + 1 \in 1..(Len(q) + 1) /\ Len(q) \in 0..Len(q)
    BY <1>1, <1>2
  <2> QED BY <1>1, <2>1, DistinctSlice, SMTT(60)
<1>8. {q[i] : i \in (n + 1)..Len(q)} = Elems(q) \ {q[i] : i \in 1..n}
  <2>1. \A i \in DOMAIN q : i \in 1..n \/ i \in (n + 1)..Len(q)
    BY <1>1, <1>2
  <2>2. \A i \in (n + 1)..Len(q), j \in 1..n : q[i] # q[j]
    <3>1. \A i \in (n + 1)..Len(q), j \in 1..n :
             i \in DOMAIN q /\ j \in DOMAIN q /\ i # j
      BY <1>1, <1>2
    <3> QED BY <1>1, <3>1 DEF Distinct
  <2>3. \A i \in (n + 1)..Len(q) : i \in DOMAIN q
    BY <1>1, <1>2
  <2> QED BY <2>1, <2>2, <2>3 DEF Elems
<1> QED BY <1>4, <1>6, <1>7, <1>8 DEF q

LEMMA QueueMatchesSetNext ==
    ASSUME TypeInv, QueueMatchesSet, [Next]_vars
    PROVE  QueueMatchesSet'
<1>1. CASE UNCHANGED queueVars
  BY <1>1 DEF queueVars, QueueMatchesSet
<1>2. ASSUME NEW r \in Requests, Call(r)
      PROVE  QueueMatchesSet'
  <2>1. CASE Enqueue(r) \/ RedisFails(r)
    BY <1>1, <2>1, QueueEnqueued DEF Enqueue, RedisFails
  <2>2. CASE ~(Enqueue(r) \/ RedisFails(r))
    BY <1>1, <1>2, <2>2 DEF Call, GetPrice, StoreChannel, ProbeCache,
       LoadRequestIDs, StoreRequestIDs, StoreKeyMap, ReceiveOk, TimeOut,
       ReadResult, FetchDirect, DeleteChannel, DeleteKeyMap, CloseChannel,
       systemVars, remoteVars
  <2> QED BY <2>1, <2>2
<1>3. ASSUME NEW p \in Pods, Work(p)
      PROVE  QueueMatchesSet'
  <2>1. CASE PopRequests(p)
    <3>1. unique_price_requests' =
             unique_price_requests \ (Elems(Popped) \ {Junk})
      BY <2>1 DEF PopRequests
    <3> QED BY <2>1, <3>1, QueueSplit DEF QueueMatchesSet
  <2>2. CASE ~PopRequests(p)
    BY <1>1, <1>3, <2>2
       DEF Work, LoadScript, FetchJob, SetResult, NotifyProducer
  <2> QED BY <2>1, <2>2
<1>4. ASSUME NEW h \in Handlers, Handle(h)
      PROVE  QueueMatchesSet'
  BY <1>1, <1>4 DEF Handle, ProcessMessage, LoadKeyMap, LockMutex, DeleteKey,
     CheckKeyMap, SendOk, SendOnClosedChannel, ConcurrentMapWrites,
     DeleteRequestKey, Dies, remoteVars
<1>5. CASE Environment
  BY <1>1, <1>5 DEF Environment, ExpireResult, LoseMessage, Crash, Dies,
     ScriptsLost, LoadScriptFails, remoteVars
<1>6. CASE UNCHANGED vars
  BY <1>1, <1>6 DEF vars, systemVars, remoteVars
<1> QED BY <1>2, <1>3, <1>4, <1>5, <1>6 DEF Next

LEMMA QueueMatchesSetInit == Init => QueueMatchesSet
BY DEF Init, QueueMatchesSet, Distinct, Elems

\* However many processes enqueue and pop, no key is queued twice and no key is
\* held back by the unique set without being in the queue.
THEOREM QueueMatchesSetCorrect == Spec => []QueueMatchesSet
<1>1. TypeInv /\ QueueMatchesSet /\ [Next]_vars => (TypeInv /\ QueueMatchesSet)'
  BY TypeNext, QueueMatchesSetNext
<1> QED BY TypeInit, QueueMatchesSetInit, <1>1, PTL DEF Spec

-----------------------------------------------------------------------------
(* The batches fetched at a time.                                          *)

\* The batches of a sequence without repetition share no element.
LEMMA BatchesDisjoint ==
    ASSUME NEW taken \in Seq(Entries), Distinct(taken),
           NEW b \in Batches(taken), NEW c \in Batches(taken)
    PROVE  /\ Distinct(b)
           /\ b # c => Elems(b) \cap Elems(c) = {}
<1> DEFINE n == Len(taken)
           Starts == {i \in 1..n : (i - 1) % BatchSize = 0}
           end(i) == IF i + BatchSize <= n THEN i + BatchSize - 1 ELSE n
<1>1. n \in Nat /\ DOMAIN taken = 1..n
  BY LenProperties
<1>2. PICK i \in Starts : b = SubSeq(taken, i, end(i))
  BY DEF Batches
<1>3. PICK j \in Starts : c = SubSeq(taken, j, end(j))
  BY DEF Batches
<1>4. /\ i \in 1..(n + 1) /\ end(i) \in 0..n
      /\ j \in 1..(n + 1) /\ end(j) \in 0..n
  BY <1>1, <1>2, <1>3
<1>5. Distinct(b) /\ Elems(b) = {taken[k] : k \in i..end(i)}
  <2> HIDE DEF n, end
  <2> QED BY <1>2, <1>4, DistinctSlice DEF n
<1>6. Elems(c) = {taken[k] : k \in j..end(j)}
  <2>1. j \in 1..(Len(taken) + 1) /\ end(j) \in 0..Len(taken)
    BY <1>4
  <2> HIDE DEF n, end
  <2> QED BY <1>3, <2>1, DistinctSlice
<1>7. ASSUME b # c PROVE \A k \in i..end(i), l \in j..end(j) : k # l
  <2>1. i # j
    BY <1>2, <1>3, <1>7
  <2>2. CASE i < j
    <3> DEFINE x == i - 1
               y == j - 1
    <3>1. /\ x \in Nat /\ y \in Nat /\ x < y
          /\ x % BatchSize = 0 /\ y % BatchSize = 0
      BY <1>1, <2>2
    <3>2. x + BatchSize <= y
      <4> HIDE DEF x, y
      <4> QED BY <3>1, MultiplesApart
    <3> QED BY <1>1, <3>2
  <2>3. CASE j < i
    <3> DEFINE x == j - 1
               y == i - 1
    <3>1. /\ x \in Nat /\ y \in Nat /\ x < y
          /\ x % BatchSize = 0 /\ y % BatchSize = 0
      BY <1>1, <2>3
    <3>2. x + BatchSize <= y
      <4> HIDE DEF x, y
      <4> QED BY <3>1, MultiplesApart
    <3> QED BY <1>1, <3>2
  <2> QED BY <2>1, <2>2, <2>3
<1>8. \A k \in (i..end(i)) \cup (j..end(j)) : k \in DOMAIN taken
  BY <1>1, <1>4
<1>9. b # c => Elems(b) \cap Elems(c) = {}
  <2> HIDE DEF n, end, Starts
  <2> QED BY <1>5, <1>6, <1>7, <1>8 DEF Distinct
<1> QED BY <1>5, <1>9

\* A batch may be replaced by one with fewer keys.
LEMMA BatchShrunk ==
    ASSUME OneFetchPerKey, NEW p \in Pods, NEW j \in jobs[p], NEW New,
           \A m \in New : Distinct(m.keys) /\ Elems(m.keys) \subseteq Elems(j.keys),
           \A l, m \in New : l = m,
           jobs \in [Pods -> SUBSET Job],
           jobs' = [jobs EXCEPT ![p] = (@ \ {j}) \cup New]
    PROVE  OneFetchPerKey'
<1>1. jobs'[p] = (jobs[p] \ {j}) \cup New
      /\ \A q \in Pods \ {p} : jobs'[q] = jobs[q]
  OBVIOUS
<1>2. \A m \in jobs'[p] : Distinct(m.keys)
  BY <1>1 DEF OneFetchPerKey
<1>3. \A m, l \in jobs'[p] : m # l => Elems(l.keys) \cap Elems(m.keys) = {}
  <2> SUFFICES ASSUME NEW m \in jobs'[p], NEW l \in jobs'[p], m # l
               PROVE  Elems(l.keys) \cap Elems(m.keys) = {}
    OBVIOUS
  <2>1. CASE m \in New
    <3>1. l \in jobs[p] \ {j}
      BY <1>1, <2>1
    <3>2. Elems(l.keys) \cap Elems(j.keys) = {}
      BY <3>1 DEF OneFetchPerKey
    <3> QED BY <2>1, <3>2
  <2>2. CASE l \in New
    <3>1. m \in jobs[p] \ {j}
      BY <1>1, <2>2
    <3>2. Elems(m.keys) \cap Elems(j.keys) = {}
      BY <3>1 DEF OneFetchPerKey
    <3> QED BY <2>2, <3>2
  <2>3. CASE m \notin New /\ l \notin New
    BY <1>1, <2>3 DEF OneFetchPerKey
  <2> QED BY <2>1, <2>2, <2>3
<1> SUFFICES ASSUME NEW q \in Pods, NEW m \in jobs'[q]
             PROVE  /\ Distinct(m.keys)
                    /\ \A l \in jobs'[q] \ {m} :
                          Elems(l.keys) \cap Elems(m.keys) = {}
  BY DEF OneFetchPerKey
<1>4. CASE q = p
  BY <1>2, <1>3, <1>4
<1>5. CASE q # p
  BY <1>1, <1>5 DEF OneFetchPerKey
<1> QED BY <1>4, <1>5

LEMMA OneFetchAdvance ==
    ASSUME TypeInv, OneFetchPerKey, NEW p \in Pods, NEW j \in jobs[p],
           j.stage # "fetch", Advance(p, j)
    PROVE  OneFetchPerKey'
<1> DEFINE next == [j EXCEPT !.keys = Tail(@), !.stage = "set"]
           New == IF Len(j.keys) = 1 THEN {} ELSE {next}
<1>1. j \in Job /\ j.keys \in Seq(Keys) /\ j.keys # <<>> /\ Distinct(j.keys)
      /\ jobs \in [Pods -> SUBSET Job]
  BY DEF TypeInv, TypeOK, JobTypes, JobsOK, JobOK, OneFetchPerKey
<1>2. next.keys = Tail(j.keys)
  BY <1>1 DEF Job
<1>3. /\ DOMAIN j.keys = 1..Len(j.keys) /\ Len(j.keys) \in Nat
      /\ DOMAIN Tail(j.keys) = 1..(Len(j.keys) - 1)
      /\ \A i \in 1..(Len(j.keys) - 1) : Tail(j.keys)[i] = j.keys[i + 1]
  BY <1>1, HeadTailProperties, LenProperties
<1>4. Distinct(Tail(j.keys)) /\ Elems(Tail(j.keys)) \subseteq Elems(j.keys)
  <2> DEFINE s == j.keys
             t == Tail(s)
             n == Len(s)
  <2>1. /\ DOMAIN s = 1..n /\ n \in Nat /\ DOMAIN t = 1..(n - 1)
        /\ \A i \in 1..(n - 1) : t[i] = s[i + 1] /\ i + 1 \in 1..n
        /\ Distinct(s)
    BY <1>1, <1>3
  <2> HIDE DEF s, t, n
  <2>2. Distinct(t)
    BY <2>1 DEF Distinct
  <2>3. Elems(t) \subseteq Elems(s)
    <3> SUFFICES ASSUME NEW i \in 1..(n - 1)
                 PROVE  t[i] \in Elems(s)
      BY <2>1 DEF Elems
    <3> QED BY <2>1 DEF Elems
  <2> QED BY <2>2, <2>3 DEF s, t
<1>5. jobs' = [jobs EXCEPT ![p] = (@ \ {j}) \cup New]
  BY DEF Advance
<1> HIDE DEF next
<1>6. /\ \A l, m \in New : l = m
      /\ \A m \in New : Distinct(m.keys) /\ Elems(m.keys) \subseteq Elems(j.keys)
  BY <1>2, <1>4
<1> HIDE DEF New
<1> QED BY <1>1, <1>5, <1>6, BatchShrunk

\* A fetch replaces a batch by at most one, of its keys without the empty one.
LEMMA FetchedBatch ==
    ASSUME NEW p \in Pods, NEW j \in jobs[p], FetchJob(p, j)
    PROVE  \E New :
              /\ jobs' = [jobs EXCEPT ![p] = (@ \ {j}) \cup New]
              /\ \A l, m \in New : l = m
              /\ \A m \in New :
                    /\ m.stage = "set"
                    /\ m.keys \in Selections(j.keys, Elems(j.keys) \ {Junk})
<1>1. CASE jobs' = [jobs EXCEPT ![p] = @ \ {j}]
  <2> DEFINE New == {}
  <2>1. jobs' = [jobs EXCEPT ![p] = (@ \ {j}) \cup New]
    BY <1>1
  <2>2. /\ \A l, m \in New : l = m
        /\ \A m \in New :
              /\ m.stage = "set"
              /\ m.keys \in Selections(j.keys, Elems(j.keys) \ {Junk})
    OBVIOUS
  <2> HIDE DEF New
  <2> QED BY <2>1, <2>2
<1>2. CASE \E valid \in Selections(j.keys, Elems(j.keys) \ {Junk}) : \E g :
              jobs' = [jobs EXCEPT ![p] = (@ \ {j}) \cup
                 IF valid = <<>> THEN {} ELSE
                 {[keys |-> valid, stage |-> "set", price |-> g]}]
  <2>0. PICK valid \in Selections(j.keys, Elems(j.keys) \ {Junk}) : \E g :
              jobs' = [jobs EXCEPT ![p] = (@ \ {j}) \cup
                 IF valid = <<>> THEN {} ELSE
                 {[keys |-> valid, stage |-> "set", price |-> g]}]
    BY <1>2
  <2>1. PICK g :
              jobs' = [jobs EXCEPT ![p] = (@ \ {j}) \cup
                 IF valid = <<>> THEN {} ELSE
                 {[keys |-> valid, stage |-> "set", price |-> g]}]
    BY <2>0
  <2> DEFINE New == IF valid = <<>> THEN {} ELSE
                    {[keys |-> valid, stage |-> "set", price |-> g]}
  <2>2. (\A l, m \in New : l = m)
        /\ \A m \in New : m.keys = valid /\ m.stage = "set"
    OBVIOUS
  <2>3. jobs' = [jobs EXCEPT ![p] = (@ \ {j}) \cup New]
    BY <2>1
  <2>4. \A m \in New :
              /\ m.stage = "set"
              /\ m.keys \in Selections(j.keys, Elems(j.keys) \ {Junk})
    BY <2>0, <2>2
  <2> HIDE DEF New
  <2> QED BY <2>2, <2>3, <2>4
<1> QED BY <1>1, <1>2, Zenon DEF FetchJob

LEMMA OneFetchWork ==
    ASSUME TypeInv, QueueMatchesSet, OneFetchPerKey, NEW p \in Pods, Work(p)
    PROVE  OneFetchPerKey'
<1>0. jobs \in [Pods -> SUBSET Job]
  BY DEF TypeInv, TypeOK, JobTypes
<1>1. CASE PopRequests(p)
  <2> DEFINE job(b) == [keys |-> b, stage |-> "fetch",
                        price |-> [c \in Coins |-> NoPrice]]
  <2>1. jobs' = [jobs EXCEPT ![p] = {job(b) : b \in Batches(Popped)}]
    BY <1>1 DEF PopRequests
  <2>2. Popped \in Seq(Entries) /\ Distinct(Popped)
    BY <1>1, QueueSplit
  <2>3. \A b, c \in Batches(Popped) :
           Distinct(b) /\ (b # c => Elems(b) \cap Elems(c) = {})
    BY <2>2, BatchesDisjoint
  <2>4. \A b : job(b).keys = b
    OBVIOUS
  <2>5. jobs'[p] = {job(b) : b \in Batches(Popped)}
        /\ \A q \in Pods \ {p} : jobs'[q] = jobs[q]
    BY <1>0, <2>1
  <2> HIDE DEF job
  <2>6. \A m \in jobs'[p] :
           /\ Distinct(m.keys)
           /\ \A l \in jobs'[p] \ {m} : Elems(l.keys) \cap Elems(m.keys) = {}
    <3> SUFFICES ASSUME NEW b \in Batches(Popped), NEW c \in Batches(Popped)
                 PROVE  /\ Distinct(job(b).keys)
                        /\ job(c) # job(b) =>
                              Elems(job(c).keys) \cap Elems(job(b).keys) = {}
      BY <2>5
    <3> QED BY <2>3, <2>4
  <2> QED BY <2>5, <2>6 DEF OneFetchPerKey
<1>2. ASSUME NEW j \in jobs[p], FetchJob(p, j)
      PROVE  OneFetchPerKey'
  <2>1. j.keys \in Seq(Entries)
    BY <1>0 DEF Job
  <2>2. PICK New : /\ jobs' = [jobs EXCEPT ![p] = (@ \ {j}) \cup New]
                   /\ \A l, m \in New : l = m
                   /\ \A m \in New : m.keys \in
                         Selections(j.keys, Elems(j.keys) \ {Junk})
    BY <1>2, FetchedBatch
  <2>3. \A m \in New :
           Distinct(m.keys) /\ Elems(m.keys) \subseteq Elems(j.keys)
    <3> SUFFICES ASSUME NEW m \in New
                 PROVE  /\ Distinct(m.keys)
                        /\ Elems(m.keys) \subseteq Elems(j.keys)
      OBVIOUS
    <3>1. m.keys \in Selections(j.keys, Elems(j.keys) \ {Junk})
      BY <2>2
    <3>2. Distinct(m.keys) /\ Elems(m.keys) = Elems(j.keys) \ {Junk}
      BY <2>1, <3>1, SelectionIsExact
    <3> QED BY <3>2
  <2> QED BY <1>0, <2>2, <2>3, BatchShrunk
<1>3. ASSUME NEW j \in jobs[p], SetResult(p, j)
      PROVE  OneFetchPerKey'
  <2> DEFINE next == [j EXCEPT !.stage = "notify"]
             New == {next}
  <2>1. CASE jobs' = [jobs EXCEPT ![p] = (@ \ {j}) \cup New]
    <3>1. next.keys = j.keys
      BY <1>0 DEF Job
    <3>2. /\ \A l, m \in New : l = m
          /\ \A m \in New :
                Distinct(m.keys) /\ Elems(m.keys) \subseteq Elems(j.keys)
      <4> HIDE DEF next
      <4> QED BY <3>1 DEF OneFetchPerKey
    <3> HIDE DEF New
    <3> QED BY <1>0, <2>1, <3>2, BatchShrunk
  <2>2. CASE Advance(p, j)
    BY <1>3, <2>2, OneFetchAdvance DEF SetResult
  <2> QED BY <1>3, <2>1, <2>2 DEF SetResult
<1>4. ASSUME NEW j \in jobs[p], NotifyProducer(p, j)
      PROVE  OneFetchPerKey'
  BY <1>4, OneFetchAdvance DEF NotifyProducer
<1>5. CASE LoadScript(p)
  BY <1>5, ScriptFrame DEF OneFetchPerKey
<1> QED BY <1>1, <1>2, <1>3, <1>4, <1>5 DEF Work

LEMMA OneFetchDies ==
    ASSUME TypeInv, OneFetchPerKey, NEW p, Dies(p)
    PROVE  OneFetchPerKey'
BY DEF TypeInv, TypeOK, JobTypes, Dies, OneFetchPerKey

LEMMA OneFetchNext ==
    ASSUME TypeInv, QueueMatchesSet, OneFetchPerKey, [Next]_vars
    PROVE  OneFetchPerKey'
<1>1. CASE UNCHANGED jobs
  BY <1>1 DEF OneFetchPerKey
<1>2. ASSUME NEW r \in Requests, Call(r)
      PROVE  OneFetchPerKey'
  BY <1>1, <1>2 DEF Call, GetPrice, StoreChannel, ProbeCache, LoadRequestIDs,
     StoreRequestIDs, StoreKeyMap, Enqueue, RedisFails, ReceiveOk, TimeOut,
     ReadResult, FetchDirect, DeleteChannel, DeleteKeyMap, CloseChannel,
     systemVars, remoteVars
<1>3. ASSUME NEW h \in Handlers, Handle(h)
      PROVE  OneFetchPerKey'
  BY <1>1, <1>3, OneFetchDies DEF Handle, ProcessMessage, LoadKeyMap,
     LockMutex, DeleteKey, CheckKeyMap, SendOk, SendOnClosedChannel,
     ConcurrentMapWrites, DeleteRequestKey, remoteVars
<1>4. CASE Environment
  BY <1>1, <1>4, OneFetchDies DEF Environment, ExpireResult, LoseMessage,
     Crash, ScriptsLost, LoadScriptFails, remoteVars
<1>5. CASE UNCHANGED vars
  BY <1>1, <1>5 DEF vars, systemVars, remoteVars
<1> QED BY <1>2, <1>3, <1>4, <1>5, OneFetchWork DEF Next

LEMMA OneFetchInit == Init => OneFetchPerKey
BY DEF Init, OneFetchPerKey

\* However a popped queue is cut into batches, no two goroutines of a process
\* fetch the same key at a time.  It rests on the queue holding a key once.
THEOREM OneFetchPerKeyCorrect == Spec => []OneFetchPerKey
<1> DEFINE Inv == TypeInv /\ QueueMatchesSet /\ OneFetchPerKey
<1>1. Init => Inv
  BY TypeInit, QueueMatchesSetInit, OneFetchInit
<1>2. Inv /\ [Next]_vars => Inv'
  BY TypeNext, QueueMatchesSetNext, OneFetchNext
<1> QED BY <1>1, <1>2, PTL DEF Spec

-----------------------------------------------------------------------------
(* "ok" means cached.                                                      *)

\* The stages after the key map of r has been stored, and those of them in
\* which the call still waits for its keys.
Waiting(r) == {"enqueue", "wait", "read"}
              \cup IF r \in Batched THEN {} ELSE {"store"}
Past(r) == Waiting(r) \cup
           {"direct", "unchan", "unkeys", "close", "done", "lost"}

AllServed(r) == \A k \in Wanted(r) : Served(k)

\* A result is announced only when it has been cached.
Announced ==
    /\ \A p \in Pods, k \in Keys : price_results_channel[p][k] > 0 => Served(k)
    /\ \A p \in Pods : \A j \in jobs[p] :
          j.stage = "notify" => Served(Head(j.keys))
    /\ \A h \in Handlers : message[h] # None => Served(message[h])

\* A key leaves the key map of a waiting call only when it has been served.
KeyMaps ==
    /\ \A r \in requestIDKeysMap : pc[r] \in Past(r)
    /\ \A r \in Requests : pc[r] \in Waiting(r) =>
          \A k \in Wanted(r) \ requestKeyMap[r] : Served(k)

\* A waiter's goroutine past its first step serves a call that has stored its
\* key map; when it is about to send, the call has all it waits for.
Tasks ==
    \A h \in Handlers :
        /\ DOMAIN at[h] = DOMAIN waiters[h]
        /\ \A i \in DOMAIN at[h] :
              LET w == waiters[h][i] IN
              /\ at[h][i] \in {"lock", "delete", "check", "send"}
                    => pc[w] \in Past(w)
              /\ at[h][i] = "send" /\ pc[w] \in Waiting(w) => AllServed(w)

Channels ==
    \A r \in Requests :
        /\ resultChannel[r] > 0 =>
              pc[r] \in Past(r) /\ (pc[r] \in Waiting(r) => AllServed(r))
        /\ pc[r] = "read" => AllServed(r)

OkInv == Announced /\ KeyMaps /\ Tasks /\ Channels

\* What has been served stays served: only the expiry empties the cache.
ServedKept == \A k \in Keys : Served(k) => Served(k)'

LEMMA ServedStable ==
    ASSUME TypeInv, [Next]_vars
    PROVE  ServedKept
<1>1. CASE UNCHANGED price_result /\ UNCHANGED expired
  BY <1>1 DEF ServedKept, Served
<1>2. ASSUME NEW r \in Requests, Call(r)
      PROVE  ServedKept
  BY <1>1, <1>2 DEF Call, GetPrice, StoreChannel, ProbeCache, LoadRequestIDs,
     StoreRequestIDs, StoreKeyMap, Enqueue, RedisFails, ReceiveOk, TimeOut,
     ReadResult, FetchDirect, DeleteChannel, DeleteKeyMap, CloseChannel,
     systemVars, remoteVars, historyVars
<1>3. ASSUME NEW p \in Pods, Work(p)
      PROVE  ServedKept
  <2>1. ASSUME NEW j \in jobs[p], SetResult(p, j)
        PROVE  ServedKept
    <3>1. j \in Job /\ j.keys \in Seq(Keys) /\ j.keys # <<>>
      BY <2>1 DEF TypeInv, TypeOK, JobTypes, JobsOK, JobOK, SetResult
    <3>2. CoinOf[Head(j.keys)] \in Coins
      BY <3>1, HeadTailProperties
    <3>3. ResultOf(j) # Absent
      BY <3>1, <3>2 DEF ResultOf, Job
    <3>4. price_result \in [Coins -> Cached]
      BY DEF TypeInv, TypeOK, CacheTypes
    <3>5. \A c \in Coins : price_result[c] # Absent => price_result'[c] # Absent
      BY <2>1, <3>3, <3>4 DEF SetResult
    <3>6. UNCHANGED expired
      BY <2>1 DEF SetResult, historyVars
    <3> QED BY <3>5, <3>6 DEF ServedKept, Served
  <2>2. CASE ~ \E j \in jobs[p] : SetResult(p, j)
    BY <1>1, <1>3, <2>2
       DEF Work, LoadScript, PopRequests, FetchJob, NotifyProducer,
           historyVars
  <2> QED BY <2>1, <2>2
<1>4. ASSUME NEW h \in Handlers, Handle(h)
      PROVE  ServedKept
  BY <1>1, <1>4 DEF Handle, ProcessMessage, LoadKeyMap, LockMutex, DeleteKey,
     CheckKeyMap, SendOk, SendOnClosedChannel, ConcurrentMapWrites,
     DeleteRequestKey, Dies, remoteVars, historyVars
<1>5. CASE Environment
  <2>1. ASSUME NEW c \in Coins, ExpireResult(c)
        PROVE  ServedKept
    <3>1. price_result \in [Coins -> Cached]
      BY DEF TypeInv, TypeOK, CacheTypes
    <3> QED BY <2>1, <3>1 DEF ExpireResult, ServedKept, Served
  <2>2. CASE ~ \E c \in Coins : ExpireResult(c)
    BY <1>1, <1>5, <2>2 DEF Environment, LoseMessage, Crash, Dies, ScriptsLost,
       LoadScriptFails, remoteVars, historyVars
  <2> QED BY <2>1, <2>2
<1>6. CASE UNCHANGED vars
  BY <1>1, <1>6 DEF vars, systemVars, remoteVars, historyVars
<1> QED BY <1>2, <1>3, <1>4, <1>5, <1>6 DEF Next

\* Steps that announce nothing new.
LEMMA AnnouncedKept ==
    ASSUME TypeInv, TypeInv', Announced, ServedKept,
           \A p \in Pods, k \in Keys :
              price_results_channel'[p][k] > 0
                => price_results_channel[p][k] > 0,
           \A p \in Pods : \A j \in jobs'[p] :
              j.stage = "notify" => j \in jobs[p],
           \A h \in Handlers :
              message'[h] # None => message'[h] = message[h]
    PROVE  Announced'
<1>1. \A p \in Pods, k \in Keys : price_results_channel'[p][k] > 0 => Served(k)'
  BY DEF Announced, ServedKept
<1>2. ASSUME NEW p \in Pods, NEW j \in jobs'[p], j.stage = "notify"
      PROVE  Served(Head(j.keys))'
  <2>1. j \in jobs[p] /\ j.keys \in Seq(Keys) /\ j.keys # <<>>
    BY <1>2 DEF TypeInv, JobsOK, JobOK
  <2>2. Head(j.keys) \in Keys
    BY <2>1, HeadTailProperties
  <2> QED BY <1>2, <2>1, <2>2 DEF Announced, ServedKept
<1>3. ASSUME NEW h \in Handlers, message'[h] # None
      PROVE  Served(message[h])'
  <2>1. PICK k \in Keys : message[h] = k /\ message'[h] = k
    BY <1>3 DEF TypeInv, TypeOK, HandlerTypes
  <2>2. Served(k)'
    BY <2>1 DEF Announced, ServedKept
  <2> QED BY <2>1, <2>2 DEF Served
<1> QED BY <1>1, <1>2, <1>3 DEF Announced

\* Steps that leave the calls, the maps and the goroutines alone.
LEMMA LocalKept ==
    ASSUME TypeInv, KeyMaps, Tasks, Channels, ServedKept,
           UNCHANGED <<clientVars, registryVars, handlerVars>>
    PROVE  KeyMaps' /\ Tasks' /\ Channels'
<1> USE DEF clientVars, callVars, registryVars, keyMapVars, channelVars,
            handlerVars
<1>1. \A r \in Requests : Wanted(r)' = Wanted(r) /\ Wanted(r) \subseteq Keys
  BY DEF Wanted, Misses
<1>2. \A r \in Requests : AllServed(r) => AllServed(r)'
  BY <1>1 DEF AllServed, ServedKept
<1>3. KeyMaps'
  BY <1>1 DEF KeyMaps, ServedKept, TypeInv, TypeOK, RegistryTypes
<1>4. Tasks'
  <2>1. \A h \in Handlers : \A i \in DOMAIN waiters[h] :
            waiters[h][i] \in Requests
    BY DEF TypeInv, TypeOK, HandlerTypes
  <2> QED BY <1>2, <2>1 DEF Tasks
<1>5. Channels'
  BY <1>2 DEF Channels
<1> QED BY <1>3, <1>4, <1>5

\* A step of a call after it stored its key map, or before.
LEMMA CallKept ==
    ASSUME TypeInv, KeyMaps, Tasks, Channels, ServedKept,
           NEW r \in Requests, NEW stage \in Stages, Goto(r, stage),
           UNCHANGED <<handlerVars, requestKeyMap>>,
           pc[r] \in Past(r) => stage \in Past(r),
           stage \in Waiting(r)
              => pc[r] \in Waiting(r) /\ resultMap'[r] = resultMap[r],
           \A q \in Requests \ {r} : resultMap'[q] = resultMap[q],
           requestIDKeysMap' \subseteq requestIDKeysMap,
           \A q \in Requests : resultChannel'[q] > 0 => resultChannel[q] > 0,
           stage = "read" => AllServed(r)
    PROVE  KeyMaps' /\ Tasks' /\ Channels'
<1>1. /\ pc' \in [Requests -> Stages] /\ pc'[r] = stage
      /\ \A q \in Requests \ {r} : pc'[q] = pc[q]
  BY DEF TypeInv, TypeOK, CallTypes, Goto
<1>2. \A q \in Requests : Wanted(q) \subseteq Keys
  BY DEF Wanted, Misses
<1>3. \A q \in Requests : pc'[q] \in Waiting(q)
         => pc[q] \in Waiting(q) /\ Wanted(q)' = Wanted(q)
  BY <1>1 DEF Wanted, Misses
<1>4. \A q \in Requests : pc[q] \in Past(q) => pc'[q] \in Past(q)
  BY <1>1
<1>5. \A q \in Requests : pc'[q] \in Waiting(q) /\ AllServed(q) => AllServed(q)'
  BY <1>2, <1>3 DEF AllServed, ServedKept
<1>6. KeyMaps'
  <2>1. \A q \in requestIDKeysMap' : pc'[q] \in Past(q)
    BY <1>4 DEF KeyMaps, TypeInv, TypeOK, RegistryTypes
  <2>2. \A q \in Requests : pc'[q] \in Waiting(q) =>
           \A k \in Wanted(q)' \ requestKeyMap'[q] : Served(k)'
    BY <1>2, <1>3 DEF KeyMaps, ServedKept
  <2> QED BY <2>1, <2>2 DEF KeyMaps
<1>7. Tasks'
  <2>1. \A h \in Handlers : \A i \in DOMAIN waiters[h] :
            waiters[h][i] \in Requests
    BY DEF TypeInv, TypeOK, HandlerTypes
  <2> QED BY <1>3, <1>4, <1>5, <2>1 DEF Tasks, handlerVars
<1>8. Channels'
  <2>1. \A q \in Requests : pc'[q] = "read" => pc'[q] \in Waiting(q)
    BY DEF Waiting
  <2>2. \A q \in Requests : pc'[q] = "read" => AllServed(q)'
    BY <1>1, <1>5, <2>1 DEF Channels
  <2> QED BY <1>3, <1>4, <1>5, <2>2 DEF Channels
<1> QED BY <1>6, <1>7, <1>8

LEMMA OkStoreKeyMap ==
    ASSUME TypeInv, KeyMaps, Tasks, Channels, ServedKept,
           NEW r \in Requests, StoreKeyMap(r)
    PROVE  KeyMaps' /\ Tasks' /\ Channels'
<1> DEFINE stage == IF r \in Batched THEN "enqueue" ELSE "store"
<1>1. /\ pc' \in [Requests -> Stages] /\ pc'[r] = stage
      /\ \A q \in Requests \ {r} : pc'[q] = pc[q]
  BY DEF TypeInv, TypeOK, CallTypes, Goto, StoreKeyMap, Stages
<1>2. pc[r] \notin Past(r) /\ stage \in Past(r)
  BY DEF StoreKeyMap, Past, Waiting
<1>3. \A q \in Requests : Wanted(q)' = Wanted(q) /\ Wanted(q) \subseteq Keys
  BY DEF StoreKeyMap, callVars, Wanted, Misses
<1>4. \A q \in Requests : AllServed(q) => AllServed(q)'
  BY <1>3 DEF AllServed, ServedKept
<1> HIDE DEF stage
<1>5. \A q \in Requests : pc[q] \in Past(q) => q # r /\ pc'[q] = pc[q]
  BY <1>1, <1>2
<1>6. KeyMaps'
  <2>1. \A q \in requestIDKeysMap' : pc'[q] \in Past(q)
    BY <1>1, <1>2, <1>5
       DEF StoreKeyMap, KeyMaps, TypeInv, TypeOK, RegistryTypes
  <2>2. requestKeyMap'[r] = Wanted(r)
        /\ \A q \in Requests \ {r} : requestKeyMap'[q] = requestKeyMap[q]
    BY DEF StoreKeyMap, TypeInv, TypeOK, RegistryTypes
  <2>3. \A q \in Requests : pc'[q] \in Waiting(q) =>
           \A k \in Wanted(q)' \ requestKeyMap'[q] : Served(k)'
    BY <1>1, <1>3, <2>2 DEF KeyMaps, ServedKept
  <2> QED BY <2>1, <2>3 DEF KeyMaps
<1>7. Tasks'
  <2>1. \A h \in Handlers : \A i \in DOMAIN waiters[h] :
            waiters[h][i] \in Requests
    BY DEF TypeInv, TypeOK, HandlerTypes
  <2>2. UNCHANGED handlerVars
    BY DEF StoreKeyMap, systemVars
  <2> QED BY <1>4, <1>5, <2>1, <2>2 DEF Tasks, handlerVars
<1>8. Channels'
  <2>1. UNCHANGED resultChannel
    BY DEF StoreKeyMap, channelVars
  <2>2. pc'[r] # "read"
    BY <1>1 DEF stage
  <2>3. ASSUME NEW q \in Requests, resultChannel[q] > 0
        PROVE  /\ pc'[q] \in Past(q)
               /\ pc'[q] \in Waiting(q) => AllServed(q)'
    <3>1. pc[q] \in Past(q) /\ (pc[q] \in Waiting(q) => AllServed(q))
      BY <2>3 DEF Channels
    <3> QED BY <1>4, <1>5, <3>1
  <2>4. ASSUME NEW q \in Requests, pc'[q] = "read"
        PROVE  AllServed(q)'
    BY <1>1, <1>4, <2>2, <2>4 DEF Channels
  <2> QED BY <2>1, <2>3, <2>4 DEF Channels
<1> QED BY <1>6, <1>7, <1>8

LEMMA OkCall ==
    ASSUME TypeInv, TypeInv', OkInv, ServedKept, NEW r \in Requests, Call(r)
    PROVE  OkInv'
<1> USE DEF OkInv
<1>1. UNCHANGED <<price_results_channel, jobs, handlerVars>>
  BY DEF Call, GetPrice, StoreChannel, ProbeCache, LoadRequestIDs,
     StoreRequestIDs, StoreKeyMap, Enqueue, RedisFails, ReceiveOk, TimeOut,
     ReadResult, FetchDirect, DeleteChannel, DeleteKeyMap, CloseChannel,
     systemVars, remoteVars
<1>2. Announced'
  BY <1>1, AnnouncedKept DEF handlerVars
<1>3. KeyMaps' /\ Tasks' /\ Channels'
  <2> USE DEF Past, Waiting, Stages, Resting
  <2>1. CASE GetPrice(r)
    <3>1. PICK stage \in {"open", "done"} : Goto(r, stage)
      BY <2>1 DEF GetPrice
    <3>2. /\ pc[r] = "idle" /\ UNCHANGED registryVars /\ UNCHANGED resultMap
      BY <2>1 DEF GetPrice
    <3> QED BY <1>1, <3>1, <3>2, CallKept
            DEF registryVars, keyMapVars, channelVars
  <2>2. CASE StoreChannel(r)
    <3>1. PICK stage \in {"load", "probe"} : Goto(r, stage)
      BY <2>2 DEF StoreChannel
    <3>2. /\ pc[r] \in {"open", "idle"} /\ UNCHANGED resultMap
          /\ UNCHANGED <<keyMapVars, resultChannel>>
      BY <2>2 DEF StoreChannel
    <3> QED BY <1>1, <3>1, <3>2, CallKept DEF keyMapVars
  <2>3. CASE ProbeCache(r)
    <3>1. PICK stage \in {"load", "keymap"} : Goto(r, stage)
      BY <2>3 DEF ProbeCache
    <3>2. pc[r] = "probe" /\ UNCHANGED registryVars
      BY <2>3 DEF ProbeCache
    <3>3. \A q \in Requests \ {r} : resultMap'[q] = resultMap[q]
      BY <2>3 DEF ProbeCache, TypeInv, TypeOK, CallTypes
    <3> QED BY <1>1, <3>1, <3>2, <3>3, CallKept
            DEF registryVars, keyMapVars, channelVars
  <2>4. ASSUME NEW i \in DOMAIN Want[r], LoadRequestIDs(r, i)
        PROVE  KeyMaps' /\ Tasks' /\ Channels'
    <3>1. PICK stage \in {"store", "keymap"} : Goto(r, stage)
      BY <2>4 DEF LoadRequestIDs
    <3>2. /\ pc[r] = "load" /\ UNCHANGED registryVars /\ UNCHANGED resultMap
          /\ stage = IF r \in Batched THEN "store" ELSE "keymap"
      BY <2>4, <3>1 DEF LoadRequestIDs, Goto, TypeInv, TypeOK, CallTypes
    <3> QED BY <1>1, <3>1, <3>2, CallKept
            DEF registryVars, keyMapVars, channelVars
  <2>5. ASSUME NEW i \in DOMAIN Want[r], StoreRequestIDs(r, i)
        PROVE  KeyMaps' /\ Tasks' /\ Channels'
    <3>1. PICK stage \in {"enqueue", "keymap", "load"} : Goto(r, stage)
      BY <2>5 DEF StoreRequestIDs
    <3>2. /\ pc[r] = "store" /\ UNCHANGED <<keyMapVars, channelVars>>
          /\ UNCHANGED resultMap
          /\ (r \notin Batched <=> stage = "enqueue")
      BY <2>5, <3>1 DEF StoreRequestIDs, Goto, TypeInv, TypeOK, CallTypes
    <3> QED BY <1>1, <3>1, <3>2, CallKept DEF keyMapVars, channelVars
  <2>6. CASE StoreKeyMap(r)
    BY <2>6, OkStoreKeyMap
  <2>7. CASE Enqueue(r)
    <3> DEFINE stage == IF Misses(r) = {} THEN "read" ELSE "wait"
    <3>1. /\ pc[r] = "enqueue" /\ UNCHANGED registryVars
          /\ UNCHANGED callVars /\ Goto(r, stage)
      BY <2>7 DEF Enqueue
    <3>2. stage = "read" => AllServed(r)
      BY DEF AllServed, Wanted
    <3>3. stage \in {"read", "wait"}
      OBVIOUS
    <3> HIDE DEF stage
    <3> QED BY <1>1, <3>1, <3>2, <3>3, CallKept
            DEF registryVars, keyMapVars, channelVars, callVars
  <2>8. CASE RedisFails(r)
    <3>1. /\ pc[r] \in {"probe", "enqueue", "read"} /\ UNCHANGED registryVars
          /\ UNCHANGED callVars /\ Goto(r, "unchan")
      BY <2>8 DEF RedisFails
    <3> QED BY <1>1, <3>1, CallKept
            DEF registryVars, keyMapVars, channelVars, callVars
  <2>9. CASE ReceiveOk(r)
    <3>1. /\ pc[r] = "wait" /\ resultChannel[r] > 0 /\ UNCHANGED keyMapVars
          /\ UNCHANGED callVars /\ Goto(r, "read")
          /\ resultChannel' = [resultChannel EXCEPT ![r] = @ - 1]
      BY <2>9 DEF ReceiveOk
    <3>2. AllServed(r)
      BY <3>1 DEF Channels
    <3>3. \A q \in Requests : resultChannel'[q] > 0 => resultChannel[q] > 0
      BY <3>1 DEF TypeInv, TypeOK, RegistryTypes
    <3> QED BY <1>1, <3>1, <3>2, <3>3, CallKept DEF keyMapVars, callVars
  <2>10. CASE TimeOut(r)
    <3>1. /\ pc[r] = "wait" /\ UNCHANGED registryVars
          /\ UNCHANGED callVars /\ Goto(r, "direct")
      BY <2>10 DEF TimeOut
    <3> QED BY <1>1, <3>1, CallKept
            DEF registryVars, keyMapVars, channelVars, callVars
  <2>11. CASE ReadResult(r)
    <3>1. PICK stage \in {"unchan", "direct"} : Goto(r, stage)
      BY <2>11 DEF ReadResult
    <3>2. pc[r] = "read" /\ UNCHANGED registryVars /\ UNCHANGED resultMap
      BY <2>11 DEF ReadResult
    <3> QED BY <1>1, <3>1, <3>2, CallKept
            DEF registryVars, keyMapVars, channelVars
  <2>12. CASE FetchDirect(r)
    <3>1. /\ pc[r] = "direct" /\ UNCHANGED registryVars /\ UNCHANGED resultMap
          /\ Goto(r, "unchan")
      BY <2>12 DEF FetchDirect
    <3> QED BY <1>1, <3>1, CallKept DEF registryVars, keyMapVars, channelVars
  <2>13. CASE DeleteChannel(r)
    <3>1. /\ pc[r] = "unchan" /\ UNCHANGED <<keyMapVars, resultChannel>>
          /\ UNCHANGED callVars /\ Goto(r, "unkeys")
      BY <2>13 DEF DeleteChannel
    <3> QED BY <1>1, <3>1, CallKept DEF keyMapVars, callVars
  <2>14. CASE DeleteKeyMap(r)
    <3>1. /\ pc[r] = "unkeys" /\ UNCHANGED <<requestKeyMap, channelVars>>
          /\ UNCHANGED callVars /\ Goto(r, "close")
          /\ requestIDKeysMap' = requestIDKeysMap \ {r}
      BY <2>14 DEF DeleteKeyMap
    <3> QED BY <1>1, <3>1, CallKept DEF channelVars, callVars
  <2>15. CASE CloseChannel(r)
    <3>1. /\ pc[r] = "close" /\ UNCHANGED <<keyMapVars, resultChannel>>
          /\ Goto(r, "done")
      BY <2>15 DEF CloseChannel
    <3>2. \A q \in Requests \ {r} : resultMap'[q] = resultMap[q]
      BY <2>15 DEF CloseChannel, TypeInv, TypeOK, CallTypes
    <3> QED BY <1>1, <3>1, <3>2, CallKept DEF keyMapVars
  <2> QED BY <2>1, <2>2, <2>3, <2>4, <2>5, <2>6, <2>7, <2>8, <2>9, <2>10,
             <2>11, <2>12, <2>13, <2>14, <2>15 DEF Call
<1> QED BY <1>2, <1>3

\* The batches that come with an advance have been announced already.
LEMMA AdvanceAnnounces ==
    ASSUME TypeInv, NEW p \in Pods, NEW j \in jobs[p], Advance(p, j)
    PROVE  \A q \in Pods : \A l \in jobs'[q] : l.stage = "notify" => l \in jobs[q]
<1> DEFINE next == [j EXCEPT !.keys = Tail(@), !.stage = "set"]
<1>1. jobs \in [Pods -> SUBSET Job]
  BY DEF TypeInv, TypeOK, JobTypes
<1>2. next.stage = "set"
  BY <1>1 DEF Job
<1>3. jobs' = [jobs EXCEPT ![p] = (@ \ {j}) \cup
                  IF Len(j.keys) = 1 THEN {} ELSE {next}]
  BY DEF Advance
<1> HIDE DEF next
<1> QED BY <1>1, <1>2, <1>3

LEMMA OkWork ==
    ASSUME TypeInv, TypeInv', OkInv, ServedKept, NEW p \in Pods, Work(p)
    PROVE  OkInv'
<1> USE DEF OkInv
<1>1. UNCHANGED <<clientVars, registryVars, handlerVars>>
  BY DEF Work, LoadScript, PopRequests, FetchJob, SetResult, NotifyProducer
<1>2. KeyMaps' /\ Tasks' /\ Channels'
  BY <1>1, LocalKept
<1>3. jobs \in [Pods -> SUBSET Job]
  BY DEF TypeInv, TypeOK, JobTypes
<1>4. Announced'
  <2>1. CASE PopRequests(p)
    <3>1. \A j \in jobs'[p] : j.stage = "fetch"
      BY <1>3, <2>1 DEF PopRequests
    <3>2. \A q \in Pods : \A j \in jobs'[q] :
             j.stage = "notify" => j \in jobs[q]
      BY <1>3, <2>1, <3>1 DEF PopRequests
    <3> QED BY <1>1, <2>1, <3>2, AnnouncedKept DEF PopRequests, handlerVars
  <2>2. ASSUME NEW j \in jobs[p], FetchJob(p, j)
        PROVE  Announced'
    <3>1. \A q \in Pods : \A l \in jobs'[q] :
             l.stage = "notify" => l \in jobs[q]
      <4>1. PICK New : /\ jobs' = [jobs EXCEPT ![p] = (@ \ {j}) \cup New]
                       /\ \A l \in New : l.stage = "set"
        BY <2>2, FetchedBatch
      <4> QED BY <1>3, <4>1
    <3> QED BY <1>1, <2>2, <3>1, AnnouncedKept DEF FetchJob, handlerVars
  <2>3. ASSUME NEW j \in jobs[p], SetResult(p, j)
        PROVE  Announced'
    <3>1. CASE Advance(p, j)
      BY <1>1, <2>3, <3>1, AdvanceAnnounces, AnnouncedKept
         DEF SetResult, handlerVars
    <3>2. CASE ~Advance(p, j)
      <4> DEFINE next == [j EXCEPT !.stage = "notify"]
                 c == CoinOf[Head(j.keys)]
      <4>1. /\ price_result' = [price_result EXCEPT ![c] = ResultOf(j)]
            /\ jobs' = [jobs EXCEPT ![p] = (@ \ {j}) \cup {next}]
            /\ UNCHANGED price_results_channel
        BY <2>3, <3>2 DEF SetResult
      <4>2. /\ j \in Job /\ j.keys \in Seq(Keys) /\ j.keys # <<>>
        BY <1>3, <2>3 DEF TypeInv, JobsOK, JobOK, SetResult
      <4>3. Head(j.keys) \in Keys /\ c \in Coins
        BY <4>2, HeadTailProperties
      <4>4. ResultOf(j) # Absent
        BY <4>2, <4>3 DEF ResultOf, Job
      <4>5. Served(Head(j.keys))'
        BY <4>1, <4>3, <4>4 DEF Served, TypeInv, TypeOK, CacheTypes
      <4>6. next.keys = j.keys
        BY <4>2 DEF Job
      <4> HIDE DEF next, c
      <4>7. ASSUME NEW q \in Pods, NEW l \in jobs'[q], l.stage = "notify"
            PROVE  Served(Head(l.keys))'
        <5>1. CASE l = next
          BY <4>5, <4>6, <5>1
        <5>2. CASE l # next
          <6>1. l \in jobs[q] /\ l.keys \in Seq(Keys) /\ l.keys # <<>>
            BY <1>3, <4>1, <4>7, <5>2 DEF TypeInv, JobsOK, JobOK
          <6>2. Head(l.keys) \in Keys
            BY <6>1, HeadTailProperties
          <6> QED BY <4>7, <6>1, <6>2 DEF Announced, ServedKept
        <5> QED BY <5>1, <5>2
      <4>8. \A h \in Handlers : message[h] # None => message[h] \in Keys
        BY DEF TypeInv, TypeOK, HandlerTypes
      <4> QED BY <1>1, <4>1, <4>7, <4>8
              DEF Announced, ServedKept, handlerVars
    <3> QED BY <3>1, <3>2
  <2>4. ASSUME NEW j \in jobs[p], NotifyProducer(p, j)
        PROVE  Announced'
    <3> DEFINE k == Head(j.keys)
    <3>1. j.keys \in Seq(Keys) /\ j.keys # <<>> /\ j.stage = "notify"
      BY <2>4 DEF TypeInv, JobsOK, JobOK, NotifyProducer
    <3>2. k \in Keys /\ Served(k)
      BY <3>1, HeadTailProperties DEF Announced
    <3>3. price_results_channel' = [q \in Pods |->
             [price_results_channel[q] EXCEPT ![k] = @ + 1]]
      BY <2>4 DEF NotifyProducer
    <3> HIDE DEF k
    <3>4. ASSUME NEW q \in Pods, NEW l \in Keys, price_results_channel'[q][l] > 0
          PROVE  Served(l)'
      <4>1. l = k \/ price_results_channel[q][l] > 0
        BY <3>3, <3>4 DEF TypeInv, TypeOK, CacheTypes
      <4>2. Served(l)
        BY <3>2, <4>1 DEF Announced
      <4> QED BY <4>2 DEF ServedKept
    <3>5. ASSUME NEW q \in Pods, NEW l \in jobs'[q], l.stage = "notify"
          PROVE  Served(Head(l.keys))'
      <4>1. l \in jobs[q]
        BY <2>4, <3>5, AdvanceAnnounces DEF NotifyProducer
      <4>2. l.keys \in Seq(Keys) /\ l.keys # <<>>
        BY <3>5, <4>1 DEF TypeInv, JobsOK, JobOK
      <4>3. Head(l.keys) \in Keys
        BY <4>2, HeadTailProperties
      <4> QED BY <3>5, <4>1, <4>3 DEF Announced, ServedKept
    <3>6. \A h \in Handlers : message[h] # None => message[h] \in Keys
      BY DEF TypeInv, TypeOK, HandlerTypes
    <3> QED BY <1>1, <3>4, <3>5, <3>6 DEF Announced, ServedKept, handlerVars
  <2>5. CASE LoadScript(p)
    <3>1. \A q \in Pods : \A l \in jobs'[q] : l.stage = "notify" => l \in jobs[q]
      BY <2>5, ScriptFrame
    <3> QED BY <1>1, <2>5, <3>1, ScriptFrame, AnnouncedKept DEF handlerVars
  <2> QED BY <2>1, <2>2, <2>3, <2>4, <2>5 DEF Work
<1> QED BY <1>2, <1>4

\* The goroutines of messages whose waiters have other ids, or that a step
\* leaves alone.
LEMMA TasksKept ==
    ASSUME TypeInv, Tasks, ServedKept, NEW h \in Handlers,
           UNCHANGED <<clientVars, waiters>>,
           at' \in [Handlers -> Seq(TaskStages)],
           \A g \in Handlers \ {h} : at'[g] = at[g],
           DOMAIN at'[h] = DOMAIN at[h],
           \A i \in DOMAIN at[h] :
              LET w == waiters[h][i] IN
              \/ at'[h][i] = at[h][i]
              \/ at'[h][i] = "done"
              \/ /\ at'[h][i] \in {"lock", "delete", "check"}
                 /\ pc[w] \in Past(w)
              \/ /\ at'[h][i] = "send" /\ pc[w] \in Past(w)
                 /\ pc[w] \in Waiting(w) => AllServed(w)
    PROVE  Tasks'
<1> USE DEF clientVars, callVars
<1>1. \A r \in Requests : Wanted(r)' = Wanted(r) /\ Wanted(r) \subseteq Keys
  BY DEF Wanted, Misses
<1>2. \A r \in Requests : AllServed(r) => AllServed(r)'
  BY <1>1 DEF AllServed, ServedKept
<1>3. \A g \in Handlers : \A i \in DOMAIN waiters[g] :
          waiters[g][i] \in Requests
  BY DEF TypeInv, TypeOK, HandlerTypes
<1>4. ASSUME NEW g \in Handlers, NEW i \in DOMAIN at'[g]
      PROVE  LET w == waiters[g][i] IN
             /\ at'[g][i] \in {"lock", "delete", "check", "send"}
                   => pc[w] \in Past(w)
             /\ at'[g][i] = "send" /\ pc[w] \in Waiting(w) => AllServed(w)
  BY DEF Tasks
<1>5. \A g \in Handlers : DOMAIN at'[g] = DOMAIN waiters[g]
  BY DEF Tasks
<1> QED BY <1>2, <1>3, <1>4, <1>5 DEF Tasks

LEMMA OkDies ==
    ASSUME TypeInv, TypeInv', OkInv, ServedKept, NEW p \in Pods, Dies(p)
    PROVE  OkInv'
<1> USE DEF OkInv
<1> DEFINE Mine == {r \in Requests : PodOf[r] = p}
<1>1. Announced'
  <2>1. \A q \in Pods, k \in Keys : price_results_channel'[q][k] > 0
           => price_results_channel[q][k] > 0
    BY DEF Dies, TypeInv, TypeOK, CacheTypes
  <2>2. \A q \in Pods : \A j \in jobs'[q] : j \in jobs[q]
    BY DEF Dies, TypeInv, TypeOK, JobTypes
  <2>3. \A h \in Handlers : message'[h] # None => message'[h] = message[h]
    BY DEF Dies
  <2> QED BY <2>1, <2>2, <2>3, AnnouncedKept
<1>2. \A r \in Requests : pc[r] \in Past(r) => pc'[r] \in Past(r)
  BY DEF Dies, Past
<1>3. \A r \in Requests : pc'[r] \in Waiting(r) =>
         /\ pc[r] \in Waiting(r) /\ r \notin Mine
         /\ requestKeyMap'[r] = requestKeyMap[r]
         /\ Wanted(r)' = Wanted(r)
  BY DEF Dies, Waiting, Resting, Wanted, Misses
<1>4. \A r \in Requests : Wanted(r) \subseteq Keys
  BY DEF Wanted, Misses
<1>5. \A r \in Requests : pc'[r] \in Waiting(r) /\ AllServed(r) => AllServed(r)'
  BY <1>3, <1>4 DEF AllServed, ServedKept
<1>6. KeyMaps'
  <2>1. \A r \in requestIDKeysMap' : pc'[r] \in Past(r)
    BY <1>2 DEF Dies, KeyMaps, TypeInv, TypeOK, RegistryTypes
  <2>2. \A r \in Requests : pc'[r] \in Waiting(r) =>
           \A k \in Wanted(r)' \ requestKeyMap'[r] : Served(k)'
    BY <1>3, <1>4 DEF KeyMaps, ServedKept
  <2> QED BY <2>1, <2>2 DEF KeyMaps
<1>7. Tasks'
  <2>1. \A h \in Handlers : \A i \in DOMAIN waiters[h] :
            waiters[h][i] \in Requests
    BY DEF TypeInv, TypeOK, HandlerTypes
  <2>2. ASSUME NEW h \in Handlers
        PROVE  \/ at'[h] = <<>> /\ waiters'[h] = <<>>
               \/ at'[h] = at[h] /\ waiters'[h] = waiters[h]
    BY DEF Dies
  <2>3. DOMAIN <<>> = {}
    OBVIOUS
  <2>4. ASSUME NEW h \in Handlers, NEW i \in DOMAIN at'[h]
        PROVE  /\ at'[h] = at[h] /\ waiters'[h] = waiters[h]
               /\ i \in DOMAIN at[h] /\ waiters[h][i] \in Requests
    BY <2>1, <2>2, <2>3, <2>4 DEF Tasks
  <2>5. \A h \in Handlers : DOMAIN at'[h] = DOMAIN waiters'[h]
    BY <2>2 DEF Tasks
  <2>6. ASSUME NEW h \in Handlers, NEW i \in DOMAIN at'[h],
               NEW w \in Requests, w = waiters'[h][i]
        PROVE  /\ at'[h][i] \in {"lock", "delete", "check", "send"}
                     => pc'[w] \in Past(w)
               /\ at'[h][i] = "send" /\ pc'[w] \in Waiting(w)
                     => AllServed(w)'
    BY <1>2, <1>3, <1>5, <2>4, <2>6 DEF Tasks
  <2> QED BY <2>4, <2>5, <2>6 DEF Tasks
<1>8. Channels'
  <2>1. \A r \in Requests : resultChannel'[r] > 0 => resultChannel[r] > 0
    BY DEF Dies
  <2>2. \A r \in Requests : pc'[r] = "read" => pc[r] = "read" /\ AllServed(r)'
    <3>1. \A r \in Requests : pc'[r] = "read" => pc'[r] \in Waiting(r)
      BY DEF Waiting
    <3>2. \A r \in Requests : pc'[r] = "read" => pc[r] = "read"
      BY DEF Dies
    <3> QED BY <1>5, <3>1, <3>2 DEF Channels
  <2>3. ASSUME NEW r \in Requests, resultChannel'[r] > 0
        PROVE  /\ pc'[r] \in Past(r)
               /\ pc'[r] \in Waiting(r) => AllServed(r)'
    BY <1>2, <1>3, <1>5, <2>1, <2>3 DEF Channels
  <2> QED BY <2>2, <2>3 DEF Channels
<1> QED BY <1>1, <1>6, <1>7, <1>8

\* Taking a message announces nothing.
LEMMA MessageTaken ==
    ASSUME TypeInv, NEW q \in Pods, NEW l \in Keys,
           price_results_channel' =
              [price_results_channel EXCEPT ![q][l] = @ - 1],
           NEW p \in Pods, NEW k \in Keys, price_results_channel'[p][k] > 0
    PROVE  price_results_channel[p][k] > 0
<1>1. price_results_channel \in [Pods -> [Keys -> Nat]]
  BY DEF TypeInv, TypeOK, CacheTypes
<1>2. CASE p = q /\ k = l
  BY <1>1, <1>2
<1>3. CASE ~(p = q /\ k = l)
  BY <1>1, <1>3
<1> QED BY <1>2, <1>3

LEMMA OkWaiterStep ==
    ASSUME TypeInv, TypeInv', OkInv, ServedKept, NEW h \in Handlers, NEW i,
           \/ LoadKeyMap(h, i) \/ LockMutex(h, i) \/ DeleteKey(h, i)
           \/ CheckKeyMap(h, i) \/ SendOk(h, i)
    PROVE  OkInv'
<1> USE DEF OkInv
<1> DEFINE w == waiters[h][i]
<1>1. UNCHANGED <<clientVars, remoteVars, message, waiters,
                  price_results_channel, requestIDKeysMap>>
  BY DEF LoadKeyMap, LockMutex, DeleteKey, CheckKeyMap, SendOk, registryVars,
     keyMapVars
<1>2. Announced'
  BY <1>1, AnnouncedKept DEF remoteVars
<1>3. PICK from \in TaskStages, to \in TaskStages : Task(h, i, from, to)
  BY DEF LoadKeyMap, LockMutex, DeleteKey, CheckKeyMap, SendOk, TaskStages
<1>4. /\ i \in DOMAIN at[h] /\ i \in DOMAIN waiters[h] /\ w \in Requests
      /\ at[h][i] = from /\ message[h] # None /\ message[h] \in Keys
      /\ at \in [Handlers -> Seq(TaskStages)]
  BY <1>3 DEF Task, Tasks, TypeInv, TypeOK, HandlerTypes
<1>5. /\ at'[h] = [at[h] EXCEPT ![i] = to]
      /\ \A g \in Handlers \ {h} : at'[g] = at[g]
      /\ at' \in [Handlers -> Seq(TaskStages)]
  BY <1>3, <1>4 DEF Task, TypeInv, TypeOK, HandlerTypes
<1>6. /\ DOMAIN at'[h] = DOMAIN at[h] /\ at'[h][i] = to
      /\ \A j \in DOMAIN at[h] : j = i \/ at'[h][j] = at[h][j]
  BY <1>4, <1>5
<1>7. \/ to = "done"
      \/ to \in {"lock", "delete", "check"} /\ pc[w] \in Past(w)
      \/ /\ to = "send" /\ pc[w] \in Past(w)
         /\ pc[w] \in Waiting(w) => AllServed(w)
  <2>1. CASE LoadKeyMap(h, i)
    BY <1>4, <1>6, <2>1 DEF LoadKeyMap, Task, KeyMaps
  <2>2. CASE LockMutex(h, i) \/ DeleteKey(h, i)
    BY <1>4, <1>6, <2>2 DEF LockMutex, DeleteKey, Task, Tasks
  <2>3. CASE CheckKeyMap(h, i)
    <3>1. pc[w] \in Past(w)
      BY <1>4, <2>3 DEF CheckKeyMap, Task, Tasks
    <3>2. requestKeyMap[w] = {} \/ to = "done"
      BY <1>4, <1>6, <2>3 DEF CheckKeyMap, Task
    <3>3. to \in {"send", "done"}
      BY <1>4, <1>6, <2>3 DEF CheckKeyMap, Task
    <3>4. requestKeyMap[w] = {} /\ pc[w] \in Waiting(w) => AllServed(w)
      BY <1>4 DEF KeyMaps, AllServed
    <3> QED BY <3>1, <3>2, <3>3, <3>4
  <2>4. CASE SendOk(h, i)
    BY <1>4, <1>6, <2>4 DEF SendOk, Task
  <2> QED BY <2>1, <2>2, <2>3, <2>4
<1>8. Tasks'
  BY <1>1, <1>5, <1>6, <1>7, TasksKept
<1>9. \A r \in Requests : Wanted(r)' = Wanted(r) /\ Wanted(r) \subseteq Keys
  BY <1>1 DEF clientVars, callVars, Wanted, Misses
<1>10. \A r \in Requests : AllServed(r) => AllServed(r)'
  BY <1>9 DEF AllServed, ServedKept
<1>11. KeyMaps'
  <2>1. \A r \in Requests : \A k \in requestKeyMap[r] \ requestKeyMap'[r] :
            Served(k)
    <3>1. CASE DeleteKey(h, i)
      BY <1>4, <3>1 DEF DeleteKey, Announced, TypeInv, TypeOK, RegistryTypes
    <3>2. CASE ~DeleteKey(h, i)
      <4>1. requestKeyMap' = requestKeyMap
        BY <3>2 DEF LoadKeyMap, LockMutex, CheckKeyMap, SendOk, registryVars,
           keyMapVars
      <4> QED BY <4>1
    <3> QED BY <3>1, <3>2
  <2>2. \A r \in Requests : pc'[r] \in Waiting(r) =>
           \A k \in Wanted(r)' \ requestKeyMap'[r] : Served(k)'
    BY <1>1, <1>9, <2>1 DEF KeyMaps, ServedKept, clientVars
  <2> QED BY <1>1, <2>2 DEF KeyMaps, clientVars
<1>12. Channels'
  <2>1. ASSUME NEW r \in Requests, resultChannel'[r] > 0
        PROVE  pc[r] \in Past(r) /\ (pc[r] \in Waiting(r) => AllServed(r))
    <3>1. CASE SendOk(h, i) /\ r = w
      BY <1>4, <3>1 DEF SendOk, Task, Tasks
    <3>2. CASE ~(SendOk(h, i) /\ r = w)
      <4>1. resultChannel'[r] = resultChannel[r]
        BY <1>4, <3>2 DEF LoadKeyMap, LockMutex, DeleteKey, CheckKeyMap,
           SendOk, registryVars, channelVars, TypeInv, TypeOK, RegistryTypes
      <4> QED BY <2>1, <4>1 DEF Channels
    <3> QED BY <3>1, <3>2
  <2> QED BY <1>1, <1>10, <2>1 DEF Channels, clientVars
<1> QED BY <1>2, <1>8, <1>11, <1>12

\* The messages a process receives and the keys it forgets.
LEMMA OkMessage ==
    ASSUME TypeInv, TypeInv', OkInv, ServedKept, NEW h \in Handlers,
           \/ \E k \in Keys : ProcessMessage(h, k)
           \/ DeleteRequestKey(h)
    PROVE  OkInv'
<1> USE DEF OkInv
<1>1. UNCHANGED <<clientVars, keyMapVars, channelVars, remoteVars>>
  BY DEF ProcessMessage, DeleteRequestKey, registryVars
<1>2. \A p \in Pods, k \in Keys :
         price_results_channel'[p][k] > 0 => price_results_channel[p][k] > 0
  BY MessageTaken DEF ProcessMessage, DeleteRequestKey
<1>3. Announced'
  <2>1. ASSUME NEW g \in Handlers, message'[g] # None
        PROVE  \/ message'[g] = message[g]
               \/ \E k \in Keys : message'[g] = k /\ Served(k)
    <3>1. ASSUME NEW k \in Keys, ProcessMessage(h, k)
          PROVE  Served(k)
      BY <3>1 DEF ProcessMessage, Announced
    <3> QED BY <2>1, <3>1 DEF ProcessMessage, DeleteRequestKey, handlerVars,
               TypeInv, TypeOK, HandlerTypes
  <2>2. ASSUME NEW g \in Handlers, message'[g] # None
        PROVE  \E k \in Keys : message'[g] = k /\ Served(k)
    <3>1. message'[g] \in Keys
      BY <2>2 DEF TypeInv, TypeOK, HandlerTypes
    <3> QED BY <2>1, <2>2, <3>1 DEF Announced
  <2>3. ASSUME NEW g \in Handlers, message'[g] # None
        PROVE  \E k \in Keys : message'[g] = k /\ Served(k)'
    BY <2>2, <2>3 DEF ServedKept
  <2>4. \A g \in Handlers : message'[g] # None =>
           price_result'[CoinOf[message'[g]]] # Absent
           \/ CoinOf[message'[g]] \in expired'
    BY <2>3 DEF Served
  <2>5. \A p \in Pods, k \in Keys :
           price_results_channel'[p][k] > 0 => Served(k)'
    BY <1>2 DEF Announced, ServedKept
  <2>6. \A p \in Pods : \A j \in jobs'[p] :
           j.stage = "notify" => Served(Head(j.keys))'
    BY <1>1 DEF remoteVars, historyVars, Announced, Served
  <2> QED BY <2>4, <2>5, <2>6 DEF Announced, Served
<1>4. \A r \in Requests : Wanted(r)' = Wanted(r) /\ Wanted(r) \subseteq Keys
  BY <1>1 DEF clientVars, callVars, Wanted, Misses
<1>5. \A r \in Requests : AllServed(r) => AllServed(r)'
  BY <1>4 DEF AllServed, ServedKept
<1>6. KeyMaps'
  BY <1>1, <1>4 DEF KeyMaps, ServedKept, clientVars, keyMapVars, TypeInv,
     TypeOK, RegistryTypes
<1>7. Channels'
  BY <1>1, <1>5 DEF Channels, clientVars, channelVars
<1>8. Tasks'
  <2>1. \A g \in Handlers : \A i \in DOMAIN waiters[g] :
            waiters[g][i] \in Requests
    BY DEF TypeInv, TypeOK, HandlerTypes
  <2>2. ASSUME NEW g \in Handlers
        PROVE  \/ at'[g] = at[g] /\ waiters'[g] = waiters[g]
               \/ /\ DOMAIN at'[g] = DOMAIN waiters'[g]
                  /\ \A i \in DOMAIN at'[g] : at'[g][i] = "load"
    <3>1. CASE g # h
      BY <3>1 DEF ProcessMessage, DeleteRequestKey, handlerVars, TypeInv,
         TypeOK, HandlerTypes
    <3>2. CASE g = h /\ DeleteRequestKey(h)
      <4>1. at'[g] = <<>> /\ waiters'[g] = <<>>
        BY <3>2 DEF DeleteRequestKey, TypeInv, TypeOK, HandlerTypes
      <4> QED BY <4>1
    <3>3. ASSUME g = h, NEW k \in Keys, ProcessMessage(h, k)
          PROVE  \/ at'[g] = at[g] /\ waiters'[g] = waiters[g]
                 \/ /\ DOMAIN at'[g] = DOMAIN waiters'[g]
                    /\ \A i \in DOMAIN at'[g] : at'[g][i] = "load"
      <4> DEFINE ids == keysRequestIDMap[SlotPod[h]][k]
      <4>1. ids \in Seq(Requests)
        BY DEF TypeInv, TypeOK, RegistryTypes
      <4>2. CASE UNCHANGED handlerVars
        BY <4>2 DEF handlerVars
      <4>3. CASE /\ waiters' = [waiters EXCEPT ![h] = ids]
                 /\ at' = [at EXCEPT ![h] = [i \in 1..Len(ids) |-> "load"]]
        <5>1. waiters'[h] = ids /\ at'[h] = [i \in 1..Len(ids) |-> "load"]
          BY <4>3 DEF TypeInv, TypeOK, HandlerTypes
        <5>2. DOMAIN ids = 1..Len(ids)
          BY <4>1, LenProperties
        <5> HIDE DEF ids
        <5> QED BY <3>3, <5>1, <5>2
      <4> QED BY <3>3, <4>2, <4>3 DEF ProcessMessage
    <3> QED BY <3>1, <3>2, <3>3
  <2>3. \A g \in Handlers : DOMAIN at'[g] = DOMAIN waiters'[g]
    BY <2>2 DEF Tasks
  <2>4. ASSUME NEW g \in Handlers, NEW i \in DOMAIN at'[g],
               NEW w \in Requests, w = waiters'[g][i]
        PROVE  /\ at'[g][i] \in {"lock", "delete", "check", "send"}
                     => pc'[w] \in Past(w)
               /\ at'[g][i] = "send" /\ pc'[w] \in Waiting(w)
                     => AllServed(w)'
    BY <1>1, <1>5, <2>2, <2>4 DEF Tasks, clientVars
  <2>5. \A g \in Handlers : \A i \in DOMAIN at'[g] :
            waiters'[g][i] \in Requests
    BY <2>3 DEF TypeInv, TypeOK, HandlerTypes
  <2> QED BY <2>3, <2>4, <2>5 DEF Tasks
<1> QED BY <1>3, <1>6, <1>7, <1>8

LEMMA OkHandle ==
    ASSUME TypeInv, TypeInv', OkInv, ServedKept, NEW h \in Handlers, Handle(h)
    PROVE  OkInv'
<1>1. SlotPod[h] \in Pods
  OBVIOUS
<1> QED BY <1>1, OkWaiterStep, OkMessage, OkDies
        DEF Handle, SendOnClosedChannel, ConcurrentMapWrites

LEMMA OkEnvironment ==
    ASSUME TypeInv, TypeInv', OkInv, ServedKept,
           Environment \/ UNCHANGED vars
    PROVE  OkInv'
<1> USE DEF OkInv
<1>1. CASE \E p \in Pods : Crash(p)
  BY <1>1, OkDies DEF Crash
<1>2. CASE \/ \E c \in Coins : ExpireResult(c)
           \/ \E p \in Pods, k \in Keys : LoseMessage(p, k)
           \/ ScriptsLost \/ \E p \in Pods : LoadScriptFails(p)
           \/ UNCHANGED vars
  <2>1. UNCHANGED <<clientVars, registryVars, handlerVars, jobs>>
    BY <1>2 DEF ExpireResult, LoseMessage, ScriptsLost, LoadScriptFails, vars,
                systemVars, remoteVars
  <2>2. \A p \in Pods, k \in Keys :
           price_results_channel'[p][k] > 0 => price_results_channel[p][k] > 0
    BY <1>2, MessageTaken DEF ExpireResult, LoseMessage, ScriptsLost,
                              LoadScriptFails, vars, systemVars
  <2> QED BY <2>1, <2>2, LocalKept, AnnouncedKept DEF handlerVars
<1> QED BY <1>1, <1>2 DEF Environment

LEMMA OkNext ==
    ASSUME TypeInv, OkInv, [Next]_vars
    PROVE  OkInv'
<1>1. TypeInv' /\ ServedKept
  BY TypeNext, ServedStable
<1> QED BY <1>1, OkCall, OkWork, OkHandle, OkEnvironment DEF Next

LEMMA OkInit == Init => OkInv
<1> SUFFICES ASSUME Init PROVE OkInv
  OBVIOUS
<1>1. Announced
  BY DEF Init, Announced
<1>2. KeyMaps /\ Channels
  BY DEF Init, KeyMaps, Channels, Waiting
<1>3. Tasks
  BY DEF Init, Tasks
<1> QED BY <1>1, <1>2, <1>3 DEF OkInv

\* Whatever the interleaving of the calls, the worker, the messages and the
\* crashes, a call is told "ok" only when every key it missed has been cached
\* since.  The invariant follows a key from the worker to the call: a result is
\* announced only once it is cached, a key leaves a key map only when its
\* announcement is handled, and "ok" is sent only when the key map is empty.
THEOREM OkMeansCachedCorrect == Spec => []OkMeansCached
<1>1. Init => TypeInv /\ OkInv
  BY TypeInit, OkInit
<1>2. (TypeInv /\ OkInv) /\ [Next]_vars => (TypeInv /\ OkInv)'
  BY TypeNext, OkNext
<1>3. TypeInv /\ OkInv => OkMeansCached
  BY DEF OkInv, Channels, OkMeansCached, AllServed, Waiting
<1> QED BY <1>1, <1>2, <1>3, PTL DEF Spec

-----------------------------------------------------------------------------
(* Prices are quoted.                                                      *)

\* The parts of PricesAreQuoted: a price that is found somewhere for a coin has
\* been quoted for it.
Known(c, v) == v \in Prices => <<c, v>> \in quoted
CacheKnown == \A c \in Coins : Known(c, price_result[c])
JobsKnown == \A p \in Pods : \A j \in jobs[p] : \A c \in Coins : Known(c, j.price[c])
MapsKnown == \A r \in Requests : \A i \in DOMAIN Want[r] :
                 Known(CoinAt(r, i), resultMap[r][i])
AnswerKnown(r) == \A i \in DOMAIN Want[r] : Known(CoinAt(r, i), answer[r][i])
AnswersKnown == \A r \in Requests : answer[r] # <<>> => AnswerKnown(r)

LEMMA QuotedParts ==
    /\ PricesAreQuoted <=> CacheKnown /\ JobsKnown /\ MapsKnown /\ AnswersKnown
    /\ PricesAreQuoted' <=> CacheKnown' /\ JobsKnown' /\ MapsKnown' /\ AnswersKnown'
BY Zenon DEF PricesAreQuoted, CacheKnown, JobsKnown, MapsKnown, AnswersKnown, AnswerKnown, Known

\* Quotes are never taken back, so that what is left alone stays quoted.
LEMMA KnownKept ==
    ASSUME PricesAreQuoted, quoted \subseteq quoted'
    PROVE  /\ UNCHANGED price_result => CacheKnown'
           /\ UNCHANGED jobs => JobsKnown'
           /\ UNCHANGED resultMap => MapsKnown'
           /\ UNCHANGED answer => AnswersKnown'
<1>1. \A c, v : Known(c, v) => (v \in Prices => <<c, v>> \in quoted')
  BY Zenon DEF Known
<1>2. CacheKnown /\ JobsKnown /\ MapsKnown /\ AnswersKnown
  BY QuotedParts, Zenon
<1>3. UNCHANGED price_result => CacheKnown'
  BY <1>1, <1>2, Zenon DEF CacheKnown, Known
<1>4. UNCHANGED jobs => JobsKnown'
  BY <1>1, <1>2, Zenon DEF JobsKnown, Known
<1>5. UNCHANGED resultMap => MapsKnown'
  BY <1>1, <1>2, Zenon DEF MapsKnown, Known
<1>6. UNCHANGED answer => AnswersKnown'
  BY <1>1, <1>2, Zenon DEF AnswersKnown, AnswerKnown, Known
<1> QED BY <1>3, <1>4, <1>5, <1>6, Zenon

\* A call that gets an answer gets one of known prices.
LEMMA AnswerStored ==
    ASSUME TypeInv, PricesAreQuoted, quoted \subseteq quoted',
           NEW r \in Requests, NEW a \in [DOMAIN Want[r] -> Cached],
           answer' = [answer EXCEPT ![r] = a],
           \A i \in DOMAIN Want[r] : a[i] \in Prices => <<CoinAt(r, i), a[i]>> \in quoted'
    PROVE  AnswersKnown'
<1>1. DOMAIN answer = Requests
  BY Zenon DEF TypeInv, TypeOK, CallTypes
<1>2. answer'[r] = a /\ \A q \in Requests \ {r} : answer'[q] = answer[q]
  BY <1>1, SMT
<1>3. AnswersKnown
  BY QuotedParts, Zenon
<1>4. ASSUME NEW q \in Requests, NEW i \in DOMAIN Want[q], answer'[q] # <<>>,
             answer'[q][i] \in Prices
      PROVE  <<CoinAt(q, i), answer'[q][i]>> \in quoted'
  <2>1. CASE q = r
    BY <1>2, <1>4, <2>1, Zenon
  <2>2. CASE q # r
    <3>1. answer'[q] = answer[q]
      BY <1>2, <2>2, SMT
    <3> QED BY <1>3, <1>4, <3>1, Zenon DEF AnswersKnown, AnswerKnown, Known
  <2> QED BY <2>1, <2>2, Zenon
<1>5. \A q \in Requests : answer'[q] # <<>> => AnswerKnown(q)'
  BY <1>4, Zenon DEF AnswerKnown, Known, CoinAt
<1> QED BY <1>5, Zenon DEF AnswersKnown

\* The coin of an item.
LEMMA CoinOfItem ==
    ASSUME NEW r \in Requests, NEW i \in DOMAIN Want[r]
    PROVE  CoinAt(r, i) \in Coins /\ Want[r][i] \in Keys
<1>1. Want[r][i] \in Keys
  OBVIOUS
<1> QED BY <1>1 DEF CoinAt

LEMMA QuotedGetPrice ==
    ASSUME TypeInv, PricesAreQuoted, NEW r \in Requests, GetPrice(r)
    PROVE  PricesAreQuoted'
<1> DEFINE v == price_result[CoinAt(r, 1)]
<1>1. UNCHANGED <<price_result, jobs, resultMap, quoted>>
  BY Zenon DEF GetPrice, systemVars, remoteVars, historyVars
<1>2. CASE UNCHANGED answer
  BY <1>1, <1>2, KnownKept, QuotedParts, Zenon
<1>3. CASE v \in Prices /\ answer' = [answer EXCEPT ![r] = <<v>>]
  <2>1. r \in Requests \ Batched
    BY Zenon DEF GetPrice
  <2>2. DOMAIN Want[r] = 1..1
    BY <2>1
  <2>3. <<v>> \in [DOMAIN Want[r] -> Cached]
    <3>1. v \in Cached
      BY <1>3, SMT DEF Cached, Quotes
    <3> QED BY <2>1, <3>1, SingleAnswer
  <2>4. <<CoinAt(r, 1), v>> \in quoted
    <3>1. CoinAt(r, 1) \in Coins
      BY <2>2, CoinOfItem, SMT
    <3> QED BY <1>3, <3>1, QuotedParts, Zenon DEF CacheKnown, Known
  <2>5. \A i \in DOMAIN Want[r] :
           <<v>>[i] \in Prices => <<CoinAt(r, i), <<v>>[i]>> \in quoted'
    BY <1>1, <2>2, <2>4, SMT
  <2>6. AnswersKnown'
    BY <1>1, <1>3, <2>3, <2>5, AnswerStored, Zenon
  <2> QED BY <1>1, <2>6, KnownKept, QuotedParts, Zenon
<1> QED BY <1>2, <1>3, Zenon DEF GetPrice

LEMMA QuotedProbeCache ==
    ASSUME TypeInv, PricesAreQuoted, NEW r \in Requests, ProbeCache(r)
    PROVE  PricesAreQuoted'
<1>1. UNCHANGED <<price_result, jobs, answer, quoted>>
  BY Zenon DEF ProbeCache, systemVars, remoteVars, historyVars
<1>2. resultMap' = [resultMap EXCEPT ![r] = [i \in DOMAIN Want[r] |-> price_result[CoinAt(r, i)]]]
  BY Zenon DEF ProbeCache
<1>3. DOMAIN resultMap = Requests
  BY Zenon DEF TypeInv, TypeOK, CallTypes
<1>4. \A i \in DOMAIN Want[r] : resultMap'[r][i] = price_result[CoinAt(r, i)]
  BY <1>2, <1>3, SMT
<1>5. \A q \in Requests \ {r} : resultMap'[q] = resultMap[q]
  BY <1>2, <1>3, SMT
<1>6. CacheKnown /\ MapsKnown
  BY QuotedParts, Zenon
<1>7. ASSUME NEW q \in Requests, NEW i \in DOMAIN Want[q]
      PROVE  Known(CoinAt(q, i), resultMap[q][i])'
  <2>1. CASE q = r
    <3>1. CoinAt(q, i) \in Coins
      BY CoinOfItem, Zenon
    <3> QED BY <1>1, <1>4, <1>6, <2>1, <3>1, Zenon DEF CacheKnown, Known, CoinAt
  <2>2. CASE q # r
    <3>1. resultMap'[q] = resultMap[q]
      BY <1>5, <2>2, SMT
    <3> QED BY <1>1, <1>6, <3>1, Zenon DEF MapsKnown, Known, CoinAt
  <2> QED BY <2>1, <2>2, Zenon
<1>8. MapsKnown'
  BY <1>7, Zenon DEF MapsKnown
<1> QED BY <1>1, <1>8, KnownKept, QuotedParts, Zenon

LEMMA QuotedReadResult ==
    ASSUME TypeInv, PricesAreQuoted, NEW r \in Requests, ReadResult(r)
    PROVE  PricesAreQuoted'
<1> DEFINE v == price_result[CoinAt(r, 1)]
           a == [i \in DOMAIN Want[r] |->
                    IF i \in Misses(r) THEN price_result[CoinAt(r, i)] ELSE resultMap[r][i]]
<1>1. UNCHANGED <<price_result, jobs, resultMap, quoted>>
  BY Zenon DEF ReadResult, systemVars, remoteVars, historyVars
<1>2. CacheKnown /\ MapsKnown
  BY QuotedParts, Zenon
<1>3. CASE UNCHANGED answer
  BY <1>1, <1>3, KnownKept, QuotedParts, Zenon
<1>4. CASE r \in Batched /\ answer' = [answer EXCEPT ![r] = a]
  <2>1. /\ price_result \in [Coins -> Cached]
        /\ resultMap[r] \in [DOMAIN Want[r] -> Cached]
    BY Zenon DEF TypeInv, TypeOK, CallTypes, CacheTypes
  <2>2. a \in [DOMAIN Want[r] -> Cached]
    BY <2>1, CoinOfItem, SMT
  <2>3. ASSUME NEW i \in DOMAIN Want[r], a[i] \in Prices
        PROVE  <<CoinAt(r, i), a[i]>> \in quoted
    <3>1. CASE i \in Misses(r)
      <4>1. a[i] = price_result[CoinAt(r, i)]
        BY <3>1, SMT
      <4> QED BY <1>2, <2>3, <4>1, CoinOfItem, Zenon DEF CacheKnown, Known
    <3>2. CASE i \notin Misses(r)
      <4>1. a[i] = resultMap[r][i]
        BY <3>2, SMT
      <4> QED BY <1>2, <2>3, <4>1, Zenon DEF MapsKnown, Known
    <3> QED BY <3>1, <3>2, Zenon
  <2> HIDE DEF a
  <2>4. AnswersKnown'
    BY <1>1, <1>4, <2>2, <2>3, AnswerStored, Zenon
  <2> QED BY <1>1, <2>4, KnownKept, QuotedParts, Zenon
<1>5. CASE r \notin Batched /\ \E w \in {v, NoPrice} : /\ w \in Cached
                                                     /\ answer' = [answer EXCEPT ![r] = <<w>>]
  <2>1. r \in Requests \ Batched
    BY <1>5, Zenon
  <2>2. PICK w \in {v, NoPrice} : w \in Cached /\ answer' = [answer EXCEPT ![r] = <<w>>]
    BY <1>5, Zenon
  <2>3. DOMAIN Want[r] = 1..1
    BY <2>1
  <2>4. <<w>> \in [DOMAIN Want[r] -> Cached]
    BY <2>1, <2>2, SingleAnswer
  <2>5. w \in Prices => <<CoinAt(r, 1), w>> \in quoted
    <3>1. CoinAt(r, 1) \in Coins
      BY <2>3, CoinOfItem, SMT
    <3> QED BY <1>2, <2>2, <3>1 DEF CacheKnown, Known
  <2>6. \A i \in DOMAIN Want[r] :
           <<w>>[i] \in Prices => <<CoinAt(r, i), <<w>>[i]>> \in quoted'
    BY <1>1, <2>3, <2>5, SMT
  <2>7. AnswersKnown'
    BY <1>1, <2>2, <2>4, <2>6, AnswerStored, Zenon
  <2> QED BY <1>1, <2>7, KnownKept, QuotedParts, Zenon
<1>6. v \in Prices => v \in Cached
  BY SMT DEF Cached, Quotes
<1>7. NoPrice \in Cached
  BY SMT DEF Cached, Quotes
<1> HIDE DEF v
<1> QED BY <1>3, <1>4, <1>5, <1>6, <1>7, SMT DEF ReadResult, v

LEMMA QuotedFetchDirect ==
    ASSUME TypeInv, PricesAreQuoted, NEW r \in Requests, FetchDirect(r)
    PROVE  PricesAreQuoted'
<1> DEFINE D == {CoinAt(r, i) : i \in DOMAIN Want[r]}
<1>1. UNCHANGED <<price_result, jobs, resultMap>>
  BY Zenon DEF FetchDirect
<1>2. CASE UNCHANGED <<answer, quoted>>
  BY <1>1, <1>2, KnownKept, QuotedParts, Zenon
<1>3. ASSUME NEW f \in [D -> Quotes],
             answer' = [answer EXCEPT ![r] = [i \in DOMAIN Want[r] |-> f[CoinAt(r, i)]]],
             quoted' = quoted \cup {<<c, f[c]>> : c \in {d \in DOMAIN f : f[d] \in Prices}}
      PROVE  PricesAreQuoted'
  <2> DEFINE a == [i \in DOMAIN Want[r] |-> f[CoinAt(r, i)]]
  <2>1. quoted \subseteq quoted'
    BY <1>3, Zenon
  <2>2. \A i \in DOMAIN Want[r] : CoinAt(r, i) \in D
    BY Zenon
  <2>3. a \in [DOMAIN Want[r] -> Cached]
    BY <2>2, SMT DEF Cached
  <2>4. ASSUME NEW i \in DOMAIN Want[r], a[i] \in Prices
        PROVE  <<CoinAt(r, i), a[i]>> \in quoted'
    <3>1. a[i] = f[CoinAt(r, i)]
      BY SMT
    <3>2. CoinAt(r, i) \in DOMAIN f
      BY <2>2, SMT
    <3> QED BY <1>3, <2>4, <3>1, <3>2, Zenon
  <2>5. answer' = [answer EXCEPT ![r] = a]
    BY <1>3, Zenon
  <2> HIDE DEF a
  <2>6. AnswersKnown'
    BY <2>1, <2>3, <2>4, <2>5, AnswerStored, Zenon
  <2> QED BY <1>1, <2>1, <2>6, KnownKept, QuotedParts, Zenon
<1> QED BY <1>2, <1>3, Zenon DEF FetchDirect

\* The batches of a process are replaced by one whose prices are known.
LEMMA JobsKnownReplaced ==
    ASSUME TypeInv, PricesAreQuoted, quoted \subseteq quoted', NEW p \in Pods, NEW Old, NEW New,
           \A l \in New : \A c \in Coins : l.price[c] \in Prices => <<c, l.price[c]>> \in quoted',
           jobs' = [jobs EXCEPT ![p] = Old \cup New],
           Old \subseteq jobs[p]
    PROVE  JobsKnown'
<1>1. jobs \in [Pods -> SUBSET Job]
  BY Zenon DEF TypeInv, TypeOK, JobTypes
<1>2. jobs'[p] = Old \cup New /\ \A q \in Pods \ {p} : jobs'[q] = jobs[q]
  BY <1>1, SMT
<1>3. JobsKnown
  BY QuotedParts, Zenon
<1>4. ASSUME NEW q \in Pods, NEW l \in jobs'[q], NEW c \in Coins, l.price[c] \in Prices
      PROVE  <<c, l.price[c]>> \in quoted'
  <2>1. CASE q = p /\ l \in New
    BY <1>4, <2>1, Zenon
  <2>2. CASE ~(q = p /\ l \in New)
    <3>1. l \in jobs[q]
      BY <1>2, <1>4, <2>2, SMT
    <3> QED BY <1>3, <1>4, <3>1, Zenon DEF JobsKnown, Known
  <2> QED BY <2>1, <2>2, Zenon
<1> QED BY <1>4, Zenon DEF JobsKnown, Known

LEMMA QuotedPopRequests ==
    ASSUME TypeInv, PricesAreQuoted, NEW p \in Pods, PopRequests(p)
    PROVE  PricesAreQuoted'
<1> DEFINE job(b) == [keys |-> b, stage |-> "fetch", price |-> [c \in Coins |-> NoPrice]]
           New == {job(b) : b \in Batches(Popped)}
<1>1. UNCHANGED <<price_result, resultMap, answer, quoted>>
  BY Zenon DEF PopRequests, clientVars, callVars, historyVars
<1>2. jobs' = [jobs EXCEPT ![p] = {} \cup New]
  BY DEF PopRequests
<1>3. \A b : \A c \in Coins : job(b).price[c] = NoPrice
  BY SMT
<1>4. \A l \in New : \A c \in Coins : l.price[c] \in Prices => <<c, l.price[c]>> \in quoted'
  <2> HIDE DEF job
  <2>1. \A l \in New : \A c \in Coins : l.price[c] = NoPrice
    BY <1>3, Zenon
  <2> HIDE DEF New
  <2> QED BY <2>1
<1> DEFINE Old == {}
<1>5. Old \subseteq jobs[p] /\ quoted \subseteq quoted'
  BY <1>1, SMT
<1>6. jobs' = [jobs EXCEPT ![p] = Old \cup New]
  BY <1>2
<1> HIDE DEF New, Old
<1>7. JobsKnown'
  BY <1>4, <1>5, <1>6, JobsKnownReplaced, Zenon
<1> QED BY <1>1, <1>7, KnownKept, QuotedParts, Zenon

LEMMA QuotedFetchJob ==
    ASSUME TypeInv, PricesAreQuoted, NEW p \in Pods, NEW j \in jobs[p], FetchJob(p, j)
    PROVE  PricesAreQuoted'
<1> DEFINE Valid == Selections(j.keys, Elems(j.keys) \ {Junk})
           Found(valid) == {CoinOf[k] : k \in Elems(valid)}
           Price(f) == [c \in Coins |-> IF c \in DOMAIN f THEN f[c] ELSE NoPrice]
           Filled(valid, f) == IF valid = <<>> THEN {} ELSE
               {[keys |-> valid, stage |-> "set", price |-> Price(f)]}
           Seen(f) == {<<c, f[c]>> : c \in {d \in DOMAIN f : f[d] \in Prices}}
<1>1. UNCHANGED <<price_result, resultMap, answer>>
  BY Zenon DEF FetchJob, clientVars, callVars
<1>2. CASE \E valid \in Valid : \E f \in [Found(valid) -> Quotes] :
               /\ jobs' = [jobs EXCEPT ![p] = (@ \ {j}) \cup Filled(valid, f)]
               /\ quoted' = quoted \cup Seen(f)
  <2>1. PICK valid \in Valid : \E f \in [Found(valid) -> Quotes] :
               /\ jobs' = [jobs EXCEPT ![p] = (@ \ {j}) \cup Filled(valid, f)]
               /\ quoted' = quoted \cup Seen(f)
    BY <1>2
  <2>2. PICK f \in [Found(valid) -> Quotes] :
               /\ jobs' = [jobs EXCEPT ![p] = (@ \ {j}) \cup Filled(valid, f)]
               /\ quoted' = quoted \cup Seen(f)
    BY <2>1
  <2>3. quoted \subseteq quoted'
    BY <2>2
  <2>4. \A c \in Coins : Price(f)[c] \in Prices => <<c, Price(f)[c]>> \in quoted'
    <3>1. \A c \in Coins : Price(f)[c] \in Prices => c \in DOMAIN f /\ Price(f)[c] = f[c]
      OBVIOUS
    <3>2. \A c \in DOMAIN f : f[c] \in Prices => <<c, f[c]>> \in quoted'
      BY <2>2
    <3> HIDE DEF Price
    <3> QED BY <3>1, <3>2
  <2>5. \A l \in Filled(valid, f) : l.price = Price(f)
    <3> HIDE DEF Price
    <3> QED OBVIOUS
  <2>6. jobs[p] \ {j} \subseteq jobs[p]
    OBVIOUS
  <2>7. jobs' = [jobs EXCEPT ![p] = (jobs[p] \ {j}) \cup Filled(valid, f)]
    BY <2>2
  <2>8. \A l \in Filled(valid, f) : \A c \in Coins :
           l.price[c] \in Prices => <<c, l.price[c]>> \in quoted'
    <3> HIDE DEF Filled, Price
    <3> QED BY <2>4, <2>5, Zenon
  <2> HIDE DEF Filled
  <2>9. JobsKnown'
    BY <2>3, <2>6, <2>7, <2>8, JobsKnownReplaced, Zenon
  <2> QED BY <1>1, <2>3, <2>9, KnownKept, QuotedParts, Zenon
<1>3. CASE jobs' = [jobs EXCEPT ![p] = @ \ {j}] /\ UNCHANGED quoted
  <2> DEFINE New == {}
  <2>1. jobs' = [jobs EXCEPT ![p] = (jobs[p] \ {j}) \cup New]
    BY <1>3
  <2>2. jobs[p] \ {j} \subseteq jobs[p] /\ quoted \subseteq quoted'
    BY <1>3, SMT
  <2>3. \A l \in New : \A c \in Coins : l.price[c] \in Prices => <<c, l.price[c]>> \in quoted'
    BY SMT
  <2> HIDE DEF New
  <2>4. JobsKnown'
    BY <2>1, <2>2, <2>3, JobsKnownReplaced, Zenon
  <2> QED BY <1>1, <1>3, <2>4, KnownKept, QuotedParts, Zenon
<1> QED BY <1>2, <1>3 DEF FetchJob

\* The batch that goes on to its next result has the same prices.
LEMMA QuotedAdvance ==
    ASSUME TypeInv, PricesAreQuoted, NEW p \in Pods, NEW j \in jobs[p],
           Advance(p, j), UNCHANGED quoted
    PROVE  JobsKnown'
<1> DEFINE next == [j EXCEPT !.keys = Tail(@), !.stage = "set"]
           New == IF Len(j.keys) = 1 THEN {} ELSE {next}
<1>1. j \in Job
  BY DEF TypeInv, TypeOK, JobTypes
<1>2. next.price = j.price
  BY <1>1 DEF Job
<1>3. \A c \in Coins : j.price[c] \in Prices => <<c, j.price[c]>> \in quoted
  BY QuotedParts, Zenon DEF JobsKnown, Known
<1>4. \A l \in New : l = next
  <2> HIDE DEF next
  <2> QED OBVIOUS
<1>5. jobs' = [jobs EXCEPT ![p] = (jobs[p] \ {j}) \cup New]
  BY DEF Advance
<1> HIDE DEF next, New
<1>6. \A l \in New : \A c \in Coins : l.price[c] \in Prices => <<c, l.price[c]>> \in quoted'
  BY <1>2, <1>3, <1>4, Zenon
<1>7. jobs[p] \ {j} \subseteq jobs[p] /\ quoted \subseteq quoted'
  BY SMT
<1> QED BY <1>5, <1>6, <1>7, JobsKnownReplaced, Zenon

LEMMA QuotedSetResult ==
    ASSUME TypeInv, PricesAreQuoted, NEW p \in Pods, NEW j \in jobs[p], SetResult(p, j)
    PROVE  PricesAreQuoted'
<1> DEFINE next == [j EXCEPT !.stage = "notify"]
           coin == CoinOf[Head(j.keys)]
<1>1. UNCHANGED <<resultMap, answer, quoted>>
  BY Zenon DEF SetResult, clientVars, callVars, historyVars
<1>2. j \in Job /\ j.keys \in Seq(Keys) /\ j.keys # <<>>
  BY DEF TypeInv, TypeOK, JobTypes, JobsOK, JobOK, SetResult
<1>3. coin \in Coins
  BY <1>2, HeadTailProperties
<1>4. next.price = j.price
  BY <1>2 DEF Job
<1>5. \A c \in Coins : j.price[c] \in Prices => <<c, j.price[c]>> \in quoted
  BY QuotedParts, Zenon DEF JobsKnown, Known
<1>6. ASSUME price_result' = [price_result EXCEPT ![coin] = ResultOf(j)],
             jobs' = [jobs EXCEPT ![p] = (@ \ {j}) \cup {next}]
      PROVE  PricesAreQuoted'
  <2>1. ResultOf(j) = j.price[coin]
    BY DEF ResultOf
  <2>2. price_result \in [Coins -> Cached]
    BY DEF TypeInv, TypeOK, CacheTypes
  <2> DEFINE New == {next}
  <2>3. jobs' = [jobs EXCEPT ![p] = (jobs[p] \ {j}) \cup New]
    BY <1>6
  <2> HIDE DEF coin, next
  <2>4. \A c \in Coins : price_result'[c] = IF c = coin THEN j.price[c] ELSE price_result[c]
    BY <1>6, <2>1, <2>2
  <2>5. CacheKnown
    BY QuotedParts, Zenon
  <2>6. \A c \in Coins : price_result'[c] \in Prices => <<c, price_result'[c]>> \in quoted'
    BY <1>1, <1>5, <2>4, <2>5 DEF CacheKnown, Known
  <2>7. CacheKnown'
    BY <2>6, Zenon DEF CacheKnown, Known
  <2>8. \A l \in New : \A c \in Coins : l.price[c] \in Prices => <<c, l.price[c]>> \in quoted'
    BY <1>1, <1>4, <1>5
  <2>9. jobs[p] \ {j} \subseteq jobs[p] /\ quoted \subseteq quoted'
    BY <1>1, SMT
  <2> HIDE DEF New
  <2>10. JobsKnown'
    BY <2>3, <2>8, <2>9, JobsKnownReplaced, Zenon
  <2> QED BY <1>1, <2>7, <2>10, KnownKept, QuotedParts, Zenon
<1>7. CASE Advance(p, j) /\ UNCHANGED price_result
  BY <1>1, <1>7, QuotedAdvance, KnownKept, QuotedParts, Zenon
<1> QED BY <1>6, <1>7 DEF SetResult

LEMMA QuotedNotifyProducer ==
    ASSUME TypeInv, PricesAreQuoted, NEW p \in Pods, NEW j \in jobs[p], NotifyProducer(p, j)
    PROVE  PricesAreQuoted'
<1>1. UNCHANGED <<price_result, resultMap, answer, quoted>> /\ Advance(p, j)
  BY Zenon DEF NotifyProducer, clientVars, callVars, historyVars
<1> QED BY <1>1, QuotedAdvance, KnownKept, QuotedParts, Zenon

\* With a process its batches and the answers its calls have read are gone.
LEMMA QuotedDies ==
    ASSUME TypeInv, PricesAreQuoted, NEW p \in Pods, Dies(p)
    PROVE  PricesAreQuoted'
<1>1. UNCHANGED <<price_result, answer, quoted>>
  BY Zenon DEF Dies, historyVars
<1>2. CacheKnown' /\ AnswersKnown'
  BY <1>1, KnownKept, Zenon
<1>3. \A q \in Pods : jobs'[q] \subseteq jobs[q]
  BY DEF Dies, TypeInv, TypeOK, JobTypes
<1>4. JobsKnown /\ MapsKnown
  BY QuotedParts, Zenon
<1>5. JobsKnown'
  BY <1>1, <1>3, <1>4, Zenon DEF JobsKnown, Known
<1>6. \A r \in Requests : \A i \in DOMAIN Want[r] :
         resultMap'[r][i] = resultMap[r][i] \/ resultMap'[r][i] = Absent
  BY DEF Dies
<1>7. Absent \notin Prices
  BY DEF Quotes
<1>8. \A r \in Requests : \A i \in DOMAIN Want[r] :
         resultMap'[r][i] \in Prices => <<CoinAt(r, i), resultMap'[r][i]>> \in quoted'
  BY <1>1, <1>4, <1>6, <1>7, Zenon DEF MapsKnown, Known
<1>9. MapsKnown'
  BY <1>8, Zenon DEF MapsKnown, Known, CoinAt
<1> QED BY <1>2, <1>5, <1>9, QuotedParts, Zenon

LEMMA QuotedCloseChannel ==
    ASSUME TypeInv, PricesAreQuoted, NEW r \in Requests, CloseChannel(r)
    PROVE  PricesAreQuoted'
<1>1. UNCHANGED <<price_result, jobs, answer, quoted>>
  BY Zenon DEF CloseChannel, systemVars, remoteVars, historyVars
<1>2. Absent \notin Prices
  BY DEF Quotes
<1>3. \A q \in Requests : \A i \in DOMAIN Want[q] :
         resultMap'[q][i] = resultMap[q][i] \/ resultMap'[q][i] = Absent
  BY DEF CloseChannel, TypeInv, TypeOK, CallTypes
<1>4. MapsKnown
  BY QuotedParts, Zenon
<1>5. \A q \in Requests : \A i \in DOMAIN Want[q] :
         resultMap'[q][i] \in Prices => <<CoinAt(q, i), resultMap'[q][i]>> \in quoted'
  BY <1>1, <1>2, <1>3, <1>4, Zenon DEF MapsKnown, Known
<1>6. MapsKnown'
  BY <1>5, Zenon DEF MapsKnown, Known, CoinAt
<1> QED BY <1>1, <1>6, KnownKept, QuotedParts, Zenon

\* A step that neither fetches, caches nor answers.
LEMMA QuotedStutter ==
    ASSUME PricesAreQuoted, UNCHANGED <<price_result, jobs, resultMap, answer, quoted>>
    PROVE  PricesAreQuoted'
BY KnownKept, QuotedParts, Zenon

LEMMA QuotedNext ==
    ASSUME TypeInv, PricesAreQuoted, [Next]_vars
    PROVE  PricesAreQuoted'
<1> DEFINE Same == UNCHANGED <<price_result, jobs, resultMap, answer, quoted>>
<1>1. ASSUME NEW r \in Requests, Call(r)
      PROVE  PricesAreQuoted'
  <2>1. CASE GetPrice(r) \/ ProbeCache(r) \/ ReadResult(r) \/ FetchDirect(r) \/ CloseChannel(r)
    BY <2>1, QuotedGetPrice, QuotedProbeCache, QuotedReadResult, QuotedFetchDirect,
       QuotedCloseChannel, Zenon
  <2>2. CASE \/ StoreChannel(r) \/ StoreKeyMap(r) \/ Enqueue(r) \/ RedisFails(r)
             \/ \E i \in DOMAIN Want[r] : LoadRequestIDs(r, i) \/ StoreRequestIDs(r, i)
             \/ ReceiveOk(r) \/ TimeOut(r) \/ DeleteChannel(r) \/ DeleteKeyMap(r)
    <3>1. Same
      BY <2>2, Zenon DEF StoreChannel, StoreKeyMap, Enqueue, RedisFails, LoadRequestIDs,
         StoreRequestIDs, ReceiveOk, TimeOut, DeleteChannel, DeleteKeyMap,
         callVars, systemVars, remoteVars, historyVars
    <3> QED BY <3>1, QuotedStutter, Zenon
  <2> QED BY <1>1, <2>1, <2>2, Zenon DEF Call
<1>2. ASSUME NEW p \in Pods, Work(p)
      PROVE  PricesAreQuoted'
  <2>1. CASE LoadScript(p)
    <3>1. Same
      BY <2>1, Zenon DEF LoadScript, clientVars, callVars, historyVars
    <3> QED BY <3>1, QuotedStutter, Zenon
  <2> QED BY <1>2, <2>1, QuotedPopRequests, QuotedFetchJob, QuotedSetResult,
             QuotedNotifyProducer, Zenon DEF Work
<1>3. ASSUME NEW h \in Handlers, Handle(h)
      PROVE  PricesAreQuoted'
  <2>1. SlotPod[h] \in Pods
    OBVIOUS
  <2>2. ASSUME NEW i, SendOnClosedChannel(h, i) \/ ConcurrentMapWrites(h, i)
        PROVE  PricesAreQuoted'
    BY <2>1, <2>2, QuotedDies, Zenon DEF SendOnClosedChannel, ConcurrentMapWrites
  <2>3. ASSUME \/ \E k \in Keys : ProcessMessage(h, k)
               \/ \E i \in DOMAIN at[h] :
                     \/ LoadKeyMap(h, i) \/ LockMutex(h, i) \/ DeleteKey(h, i)
                     \/ CheckKeyMap(h, i) \/ SendOk(h, i)
               \/ DeleteRequestKey(h)
        PROVE  PricesAreQuoted'
    <3>1. Same
      BY <2>3, Zenon DEF ProcessMessage, LoadKeyMap, LockMutex, DeleteKey, CheckKeyMap, SendOk,
         DeleteRequestKey, clientVars, callVars, remoteVars, historyVars
    <3> QED BY <3>1, QuotedStutter, Zenon
  <2> QED BY <1>3, <2>2, <2>3, Zenon DEF Handle
<1>4. CASE Environment
  <2>1. ASSUME NEW c \in Coins, ExpireResult(c)
        PROVE  PricesAreQuoted'
    <3>1. UNCHANGED <<jobs, resultMap, answer, quoted>>
      BY <2>1, Zenon DEF ExpireResult, clientVars, callVars
    <3>2. \A d \in Coins : price_result'[d] = price_result[d] \/ price_result'[d] \notin Prices
      BY <2>1 DEF ExpireResult, TypeInv, TypeOK, CacheTypes, Quotes
    <3>3. CacheKnown
      BY QuotedParts, Zenon
    <3>4. CacheKnown'
      BY <3>1, <3>2, <3>3, Zenon DEF CacheKnown, Known
    <3> QED BY <3>1, <3>4, KnownKept, QuotedParts, Zenon
  <2>2. ASSUME NEW p \in Pods, NEW k \in Keys, LoseMessage(p, k)
        PROVE  PricesAreQuoted'
    <3>1. Same
      BY <2>2, Zenon DEF LoseMessage, clientVars, callVars, remoteVars, historyVars
    <3> QED BY <3>1, QuotedStutter, Zenon
  <2>3. ASSUME NEW p \in Pods, Crash(p)
        PROVE  PricesAreQuoted'
    BY <2>3, QuotedDies, Zenon DEF Crash
  <2>4. ASSUME ScriptsLost \/ \E p \in Pods : LoadScriptFails(p)
        PROVE  PricesAreQuoted'
    <3>1. Same
      BY <2>4, Zenon DEF ScriptsLost, LoadScriptFails, clientVars, callVars,
                         historyVars
    <3> QED BY <3>1, QuotedStutter, Zenon
  <2> QED BY <1>4, <2>1, <2>2, <2>3, <2>4, Zenon DEF Environment
<1>5. CASE UNCHANGED vars
  <2>1. Same
    BY <1>5, Zenon DEF vars, clientVars, callVars, systemVars, remoteVars, historyVars
  <2> QED BY <2>1, QuotedStutter, Zenon
<1> QED BY <1>1, <1>2, <1>3, <1>4, <1>5, Zenon DEF Next

LEMMA QuotedInit == Init => PricesAreQuoted
<1> SUFFICES ASSUME Init PROVE PricesAreQuoted
  OBVIOUS
<1>1. Absent \notin Prices
  BY DEF Quotes
<1>2. CacheKnown /\ JobsKnown
  BY <1>1 DEF Init, CacheKnown, JobsKnown, Known
<1>3. MapsKnown /\ AnswersKnown
  BY <1>1 DEF Init, MapsKnown, AnswersKnown, Known
<1> QED BY <1>2, <1>3, QuotedParts, Zenon

\* No price is made up or gets to another token: what is in the cache, in a batch or in an
\* answer has been quoted for the coin of that very key, whatever processes, batches and
\* calls there are, and whichever of them die.
THEOREM PricesAreQuotedCorrect == Spec => []PricesAreQuoted
<1>1. TypeInv /\ PricesAreQuoted /\ [Next]_vars => (TypeInv /\ PricesAreQuoted)'
  BY TypeNext, QuotedNext
<1> QED BY TypeInit, QuotedInit, <1>1, PTL DEF Spec

-----------------------------------------------------------------------------
(* The entries of the shared maps.                                         *)

\* A call is in the channel map only before it has left it, and likewise for the
\* key map: the order of the deferred deletes.
EntriesLive ==
    /\ \A r \in requestIDChannelMap : pc[r] \notin Resting \cup {"unkeys", "close"}
    /\ \A r \in requestIDKeysMap : pc[r] \notin Resting \cup {"close"}

\* A step of a call to a stage that keeps the entries it has.
LEMMA EntriesStep ==
    ASSUME TypeInv, EntriesLive, NEW r \in Requests, NEW stage, Goto(r, stage),
           requestIDChannelMap' \subseteq requestIDChannelMap \cup {r},
           requestIDKeysMap' \subseteq requestIDKeysMap \cup {r},
           r \in requestIDChannelMap' => stage \notin Resting \cup {"unkeys", "close"},
           r \in requestIDKeysMap' => stage \notin Resting \cup {"close"}
    PROVE  EntriesLive'
<1>1. pc \in [Requests -> Stages]
  BY Zenon DEF TypeInv, TypeOK, CallTypes
<1>2. requestIDChannelMap \subseteq Requests /\ requestIDKeysMap \subseteq Requests
  BY Zenon DEF TypeInv, TypeOK, RegistryTypes
<1>3. pc'[r] = stage /\ \A q \in Requests \ {r} : pc'[q] = pc[q]
  BY <1>1, SMT DEF Goto
<1>4. ASSUME NEW q \in requestIDChannelMap'
      PROVE  pc'[q] \notin Resting \cup {"unkeys", "close"}
  <2>1. CASE q = r
    BY <1>3, <1>4, <2>1, Zenon
  <2>2. CASE q # r
    <3>1. q \in requestIDChannelMap /\ pc'[q] = pc[q]
      BY <1>2, <1>3, <1>4, <2>2, SMT
    <3> QED BY <3>1, Zenon DEF EntriesLive
  <2> QED BY <2>1, <2>2, Zenon
<1>5. ASSUME NEW q \in requestIDKeysMap'
      PROVE  pc'[q] \notin Resting \cup {"close"}
  <2>1. CASE q = r
    BY <1>3, <1>5, <2>1, Zenon
  <2>2. CASE q # r
    <3>1. q \in requestIDKeysMap /\ pc'[q] = pc[q]
      BY <1>2, <1>3, <1>5, <2>2, SMT
    <3> QED BY <3>1, Zenon DEF EntriesLive
  <2> QED BY <2>1, <2>2, Zenon
<1> QED BY <1>4, <1>5, Zenon DEF EntriesLive

LEMMA EntriesKept ==
    ASSUME EntriesLive, UNCHANGED <<pc, requestIDChannelMap, requestIDKeysMap>>
    PROVE  EntriesLive'
BY Zenon DEF EntriesLive

LEMMA EntriesCall ==
    ASSUME TypeInv, EntriesLive, NEW r \in Requests, Call(r)
    PROVE  EntriesLive'
<1> DEFINE Same == UNCHANGED <<requestIDChannelMap, requestIDKeysMap>>
           Off == Resting \cup {"unkeys", "close"}
           Gone == Resting \cup {"close"}
<1>0. /\ r \in requestIDChannelMap => pc[r] \notin Off
      /\ r \in requestIDKeysMap => pc[r] \notin Gone
  BY Zenon DEF EntriesLive
<1>1. ASSUME NEW stage \in Stages \ Off, Goto(r, stage), Same
      PROVE  EntriesLive'
  <2>1. stage \notin Off /\ stage \notin Gone
    BY SMT
  <2>2. /\ requestIDChannelMap' \subseteq requestIDChannelMap \cup {r}
        /\ requestIDKeysMap' \subseteq requestIDKeysMap \cup {r}
    BY <1>1, SMT
  <2> QED BY <1>1, <2>1, <2>2, EntriesStep, Zenon
<1>2. CASE GetPrice(r)
  <2>1. Same /\ pc[r] = "idle"
    BY <1>2, Zenon DEF GetPrice, registryVars, keyMapVars, channelVars
  <2>2. "idle" \in Off /\ "idle" \in Gone
    BY SMT DEF Resting
  <2>3. r \notin requestIDChannelMap /\ r \notin requestIDKeysMap
    BY <1>0, <2>1, <2>2, Zenon
  <2>4. PICK stage : Goto(r, stage)
    BY <1>2, Zenon DEF GetPrice
  <2>5. /\ requestIDChannelMap' \subseteq requestIDChannelMap \cup {r}
        /\ requestIDKeysMap' \subseteq requestIDKeysMap \cup {r}
        /\ r \notin requestIDChannelMap' /\ r \notin requestIDKeysMap'
    BY <2>1, <2>3, SMT
  <2> QED BY <2>4, <2>5, EntriesStep, Zenon
<1>3. CASE StoreChannel(r)
  <2>1. /\ requestIDChannelMap' = requestIDChannelMap \cup {r}
        /\ requestIDKeysMap' = requestIDKeysMap
    BY <1>3, Zenon DEF StoreChannel, keyMapVars
  <2>2. PICK stage \in {"load", "probe"} : Goto(r, stage)
    BY <1>3, SMT DEF StoreChannel
  <2>3. stage \notin Off /\ stage \notin Gone
    BY <2>2, SMT DEF Resting
  <2>4. /\ requestIDChannelMap' \subseteq requestIDChannelMap \cup {r}
        /\ requestIDKeysMap' \subseteq requestIDKeysMap \cup {r}
    BY <2>1, SMT
  <2> QED BY <2>2, <2>3, <2>4, EntriesStep, Zenon
<1>4. CASE StoreKeyMap(r)
  <2>1. /\ requestIDKeysMap' = requestIDKeysMap \cup {r}
        /\ requestIDChannelMap' = requestIDChannelMap
    BY <1>4, Zenon DEF StoreKeyMap, channelVars
  <2>2. PICK stage \in {"enqueue", "store"} : Goto(r, stage)
    BY <1>4, SMT DEF StoreKeyMap
  <2>3. stage \notin Off /\ stage \notin Gone
    BY <2>2, SMT DEF Resting
  <2>4. /\ requestIDChannelMap' \subseteq requestIDChannelMap \cup {r}
        /\ requestIDKeysMap' \subseteq requestIDKeysMap \cup {r}
    BY <2>1, SMT
  <2> QED BY <2>2, <2>3, <2>4, EntriesStep, Zenon
<1>5. CASE \/ ProbeCache(r) \/ Enqueue(r) \/ RedisFails(r) \/ ReceiveOk(r) \/ TimeOut(r)
           \/ ReadResult(r) \/ FetchDirect(r)
           \/ \E i \in DOMAIN Want[r] : LoadRequestIDs(r, i) \/ StoreRequestIDs(r, i)
  <2>1. Same
    BY <1>5, Zenon DEF ProbeCache, Enqueue, RedisFails, ReceiveOk, TimeOut, ReadResult,
       FetchDirect, LoadRequestIDs, StoreRequestIDs, registryVars, keyMapVars, channelVars
  <2>2. \E stage \in {"keymap", "load", "store", "enqueue", "wait", "read", "direct", "unchan"} :
           Goto(r, stage)
    BY <1>5, SMT DEF ProbeCache, Enqueue, RedisFails, ReceiveOk, TimeOut, ReadResult,
       FetchDirect, LoadRequestIDs, StoreRequestIDs
  <2>3. PICK stage \in {"keymap", "load", "store", "enqueue", "wait", "read", "direct", "unchan"} :
           Goto(r, stage)
    BY <2>2, Zenon
  <2>4. stage \in Stages \ Off
    BY <2>3, SMT DEF Stages, Resting
  <2> QED BY <1>1, <2>1, <2>3, <2>4, Zenon
<1>6. CASE DeleteChannel(r)
  <2>1. /\ requestIDChannelMap' = requestIDChannelMap \ {r}
        /\ requestIDKeysMap' = requestIDKeysMap /\ Goto(r, "unkeys")
    BY <1>6, Zenon DEF DeleteChannel, keyMapVars
  <2>2. "unkeys" \notin Gone
    BY SMT DEF Resting
  <2>3. /\ requestIDChannelMap' \subseteq requestIDChannelMap \cup {r}
        /\ requestIDKeysMap' \subseteq requestIDKeysMap \cup {r}
        /\ r \notin requestIDChannelMap'
    BY <2>1, SMT
  <2> QED BY <2>1, <2>2, <2>3, EntriesStep, Zenon
<1>7. CASE DeleteKeyMap(r)
  <2>1. /\ requestIDKeysMap' = requestIDKeysMap \ {r} /\ pc[r] = "unkeys"
        /\ requestIDChannelMap' = requestIDChannelMap /\ Goto(r, "close")
    BY <1>7, Zenon DEF DeleteKeyMap, channelVars
  <2>2. "unkeys" \in Off
    BY SMT
  <2>3. r \notin requestIDChannelMap
    BY <1>0, <2>1, <2>2, Zenon
  <2>4. /\ requestIDChannelMap' \subseteq requestIDChannelMap \cup {r}
        /\ requestIDKeysMap' \subseteq requestIDKeysMap \cup {r}
        /\ r \notin requestIDChannelMap' /\ r \notin requestIDKeysMap'
    BY <2>1, <2>3, SMT
  <2> QED BY <2>1, <2>4, EntriesStep, Zenon
<1>8. CASE CloseChannel(r)
  <2>1. Same /\ pc[r] = "close" /\ Goto(r, "done")
    BY <1>8, Zenon DEF CloseChannel, keyMapVars
  <2>2. "close" \in Off /\ "close" \in Gone
    BY SMT
  <2>3. r \notin requestIDChannelMap /\ r \notin requestIDKeysMap
    BY <1>0, <2>1, <2>2, Zenon
  <2>4. /\ requestIDChannelMap' \subseteq requestIDChannelMap \cup {r}
        /\ requestIDKeysMap' \subseteq requestIDKeysMap \cup {r}
        /\ r \notin requestIDChannelMap' /\ r \notin requestIDKeysMap'
    BY <2>1, <2>3, SMT
  <2> QED BY <2>1, <2>4, EntriesStep, Zenon
<1> QED BY <1>2, <1>3, <1>4, <1>5, <1>6, <1>7, <1>8, Zenon DEF Call

\* The maps of a process go with its calls.
LEMMA EntriesDies ==
    ASSUME TypeInv, EntriesLive, NEW p \in Pods, Dies(p)
    PROVE  EntriesLive'
<1>1. requestIDChannelMap \subseteq Requests /\ requestIDKeysMap \subseteq Requests
  BY Zenon DEF TypeInv, TypeOK, RegistryTypes
<1>2. /\ \A r \in requestIDChannelMap' \cup requestIDKeysMap' : r \in Requests => PodOf[r] # p
      /\ requestIDChannelMap' \subseteq requestIDChannelMap
      /\ requestIDKeysMap' \subseteq requestIDKeysMap
  BY SMT DEF Dies
<1>3. \A r \in Requests : PodOf[r] # p => pc'[r] = pc[r]
  BY SMT DEF Dies
<1>4. \A r \in requestIDChannelMap' \cup requestIDKeysMap' : pc'[r] = pc[r]
  BY <1>1, <1>2, <1>3, SMT
<1> HIDE DEF Resting
<1> QED BY <1>2, <1>4, SMT DEF EntriesLive

LEMMA EntriesNext ==
    ASSUME TypeInv, EntriesLive, [Next]_vars
    PROVE  EntriesLive'
<1> DEFINE Same == UNCHANGED <<pc, requestIDChannelMap, requestIDKeysMap>>
<1>1. ASSUME NEW p \in Pods, Work(p)
      PROVE  EntriesLive'
  <2>1. Same
    BY <1>1, Zenon DEF Work, LoadScript, PopRequests, FetchJob, SetResult, NotifyProducer, clientVars,
       registryVars, keyMapVars, channelVars
  <2> QED BY <2>1, EntriesKept, Zenon
<1>2. ASSUME NEW h \in Handlers, Handle(h)
      PROVE  EntriesLive'
  <2>1. SlotPod[h] \in Pods
    OBVIOUS
  <2>2. ASSUME NEW i, SendOnClosedChannel(h, i) \/ ConcurrentMapWrites(h, i)
        PROVE  EntriesLive'
    BY <2>1, <2>2, EntriesDies, Zenon DEF SendOnClosedChannel, ConcurrentMapWrites
  <2>3. ASSUME \/ \E k \in Keys : ProcessMessage(h, k)
               \/ \E i \in DOMAIN at[h] :
                     \/ LoadKeyMap(h, i) \/ LockMutex(h, i) \/ DeleteKey(h, i)
                     \/ CheckKeyMap(h, i) \/ SendOk(h, i)
               \/ DeleteRequestKey(h)
        PROVE  EntriesLive'
    <3>1. Same
      BY <2>3, Zenon DEF ProcessMessage, LoadKeyMap, LockMutex, DeleteKey, CheckKeyMap, SendOk,
         DeleteRequestKey, clientVars, registryVars, keyMapVars, channelVars
    <3> QED BY <3>1, EntriesKept, Zenon
  <2> QED BY <1>2, <2>2, <2>3, Zenon DEF Handle
<1>3. CASE Environment
  <2>1. ASSUME NEW p \in Pods, Crash(p)
        PROVE  EntriesLive'
    BY <2>1, EntriesDies, Zenon DEF Crash
  <2>2. ASSUME \/ \E c \in Coins : ExpireResult(c)
               \/ \E p \in Pods, k \in Keys : LoseMessage(p, k)
               \/ ScriptsLost \/ \E p \in Pods : LoadScriptFails(p)
        PROVE  EntriesLive'
    <3>1. Same
      BY <2>2, Zenon DEF ExpireResult, LoseMessage, ScriptsLost, LoadScriptFails, clientVars, registryVars, keyMapVars,
         channelVars
    <3> QED BY <3>1, EntriesKept, Zenon
  <2> QED BY <1>3, <2>1, <2>2, Zenon DEF Environment
<1>4. CASE UNCHANGED vars
  <2>1. Same
    BY <1>4, Zenon DEF vars, clientVars, registryVars, keyMapVars, channelVars
  <2> QED BY <2>1, EntriesKept, Zenon
<1> QED BY <1>1, <1>2, <1>3, <1>4, EntriesCall, Zenon DEF Next

LEMMA EntriesInit == Init => EntriesLive
BY SMT DEF Init, EntriesLive

\* A call that has ended or died is in no map that the goroutines of a message look in,
\* whatever interleaving of calls, messages and deaths there was.
THEOREM NoDeadEntriesCorrect == Spec => []NoDeadEntries
<1>1. TypeInv /\ EntriesLive /\ [Next]_vars => (TypeInv /\ EntriesLive)'
  BY TypeNext, EntriesNext
<1>2. EntriesLive => NoDeadEntries
  BY SMT DEF EntriesLive, NoDeadEntries
<1> QED BY TypeInit, EntriesInit, <1>1, <1>2, PTL DEF Spec

-----------------------------------------------------------------------------
(* What is promised to the callers.                                        *)

\* The status and the reply of a request as PriceAnswers sees them.
Status(r) ==
    CASE pc[r] = "idle" -> "new"
      [] pc[r] = "done" -> IF answer[r] = <<>> THEN "refused" ELSE "answered"
      [] pc[r] = "lost" -> "abandoned"
      [] OTHER -> "open"
Reply(r) == IF pc[r] = "done" THEN answer[r] ELSE <<>>

StatusMap == [r \in Requests |-> Status(r)]
ReplyMap == [r \in Requests |-> Reply(r)]

\* The actions of PriceAnswers in these terms.
LEMMA AbstractStutter ==
    ASSUME StatusMap' = StatusMap, ReplyMap' = ReplyMap, quoted' = quoted
    PROVE  UNCHANGED Answers!vars
BY Zenon DEF Answers!vars, StatusMap, ReplyMap, Status, Reply

LEMMA AbstractQuote ==
    ASSUME NEW Q, StatusMap' = StatusMap, ReplyMap' = ReplyMap, quoted' = quoted \cup Q
    PROVE  Answers!Quote(Q)
BY Zenon DEF Answers!Quote, StatusMap, ReplyMap, Status, Reply

LEMMA AbstractOpen ==
    ASSUME NEW r, StatusMap[r] = "new", StatusMap' = [StatusMap EXCEPT ![r] = "open"],
           ReplyMap' = ReplyMap, quoted' = quoted
    PROVE  Answers!Open(r)
BY Zenon DEF Answers!Open, StatusMap, ReplyMap, Status, Reply

LEMMA AbstractRefuse ==
    ASSUME NEW r, StatusMap[r] = "open", StatusMap' = [StatusMap EXCEPT ![r] = "refused"],
           ReplyMap' = ReplyMap, quoted' = quoted
    PROVE  Answers!Refuse(r)
BY Zenon DEF Answers!Refuse, StatusMap, ReplyMap, Status, Reply

LEMMA AbstractAbandon ==
    ASSUME NEW R, \A r \in R : StatusMap[r] = "open", ReplyMap' = ReplyMap, quoted' = quoted,
           StatusMap' = [r \in Requests |-> IF r \in R THEN "abandoned" ELSE StatusMap[r]]
    PROVE  Answers!Abandon(R)
BY Zenon DEF Answers!Abandon, StatusMap, ReplyMap, Status, Reply

LEMMA AbstractAnswer ==
    ASSUME NEW r \in Requests, StatusMap[r] \in {"new", "open"},
           StatusMap' = [StatusMap EXCEPT ![r] = "answered"], quoted' = quoted,
           NEW a \in [DOMAIN Want[r] -> Cached], ReplyMap' = [ReplyMap EXCEPT ![r] = a],
           \A i \in DOMAIN Want[r] : a[i] \in Prices => <<CoinAt(r, i), a[i]>> \in quoted
    PROVE  Answers!Answer(r)
<1> DEFINE Asks == [q \in Requests |-> [i \in DOMAIN Want[q] |-> CoinAt(q, i)]]
<1>1. DOMAIN Asks[r] = DOMAIN Want[r] /\ \A i \in DOMAIN Want[r] : Asks[r][i] = CoinAt(r, i)
  BY SMT
<1>2. a \in [DOMAIN Asks[r] -> Prices \cup {NoPrice, Absent}]
  BY <1>1, SMT DEF Cached, Quotes
<1>3. \A i \in DOMAIN Asks[r] : a[i] \in Prices => <<Asks[r][i], a[i]>> \in quoted
  BY <1>1, SMT
<1> QED BY <1>2, <1>3, Zenon DEF Answers!Answer, Answers!Replies, StatusMap, ReplyMap, Status, Reply

\* What a call shows of itself: it is opened, answered at once, goes on unseen, or ends.
CallShape(r) ==
    /\ \A q \in Requests \ {r} : pc'[q] = pc[q] /\ answer'[q] = answer[q]
    /\ \/ /\ pc[r] = "idle" /\ pc'[r] \in {"open", "probe"} /\ quoted' = quoted
       \/ /\ pc[r] = "idle" /\ pc'[r] = "done" /\ answer'[r] # <<>> /\ quoted' = quoted
       \/ /\ pc[r] \notin Resting /\ pc'[r] \notin Resting /\ quoted \subseteq quoted'
       \/ /\ pc[r] = "close" /\ pc'[r] = "done" /\ answer' = answer /\ quoted' = quoted

\* A call goes from one stage to another and changes no answer but its own.
LEMMA CallIsLocal ==
    ASSUME TypeInv, NEW r \in Requests, NEW stage, Goto(r, stage),
           UNCHANGED answer \/ \E a : answer' = [answer EXCEPT ![r] = a]
    PROVE  /\ pc'[r] = stage
           /\ \A q \in Requests \ {r} : pc'[q] = pc[q] /\ answer'[q] = answer[q]
<1>1. pc \in [Requests -> Stages] /\ DOMAIN answer = Requests
  BY Zenon DEF TypeInv, TypeOK, CallTypes
<1>2. pc'[r] = stage /\ \A q \in Requests \ {r} : pc'[q] = pc[q]
  BY <1>1, SMT DEF Goto
<1>3. \A q \in Requests \ {r} : answer'[q] = answer[q]
  <2>1. ASSUME NEW a, answer' = [answer EXCEPT ![r] = a]
        PROVE  \A q \in Requests \ {r} : answer'[q] = answer[q]
    BY <1>1, <2>1, SMT
  <2> QED BY <2>1, Zenon
<1> QED BY <1>2, <1>3, Zenon

LEMMA CallShapes ==
    ASSUME TypeInv, NEW r \in Requests, Call(r)
    PROVE  CallShape(r)
<1> DEFINE Off == {"open", "probe", "load", "store", "keymap", "enqueue", "wait", "read",
                   "direct", "unchan", "unkeys", "close"}
<1>1. \A s \in Off : s \notin Resting
  BY SMT DEF Resting
<1>2. CASE GetPrice(r)
  <2>1. /\ pc[r] = "idle" /\ quoted' = quoted
        /\ \/ Goto(r, "open") /\ UNCHANGED answer
           \/ \E v : Goto(r, "done") /\ answer' = [answer EXCEPT ![r] = <<v>>]
    BY <1>2, Zenon DEF GetPrice, systemVars, remoteVars, historyVars
  <2>2. CASE Goto(r, "open") /\ UNCHANGED answer
    <3>1. /\ pc'[r] = "open"
          /\ \A q \in Requests \ {r} : pc'[q] = pc[q] /\ answer'[q] = answer[q]
      BY <2>2, CallIsLocal, Zenon
    <3> QED BY <2>1, <3>1, SMT DEF CallShape
  <2>3. ASSUME NEW v, Goto(r, "done"), answer' = [answer EXCEPT ![r] = <<v>>]
        PROVE  CallShape(r)
    <3>1. /\ pc'[r] = "done"
          /\ \A q \in Requests \ {r} : pc'[q] = pc[q] /\ answer'[q] = answer[q]
      BY <2>3, CallIsLocal, Zenon
    <3>2. answer'[r] = <<v>>
      BY <2>3, SMT DEF TypeInv, TypeOK, CallTypes
    <3>3. <<v>> # <<>>
      BY SMT
    <3> QED BY <2>1, <3>1, <3>2, <3>3, Zenon DEF CallShape
  <2> QED BY <2>1, <2>2, <2>3, Zenon
<1>3. CASE StoreChannel(r)
  <2>1. UNCHANGED <<answer, quoted>>
    BY <1>3, Zenon DEF StoreChannel, systemVars, remoteVars, historyVars
  <2>2. CASE pc[r] = "open" /\ Goto(r, "load")
    <3>1. /\ pc'[r] = "load"
          /\ \A q \in Requests \ {r} : pc'[q] = pc[q] /\ answer'[q] = answer[q]
      BY <2>1, <2>2, CallIsLocal, Zenon
    <3> QED BY <1>1, <2>1, <2>2, <3>1, SMT DEF CallShape
  <2>3. CASE pc[r] = "idle" /\ Goto(r, "probe")
    <3>1. /\ pc'[r] = "probe"
          /\ \A q \in Requests \ {r} : pc'[q] = pc[q] /\ answer'[q] = answer[q]
      BY <2>1, <2>3, CallIsLocal, Zenon
    <3> QED BY <2>1, <2>3, <3>1, SMT DEF CallShape
  <2> QED BY <1>3, <2>2, <2>3, Zenon DEF StoreChannel
<1>4. CASE CloseChannel(r)
  <2>1. UNCHANGED <<answer, quoted>> /\ pc[r] = "close" /\ Goto(r, "done")
    BY <1>4, Zenon DEF CloseChannel, systemVars, remoteVars, historyVars
  <2>2. /\ pc'[r] = "done"
        /\ \A q \in Requests \ {r} : pc'[q] = pc[q] /\ answer'[q] = answer[q]
    BY <2>1, CallIsLocal, Zenon
  <2> QED BY <2>1, <2>2, Zenon DEF CallShape
<1>5. ASSUME \/ ProbeCache(r) \/ StoreKeyMap(r) \/ Enqueue(r) \/ RedisFails(r) \/ ReceiveOk(r)
             \/ TimeOut(r) \/ ReadResult(r) \/ FetchDirect(r) \/ DeleteChannel(r)
             \/ DeleteKeyMap(r)
             \/ \E i \in DOMAIN Want[r] : LoadRequestIDs(r, i) \/ StoreRequestIDs(r, i)
      PROVE  CallShape(r)
  <2>1. pc[r] \in Off
    BY <1>5, SMT DEF ProbeCache, StoreKeyMap, Enqueue, RedisFails, ReceiveOk, TimeOut,
       ReadResult, FetchDirect, DeleteChannel, DeleteKeyMap, LoadRequestIDs, StoreRequestIDs
  <2>2. \E stage \in Off : Goto(r, stage)
    BY <1>5, SMT DEF ProbeCache, StoreKeyMap, Enqueue, RedisFails, ReceiveOk, TimeOut,
       ReadResult, FetchDirect, DeleteChannel, DeleteKeyMap, LoadRequestIDs, StoreRequestIDs
  <2>3. PICK stage \in Off : Goto(r, stage)
    BY <2>2, Zenon
  <2>4. UNCHANGED answer \/ \E a : answer' = [answer EXCEPT ![r] = a]
    BY <1>5, Zenon DEF ProbeCache, StoreKeyMap, Enqueue, RedisFails, ReceiveOk, TimeOut,
       ReadResult, FetchDirect, DeleteChannel, DeleteKeyMap, LoadRequestIDs, StoreRequestIDs,
       callVars
  <2>5. quoted \subseteq quoted'
    <3>1. quoted' = quoted \/ \E Q : quoted' = quoted \cup Q
      BY <1>5, Zenon DEF ProbeCache, StoreKeyMap, Enqueue, RedisFails, ReceiveOk, TimeOut,
         ReadResult, FetchDirect, DeleteChannel, DeleteKeyMap, LoadRequestIDs, StoreRequestIDs,
         systemVars, remoteVars, historyVars
    <3> QED BY <3>1, Zenon
  <2>6. /\ pc'[r] = stage
        /\ \A q \in Requests \ {r} : pc'[q] = pc[q] /\ answer'[q] = answer[q]
    BY <2>3, <2>4, CallIsLocal, Zenon
  <2> QED BY <1>1, <2>1, <2>3, <2>5, <2>6, Zenon DEF CallShape
<1> QED BY <1>2, <1>3, <1>4, <1>5, Zenon DEF Call

LEMMA OneChanged ==
    ASSUME NEW D, NEW f, NEW g, NEW d \in D, NEW e, f = [x \in D |-> f[x]],
           g = [x \in D |-> g[x]], g[d] = e, \A x \in D \ {d} : g[x] = f[x]
    PROVE  g = [f EXCEPT ![d] = e]
<1> DEFINE h == [f EXCEPT ![d] = e]
<1>1. h = [x \in D |-> h[x]] /\ \A x \in D : h[x] = IF x = d THEN e ELSE f[x]
  BY Zenon
<1>2. \A x \in D : h[x] = g[x]
  BY <1>1, Zenon
<1> HIDE DEF h
<1>3. h = g
  BY <1>1, <1>2, Zenon
<1> QED BY <1>3 DEF h

\* What is seen of the calls that do not take part in a step.
LEMMA OthersSeen ==
    ASSUME NEW r \in Requests, \A q \in Requests \ {r} : pc'[q] = pc[q] /\ answer'[q] = answer[q]
    PROVE  /\ StatusMap' = [StatusMap EXCEPT ![r] = Status(r)']
           /\ ReplyMap' = [ReplyMap EXCEPT ![r] = Reply(r)']
<1>1. \A q \in Requests \ {r} : Status(q)' = Status(q) /\ Reply(q)' = Reply(q)
  BY Zenon DEF Status, Reply
<1> HIDE DEF Status, Reply
<1>2. StatusMap' = [q \in Requests |-> Status(q)'] /\ ReplyMap' = [q \in Requests |-> Reply(q)']
  BY Zenon DEF StatusMap, ReplyMap
<1>3. StatusMap = [q \in Requests |-> Status(q)] /\ ReplyMap = [q \in Requests |-> Reply(q)]
  BY Zenon DEF StatusMap, ReplyMap
<1>4. PICK S, T, u, v : S = StatusMap' /\ T = ReplyMap' /\ u = Status(r)' /\ v = Reply(r)'
  BY Zenon
<1>5. PICK S0, T0 : S0 = StatusMap /\ T0 = ReplyMap
  BY Zenon
<1>6. /\ S = [q \in Requests |-> S[q]] /\ S[r] = u /\ \A q \in Requests \ {r} : S[q] = S0[q]
      /\ T = [q \in Requests |-> T[q]] /\ T[r] = v /\ \A q \in Requests \ {r} : T[q] = T0[q]
      /\ S0 = [q \in Requests |-> S0[q]] /\ T0 = [q \in Requests |-> T0[q]]
  BY <1>1, <1>2, <1>3, <1>4, <1>5, Zenon
<1>7. S = [S0 EXCEPT ![r] = u]
  BY <1>6, OneChanged, Zenon
<1>8. T = [T0 EXCEPT ![r] = v]
  BY <1>6, OneChanged, Zenon
<1> QED BY <1>4, <1>5, <1>7, <1>8, Zenon

\* Nothing happens to the status of a request whose stage does not change.
LEMMA AllSeen ==
    ASSUME \A r \in Requests : Status(r)' = Status(r) /\ Reply(r)' = Reply(r)
    PROVE  StatusMap' = StatusMap /\ ReplyMap' = ReplyMap
BY Zenon DEF StatusMap, ReplyMap

LEMMA QuotesSeen ==
    ASSUME TypeInv', quoted \subseteq quoted', StatusMap' = StatusMap, ReplyMap' = ReplyMap
    PROVE  Answers!Next
<1>1. quoted' \in SUBSET (Coins \X Prices)
  BY Zenon DEF TypeInv, TypeOK, HistoryTypes
<1>2. quoted' = quoted \cup quoted'
  BY SMT
<1>3. Answers!Quote(quoted')
  BY <1>2, AbstractQuote, Zenon
<1> QED BY <1>1, <1>3, Zenon DEF Answers!Next

LEMMA CallAnswers ==
    ASSUME TypeInv, TypeInv', PricesAreQuoted', NEW r \in Requests, Call(r)
    PROVE  Answers!Next
<1>1. CallShape(r)
  BY CallShapes, Zenon
<1>2. /\ StatusMap' = [StatusMap EXCEPT ![r] = Status(r)']
      /\ ReplyMap' = [ReplyMap EXCEPT ![r] = Reply(r)']
  BY <1>1, OthersSeen, Zenon DEF CallShape
<1>3. /\ StatusMap[r] = Status(r) /\ ReplyMap[r] = Reply(r)
      /\ DOMAIN StatusMap = Requests /\ DOMAIN ReplyMap = Requests
  BY Zenon DEF StatusMap, ReplyMap
<1>4. ASSUME Status(r)' = Status(r), Reply(r)' = Reply(r)
      PROVE  StatusMap' = StatusMap /\ ReplyMap' = ReplyMap
  <2>1. \A q \in Requests \ {r} : Status(q)' = Status(q) /\ Reply(q)' = Reply(q)
    BY <1>1, Zenon DEF CallShape, Status, Reply
  <2>2. \A q \in Requests : Status(q)' = Status(q) /\ Reply(q)' = Reply(q)
    <3> HIDE DEF Status, Reply
    <3> QED BY <1>4, <2>1, Zenon
  <2> QED BY <2>2, AllSeen, Zenon
<1>5. ASSUME Reply(r)' = Reply(r)
      PROVE  ReplyMap' = ReplyMap
  <2>1. \A q \in Requests \ {r} : Reply(q)' = Reply(q)
    BY <1>1, Zenon DEF CallShape, Reply
  <2>2. \A q \in Requests : Reply(q)' = Reply(q)
    BY <1>5, <2>1, Zenon
  <2> QED BY <2>2, Zenon DEF ReplyMap
<1>6. CASE pc[r] = "idle" /\ pc'[r] \in {"open", "probe"} /\ quoted' = quoted
  <2>1. Status(r) = "new" /\ Status(r)' = "open" /\ Reply(r)' = Reply(r)
    BY <1>6, SMT DEF Status, Reply
  <2>2. Answers!Open(r)
    BY <1>2, <1>3, <1>5, <1>6, <2>1, AbstractOpen, Zenon
  <2> QED BY <2>2, Zenon DEF Answers!Next
<1>7. ASSUME Status(r) \in {"new", "open"}, pc'[r] = "done", answer'[r] # <<>>, quoted' = quoted
      PROVE  Answers!Next
  <2>1. Status(r)' = "answered" /\ Reply(r)' = answer'[r]
    BY <1>7, SMT DEF Status, Reply
  <2>2. answer'[r] \in [DOMAIN Want[r] -> Cached]
    BY <1>7, Zenon DEF TypeInv, TypeOK, CallTypes
  <2>3. \A i \in DOMAIN Want[r] : answer'[r][i] \in Prices => <<CoinAt(r, i), answer'[r][i]>> \in quoted
    BY <1>7, Zenon DEF PricesAreQuoted, CoinAt
  <2>4. PICK a : a = answer'[r]
    BY Zenon
  <2>5. StatusMap' = [StatusMap EXCEPT ![r] = "answered"] /\ ReplyMap' = [ReplyMap EXCEPT ![r] = a]
    BY <1>2, <2>1, <2>4, Zenon
  <2>6. a \in [DOMAIN Want[r] -> Cached]
    BY <2>2, <2>4, Zenon
  <2>7. \A i \in DOMAIN Want[r] : a[i] \in Prices => <<CoinAt(r, i), a[i]>> \in quoted
    BY <2>3, <2>4, Zenon
  <2>8. StatusMap[r] \in {"new", "open"}
    BY <1>3, <1>7, Zenon
  <2>9. Answers!Answer(r)
    BY <1>7, <2>5, <2>6, <2>7, <2>8, AbstractAnswer, Zenon
  <2> QED BY <2>9, Zenon DEF Answers!Next
<1>8. CASE pc[r] = "idle" /\ pc'[r] = "done" /\ answer'[r] # <<>> /\ quoted' = quoted
  <2>1. Status(r) = "new"
    BY <1>8, SMT DEF Status
  <2> QED BY <1>7, <1>8, <2>1, Zenon
<1>9. CASE pc[r] \notin Resting /\ pc'[r] \notin Resting /\ quoted \subseteq quoted'
  <2>1. Status(r)' = Status(r) /\ Reply(r)' = Reply(r)
    BY <1>9, SMT DEF Status, Reply, Resting
  <2> QED BY <1>4, <1>9, <2>1, QuotesSeen, Zenon
<1>10. CASE pc[r] = "close" /\ pc'[r] = "done" /\ answer' = answer /\ quoted' = quoted
  <2>1. Status(r) = "open" /\ Reply(r) = <<>>
    BY <1>10, SMT DEF Status, Reply
  <2>2. CASE answer'[r] # <<>>
    BY <1>7, <1>10, <2>1, <2>2, Zenon
  <2>3. CASE answer'[r] = <<>>
    <3>1. Status(r)' = "refused" /\ Reply(r)' = Reply(r)
      BY <1>10, <2>1, <2>3, SMT DEF Status, Reply
    <3>2. Answers!Refuse(r)
      BY <1>2, <1>3, <1>5, <1>10, <2>1, <3>1, AbstractRefuse, Zenon
    <3> QED BY <3>2, Zenon DEF Answers!Next
  <2> QED BY <2>2, <2>3, Zenon
<1> QED BY <1>1, <1>6, <1>8, <1>9, <1>10, Zenon DEF CallShape

\* The open requests of a process that dies are abandoned.
LEMMA DiesAnswers ==
    ASSUME TypeInv, NEW p \in Pods, Dies(p)
    PROVE  Answers!Next
<1>0. PICK R : R = {r \in Requests : PodOf[r] = p /\ pc[r] \notin Resting}
  BY Zenon
<1>1. answer' = answer /\ quoted' = quoted
  BY Zenon DEF Dies, historyVars
<1>2. \A r \in Requests : pc'[r] = IF r \in R THEN "lost" ELSE pc[r]
  BY <1>0, SMT DEF Dies
<1>3. \A r \in R : r \in Requests /\ pc[r] \notin Resting
  BY <1>0, Zenon
<1>4. \A r \in R : StatusMap[r] = "open"
  <2>1. \A r \in R : Status(r) = "open"
    BY <1>3, SMT DEF Status, Resting
  <2> QED BY <1>3, <2>1, Zenon DEF StatusMap
<1>5. \A r \in Requests : Status(r)' = IF r \in R THEN "abandoned" ELSE Status(r)
  <2> SUFFICES ASSUME NEW r \in Requests
               PROVE  Status(r)' = IF r \in R THEN "abandoned" ELSE Status(r)
    BY Zenon
  <2>1. CASE r \in R
    <3>1. pc'[r] = "lost"
      BY <1>2, <2>1, Zenon
    <3> QED BY <2>1, <3>1, SMT DEF Status
  <2>2. CASE r \notin R
    <3>1. pc'[r] = pc[r]
      BY <1>2, <2>2, Zenon
    <3>2. Status(r)' = Status(r)
      BY <1>1, <3>1, Zenon DEF Status
    <3> QED BY <2>2, <3>2, Zenon
  <2> QED BY <2>1, <2>2, Zenon
<1>6. \A r \in Requests : Reply(r)' = Reply(r)
  <2> SUFFICES ASSUME NEW r \in Requests
               PROVE  Reply(r)' = Reply(r)
    BY Zenon
  <2>1. CASE r \in R
    <3>1. pc'[r] = "lost" /\ pc[r] # "done"
      BY <1>2, <1>3, <2>1, SMT DEF Resting
    <3> QED BY <3>1, SMT DEF Reply
  <2>2. CASE r \notin R
    <3>1. pc'[r] = pc[r]
      BY <1>2, <2>2, Zenon
    <3> QED BY <1>1, <3>1, Zenon DEF Reply
  <2> QED BY <2>1, <2>2, Zenon
<1>7. StatusMap' = [r \in Requests |-> IF r \in R THEN "abandoned" ELSE StatusMap[r]]
  <2>1. \A r \in Requests : StatusMap[r] = Status(r)
    BY Zenon DEF StatusMap
  <2>2. StatusMap' = [r \in Requests |-> Status(r)']
    BY Zenon DEF StatusMap
  <2> QED BY <1>5, <2>1, <2>2, SMT
<1>8. ReplyMap' = ReplyMap
  BY <1>6, Zenon DEF ReplyMap
<1>9. Answers!Abandon(R)
  BY <1>1, <1>4, <1>7, <1>8, AbstractAbandon, Zenon
<1>10. R \in SUBSET Requests
  BY <1>3, Zenon
<1> QED BY <1>9, <1>10, Zenon DEF Answers!Next

\* A step that changes no stage and no answer.
LEMMA UnseenAnswers ==
    ASSUME TypeInv', pc' = pc, answer' = answer, quoted \subseteq quoted'
    PROVE  Answers!Next
<1>1. \A r \in Requests : Status(r)' = Status(r) /\ Reply(r)' = Reply(r)
  BY Zenon DEF Status, Reply
<1> QED BY <1>1, AllSeen, QuotesSeen, Zenon

LEMMA StepAnswers ==
    ASSUME TypeInv, TypeInv', PricesAreQuoted', [Next]_vars
    PROVE  [Answers!Next]_(Answers!vars)
<1> DEFINE Same == pc' = pc /\ answer' = answer /\ quoted \subseteq quoted'
<1>1. ASSUME NEW p \in Pods, Work(p)
      PROVE  Answers!Next
  <2>1. UNCHANGED <<pc, answer>>
    BY <1>1, Zenon DEF Work, LoadScript, PopRequests, FetchJob, SetResult, NotifyProducer,
                       clientVars, callVars
  <2>2. quoted' = quoted \/ \E Q : quoted' = quoted \cup Q
    BY <1>1, Zenon DEF Work, LoadScript, PopRequests, FetchJob, SetResult, NotifyProducer,
                       historyVars
  <2>3. Same
    BY <2>1, <2>2, Zenon
  <2> QED BY <2>3, UnseenAnswers, Zenon
<1>2. ASSUME NEW h \in Handlers, Handle(h)
      PROVE  Answers!Next
  <2>1. SlotPod[h] \in Pods
    OBVIOUS
  <2>2. ASSUME NEW i, SendOnClosedChannel(h, i) \/ ConcurrentMapWrites(h, i)
        PROVE  Answers!Next
    BY <2>1, <2>2, DiesAnswers, Zenon DEF SendOnClosedChannel, ConcurrentMapWrites
  <2>3. ASSUME \/ \E k \in Keys : ProcessMessage(h, k)
               \/ \E i \in DOMAIN at[h] :
                     \/ LoadKeyMap(h, i) \/ LockMutex(h, i) \/ DeleteKey(h, i)
                     \/ CheckKeyMap(h, i) \/ SendOk(h, i)
               \/ DeleteRequestKey(h)
        PROVE  Answers!Next
    <3>1. UNCHANGED <<pc, answer, quoted>>
      BY <2>3, Zenon DEF ProcessMessage, LoadKeyMap, LockMutex, DeleteKey, CheckKeyMap, SendOk,
         DeleteRequestKey, clientVars, callVars, remoteVars, historyVars
    <3>2. Same
      BY <3>1, Zenon
    <3> QED BY <3>2, UnseenAnswers, Zenon
  <2> QED BY <1>2, <2>2, <2>3, Zenon DEF Handle
<1>3. ASSUME Environment
      PROVE  Answers!Next
  <2>1. ASSUME NEW p \in Pods, Crash(p)
        PROVE  Answers!Next
    BY <2>1, DiesAnswers, Zenon DEF Crash
  <2>2. ASSUME \/ \E c \in Coins : ExpireResult(c)
               \/ \E p \in Pods, k \in Keys : LoseMessage(p, k)
               \/ ScriptsLost \/ \E p \in Pods : LoadScriptFails(p)
        PROVE  Answers!Next
    <3>1. UNCHANGED <<pc, answer, quoted>>
      BY <2>2, Zenon DEF ExpireResult, LoseMessage, ScriptsLost, LoadScriptFails, clientVars, callVars, remoteVars, historyVars
    <3>2. Same
      BY <3>1, Zenon
    <3> QED BY <3>2, UnseenAnswers, Zenon
  <2> QED BY <1>3, <2>1, <2>2, Zenon DEF Environment
<1>4. ASSUME UNCHANGED vars
      PROVE  UNCHANGED Answers!vars
  <2>1. UNCHANGED <<pc, answer, quoted>>
    BY <1>4, Zenon DEF vars, clientVars, callVars, systemVars, remoteVars, historyVars
  <2>2. StatusMap' = StatusMap /\ ReplyMap' = ReplyMap
    BY <2>1, Zenon DEF StatusMap, ReplyMap, Status, Reply
  <2> QED BY <2>1, <2>2, AbstractStutter, Zenon
<1>5. ASSUME NEW r \in Requests, Call(r)
      PROVE  Answers!Next
  BY <1>5, CallAnswers, Zenon
<1> QED BY <1>1, <1>2, <1>3, <1>4, <1>5, Zenon DEF Next

LEMMA InitAnswers ==
    ASSUME Init
    PROVE  Answers!Init
<1>1. \A r \in Requests : pc[r] = "idle"
  BY Zenon DEF Init
<1>2. \A r \in Requests : Status(r) = "new" /\ Reply(r) = <<>>
  BY <1>1, SMT DEF Status, Reply
<1>3. StatusMap = [r \in Requests |-> "new"] /\ ReplyMap \in [Requests -> {<<>>}]
  <2>1. StatusMap = [r \in Requests |-> "new"]
    BY <1>2, Zenon DEF StatusMap
  <2>2. ReplyMap = [r \in Requests |-> <<>>]
    BY <1>2, Zenon DEF ReplyMap
  <2> QED BY <2>1, <2>2, SMT
<1>4. quoted = {}
  BY Zenon DEF Init
<1> QED BY <1>3, <1>4, Zenon DEF Answers!Init, StatusMap, ReplyMap, Status, Reply

\* The pipeline, with its maps, channels, messages, races and deaths, keeps what the service
\* promises: a call is answered at most once, from quotes for its own coins, or is refused
\* or abandoned, and nothing changes for it after that.
THEOREM AnswersCorrect == Spec => AnswersSpec
<1>1. TypeInv /\ PricesAreQuoted /\ [Next]_vars => (TypeInv /\ PricesAreQuoted)'
  BY TypeNext, QuotedNext
<1>2. Init => Answers!Init
  BY InitAnswers
<1>3. /\ TypeInv /\ PricesAreQuoted /\ (TypeInv /\ PricesAreQuoted)' /\ [Next]_vars
      => [Answers!Next]_(Answers!vars)
  BY StepAnswers
<1> QED BY TypeInit, QuotedInit, <1>1, <1>2, <1>3, PTL DEF Spec, Answers!Spec, AnswersSpec
=============================================================================
