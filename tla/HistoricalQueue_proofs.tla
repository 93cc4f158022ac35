------------------------ MODULE HistoricalQueue_proofs ------------------------
(***************************************************************************)
(* Proofs about HistoricalQueue for any number of saves, tickers, lookups, *)
(* coins and days, and lists and batches of any length.                    *)
(***************************************************************************)
EXTENDS HistoricalQueue, PositionLemmas, SequenceTheorems, FiniteSetTheorems,
        TLAPS

-----------------------------------------------------------------------------
(* Lists of prices.                                                        *)

\* Every element with a day has a last one of its day, and only one.
LEMMA LastOfEachFits ==
    ASSUME NEW E, NEW q \in Seq(E)
    PROVE  /\ LastOfEach(q) \subseteq Elems(q) /\ Elems(q) \subseteq E
           /\ \A i \in DOMAIN q : \E e \in LastOfEach(q) : e.day = q[i].day
           /\ \A e, f \in LastOfEach(q) : e.day = f.day => e = f
<1>1. Len(q) \in Nat /\ DOMAIN q = 1..Len(q) /\ \A i \in DOMAIN q : q[i] \in E
  BY LenProperties, ElementOfSeq, SMT
<1>2. LastOfEach(q) \subseteq Elems(q) /\ Elems(q) \subseteq E
  BY <1>1, SMT DEF LastOfEach, Elems
<1>3. ASSUME NEW i \in DOMAIN q
      PROVE  \E e \in LastOfEach(q) : e.day = q[i].day
  <2> DEFINE S == {k \in DOMAIN q : q[k].day = q[i].day}
  <2>1. S \in SUBSET (1..Len(q)) /\ S # {}
    BY <1>1, SMT
  <2>2. PICK m \in S : \A k \in S : k <= m
    <3> HIDE DEF S
    <3>1. Len(q) \in Nat
      BY <1>1
    <3> QED BY <2>1, <3>1, Greatest, Zenon
  <2>3. \A k \in DOMAIN q : k > m => q[k].day # q[m].day
    BY <1>1, <2>2, SMT
  <2>4. q[m] \in LastOfEach(q)
    BY <2>2, <2>3, SMT DEF LastOfEach
  <2> QED BY <2>2, <2>4
<1>4. ASSUME NEW e \in LastOfEach(q), NEW f \in LastOfEach(q), e.day = f.day
      PROVE  e = f
  <2>1. PICK i \in DOMAIN q : e = q[i] /\ \A k \in DOMAIN q : k > i => q[k].day # q[i].day
    BY Zenon DEF LastOfEach
  <2>2. PICK j \in DOMAIN q : f = q[j] /\ \A k \in DOMAIN q : k > j => q[k].day # q[j].day
    BY Zenon DEF LastOfEach
  <2>3. ~(i > j) /\ ~(j > i)
    BY <1>4, <2>1, <2>2, Zenon
  <2>4. i \in Nat /\ j \in Nat
    BY <1>1, SMT
  <2>5. i = j
    BY <2>3, <2>4, SMT
  <2> QED BY <2>1, <2>2, <2>5
<1> QED BY <1>2, <1>3, <1>4, Zenon

\* What the upsert of a batch does to a row: the last price of the day, if there is
\* one, and what was there, if not.
LEMMA UpsertedFits ==
    ASSUME NEW batch \in Seq(Entry), table \in [Days -> Columns]
    PROVE  /\ Upserted(batch) \in [Days -> Columns]
           /\ \A d \in Days : table[d] # None => Upserted(batch)[d] # None
           /\ \A i \in DOMAIN batch :
                 (\A k \in DOMAIN batch : k > i => batch[k].day # batch[i].day) =>
                     Upserted(batch)[batch[i].day] = batch[i].price
           /\ \A d \in Days : (\A i \in DOMAIN batch : batch[i].day # d) =>
                 Upserted(batch)[d] = table[d]
<1> DEFINE last(d) == CHOOSE e \in LastOfEach(batch) : e.day = d
<1>0. /\ LastOfEach(batch) \subseteq Elems(batch) /\ Elems(batch) \subseteq Entry
      /\ \A i \in DOMAIN batch : \E e \in LastOfEach(batch) : e.day = batch[i].day
      /\ \A e, f \in LastOfEach(batch) : e.day = f.day => e = f
  BY LastOfEachFits, Zenon
<1>1. \A e \in Entry : e.day \in Days /\ e.price \in Prices
  BY SMT DEF Entry
<1>2. \A i \in DOMAIN batch : batch[i] \in Entry
  BY LenProperties, ElementOfSeq, SMT
<1>3. ASSUME NEW d \in Days, \E i \in DOMAIN batch : batch[i].day = d
      PROVE  last(d) \in LastOfEach(batch) /\ last(d).day = d /\ last(d).price \in Prices
  <2>1. \E e \in LastOfEach(batch) : e.day = d
    BY <1>0, <1>3, Zenon
  <2>2. last(d) \in LastOfEach(batch) /\ last(d).day = d
    BY <2>1, Zenon
  <2> QED BY <1>0, <1>1, <2>2, Zenon
<1>4. \A d \in Days : Upserted(batch)[d] =
          IF \E i \in DOMAIN batch : batch[i].day = d THEN last(d).price ELSE table[d]
  BY Zenon DEF Upserted
<1>7. ASSUME NEW d \in Days
      PROVE  /\ Upserted(batch)[d] \in Columns
             /\ table[d] # None => Upserted(batch)[d] # None
  <2>1. CASE \E i \in DOMAIN batch : batch[i].day = d
    <3>1. Upserted(batch)[d] \in Prices
      <4>1. Upserted(batch)[d] = last(d).price
        BY <1>4, <2>1, Zenon
      <4> QED BY <1>3, <2>1, <4>1, Zenon
    <3> QED BY <3>1, PriceAssumption, Zenon DEF Columns
  <2>2. CASE ~ \E i \in DOMAIN batch : batch[i].day = d
    <3>1. Upserted(batch)[d] = table[d]
      BY <1>4, <2>2, Zenon
    <3>2. table[d] \in Columns
      BY Zenon
    <3> QED BY <3>1, <3>2, Zenon
  <2> QED BY <2>1, <2>2, Zenon
<1>8. ASSUME NEW i \in DOMAIN batch,
             \A k \in DOMAIN batch : k > i => batch[k].day # batch[i].day
      PROVE  Upserted(batch)[batch[i].day] = batch[i].price
  <2>1. batch[i] \in LastOfEach(batch)
    BY <1>8, Zenon DEF LastOfEach
  <2>2. batch[i].day \in Days
    BY <1>1, <1>2, Zenon
  <2>3. last(batch[i].day) = batch[i]
    <3>1. last(batch[i].day) \in LastOfEach(batch) /\ last(batch[i].day).day = batch[i].day
      BY <1>3, <2>2, Zenon
    <3> QED BY <1>0, <2>1, <3>1, Zenon
  <2>4. Upserted(batch)[batch[i].day] = last(batch[i].day).price
    BY <1>4, <2>2, Zenon
  <2> QED BY <2>3, <2>4, Zenon
<1>9. \A d \in Days : (\A i \in DOMAIN batch : batch[i].day # d) =>
          Upserted(batch)[d] = table[d]
  BY <1>4, Zenon
<1>10. Upserted(batch) \in [Days -> Columns]
  <2> DEFINE val(d) == IF \E i \in DOMAIN batch : batch[i].day = d
                       THEN last(d).price ELSE table[d]
  <2>1. Upserted(batch) = [d \in Days |-> val(d)]
    BY Zenon DEF Upserted
  <2>2. \A d \in Days : val(d) \in Columns
    BY <1>4, <1>7, Zenon
  <2> HIDE DEF val
  <2>3. [d \in Days |-> val(d)] \in [Days -> Columns]
    BY <2>2, SMT
  <2> QED BY <2>1, <2>3, Zenon
<1> QED BY <1>7, <1>8, <1>9, <1>10, Zenon

\* A slice of a sequence.
LEMMA SliceFits ==
    ASSUME NEW E, NEW q \in Seq(E), NEW n \in Nat, NEW u \in Nat, n <= u, u <= Len(q)
    PROVE  /\ SubSeq(q, n + 1, u) \in Seq(E)
           /\ DOMAIN SubSeq(q, n + 1, u) = 1..(u - n)
           /\ \A i \in 1..(u - n) : SubSeq(q, n + 1, u)[i] = q[n + i]
<1>1. Len(q) \in Nat /\ n + 1 \in Int /\ u \in Int
  BY LenProperties, SMT
<1>2. \A i \in (n + 1)..u : q[i] \in E
  BY <1>1, ElementOfSeq
<1>3. SubSeq(q, n + 1, u) \in Seq(E)
  BY <1>1, <1>2, SubSeqProperties
<1> DEFINE len == IF n + 1 <= u THEN u - (n + 1) + 1 ELSE 0
<1>4. /\ DOMAIN SubSeq(q, n + 1, u) = 1..len
      /\ \A i \in 1..len : SubSeq(q, n + 1, u)[i] = q[(n + 1) + i - 1]
  BY <1>1, <1>2, SubSeqProperties
<1>5. len = u - n /\ \A i \in 1..len : (n + 1) + i - 1 = n + i
  BY SMT
<1> HIDE DEF len
<1> QED BY <1>3, <1>4, <1>5, Zenon

\* The batch that is written next: its entries are those of the list from the
\* last one written on.
LEMMA NextBatchFits ==
    ASSUME NEW w \in Workers, NEW q \in Seq(Entry), q = seen[w],
           NEW n \in Nat, n = written[w], n <= Len(q)
    PROVE  /\ Upto(w) \in Nat /\ n <= Upto(w) /\ Upto(w) <= Len(q)
           /\ SubSeq(q, n + 1, Upto(w)) \in Seq(Entry)
           /\ DOMAIN SubSeq(q, n + 1, Upto(w)) = 1..(Upto(w) - n)
           /\ \A i \in 1..(Upto(w) - n) : SubSeq(q, n + 1, Upto(w))[i] = q[n + i]
<1>1. Len(q) \in Nat /\ \A i \in 1..Len(q) : q[i] \in Entry
  BY LenProperties, ElementOfSeq, SMT
<1> DEFINE u == Upto(w)
<1>2. u \in Nat /\ n <= u /\ u <= Len(q)
  <2>1. u = IF n + BatchSize < Len(q) THEN n + BatchSize ELSE Len(q)
    BY Zenon DEF Upto
  <2> HIDE DEF u
  <2> QED BY <1>1, <2>1, BoundAssumption, SMT
<1> HIDE DEF u
<1>3. /\ SubSeq(q, n + 1, u) \in Seq(Entry)
      /\ DOMAIN SubSeq(q, n + 1, u) = 1..(u - n)
      /\ \A i \in 1..(u - n) : SubSeq(q, n + 1, u)[i] = q[n + i]
  <2>1. ASSUME NEW x \in Nat, n <= x, x <= Len(q)
        PROVE  /\ SubSeq(q, n + 1, x) \in Seq(Entry)
               /\ DOMAIN SubSeq(q, n + 1, x) = 1..(x - n)
               /\ \A i \in 1..(x - n) : SubSeq(q, n + 1, x)[i] = q[n + i]
    BY <2>1, SliceFits
  <2> QED BY <1>2, <2>1, Zenon
<1> QED BY <1>2, <1>3 DEF u

-----------------------------------------------------------------------------
(* Where a step takes a goroutine.                                         *)

\* The goroutine of w goes on to one of the stages of S.
Moved(w, S) == \E s \in S : pc' = [pc EXCEPT ![w] = s]

Ends == {"untick", "done"}

\* A save or a drain step of w starts at one of the stages of From and ends at one
\* of To.
Goes(w, From, To) == pc[w] \in From /\ Moved(w, To)

\* Each action takes its worker from known stages to known stages.
LEMMA Moves ==
    ASSUME NEW w
    PROVE  /\ CheckMarks(w) => Goes(w, {"idle"}, {"done", "cache"})
           /\ CachePrice(w) => Goes(w, {"cache"}, {"cache", "push", "length"})
           /\ PushPrice(w) => Goes(w, {"push"}, {"push", "length"})
           /\ CheckLength(w) => Goes(w, {"length"}, {"lock", "done"})
           /\ SaveFails(w) => Goes(w, {"push", "length"}, {"done"})
           /\ Tick(w) => Goes(w, {"idle"}, {"lock"})
           /\ EndTick(w) => Goes(w, {"untick"}, {"idle"})
           /\ Lock(w) => Goes(w, {"lock"}, {"read"})
           /\ ReadQueue(w) => Goes(w, {"read"}, {"unlock", "write"})
           /\ WriteBatch(w) => Goes(w, {"write"}, {"delete", "write"})
           /\ DeleteList(w) => Goes(w, {"delete"}, {"unmark"})
           /\ DeleteMarks(w) => Goes(w, {"unmark"}, {"unlock"})
           /\ LookInCache(w) => Goes(w, {"idle"}, {"done", "table"})
           /\ LookInTable(w) => Goes(w, {"table"}, {"done", "fill", "failed"})
           /\ FillCache(w) => Goes(w, {"fill"}, {"done"})
<1> USE DEF Goes, Moved, Goto
<1>1. CheckMarks(w) => Goes(w, {"idle"}, {"done", "cache"})
  BY Zenon DEF CheckMarks
<1>2. CachePrice(w) => Goes(w, {"cache"}, {"cache", "push", "length"})
  BY Zenon DEF CachePrice
<1>3. PushPrice(w) => Goes(w, {"push"}, {"push", "length"})
  BY Zenon DEF PushPrice
<1>4. CheckLength(w) => Goes(w, {"length"}, {"lock", "done"})
  BY Zenon DEF CheckLength
<1>5. SaveFails(w) => Goes(w, {"push", "length"}, {"done"})
  BY Zenon DEF SaveFails
<1>6. Tick(w) => Goes(w, {"idle"}, {"lock"})
  BY Zenon DEF Tick
<1>7. EndTick(w) => Goes(w, {"untick"}, {"idle"})
  BY Zenon DEF EndTick
<1>8. Lock(w) => Goes(w, {"lock"}, {"read"})
  BY Zenon DEF Lock
<1>9. ReadQueue(w) => Goes(w, {"read"}, {"unlock", "write"})
  BY Zenon DEF ReadQueue
<1>10. WriteBatch(w) => Goes(w, {"write"}, {"delete", "write"})
  BY Zenon DEF WriteBatch
<1>11. DeleteList(w) => Goes(w, {"delete"}, {"unmark"})
  BY Zenon DEF DeleteList
<1>12. DeleteMarks(w) => Goes(w, {"unmark"}, {"unlock"})
  BY Zenon DEF DeleteMarks
<1>13. LookInCache(w) => Goes(w, {"idle"}, {"done", "table"})
  BY Zenon DEF LookInCache
<1>14. LookInTable(w) => Goes(w, {"table"}, {"done", "fill", "failed"})
  BY Zenon DEF LookInTable
<1>15. FillCache(w) => Goes(w, {"fill"}, {"done"})
  BY Zenon DEF FillCache
<1> QED BY <1>1, <1>2, <1>3, <1>4, <1>5, <1>6, <1>7, <1>8, <1>9, <1>10, <1>11, <1>12,
           <1>13, <1>14, <1>15, Zenon

\* A failed attempt at the lock, a deadlock and an error leave the goroutine where it
\* is, or send it to one of a few stages.
LEMMA LockTakenMoves ==
    ASSUME NEW w, LockTaken(w)
    PROVE  /\ pc[w] = "lock"
           /\ \/ /\ attempt[w] < LockAttempts
                 /\ attempt' = [attempt EXCEPT ![w] = @ + 1] /\ pc' = pc
              \/ /\ attempt' = [attempt EXCEPT ![w] = 1]
                 /\ pc' = [pc EXCEPT ![w] = "untick"] /\ w \in Tickers
              \/ /\ attempt' = [attempt EXCEPT ![w] = 1]
                 /\ pc' = [pc EXCEPT ![w] = "done"] /\ w \notin Tickers
BY Zenon DEF LockTaken, Leave, Goto

LEMMA DeadlockMoves ==
    ASSUME NEW w, Deadlock(w)
    PROVE  /\ pc[w] = "write"
           /\ \/ /\ attempt[w] < MaxRetries
                 /\ attempt' = [attempt EXCEPT ![w] = @ + 1]
                 /\ written' = [written EXCEPT ![w] = 0]
                 /\ pc' = pc /\ broken' = broken
              \/ /\ broken' = TRUE /\ pc' = [pc EXCEPT ![w] = "delete"]
                 /\ attempt' = attempt /\ written' = written
BY Zenon DEF Deadlock, WriteAgain, Goto

LEMMA DrainFailsMoves ==
    ASSUME NEW w, DrainFails(w)
    PROVE  \/ pc[w] = "read" /\ pc' = [pc EXCEPT ![w] = "unlock"]
           \/ pc[w] = "write" /\ pc' = [pc EXCEPT ![w] = "delete"]
           \/ pc[w] = "delete" /\ pc' = [pc EXCEPT ![w] = "unmark"]
           \/ pc[w] = "unmark" /\ pc' = [pc EXCEPT ![w] = "unlock"]
           \/ pc[w] = "unlock" /\ w \in Tickers /\ pc' = [pc EXCEPT ![w] = "untick"]
           \/ pc[w] = "unlock" /\ w \notin Tickers /\ pc' = [pc EXCEPT ![w] = "done"]
BY Zenon DEF DrainFails, Leave, Goto

LEMMA UnlockMoves ==
    ASSUME NEW w, Unlock(w)
    PROVE  /\ pc[w] = "unlock"
           /\ \/ w \in Tickers /\ pc' = [pc EXCEPT ![w] = "untick"]
              \/ w \notin Tickers /\ pc' = [pc EXCEPT ![w] = "done"]
BY Zenon DEF Unlock, Leave, Goto

LEMMA CrashMoves ==
    ASSUME NEW w, Crash(w)
    PROVE  /\ pc[w] \notin {"idle", "done", "failed", "lost"}
           /\ \/ w \in Tickers /\ pc' = [pc EXCEPT ![w] = "idle"]
              \/ w \notin Tickers /\ pc' = [pc EXCEPT ![w] = "lost"]
BY Zenon DEF Crash, Goto

-----------------------------------------------------------------------------
(* Types, and who can be at which stage.                                   *)

StagesFit ==
    \A w \in Workers :
        /\ pc[w] \in {"cache", "push", "length"} => w \in Savers
        /\ pc[w] = "lock" \/ pc[w] \in Draining => w \in Savers \cup Tickers
        /\ pc[w] = "untick" => w \in Tickers
        /\ pc[w] \in {"table", "fill"} => w \in Lookups

\* Past days are looked up in the table.
PastFit ==
    \A l \in Lookups : pc[l] \in {"table", "fill"} => asked[l] \in Days \ Today

\* A drain has written no more than it has read.
WrittenFit ==
    \A w \in Workers : pc[w] \in {"write", "delete"} => written[w] <= Len(seen[w])

TypeInv == TypeOK /\ StagesFit /\ PastFit /\ WrittenFit

\* Who the workers are.
LEMMA WorkerFacts ==
    /\ \A s \in Savers : s \in Workers /\ s \notin Tickers /\ s \notin Lookups
    /\ \A t \in Tickers : t \in Workers /\ t \notin Savers /\ t \notin Lookups
    /\ \A l \in Lookups : l \in Workers /\ l \notin Savers /\ l \notin Tickers
    /\ \A w \in Workers : w \in Savers \/ w \in Tickers \/ w \in Lookups
BY WorkerAssumption, SMT DEF Workers

\* What the bounds are.
LEMMA BoundFacts ==
    /\ RunSize \in Nat \ {0} /\ BatchSize \in Nat \ {0} /\ LockAttempts \in Nat \ {0}
    /\ MaxRetries \in Nat \ {0} /\ MaxFaults \in Nat /\ MaxOverruns \in Nat
BY BoundAssumption, OverrunAssumption, SMT

\* What a save is to save.
LEMMA SavesFit ==
    ASSUME NEW s \in Savers
    PROVE  /\ LastOfEach(Saves[s]) \subseteq Elems(Saves[s])
           /\ Elems(Saves[s]) \subseteq [day : Days, price : Prices]
<1>1. Saves[s] \in Seq([day : Days, price : Prices])
  BY PriceAssumption, Zenon
<1> QED BY <1>1, LastOfEachFits, Zenon

\* Every step is of one of these kinds.
LEMMA Steps ==
    ASSUME [Next]_vars
    PROVE  \/ \E w \in Workers :
                 \/ CheckMarks(w) \/ CachePrice(w) \/ PushPrice(w) \/ CheckLength(w)
                 \/ SaveFails(w) \/ Tick(w) \/ EndTick(w) \/ Lock(w) \/ LockTaken(w)
                 \/ ReadQueue(w) \/ WriteBatch(w) \/ Deadlock(w) \/ DrainFails(w)
                 \/ DeleteList(w) \/ DeleteMarks(w) \/ Unlock(w)
                 \/ LookInCache(w) \/ LookInTable(w) \/ FillCache(w) \/ Crash(w)
           \/ \E d \in Days : ExpirePrice(d)
           \/ \E l \in LockKeys : Expire(l)
           \/ vars' = vars
BY Zenon DEF Next, Save, Drain, LookUp

\* Each stage a worker goes to is a stage.
LEMMA MovedIsStage ==
    ASSUME NEW w \in Workers, NEW S \in SUBSET Stages, Moved(w, S),
           pc \in [Workers -> Stages]
    PROVE  pc' \in [Workers -> Stages]
BY SMT DEF Moved

LEMMA TypeInit == Init => TypeInv
<1> SUFFICES ASSUME Init PROVE TypeInv
  OBVIOUS
<1>1. pc = [w \in Workers |-> "idle"] /\ "idle" \in Stages
  BY Zenon DEF Init, Stages
<1>2. pc \in [Workers -> Stages] /\ \A w \in Workers : pc[w] = "idle"
  <2> HIDE DEF Stages
  <2> QED BY <1>1, SMT
<1>3. attempt \in [Workers -> 1..(IF LockAttempts > MaxRetries THEN LockAttempts
                                ELSE MaxRetries)]
  BY BoundFacts, SMT DEF Init
<1>4. /\ todo \in [Workers -> SUBSET [day : Days, price : Prices]]
      /\ piped \in [Workers -> SUBSET Entry]
      /\ written \in [Workers -> Nat]
  BY SMT DEF Init
<1>5. seen \in [Workers -> Seq(Entry)] /\ queue \in Seq(Entry)
  BY EmptySeq, SMT DEF Init
<1>6. asked \in [Lookups -> Days \cup {None}] /\ found \in [Lookups -> Columns]
  BY SMT DEF Init, Columns
<1>7. cache \in [Days -> Columns] /\ table \in [Days -> Columns] /\ marks \subseteq Days
  BY PriceAssumption, SMT DEF Init, Columns
<1>8. stored \subseteq Entry /\ broken \in BOOLEAN /\ faults \in Nat /\ overruns \in Nat
  <2>1. stored \subseteq Entry /\ broken \in BOOLEAN
    BY Zenon DEF Init
  <2>2. faults \in Nat /\ overruns \in Nat
    BY SMT DEF Init, InitLocks
  <2> QED BY <2>1, <2>2
<1>9. holder \in [LockKeys -> Workers \cup {Free}]
  BY SMT DEF Init, InitLocks
<1>10. TypeOK
  BY <1>2, <1>3, <1>4, <1>5, <1>6, <1>7, <1>8, <1>9, Zenon DEF TypeOK
<1>11. StagesFit /\ PastFit /\ WrittenFit
  BY <1>2, WorkerFacts, SMT DEF StagesFit, PastFit, WrittenFit, Draining
<1> QED BY <1>10, <1>11 DEF TypeInv

\* Every action keeps them.
LEMMA TypeKept ==
    ASSUME TypeInv, [Next]_vars
    PROVE  TypeInv'
<1> USE DEF TypeInv
<1>t. /\ pc \in [Workers -> Stages]
      /\ todo \in [Workers -> SUBSET [day : Days, price : Prices]]
      /\ piped \in [Workers -> SUBSET Entry] /\ seen \in [Workers -> Seq(Entry)]
      /\ written \in [Workers -> Nat] /\ queue \in Seq(Entry) /\ marks \subseteq Days
      /\ cache \in [Days -> Columns] /\ table \in [Days -> Columns]
      /\ attempt \in [Workers -> 1..(IF LockAttempts > MaxRetries THEN LockAttempts
                                     ELSE MaxRetries)]
      /\ stored \subseteq Entry /\ faults \in Nat
      /\ asked \in [Lookups -> Days \cup {None}] /\ found \in [Lookups -> Columns]
      /\ holder \in [LockKeys -> Workers \cup {Free}] /\ overruns \in Nat
  BY Zenon DEF TypeOK
<1>e. /\ \A e \in Entry : e.day \in Days /\ e.price \in Prices
      /\ \A e \in [day : Days, price : Prices] : e.day \in Days /\ e.price \in Prices
  BY SMT DEF Entry
<1>n. \A x \in Workers : Len(seen[x]) \in Nat
  BY <1>t, LenProperties

<1>1. ASSUME NEW w \in Workers, CheckMarks(w)
      PROVE  TypeInv'
  <2>0. Goes(w, {"idle"}, {"done", "cache"})
    BY <1>1, Moves, Zenon
  <2>1. pc' \in [Workers -> Stages]
    BY <1>t, <2>0, SMT DEF Goes, Moved, Stages, Draining
  <2>2. todo' \in [Workers -> SUBSET [day : Days, price : Prices]]
    <3>1. w \in Savers /\ todo' = [todo EXCEPT ![w] = LastOfEach(Saves[w])]
      BY <1>1, Zenon DEF CheckMarks
    <3>2. LastOfEach(Saves[w]) \in SUBSET [day : Days, price : Prices]
      BY <3>1, SavesFit, Zenon
    <3> QED BY <1>t, <3>1, <3>2, SMT
  <2>3. piped' \in [Workers -> SUBSET Entry]
    <3>1. PICK T : piped' = [piped EXCEPT ![w] = {[day |-> e.day, price |-> e.price, by |-> w] : e \in T}]
                 /\ T \subseteq LastOfEach(Saves[w])
      BY <1>1, Zenon DEF CheckMarks
    <3>2. w \in Savers
      BY <1>1, Zenon DEF CheckMarks
    <3>3. T \subseteq [day : Days, price : Prices]
      BY <3>1, <3>2, SavesFit, Zenon
    <3>4. {[day |-> e.day, price |-> e.price, by |-> w] : e \in T} \subseteq Entry
      BY <1>e, <3>2, <3>3, SMT DEF Entry
    <3> QED BY <1>t, <3>1, <3>4, SMT
  <2>a. TypeOK'
    BY <1>1, <1>t, <2>1, <2>2, <2>3, Zenon DEF CheckMarks, workVars, lookVars, queueVars, tableVars, lockVars, TypeOK
  <2>f. StagesFit'
    BY <1>1, <1>t, <2>0, WorkerFacts, SMT DEF Goes, Moved, StagesFit, Draining, CheckMarks
  <2>p. PastFit'
    BY <1>1, <1>t, <2>0, WorkerFacts, SMT DEF Goes, Moved, PastFit, StagesFit, CheckMarks, workVars, lookVars
  <2>w. WrittenFit'
    BY <1>1, <1>t, <1>n, <2>0, SMT DEF Goes, Moved, WrittenFit, CheckMarks, workVars
  <2> QED BY <2>a, <2>f, <2>p, <2>w
<1>2. ASSUME NEW w \in Workers, CachePrice(w)
      PROVE  TypeInv'
  <2>0. Goes(w, {"cache"}, {"cache", "push", "length"})
    BY <1>2, Moves, Zenon
  <2>1. pc' \in [Workers -> Stages]
    BY <1>t, <2>0, SMT DEF Goes, Moved, Stages, Draining
  <2>2. todo' \in [Workers -> SUBSET [day : Days, price : Prices]]
    BY <1>2, <1>t, SMT DEF CachePrice
  <2>3. cache' \in [Days -> Columns]
    BY <1>2, <1>t, <1>e, SMT DEF CachePrice, Columns
  <2>a. TypeOK'
    BY <1>2, <1>t, <2>1, <2>2, <2>3, Zenon DEF CachePrice, workVars, lookVars, queueVars, tableVars, lockVars, TypeOK
  <2>f. StagesFit'
    BY <1>2, <1>t, <2>0, WorkerFacts, SMT DEF Goes, Moved, StagesFit, Draining
  <2>p. PastFit'
    BY <1>2, <1>t, <2>0, WorkerFacts, SMT DEF Goes, Moved, PastFit, StagesFit, CachePrice, workVars, lookVars
  <2>w. WrittenFit'
    BY <1>2, <1>t, <1>n, <2>0, SMT DEF Goes, Moved, WrittenFit, CachePrice, workVars
  <2> QED BY <2>a, <2>f, <2>p, <2>w
<1>3. ASSUME NEW w \in Workers, PushPrice(w)
      PROVE  TypeInv'
  <2>0. Goes(w, {"push"}, {"push", "length"})
    BY <1>3, Moves, Zenon
  <2>1. pc' \in [Workers -> Stages]
    BY <1>t, <2>0, SMT DEF Goes, Moved, Stages, Draining
  <2>2. piped' \in [Workers -> SUBSET Entry]
    BY <1>3, <1>t, SMT DEF PushPrice
  <2>3. queue' \in Seq(Entry) /\ marks' \subseteq Days
    BY <1>3, <1>t, <1>e, SMT DEF PushPrice
  <2>a. TypeOK'
    BY <1>3, <1>t, <2>1, <2>2, <2>3, Zenon DEF PushPrice, workVars, lookVars, queueVars, tableVars, lockVars, TypeOK
  <2>f. StagesFit'
    BY <1>3, <1>t, <2>0, WorkerFacts, SMT DEF Goes, Moved, StagesFit, Draining
  <2>p. PastFit'
    BY <1>3, <1>t, <2>0, WorkerFacts, SMT DEF Goes, Moved, PastFit, StagesFit, PushPrice, workVars, lookVars
  <2>w. WrittenFit'
    BY <1>3, <1>t, <1>n, <2>0, SMT DEF Goes, Moved, WrittenFit, PushPrice, workVars
  <2> QED BY <2>a, <2>f, <2>p, <2>w
<1>4. ASSUME NEW w \in Workers, CheckLength(w)
      PROVE  TypeInv'
  <2>0. Goes(w, {"length"}, {"lock", "done"})
    BY <1>4, Moves, Zenon
  <2>1. pc' \in [Workers -> Stages]
    BY <1>t, <2>0, SMT DEF Goes, Moved, Stages, Draining
  <2>a. TypeOK'
    BY <1>4, <1>t, <2>1, Zenon DEF CheckLength, workVars, lookVars, queueVars, tableVars, lockVars, TypeOK
  <2>f. StagesFit'
    BY <1>4, <1>t, <2>0, WorkerFacts, SMT DEF Goes, Moved, StagesFit, Draining
  <2>p. PastFit'
    BY <1>4, <1>t, <2>0, WorkerFacts, SMT DEF Goes, Moved, PastFit, StagesFit, CheckLength, workVars, lookVars
  <2>w. WrittenFit'
    BY <1>4, <1>t, <1>n, <2>0, SMT DEF Goes, Moved, WrittenFit, CheckLength, workVars
  <2> QED BY <2>a, <2>f, <2>p, <2>w
<1>5. ASSUME NEW w \in Workers, SaveFails(w)
      PROVE  TypeInv'
  <2>0. Goes(w, {"push", "length"}, {"done"})
    BY <1>5, Moves, Zenon
  <2>1. pc' \in [Workers -> Stages]
    BY <1>t, <2>0, SMT DEF Goes, Moved, Stages, Draining
  <2>2. piped' \in [Workers -> SUBSET Entry]
    BY <1>5, <1>t, SMT DEF SaveFails
  <2>3. marks' \subseteq Days
    <3>1. piped[w] \subseteq Entry
      BY <1>t, Zenon
    <3>2. marks' = marks \/ \E e \in piped[w] : marks' = marks \cup {e.day}
      BY <1>5, Zenon DEF SaveFails
    <3>3. \A e \in piped[w] : e.day \in Days
      BY <1>e, <3>1, Zenon
    <3>4. ASSUME NEW e \in piped[w], marks' = marks \cup {e.day}
          PROVE  marks' \subseteq Days
      BY <1>t, <3>3, <3>4, SMT
    <3> QED BY <1>t, <3>2, <3>4, Zenon
  <2>4. faults' \in Nat /\ broken' \in BOOLEAN
    BY <1>5, <1>t, SMT DEF SaveFails, Fault
  <2>a. TypeOK'
    BY <1>5, <1>t, <2>1, <2>2, <2>3, <2>4, Zenon DEF SaveFails, workVars, lookVars, queueVars, tableVars, lockVars, TypeOK
  <2>f. StagesFit'
    BY <1>5, <1>t, <2>0, WorkerFacts, SMT DEF Goes, Moved, StagesFit, Draining
  <2>p. PastFit'
    BY <1>5, <1>t, <2>0, WorkerFacts, SMT DEF Goes, Moved, PastFit, StagesFit, SaveFails, workVars, lookVars
  <2>w. WrittenFit'
    BY <1>5, <1>t, <1>n, <2>0, SMT DEF Goes, Moved, WrittenFit, SaveFails, workVars
  <2> QED BY <2>a, <2>f, <2>p, <2>w
<1>6. ASSUME NEW w \in Workers, Tick(w)
      PROVE  TypeInv'
  <2>0. Goes(w, {"idle"}, {"lock"})
    BY <1>6, Moves, Zenon
  <2>1. pc' \in [Workers -> Stages]
    BY <1>t, <2>0, SMT DEF Goes, Moved, Stages, Draining
  <2>2. holder' \in [LockKeys -> Workers \cup {Free}] /\ overruns' \in Nat
    BY <1>6, <1>t, SMT DEF Tick, AcquireLock, LockKeys, QueueLock, TickLock
  <2>a. TypeOK'
    BY <1>6, <1>t, <2>1, <2>2, Zenon DEF Tick, workVars, lookVars, queueVars, tableVars, lockVars, TypeOK, AcquireLock
  <2>f. StagesFit'
    BY <1>6, <1>t, <2>0, WorkerFacts, SMT DEF Goes, Moved, StagesFit, Draining, Tick
  <2>p. PastFit'
    BY <1>6, <1>t, <2>0, WorkerFacts, SMT DEF Goes, Moved, PastFit, StagesFit, Tick, workVars, lookVars
  <2>w. WrittenFit'
    BY <1>6, <1>t, <1>n, <2>0, SMT DEF Goes, Moved, WrittenFit, Tick, workVars
  <2> QED BY <2>a, <2>f, <2>p, <2>w
<1>7. ASSUME NEW w \in Workers, EndTick(w)
      PROVE  TypeInv'
  <2>0. Goes(w, {"untick"}, {"idle"})
    BY <1>7, Moves, Zenon
  <2>1. pc' \in [Workers -> Stages]
    BY <1>t, <2>0, SMT DEF Goes, Moved, Stages, Draining
  <2>2. holder' \in [LockKeys -> Workers \cup {Free}] /\ overruns' \in Nat
    BY <1>7, <1>t, SMT DEF EndTick, ReleaseLock, LockKeys, QueueLock, TickLock
  <2>a. TypeOK'
    BY <1>7, <1>t, <2>1, <2>2, Zenon DEF EndTick, workVars, lookVars, queueVars, tableVars, lockVars, TypeOK, ReleaseLock
  <2>f. StagesFit'
    BY <1>7, <1>t, <2>0, WorkerFacts, SMT DEF Goes, Moved, StagesFit, Draining
  <2>p. PastFit'
    BY <1>7, <1>t, <2>0, WorkerFacts, SMT DEF Goes, Moved, PastFit, StagesFit, EndTick, workVars, lookVars
  <2>w. WrittenFit'
    BY <1>7, <1>t, <1>n, <2>0, SMT DEF Goes, Moved, WrittenFit, EndTick, workVars
  <2> QED BY <2>a, <2>f, <2>p, <2>w
<1>8. ASSUME NEW w \in Workers, Lock(w)
      PROVE  TypeInv'
  <2>0. Goes(w, {"lock"}, {"read"})
    BY <1>8, Moves, Zenon
  <2>1. pc' \in [Workers -> Stages]
    BY <1>t, <2>0, SMT DEF Goes, Moved, Stages, Draining
  <2>2. holder' \in [LockKeys -> Workers \cup {Free}] /\ overruns' \in Nat
    BY <1>8, <1>t, SMT DEF Lock, AcquireLock, LockKeys, QueueLock, TickLock
  <2>3. attempt' \in [Workers -> 1..(IF LockAttempts > MaxRetries THEN LockAttempts
                                     ELSE MaxRetries)]
    BY <1>8, <1>t, BoundFacts, SMT DEF Lock
  <2>a. TypeOK'
    BY <1>8, <1>t, <2>1, <2>2, <2>3, Zenon DEF Lock, workVars, lookVars, queueVars, tableVars, lockVars, TypeOK, AcquireLock
  <2>f. StagesFit'
    BY <1>8, <1>t, <2>0, WorkerFacts, SMT DEF Goes, Moved, StagesFit, Draining
  <2>p. PastFit'
    BY <1>8, <1>t, <2>0, WorkerFacts, SMT DEF Goes, Moved, PastFit, StagesFit, Lock, workVars, lookVars
  <2>w. WrittenFit'
    BY <1>8, <1>t, <1>n, <2>0, SMT DEF Goes, Moved, WrittenFit, Lock, workVars
  <2> QED BY <2>a, <2>f, <2>p, <2>w
<1>9. ASSUME NEW w \in Workers, ReadQueue(w)
      PROVE  TypeInv'
  <2>0. Goes(w, {"read"}, {"unlock", "write"})
    BY <1>9, Moves, Zenon
  <2>1. pc' \in [Workers -> Stages]
    BY <1>t, <2>0, SMT DEF Goes, Moved, Stages, Draining
  <2>2. seen' \in [Workers -> Seq(Entry)] /\ written' \in [Workers -> Nat]
    BY <1>9, <1>t, SMT DEF ReadQueue
  <2>a. TypeOK'
    BY <1>9, <1>t, <2>1, <2>2, Zenon DEF ReadQueue, workVars, lookVars, queueVars, tableVars, lockVars, TypeOK
  <2>f. StagesFit'
    BY <1>9, <1>t, <2>0, WorkerFacts, SMT DEF Goes, Moved, StagesFit, Draining
  <2>p. PastFit'
    BY <1>9, <1>t, <2>0, WorkerFacts, SMT DEF Goes, Moved, PastFit, StagesFit, ReadQueue, workVars, lookVars
  <2>w. WrittenFit'
    BY <1>9, <1>t, <1>n, <2>0, SMT DEF Goes, Moved, WrittenFit, ReadQueue, workVars
  <2> QED BY <2>a, <2>f, <2>p, <2>w
<1>10. ASSUME NEW w \in Workers, WriteBatch(w)
      PROVE  TypeInv'
  <2>0. Goes(w, {"write"}, {"delete", "write"})
    BY <1>10, Moves, Zenon
  <2>b. /\ Upto(w) \in Nat /\ Upto(w) <= Len(seen[w])
        /\ SubSeq(seen[w], written[w] + 1, Upto(w)) \in Seq(Entry)
    <3>1. written[w] <= Len(seen[w])
      BY <2>0, <1>t, Zenon DEF WrittenFit, Goes
    <3> QED BY <1>t, <3>1, NextBatchFits, Zenon
  <2>1. pc' \in [Workers -> Stages]
    BY <1>t, <2>0, SMT DEF Goes, Moved, Stages, Draining
  <2>2. written' \in [Workers -> Nat]
    BY <1>10, <1>t, <2>b, SMT DEF WriteBatch
  <2>3. table' \in [Days -> Columns]
    BY <1>10, <1>t, <2>b, UpsertedFits, Zenon DEF WriteBatch
  <2>4. stored' \subseteq Entry
    BY <1>10, <1>t, <2>b, LastOfEachFits, Zenon DEF WriteBatch
  <2>a. TypeOK'
    BY <1>10, <1>t, <2>1, <2>2, <2>3, <2>4, Zenon DEF WriteBatch, workVars, lookVars, queueVars, tableVars, lockVars, TypeOK
  <2>f. StagesFit'
    BY <1>10, <1>t, <2>0, WorkerFacts, SMT DEF Goes, Moved, StagesFit, Draining
  <2>p. PastFit'
    BY <1>10, <1>t, <2>0, WorkerFacts, SMT DEF Goes, Moved, PastFit, StagesFit, WriteBatch, workVars, lookVars
  <2>w. WrittenFit'
    BY <1>10, <1>t, <1>n, <2>0, <2>b, SMT DEF Goes, Moved, WrittenFit, WriteBatch, workVars
  <2> QED BY <2>a, <2>f, <2>p, <2>w
<1>11. ASSUME NEW w \in Workers, DeleteList(w)
      PROVE  TypeInv'
  <2>0. Goes(w, {"delete"}, {"unmark"})
    BY <1>11, Moves, Zenon
  <2>1. pc' \in [Workers -> Stages]
    BY <1>t, <2>0, SMT DEF Goes, Moved, Stages, Draining
  <2>2. queue' \in Seq(Entry)
    BY <1>11, EmptySeq, Zenon DEF DeleteList
  <2>a. TypeOK'
    BY <1>11, <1>t, <2>1, <2>2, Zenon DEF DeleteList, workVars, lookVars, queueVars, tableVars, lockVars, TypeOK
  <2>f. StagesFit'
    BY <1>11, <1>t, <2>0, WorkerFacts, SMT DEF Goes, Moved, StagesFit, Draining
  <2>p. PastFit'
    BY <1>11, <1>t, <2>0, WorkerFacts, SMT DEF Goes, Moved, PastFit, StagesFit, DeleteList, workVars, lookVars
  <2>w. WrittenFit'
    BY <1>11, <1>t, <1>n, <2>0, SMT DEF Goes, Moved, WrittenFit, DeleteList, workVars
  <2> QED BY <2>a, <2>f, <2>p, <2>w
<1>12. ASSUME NEW w \in Workers, DeleteMarks(w)
      PROVE  TypeInv'
  <2>0. Goes(w, {"unmark"}, {"unlock"})
    BY <1>12, Moves, Zenon
  <2>1. pc' \in [Workers -> Stages]
    BY <1>t, <2>0, SMT DEF Goes, Moved, Stages, Draining
  <2>2. marks' \subseteq Days
    BY <1>12, Zenon DEF DeleteMarks
  <2>a. TypeOK'
    BY <1>12, <1>t, <2>1, <2>2, Zenon DEF DeleteMarks, workVars, lookVars, queueVars, tableVars, lockVars, TypeOK
  <2>f. StagesFit'
    BY <1>12, <1>t, <2>0, WorkerFacts, SMT DEF Goes, Moved, StagesFit, Draining
  <2>p. PastFit'
    BY <1>12, <1>t, <2>0, WorkerFacts, SMT DEF Goes, Moved, PastFit, StagesFit, DeleteMarks, workVars, lookVars
  <2>w. WrittenFit'
    BY <1>12, <1>t, <1>n, <2>0, SMT DEF Goes, Moved, WrittenFit, DeleteMarks, workVars
  <2> QED BY <2>a, <2>f, <2>p, <2>w
<1>13. ASSUME NEW w \in Workers, LookInCache(w)
      PROVE  TypeInv'
  <2>0. Goes(w, {"idle"}, {"done", "table"})
    BY <1>13, Moves, Zenon
  <2>1. pc' \in [Workers -> Stages]
    BY <1>t, <2>0, SMT DEF Goes, Moved, Stages, Draining
  <2>2. asked' \in [Lookups -> Days \cup {None}] /\ found' \in [Lookups -> Columns]
    BY <1>13, <1>t, SMT DEF LookInCache
  <2>a. TypeOK'
    BY <1>13, <1>t, <2>1, <2>2, Zenon DEF LookInCache, workVars, lookVars, queueVars, tableVars, lockVars, TypeOK
  <2>f. StagesFit'
    BY <1>13, <1>t, <2>0, WorkerFacts, SMT DEF Goes, Moved, StagesFit, Draining, LookInCache
  <2>p. PastFit'
    <3>1. PICK d \in Days : /\ asked' = [asked EXCEPT ![w] = d]
                           /\ pc' = [pc EXCEPT ![w] = IF cache[d] # None \/ d \in Today
                                                     THEN "done" ELSE "table"]
      BY <1>13, Zenon DEF LookInCache, Goto
    <3>2. w \in Lookups
      BY <1>13, Zenon DEF LookInCache
    <3> QED BY <1>t, <3>1, <3>2, WorkerFacts, SMT DEF PastFit
  <2>w. WrittenFit'
    BY <1>13, <1>t, <1>n, <2>0, SMT DEF Goes, Moved, WrittenFit, LookInCache, workVars
  <2> QED BY <2>a, <2>f, <2>p, <2>w
<1>14. ASSUME NEW w \in Workers, LookInTable(w)
      PROVE  TypeInv'
  <2>0. Goes(w, {"table"}, {"done", "fill", "failed"})
    BY <1>14, Moves, Zenon
  <2>l. w \in Lookups /\ asked[w] \in Days
    BY <2>0, SMT DEF Goes, StagesFit, PastFit
  <2>1. pc' \in [Workers -> Stages]
    BY <1>t, <2>0, SMT DEF Goes, Moved, Stages, Draining
  <2>2. found' \in [Lookups -> Columns] /\ faults' \in Nat
    <3>1. /\ found' = [found EXCEPT ![w] = table[asked[w]]] \/ found' = found
          /\ faults' = faults \/ faults' = faults + 1
      BY <1>14, Zenon DEF LookInTable, Fault
    <3>2. table[asked[w]] \in Columns
      BY <1>t, <2>l, SMT
    <3>0. found \in [Lookups -> Columns]
      BY <1>t, Zenon DEF TypeOK
    <3>3. found' \in [Lookups -> Columns]
      <4>1. PICK row \in Columns : row = table[asked[w]]
        BY <3>2, Zenon
      <4>2. found' = [found EXCEPT ![w] = row] \/ found' = found
        BY <3>1, <4>1, Zenon
      <4> QED BY <3>0, <4>2, Zenon
    <3>4. faults \in Nat /\ (faults' = faults \/ faults' = faults + 1)
      BY <1>t, <3>1, Zenon DEF TypeOK
    <3>5. faults' \in Nat
      BY <3>4, SMT
    <3> QED BY <3>3, <3>5
  <2>a. TypeOK'
    BY <1>14, <1>t, <2>1, <2>2, Zenon DEF LookInTable, workVars, lookVars, queueVars, tableVars, lockVars, TypeOK
  <2>f. StagesFit'
    BY <1>14, <1>t, <2>0, WorkerFacts, SMT DEF Goes, Moved, StagesFit, Draining
  <2>p. PastFit'
    BY <1>14, <1>t, <2>0, WorkerFacts, SMT DEF Goes, Moved, PastFit, StagesFit, LookInTable, workVars, lookVars
  <2>w. WrittenFit'
    BY <1>14, <1>t, <1>n, <2>0, SMT DEF Goes, Moved, WrittenFit, LookInTable, workVars
  <2> QED BY <2>a, <2>f, <2>p, <2>w
<1>15. ASSUME NEW w \in Workers, FillCache(w)
      PROVE  TypeInv'
  <2>0. Goes(w, {"fill"}, {"done"})
    BY <1>15, Moves, Zenon
  <2>l. w \in Lookups /\ asked[w] \in Days
    BY <2>0, SMT DEF Goes, StagesFit, PastFit
  <2>1. pc' \in [Workers -> Stages]
    BY <1>t, <2>0, SMT DEF Goes, Moved, Stages, Draining
  <2>2. cache' \in [Days -> Columns]
    BY <1>15, <1>t, <2>l, SMT DEF FillCache
  <2>a. TypeOK'
    BY <1>15, <1>t, <2>1, <2>2, Zenon DEF FillCache, workVars, lookVars, queueVars, tableVars, lockVars, TypeOK
  <2>f. StagesFit'
    BY <1>15, <1>t, <2>0, WorkerFacts, SMT DEF Goes, Moved, StagesFit, Draining
  <2>p. PastFit'
    BY <1>15, <1>t, <2>0, WorkerFacts, SMT DEF Goes, Moved, PastFit, StagesFit, FillCache, workVars, lookVars
  <2>w. WrittenFit'
    BY <1>15, <1>t, <1>n, <2>0, SMT DEF Goes, Moved, WrittenFit, FillCache, workVars
  <2> QED BY <2>a, <2>f, <2>p, <2>w
<1>16. ASSUME NEW w \in Workers, LockTaken(w)
       PROVE  TypeInv'
  <2>0. /\ pc[w] = "lock"
        /\ \/ pc' = pc
           \/ pc' = [pc EXCEPT ![w] = "untick"] /\ w \in Tickers
           \/ pc' = [pc EXCEPT ![w] = "done"] /\ w \notin Tickers
    BY <1>16, LockTakenMoves, Zenon
  <2>b. \/ attempt[w] < LockAttempts /\ attempt' = [attempt EXCEPT ![w] = @ + 1]
        \/ attempt' = [attempt EXCEPT ![w] = 1]
    BY <1>16, LockTakenMoves, Zenon
  <2>1. pc' \in [Workers -> Stages]
    <3>1. pc' = pc \/ Moved(w, {"untick", "done"})
      BY <2>0, Zenon DEF Moved
    <3>2. {"untick", "done"} \subseteq Stages
      BY Zenon DEF Stages, Draining
    <3> QED BY <1>t, <3>1, <3>2, MovedIsStage, Zenon
  <2>2. attempt' \in [Workers -> 1..(IF LockAttempts > MaxRetries THEN LockAttempts
                                     ELSE MaxRetries)]
    <3>1. CASE attempt[w] < LockAttempts /\ attempt' = [attempt EXCEPT ![w] = @ + 1]
      BY <1>t, <3>1, BoundFacts, SMT
    <3>2. CASE attempt' = [attempt EXCEPT ![w] = 1]
      BY <1>t, <3>2, BoundFacts, SMT
    <3> QED BY <2>b, <3>1, <3>2, Zenon
  <2>a. TypeOK'
    BY <1>16, <1>t, <2>1, <2>2, Zenon DEF LockTaken, lookVars, queueVars, tableVars,
       lockVars, TypeOK
  <2>u. asked' = asked /\ seen' = seen /\ written' = written
    BY <1>16, Zenon DEF LockTaken, lookVars
  <2>f. StagesFit'
    BY <1>t, <2>0, SMT DEF StagesFit, Draining
  <2>p. PastFit'
    BY <1>t, <2>0, <2>u, WorkerFacts, SMT DEF PastFit
  <2>w. WrittenFit'
    BY <1>t, <2>0, <2>u, SMT DEF WrittenFit
  <2> QED BY <2>a, <2>f, <2>p, <2>w
<1>17. ASSUME NEW w \in Workers, Deadlock(w)
       PROVE  TypeInv'
  <2>0. pc[w] = "write" /\ (pc' = pc \/ pc' = [pc EXCEPT ![w] = "delete"])
    BY <1>17, DeadlockMoves, Zenon
  <2>b. \/ attempt[w] < MaxRetries /\ attempt' = [attempt EXCEPT ![w] = @ + 1]
        \/ attempt' = attempt
    BY <1>17, DeadlockMoves, Zenon
  <2>c. written' = written \/ written' = [written EXCEPT ![w] = 0]
    BY <1>17, DeadlockMoves, Zenon
  <2>1. pc' \in [Workers -> Stages]
    <3>1. pc' = pc \/ Moved(w, {"delete"})
      BY <2>0, Zenon DEF Moved
    <3>2. {"delete"} \subseteq Stages
      BY Zenon DEF Stages, Draining
    <3> QED BY <1>t, <3>1, <3>2, MovedIsStage, Zenon
  <2>2. attempt' \in [Workers -> 1..(IF LockAttempts > MaxRetries THEN LockAttempts
                                     ELSE MaxRetries)]
    <3>1. CASE attempt[w] < MaxRetries /\ attempt' = [attempt EXCEPT ![w] = @ + 1]
      BY <1>t, <3>1, BoundFacts, SMT
    <3>2. CASE attempt' = attempt
      BY <1>t, <3>2, BoundFacts, SMT
    <3> QED BY <2>b, <3>1, <3>2, Zenon
  <2>3. written' \in [Workers -> Nat]
    BY <1>t, <2>c, SMT
  <2>4. broken' \in BOOLEAN
    BY <1>17, DeadlockMoves, Zenon DEF TypeOK
  <2>a. TypeOK'
    BY <1>17, <1>t, <2>1, <2>2, <2>3, <2>4, Zenon DEF Deadlock, lookVars, queueVars,
       tableVars, lockVars, TypeOK
  <2>f. StagesFit'
    BY <1>t, <2>0, SMT DEF StagesFit, Draining
  <2>u. asked' = asked /\ seen' = seen
    BY <1>17, Zenon DEF Deadlock, lookVars
  <2>p. PastFit'
    BY <1>t, <2>0, <2>u, WorkerFacts, SMT DEF PastFit
  <2>w. WrittenFit'
    <3>1. CASE written' = written
      BY <1>t, <2>0, <2>u, <3>1, SMT DEF WrittenFit
    <3>2. CASE written' = [written EXCEPT ![w] = 0]
      BY <1>t, <1>n, <2>0, <2>u, <3>2, SMT DEF WrittenFit
    <3> QED BY <2>c, <3>1, <3>2, Zenon
  <2> QED BY <2>a, <2>f, <2>p, <2>w
<1>18. ASSUME NEW w \in Workers, DrainFails(w)
       PROVE  TypeInv'
  <2>0. \/ pc[w] = "read" /\ pc' = [pc EXCEPT ![w] = "unlock"]
        \/ pc[w] = "write" /\ pc' = [pc EXCEPT ![w] = "delete"]
        \/ pc[w] = "delete" /\ pc' = [pc EXCEPT ![w] = "unmark"]
        \/ pc[w] = "unmark" /\ pc' = [pc EXCEPT ![w] = "unlock"]
        \/ pc[w] = "unlock" /\ w \in Tickers /\ pc' = [pc EXCEPT ![w] = "untick"]
        \/ pc[w] = "unlock" /\ w \notin Tickers /\ pc' = [pc EXCEPT ![w] = "done"]
    BY <1>18, DrainFailsMoves, Zenon
  <2>1. pc' \in [Workers -> Stages]
    <3>1. pc' = pc \/ Moved(w, {"unlock", "delete", "unmark", "untick", "done"})
      BY <2>0, Zenon DEF Moved
    <3>2. {"unlock", "delete", "unmark", "untick", "done"} \subseteq Stages
      BY Zenon DEF Stages, Draining
    <3> QED BY <1>t, <3>1, <3>2, MovedIsStage, Zenon
  <2>2. faults' \in Nat /\ broken' \in BOOLEAN
    <3>1. faults' = faults + 1 /\ broken' = TRUE
      BY <1>18, Zenon DEF DrainFails, Fault
    <3> QED BY <1>t, <3>1, SMT
  <2>a. TypeOK'
    BY <1>18, <1>t, <2>1, <2>2, Zenon DEF DrainFails, workVars, lookVars, queueVars,
       tableVars, lockVars, TypeOK
  <2>u. asked' = asked /\ seen' = seen /\ written' = written
    BY <1>18, Zenon DEF DrainFails, workVars, lookVars
  <2>f. StagesFit'
    BY <1>t, <2>0, WorkerFacts, SMT DEF StagesFit, Draining
  <2>p. PastFit'
    BY <1>t, <2>0, <2>u, WorkerFacts, SMT DEF PastFit
  <2>w. WrittenFit'
    BY <1>t, <2>0, <2>u, SMT DEF WrittenFit
  <2> QED BY <2>a, <2>f, <2>p, <2>w
<1>19. ASSUME NEW w \in Workers, Unlock(w)
       PROVE  TypeInv'
  <2>0. /\ pc[w] = "unlock"
        /\ \/ w \in Tickers /\ pc' = [pc EXCEPT ![w] = "untick"]
           \/ w \notin Tickers /\ pc' = [pc EXCEPT ![w] = "done"]
    BY <1>19, UnlockMoves, Zenon
  <2>1. pc' \in [Workers -> Stages]
    <3>1. pc' = pc \/ Moved(w, {"untick", "done"})
      BY <2>0, Zenon DEF Moved
    <3>2. {"untick", "done"} \subseteq Stages
      BY Zenon DEF Stages, Draining
    <3> QED BY <1>t, <3>1, <3>2, MovedIsStage, Zenon
  <2>2. attempt' \in [Workers -> 1..(IF LockAttempts > MaxRetries THEN LockAttempts
                                     ELSE MaxRetries)]
    BY <1>19, <1>t, BoundFacts, SMT DEF Unlock
  <2>3. seen' \in [Workers -> Seq(Entry)] /\ written' \in [Workers -> Nat]
    BY <1>19, <1>t, EmptySeq, SMT DEF Unlock
  <2>4. holder' \in [LockKeys -> Workers \cup {Free}] /\ overruns' \in Nat
    BY <1>19, <1>t, SMT DEF Unlock, ReleaseLock, LockKeys, QueueLock, TickLock
  <2>a. TypeOK'
    BY <1>19, <1>t, <2>1, <2>2, <2>3, <2>4, Zenon DEF Unlock, lookVars, queueVars,
       tableVars, TypeOK
  <2>u. /\ asked' = asked
        /\ seen' = [seen EXCEPT ![w] = <<>>] /\ written' = [written EXCEPT ![w] = 0]
    BY <1>19, Zenon DEF Unlock, lookVars
  <2>f. StagesFit'
    BY <1>t, <2>0, WorkerFacts, SMT DEF StagesFit, Draining
  <2>p. PastFit'
    BY <1>t, <2>0, <2>u, WorkerFacts, SMT DEF PastFit
  <2>w. WrittenFit'
    BY <1>t, <2>0, <2>u, SMT DEF WrittenFit
  <2> QED BY <2>a, <2>f, <2>p, <2>w
<1>20. ASSUME NEW w \in Workers, Crash(w)
       PROVE  TypeInv'
  <2>0. \/ w \in Tickers /\ pc' = [pc EXCEPT ![w] = "idle"]
        \/ w \notin Tickers /\ pc' = [pc EXCEPT ![w] = "lost"]
    BY <1>20, CrashMoves, Zenon
  <2>1. pc' \in [Workers -> Stages]
    <3>1. pc' = pc \/ Moved(w, {"idle", "lost"})
      BY <2>0, Zenon DEF Moved
    <3>2. {"idle", "lost"} \subseteq Stages
      BY Zenon DEF Stages, Draining
    <3> QED BY <1>t, <3>1, <3>2, MovedIsStage, Zenon
  <2>2. attempt' \in [Workers -> 1..(IF LockAttempts > MaxRetries THEN LockAttempts
                                     ELSE MaxRetries)]
    BY <1>20, <1>t, BoundFacts, SMT DEF Crash
  <2>3. seen' \in [Workers -> Seq(Entry)] /\ written' \in [Workers -> Nat]
    BY <1>20, <1>t, EmptySeq, SMT DEF Crash
  <2>4. /\ todo' \in [Workers -> SUBSET [day : Days, price : Prices]]
        /\ piped' \in [Workers -> SUBSET Entry]
    BY <1>20, <1>t, SMT DEF Crash
  <2>5. faults' \in Nat /\ broken' \in BOOLEAN
    <3>1. faults' = faults + 1 /\ broken' = TRUE
      BY <1>20, Zenon DEF Crash, Fault
    <3> QED BY <1>t, <3>1, SMT
  <2>a. TypeOK'
    BY <1>20, <1>t, <2>1, <2>2, <2>3, <2>4, <2>5, Zenon DEF Crash, lookVars, queueVars,
       tableVars, lockVars, TypeOK
  <2>u. /\ asked' = asked
        /\ seen' = [seen EXCEPT ![w] = <<>>] /\ written' = [written EXCEPT ![w] = 0]
    BY <1>20, Zenon DEF Crash, lookVars
  <2>f. StagesFit'
    BY <1>t, <2>0, WorkerFacts, SMT DEF StagesFit, Draining
  <2>p. PastFit'
    BY <1>t, <2>0, <2>u, WorkerFacts, SMT DEF PastFit
  <2>w. WrittenFit'
    BY <1>t, <2>0, <2>u, SMT DEF WrittenFit
  <2> QED BY <2>a, <2>f, <2>p, <2>w
<1>21. ASSUME NEW d \in Days, ExpirePrice(d)
       PROVE  TypeInv'
  <2>1. cache' \in [Days -> Columns] /\ faults' \in Nat
    BY <1>21, <1>t, SMT DEF ExpirePrice, Fault, Columns
  <2>a. TypeOK'
    BY <1>21, <1>t, <2>1, Zenon DEF ExpirePrice, workVars, lookVars, queueVars, tableVars,
       lockVars, TypeOK
  <2>u. pc' = pc /\ asked' = asked /\ seen' = seen /\ written' = written
    BY <1>21, Zenon DEF ExpirePrice, workVars, lookVars
  <2> QED BY <2>a, <2>u, Zenon DEF StagesFit, PastFit, WrittenFit
<1>22. ASSUME NEW l \in LockKeys, Expire(l)
       PROVE  TypeInv'
  <2>1. holder' \in [LockKeys -> Workers \cup {Free}] /\ overruns' \in Nat
    BY <1>22, <1>t, SMT DEF Expire, ExpireLock
  <2>a. TypeOK'
    BY <1>22, <1>t, <2>1, Zenon DEF Expire, workVars, lookVars, queueVars, tableVars,
       TypeOK
  <2>u. pc' = pc /\ asked' = asked /\ seen' = seen /\ written' = written
    BY <1>22, Zenon DEF Expire, workVars, lookVars
  <2> QED BY <2>a, <2>u, Zenon DEF StagesFit, PastFit, WrittenFit
<1>23. ASSUME vars' = vars
       PROVE  TypeInv'
  BY <1>23, Zenon DEF vars, workVars, lookVars, queueVars, tableVars, lockVars, TypeOK,
     StagesFit, PastFit, WrittenFit, Upto
<1> QED BY <1>1, <1>2, <1>3, <1>4, <1>5, <1>6, <1>7, <1>8, <1>9, <1>10, <1>11, <1>12, <1>13,
           <1>14, <1>15, <1>16, <1>17, <1>18, <1>19, <1>20, <1>21, <1>22, <1>23, Steps, Zenon

-----------------------------------------------------------------------------
(* The invariants behind the properties.                                   *)

\* Unless something has failed, a marked day has an entry in the list, but between
\* the two deletions of a drain.
MarksInv ==
    ~broken /\ (\A w \in Workers : pc[w] # "unmark") =>
        \A d \in marks : \E i \in DOMAIN queue : queue[i].day = d

\* Some call has that price to save.
IsSaved(d, p) == \E s \in Savers : [day |-> d, price |-> p] \in Elems(Saves[s])

\* The prices of the current day that a save has in hand, that are cached and that
\* a lookup has found are ones to save; a row stays a row, and what is found for a
\* past day is not nothing.
LookInv ==
    /\ \A s \in Savers : todo[s] \subseteq Elems(Saves[s])
    /\ \A d \in Today : cache[d] # None => IsSaved(d, cache[d])
    /\ \A d \in Days : InitTable[d] # None => table[d] # None
    /\ \A l \in Lookups :
          /\ asked[l] \in Today /\ found[l] # None => IsSaved(asked[l], found[l])
          /\ pc[l] = "fill" => found[l] # None
          /\ pc[l] = "done" /\ asked[l] \in Days \ Today /\ InitTable[asked[l]] # None =>
                found[l] # None

\* As long as the lock has not run out under a drain, a drain holds it.
LockInv ==
    /\ overruns <= MaxOverruns
    /\ overruns = 0 => \A w \in Workers : Drains(w) => holder[QueueLock] = w

Writes(w) == pc[w] \in {"write", "delete"}

\* The price of an entry after which no other one of its day is written is in the table.
LastAreRows(w) ==
    \A i \in 1..written[w] :
        (\A k \in 1..written[w] : k > i => seen[w][k].day # seen[w][i].day) =>
            table[seen[w][i].day] = seen[w][i].price

\* The list begins with what the drain has read; the entries written so far are stored,
\* the last one of each day in the table; and before the list is deleted all are written.
OnTrack(w) ==
    /\ Len(seen[w]) <= Len(queue)
    /\ \A i \in 1..Len(seen[w]) : queue[i] = seen[w][i]
    /\ ~broken =>
          /\ \A i \in 1..written[w] : seen[w][i] \in stored
          /\ LastAreRows(w)
          /\ pc[w] = "delete" => written[w] = Len(seen[w])

WriteInv == overruns = 0 => \A w \in Workers : Writes(w) => OnTrack(w)

IInv == TypeInv /\ MarksInv /\ LookInv /\ LockInv /\ WriteInv

-----------------------------------------------------------------------------
(* The marks.                                                              *)

\* What leaves the list, the marks and the workers between the deletions alone.
LEMMA MarksHold ==
    ASSUME MarksInv, queue' = queue, marks' = marks, broken' = broken,
           \A x \in Workers : pc[x] = "unmark" => pc'[x] = "unmark"
    PROVE  MarksInv'
BY Zenon DEF MarksInv

LEMMA MarksKept ==
    ASSUME TypeInv, MarksInv, [Next]_vars
    PROVE  MarksInv'
<1>t. /\ pc \in [Workers -> Stages] /\ queue \in Seq(Entry)
      /\ piped \in [Workers -> SUBSET Entry]
  BY Zenon DEF TypeInv, TypeOK
<1>1. ASSUME NEW w \in Workers, CheckMarks(w)
      PROVE  MarksInv'
  <2>1. queue' = queue /\ marks' = marks /\ broken' = broken
    BY <1>1, Zenon DEF CheckMarks, queueVars
  <2>2. Goes(w, {"idle"}, {"done", "cache"})
    BY <1>1, Moves, Zenon
  <2>3. \A x \in Workers : pc[x] = "unmark" => pc'[x] = "unmark"
    BY <1>t, <2>2, SMT DEF Goes, Moved
  <2> QED BY <2>1, <2>3, MarksHold
<1>2. ASSUME NEW w \in Workers, CachePrice(w)
      PROVE  MarksInv'
  <2>1. queue' = queue /\ marks' = marks /\ broken' = broken
    BY <1>2, Zenon DEF CachePrice, queueVars
  <2>2. Goes(w, {"cache"}, {"cache", "push", "length"})
    BY <1>2, Moves, Zenon
  <2>3. \A x \in Workers : pc[x] = "unmark" => pc'[x] = "unmark"
    BY <1>t, <2>2, SMT DEF Goes, Moved
  <2> QED BY <2>1, <2>3, MarksHold
<1>3. ASSUME NEW w \in Workers, CheckLength(w)
      PROVE  MarksInv'
  <2>1. queue' = queue /\ marks' = marks /\ broken' = broken
    BY <1>3, Zenon DEF CheckLength, queueVars
  <2>2. Goes(w, {"length"}, {"lock", "done"})
    BY <1>3, Moves, Zenon
  <2>3. \A x \in Workers : pc[x] = "unmark" => pc'[x] = "unmark"
    BY <1>t, <2>2, SMT DEF Goes, Moved
  <2> QED BY <2>1, <2>3, MarksHold
<1>4. ASSUME NEW w \in Workers, Tick(w)
      PROVE  MarksInv'
  <2>1. queue' = queue /\ marks' = marks /\ broken' = broken
    BY <1>4, Zenon DEF Tick, queueVars
  <2>2. Goes(w, {"idle"}, {"lock"})
    BY <1>4, Moves, Zenon
  <2>3. \A x \in Workers : pc[x] = "unmark" => pc'[x] = "unmark"
    BY <1>t, <2>2, SMT DEF Goes, Moved
  <2> QED BY <2>1, <2>3, MarksHold
<1>5. ASSUME NEW w \in Workers, EndTick(w)
      PROVE  MarksInv'
  <2>1. queue' = queue /\ marks' = marks /\ broken' = broken
    BY <1>5, Zenon DEF EndTick, queueVars
  <2>2. Goes(w, {"untick"}, {"idle"})
    BY <1>5, Moves, Zenon
  <2>3. \A x \in Workers : pc[x] = "unmark" => pc'[x] = "unmark"
    BY <1>t, <2>2, SMT DEF Goes, Moved
  <2> QED BY <2>1, <2>3, MarksHold
<1>6. ASSUME NEW w \in Workers, Lock(w)
      PROVE  MarksInv'
  <2>1. queue' = queue /\ marks' = marks /\ broken' = broken
    BY <1>6, Zenon DEF Lock, queueVars
  <2>2. Goes(w, {"lock"}, {"read"})
    BY <1>6, Moves, Zenon
  <2>3. \A x \in Workers : pc[x] = "unmark" => pc'[x] = "unmark"
    BY <1>t, <2>2, SMT DEF Goes, Moved
  <2> QED BY <2>1, <2>3, MarksHold
<1>7. ASSUME NEW w \in Workers, ReadQueue(w)
      PROVE  MarksInv'
  <2>1. queue' = queue /\ marks' = marks /\ broken' = broken
    BY <1>7, Zenon DEF ReadQueue, queueVars
  <2>2. Goes(w, {"read"}, {"unlock", "write"})
    BY <1>7, Moves, Zenon
  <2>3. \A x \in Workers : pc[x] = "unmark" => pc'[x] = "unmark"
    BY <1>t, <2>2, SMT DEF Goes, Moved
  <2> QED BY <2>1, <2>3, MarksHold
<1>8. ASSUME NEW w \in Workers, WriteBatch(w)
      PROVE  MarksInv'
  <2>1. queue' = queue /\ marks' = marks /\ broken' = broken
    BY <1>8, Zenon DEF WriteBatch, queueVars
  <2>2. Goes(w, {"write"}, {"delete", "write"})
    BY <1>8, Moves, Zenon
  <2>3. \A x \in Workers : pc[x] = "unmark" => pc'[x] = "unmark"
    BY <1>t, <2>2, SMT DEF Goes, Moved
  <2> QED BY <2>1, <2>3, MarksHold
<1>9. ASSUME NEW w \in Workers, LookInCache(w)
      PROVE  MarksInv'
  <2>1. queue' = queue /\ marks' = marks /\ broken' = broken
    BY <1>9, Zenon DEF LookInCache, queueVars
  <2>2. Goes(w, {"idle"}, {"done", "table"})
    BY <1>9, Moves, Zenon
  <2>3. \A x \in Workers : pc[x] = "unmark" => pc'[x] = "unmark"
    BY <1>t, <2>2, SMT DEF Goes, Moved
  <2> QED BY <2>1, <2>3, MarksHold
<1>10. ASSUME NEW w \in Workers, LookInTable(w)
      PROVE  MarksInv'
  <2>1. queue' = queue /\ marks' = marks /\ broken' = broken
    BY <1>10, Zenon DEF LookInTable, queueVars
  <2>2. Goes(w, {"table"}, {"done", "fill", "failed"})
    BY <1>10, Moves, Zenon
  <2>3. \A x \in Workers : pc[x] = "unmark" => pc'[x] = "unmark"
    BY <1>t, <2>2, SMT DEF Goes, Moved
  <2> QED BY <2>1, <2>3, MarksHold
<1>11. ASSUME NEW w \in Workers, FillCache(w)
      PROVE  MarksInv'
  <2>1. queue' = queue /\ marks' = marks /\ broken' = broken
    BY <1>11, Zenon DEF FillCache, queueVars
  <2>2. Goes(w, {"fill"}, {"done"})
    BY <1>11, Moves, Zenon
  <2>3. \A x \in Workers : pc[x] = "unmark" => pc'[x] = "unmark"
    BY <1>t, <2>2, SMT DEF Goes, Moved
  <2> QED BY <2>1, <2>3, MarksHold
<1>12. ASSUME NEW w \in Workers, PushPrice(w)
      PROVE  MarksInv'
  <2>1. PICK e \in piped[w] : marks' = marks \cup {e.day} /\ queue' = Append(queue, e)
    BY <1>12, Zenon DEF PushPrice
  <2>2. e \in Entry
    BY <1>t, <2>1, Zenon
  <2>3. broken' = broken
    BY <1>12, Zenon DEF PushPrice
  <2>4. Goes(w, {"push"}, {"push", "length"})
    BY <1>12, Moves, Zenon
  <2>5. \A x \in Workers : pc[x] = "unmark" => pc'[x] = "unmark"
    BY <1>t, <2>4, SMT DEF Goes, Moved
  <2>6. /\ Len(queue) \in Nat /\ DOMAIN queue = 1..Len(queue)
        /\ DOMAIN queue' = 1..(Len(queue) + 1)
        /\ queue'[Len(queue) + 1] = e /\ \A i \in 1..Len(queue) : queue'[i] = queue[i]
    BY <1>t, <2>1, <2>2, AppendProperties, LenProperties
  <2>7. \A i \in DOMAIN queue : i \in DOMAIN queue' /\ queue'[i] = queue[i]
    BY <2>6, SMT
  <2>8. Len(queue) + 1 \in DOMAIN queue' /\ queue'[Len(queue) + 1] = e
    BY <2>6, SMT
  <2> QED BY <2>1, <2>3, <2>5, <2>7, <2>8, SMT DEF MarksInv
<1>13. ASSUME NEW w \in Workers, LockTaken(w)
      PROVE  MarksInv'
  <2>1. queue' = queue /\ marks' = marks /\ broken' = broken
    BY <1>13, Zenon DEF LockTaken, queueVars
  <2>2. pc[w] = "lock" /\ (pc' = pc \/ Moved(w, Ends))
    BY <1>13, LockTakenMoves, Zenon DEF Moved, Ends
  <2>3. \A x \in Workers : pc[x] = "unmark" => pc'[x] = "unmark"
    BY <1>t, <2>2, SMT DEF Moved, Ends
  <2> QED BY <2>1, <2>3, MarksHold
<1>14. ASSUME NEW w \in Workers, Deadlock(w)
      PROVE  MarksInv'
  <2>1. queue' = queue /\ marks' = marks
    BY <1>14, Zenon DEF Deadlock, queueVars
  <2>2. CASE broken' = TRUE
    BY <2>2, Zenon DEF MarksInv
  <2>3. CASE pc' = pc /\ broken' = broken
    BY <2>1, <2>3, MarksHold
  <2> QED BY <1>14, <2>2, <2>3, DeadlockMoves, Zenon
<1>15. ASSUME NEW w \in Workers, DeleteList(w)
      PROVE  MarksInv'
  <2>1. pc' = [pc EXCEPT ![w] = "unmark"]
    BY <1>15, Zenon DEF DeleteList, Goto
  <2>2. pc'[w] = "unmark"
    BY <1>t, <2>1, SMT
  <2> QED BY <2>2, Zenon DEF MarksInv
<1>16. ASSUME NEW w \in Workers, DeleteMarks(w)
      PROVE  MarksInv'
  BY <1>16, Zenon DEF MarksInv, DeleteMarks
<1>17. ASSUME NEW w \in Workers, Unlock(w)
      PROVE  MarksInv'
  <2>1. queue' = queue /\ marks' = marks /\ broken' = broken
    BY <1>17, Zenon DEF Unlock, queueVars
  <2>2. pc[w] = "unlock" /\ Moved(w, Ends)
    BY <1>17, UnlockMoves, Zenon DEF Moved, Ends
  <2>3. \A x \in Workers : pc[x] = "unmark" => pc'[x] = "unmark"
    BY <1>t, <2>2, SMT DEF Moved, Ends
  <2> QED BY <2>1, <2>3, MarksHold
<1>18. ASSUME NEW w \in Workers, SaveFails(w) \/ DrainFails(w) \/ Crash(w)
      PROVE  MarksInv'
  <2>1. broken' = TRUE
    BY <1>18, Zenon DEF SaveFails, DrainFails, Crash
  <2> QED BY <2>1, Zenon DEF MarksInv
<1>19. ASSUME NEW d \in Days, ExpirePrice(d)
      PROVE  MarksInv'
  <2>1. pc' = pc /\ queue' = queue /\ marks' = marks /\ broken' = broken
    BY <1>19, Zenon DEF ExpirePrice, queueVars
  <2> QED BY <2>1, MarksHold
<1>20. ASSUME NEW l \in LockKeys, Expire(l)
      PROVE  MarksInv'
  <2>1. pc' = pc /\ queue' = queue /\ marks' = marks /\ broken' = broken
    BY <1>20, Zenon DEF Expire, queueVars
  <2> QED BY <2>1, MarksHold
<1>21. ASSUME vars' = vars
      PROVE  MarksInv'
  <2>1. pc' = pc /\ queue' = queue /\ marks' = marks /\ broken' = broken
    BY <1>21, Zenon DEF vars, queueVars
  <2> QED BY <2>1, MarksHold
<1>w. ASSUME NEW w \in Workers,
             \/ CheckMarks(w) \/ CachePrice(w) \/ PushPrice(w) \/ CheckLength(w)
             \/ SaveFails(w) \/ Tick(w) \/ EndTick(w) \/ Lock(w) \/ LockTaken(w)
             \/ ReadQueue(w) \/ WriteBatch(w) \/ Deadlock(w) \/ DrainFails(w)
             \/ DeleteList(w) \/ DeleteMarks(w) \/ Unlock(w)
             \/ LookInCache(w) \/ LookInTable(w) \/ FillCache(w) \/ Crash(w)
      PROVE  MarksInv'
  BY <1>w, <1>1, <1>2, <1>3, <1>4, <1>5, <1>6, <1>7, <1>8, <1>9, <1>10, <1>11, <1>12, <1>13, <1>14, <1>15, <1>16, <1>17, <1>18, Zenon
<1> QED BY <1>w, <1>19, <1>20, <1>21, Steps, Zenon

-----------------------------------------------------------------------------
(* What lookups find.                                                      *)

\* What leaves prices, rows and lookups alone.
LEMMA LookHold ==
    ASSUME LookInv, todo' = todo, cache' = cache, table' = table, asked' = asked,
           found' = found,
           \A l \in Lookups : pc'[l] \in {"fill", "done"} => pc[l] = pc'[l]
    PROVE  LookInv'
<1>1. \A l \in Lookups :
         /\ pc'[l] = "fill" => pc[l] = "fill"
         /\ pc'[l] = "done" => pc[l] = "done"
  BY Zenon
<1> QED BY <1>1, Zenon DEF LookInv, IsSaved

LEMMA LookKept ==
    ASSUME TypeInv, LookInv, [Next]_vars
    PROVE  LookInv'
<1>t. /\ pc \in [Workers -> Stages] /\ todo \in [Workers -> SUBSET [day : Days, price : Prices]]
      /\ cache \in [Days -> Columns] /\ table \in [Days -> Columns]
      /\ asked \in [Lookups -> Days \cup {None}] /\ found \in [Lookups -> Columns]
      /\ seen \in [Workers -> Seq(Entry)] /\ written \in [Workers -> Nat]
  BY Zenon DEF TypeInv, TypeOK
<1>f. StagesFit /\ PastFit /\ WrittenFit
  BY Zenon DEF TypeInv
<1>i. /\ \A s \in Savers : todo[s] \subseteq Elems(Saves[s])
      /\ \A d \in Today : cache[d] # None => IsSaved(d, cache[d])
      /\ \A d \in Days : InitTable[d] # None => table[d] # None
      /\ \A l \in Lookups :
            /\ asked[l] \in Today /\ found[l] # None => IsSaved(asked[l], found[l])
            /\ pc[l] = "fill" => found[l] # None
            /\ pc[l] = "done" /\ asked[l] \in Days \ Today /\ InitTable[asked[l]] # None =>
                  found[l] # None
  BY Zenon DEF LookInv
<1>p. None \notin Prices /\ Today \subseteq Days
  BY PriceAssumption, Zenon
<1>1. ASSUME NEW w \in Workers, PushPrice(w)
      PROVE  LookInv'
  <2>1. todo' = todo /\ cache' = cache /\ table' = table /\ asked' = asked /\ found' = found
    BY <1>1, Zenon DEF PushPrice, workVars, lookVars, tableVars
  <2>2. Goes(w, {"push"}, {"push", "length"})
    BY <1>1, Moves, Zenon
  <2>3. w \notin Lookups
    BY <1>f, <2>2, WorkerFacts, SMT DEF StagesFit, Goes, Draining
  <2>4. \A l \in Lookups : pc'[l] = pc[l]
    BY <1>t, <2>2, <2>3, WorkerFacts, SMT DEF Goes, Moved
  <2> QED BY <2>1, <2>4, LookHold, Zenon
<1>2. ASSUME NEW w \in Workers, CheckLength(w)
      PROVE  LookInv'
  <2>1. todo' = todo /\ cache' = cache /\ table' = table /\ asked' = asked /\ found' = found
    BY <1>2, Zenon DEF CheckLength, workVars, lookVars, tableVars
  <2>2. Goes(w, {"length"}, {"lock", "done"})
    BY <1>2, Moves, Zenon
  <2>3. w \notin Lookups
    BY <1>f, <2>2, WorkerFacts, SMT DEF StagesFit, Goes, Draining
  <2>4. \A l \in Lookups : pc'[l] = pc[l]
    BY <1>t, <2>2, <2>3, WorkerFacts, SMT DEF Goes, Moved
  <2> QED BY <2>1, <2>4, LookHold, Zenon
<1>3. ASSUME NEW w \in Workers, Tick(w)
      PROVE  LookInv'
  <2>1. todo' = todo /\ cache' = cache /\ table' = table /\ asked' = asked /\ found' = found
    BY <1>3, Zenon DEF Tick, workVars, lookVars, tableVars
  <2>2. Goes(w, {"idle"}, {"lock"})
    BY <1>3, Moves, Zenon
  <2>3. w \notin Lookups
    BY <1>3, WorkerFacts, Zenon DEF Tick
  <2>4. \A l \in Lookups : pc'[l] = pc[l]
    BY <1>t, <2>2, <2>3, WorkerFacts, SMT DEF Goes, Moved
  <2> QED BY <2>1, <2>4, LookHold, Zenon
<1>4. ASSUME NEW w \in Workers, EndTick(w)
      PROVE  LookInv'
  <2>1. todo' = todo /\ cache' = cache /\ table' = table /\ asked' = asked /\ found' = found
    BY <1>4, Zenon DEF EndTick, workVars, lookVars, tableVars
  <2>2. Goes(w, {"untick"}, {"idle"})
    BY <1>4, Moves, Zenon
  <2>3. w \notin Lookups
    BY <1>f, <2>2, WorkerFacts, SMT DEF StagesFit, Goes, Draining
  <2>4. \A l \in Lookups : pc'[l] = pc[l]
    BY <1>t, <2>2, <2>3, WorkerFacts, SMT DEF Goes, Moved
  <2> QED BY <2>1, <2>4, LookHold, Zenon
<1>5. ASSUME NEW w \in Workers, Lock(w)
      PROVE  LookInv'
  <2>1. todo' = todo /\ cache' = cache /\ table' = table /\ asked' = asked /\ found' = found
    BY <1>5, Zenon DEF Lock, workVars, lookVars, tableVars
  <2>2. Goes(w, {"lock"}, {"read"})
    BY <1>5, Moves, Zenon
  <2>3. w \notin Lookups
    BY <1>f, <2>2, WorkerFacts, SMT DEF StagesFit, Goes, Draining
  <2>4. \A l \in Lookups : pc'[l] = pc[l]
    BY <1>t, <2>2, <2>3, WorkerFacts, SMT DEF Goes, Moved
  <2> QED BY <2>1, <2>4, LookHold, Zenon
<1>6. ASSUME NEW w \in Workers, ReadQueue(w)
      PROVE  LookInv'
  <2>1. todo' = todo /\ cache' = cache /\ table' = table /\ asked' = asked /\ found' = found
    BY <1>6, Zenon DEF ReadQueue, workVars, lookVars, tableVars
  <2>2. Goes(w, {"read"}, {"unlock", "write"})
    BY <1>6, Moves, Zenon
  <2>3. w \notin Lookups
    BY <1>f, <2>2, WorkerFacts, SMT DEF StagesFit, Goes, Draining
  <2>4. \A l \in Lookups : pc'[l] = pc[l]
    BY <1>t, <2>2, <2>3, WorkerFacts, SMT DEF Goes, Moved
  <2> QED BY <2>1, <2>4, LookHold, Zenon
<1>7. ASSUME NEW w \in Workers, DeleteList(w)
      PROVE  LookInv'
  <2>1. todo' = todo /\ cache' = cache /\ table' = table /\ asked' = asked /\ found' = found
    BY <1>7, Zenon DEF DeleteList, workVars, lookVars, tableVars
  <2>2. Goes(w, {"delete"}, {"unmark"})
    BY <1>7, Moves, Zenon
  <2>3. w \notin Lookups
    BY <1>f, <2>2, WorkerFacts, SMT DEF StagesFit, Goes, Draining
  <2>4. \A l \in Lookups : pc'[l] = pc[l]
    BY <1>t, <2>2, <2>3, WorkerFacts, SMT DEF Goes, Moved
  <2> QED BY <2>1, <2>4, LookHold, Zenon
<1>8. ASSUME NEW w \in Workers, DeleteMarks(w)
      PROVE  LookInv'
  <2>1. todo' = todo /\ cache' = cache /\ table' = table /\ asked' = asked /\ found' = found
    BY <1>8, Zenon DEF DeleteMarks, workVars, lookVars, tableVars
  <2>2. Goes(w, {"unmark"}, {"unlock"})
    BY <1>8, Moves, Zenon
  <2>3. w \notin Lookups
    BY <1>f, <2>2, WorkerFacts, SMT DEF StagesFit, Goes, Draining
  <2>4. \A l \in Lookups : pc'[l] = pc[l]
    BY <1>t, <2>2, <2>3, WorkerFacts, SMT DEF Goes, Moved
  <2> QED BY <2>1, <2>4, LookHold, Zenon
<1>9. ASSUME NEW w \in Workers, SaveFails(w)
      PROVE  LookInv'
  <2>1. todo' = todo /\ cache' = cache /\ table' = table /\ asked' = asked /\ found' = found
    BY <1>9, Zenon DEF SaveFails, lookVars, tableVars
  <2>2. Goes(w, {"push", "length"}, {"done"})
    BY <1>9, Moves, Zenon
  <2>3. w \notin Lookups
    BY <1>f, <2>2, WorkerFacts, SMT DEF StagesFit, Goes
  <2>4. \A l \in Lookups : pc'[l] = pc[l]
    BY <1>t, <2>2, <2>3, WorkerFacts, SMT DEF Goes, Moved
  <2> QED BY <2>1, <2>4, LookHold, Zenon
<1>10. ASSUME NEW w \in Workers, LockTaken(w)
      PROVE  LookInv'
  <2>1. todo' = todo /\ cache' = cache /\ table' = table /\ asked' = asked /\ found' = found
    BY <1>10, Zenon DEF LockTaken, lookVars, tableVars
  <2>2. pc[w] = "lock" /\ (pc' = pc \/ \E s \in Stages : pc' = [pc EXCEPT ![w] = s])
    BY <1>10, LockTakenMoves, Zenon DEF Stages, Draining
  <2>3. w \notin Lookups
    BY <1>f, <2>2, WorkerFacts, SMT DEF StagesFit, Draining
  <2>4. \A l \in Lookups : pc'[l] = pc[l]
    BY <1>t, <2>2, <2>3, WorkerFacts, SMT
  <2> QED BY <2>1, <2>4, LookHold, Zenon
<1>11. ASSUME NEW w \in Workers, Deadlock(w)
      PROVE  LookInv'
  <2>1. todo' = todo /\ cache' = cache /\ table' = table /\ asked' = asked /\ found' = found
    BY <1>11, Zenon DEF Deadlock, lookVars, tableVars
  <2>2. pc[w] = "write" /\ (pc' = pc \/ \E s \in Stages : pc' = [pc EXCEPT ![w] = s])
    BY <1>11, DeadlockMoves, Zenon DEF Stages, Draining
  <2>3. w \notin Lookups
    BY <1>f, <2>2, WorkerFacts, SMT DEF StagesFit, Draining
  <2>4. \A l \in Lookups : pc'[l] = pc[l]
    BY <1>t, <2>2, <2>3, WorkerFacts, SMT
  <2> QED BY <2>1, <2>4, LookHold, Zenon
<1>12. ASSUME NEW w \in Workers, Unlock(w)
      PROVE  LookInv'
  <2>1. todo' = todo /\ cache' = cache /\ table' = table /\ asked' = asked /\ found' = found
    BY <1>12, Zenon DEF Unlock, lookVars, tableVars
  <2>2. pc[w] = "unlock" /\ (pc' = pc \/ \E s \in Stages : pc' = [pc EXCEPT ![w] = s])
    BY <1>12, UnlockMoves, Zenon DEF Stages, Draining
  <2>3. w \notin Lookups
    BY <1>f, <2>2, WorkerFacts, SMT DEF StagesFit, Draining
  <2>4. \A l \in Lookups : pc'[l] = pc[l]
    BY <1>t, <2>2, <2>3, WorkerFacts, SMT
  <2> QED BY <2>1, <2>4, LookHold, Zenon
<1>13. ASSUME NEW w \in Workers, DrainFails(w)
      PROVE  LookInv'
  <2>1. todo' = todo /\ cache' = cache /\ table' = table /\ asked' = asked /\ found' = found
    BY <1>13, Zenon DEF DrainFails, workVars, lookVars, tableVars
  <2>2. pc[w] \in Draining /\ \E s \in Stages : pc' = [pc EXCEPT ![w] = s]
    BY <1>13, DrainFailsMoves, Zenon DEF Stages, Draining
  <2>3. w \notin Lookups
    BY <1>f, <2>2, WorkerFacts, Zenon DEF StagesFit
  <2>4. \A l \in Lookups : pc'[l] = pc[l]
    BY <1>t, <2>2, <2>3, WorkerFacts, SMT
  <2> QED BY <2>1, <2>4, LookHold, Zenon
<1>14. ASSUME NEW w \in Workers, CheckMarks(w)
      PROVE  LookInv'
  <2>1. cache' = cache /\ table' = table /\ asked' = asked /\ found' = found
    BY <1>14, Zenon DEF CheckMarks, lookVars, tableVars
  <2>2. w \in Savers /\ todo' = [todo EXCEPT ![w] = LastOfEach(Saves[w])]
    BY <1>14, Zenon DEF CheckMarks
  <2>3. Goes(w, {"idle"}, {"done", "cache"})
    BY <1>14, Moves, Zenon
  <2>4. \A l \in Lookups : pc'[l] = pc[l]
    BY <1>t, <2>2, <2>3, WorkerFacts, SMT DEF Goes, Moved
  <2>5. \A s \in Savers : todo'[s] \subseteq Elems(Saves[s])
    <3>1. LastOfEach(Saves[w]) \subseteq Elems(Saves[w])
      BY <2>2, SavesFit, Zenon
    <3> QED BY <1>t, <1>i, <2>2, <3>1, WorkerFacts, SMT
  <2> QED BY <1>i, <2>1, <2>4, <2>5, Zenon DEF LookInv, IsSaved
<1>15. ASSUME NEW w \in Workers, CachePrice(w)
      PROVE  LookInv'
  <2>1. table' = table /\ asked' = asked /\ found' = found
    BY <1>15, Zenon DEF CachePrice, lookVars, tableVars
  <2>2. PICK e \in todo[w] : /\ cache' = [cache EXCEPT ![e.day] = e.price]
                             /\ todo' = [todo EXCEPT ![w] = @ \ {e}]
    BY <1>15, Zenon DEF CachePrice
  <2>3. Goes(w, {"cache"}, {"cache", "push", "length"})
    BY <1>15, Moves, Zenon
  <2>4. w \in Savers
    BY <1>f, <2>3, SMT DEF StagesFit, Goes
  <2>5. \A l \in Lookups : pc'[l] = pc[l]
    BY <1>t, <2>3, <2>4, WorkerFacts, SMT DEF Goes, Moved
  <2>6. \A s \in Savers : todo'[s] \subseteq Elems(Saves[s])
    BY <1>t, <1>i, <2>2, <2>4, WorkerFacts, SMT
  <2>7. IsSaved(e.day, e.price)
    <3>1. e \in [day : Days, price : Prices] /\ e \in Elems(Saves[w])
      BY <1>t, <1>i, <2>2, <2>4, Zenon
    <3>2. e = [day |-> e.day, price |-> e.price]
      BY <3>1, SMT
    <3> QED BY <2>4, <3>1, <3>2, Zenon DEF IsSaved
  <2>8. e.day \in Days
    BY <1>t, <2>2, SMT
  <2>9. \A d \in Today : cache'[d] # None => IsSaved(d, cache'[d])
    <3>1. SUFFICES ASSUME NEW d \in Today, cache'[d] # None
                   PROVE  IsSaved(d, cache'[d])
      OBVIOUS
    <3>2. CASE d = e.day
      <4>1. cache'[d] = e.price
        BY <1>t, <2>2, <2>8, <3>2, SMT
      <4> QED BY <2>7, <3>2, <4>1, Zenon
    <3>3. CASE d # e.day
      <4>1. cache'[d] = cache[d]
        BY <1>t, <1>p, <2>2, <3>3, SMT
      <4> QED BY <1>i, <3>1, <4>1, Zenon
    <3> QED BY <3>2, <3>3
  <2> QED BY <1>i, <2>1, <2>5, <2>6, <2>9, Zenon DEF LookInv, IsSaved
<1>16. ASSUME NEW w \in Workers, WriteBatch(w)
      PROVE  LookInv'
  <2>1. todo' = todo /\ cache' = cache /\ asked' = asked /\ found' = found
    BY <1>16, Zenon DEF WriteBatch, lookVars
  <2>2. Goes(w, {"write"}, {"delete", "write"})
    BY <1>16, Moves, Zenon
  <2>3. SubSeq(seen[w], written[w] + 1, Upto(w)) \in Seq(Entry)
    <3>1. written[w] <= Len(seen[w])
      BY <1>f, <2>2, Zenon DEF WrittenFit, Goes
    <3> QED BY <1>t, <3>1, NextBatchFits, Zenon
  <2>4. \A d \in Days : InitTable[d] # None => table'[d] # None
    <3>1. table' = Upserted(SubSeq(seen[w], written[w] + 1, Upto(w)))
      BY <1>16, Zenon DEF WriteBatch
    <3>2. \A d \in Days : table[d] # None =>
             Upserted(SubSeq(seen[w], written[w] + 1, Upto(w)))[d] # None
      BY <1>t, <2>3, UpsertedFits, Zenon
    <3> QED BY <1>i, <3>1, <3>2, Zenon
  <2>5. w \notin Lookups
    BY <1>f, <2>2, WorkerFacts, SMT DEF StagesFit, Goes, Draining
  <2>6. \A l \in Lookups : pc'[l] = pc[l]
    BY <1>t, <2>2, <2>5, WorkerFacts, SMT DEF Goes, Moved
  <2> QED BY <1>i, <2>1, <2>4, <2>6, Zenon DEF LookInv, IsSaved
<1>17. ASSUME NEW w \in Workers, LookInCache(w)
      PROVE  LookInv'
  <2>1. todo' = todo /\ cache' = cache /\ table' = table
    BY <1>17, Zenon DEF LookInCache, tableVars
  <2>2. PICK d \in Days : /\ asked' = [asked EXCEPT ![w] = d]
                          /\ found' = [found EXCEPT ![w] = cache[d]]
                          /\ pc' = [pc EXCEPT ![w] = IF cache[d] # None \/ d \in Today
                                                   THEN "done" ELSE "table"]
    BY <1>17, Zenon DEF LookInCache, Goto
  <2>3. w \in Lookups
    BY <1>17, Zenon DEF LookInCache
  <2>4. asked'[w] = d /\ found'[w] = cache[d]
    BY <1>t, <2>2, <2>3, SMT
  <2>5. pc'[w] # "fill" /\ (pc'[w] = "done" => cache[d] # None \/ d \in Today)
    BY <1>t, <2>2, WorkerFacts, SMT
  <2>6. \A l \in Lookups : l # w => asked'[l] = asked[l] /\ found'[l] = found[l] /\ pc'[l] = pc[l]
    BY <1>t, <2>2, <2>3, WorkerFacts, SMT
  <2>7. ASSUME NEW l \in Lookups
        PROVE  /\ asked'[l] \in Today /\ found'[l] # None => IsSaved(asked'[l], found'[l])
               /\ pc'[l] = "fill" => found'[l] # None
               /\ pc'[l] = "done" /\ asked'[l] \in Days \ Today /\ InitTable[asked'[l]] # None =>
                     found'[l] # None
    <3>1. CASE l = w
      <4>1. asked'[w] \in Today /\ found'[w] # None => IsSaved(asked'[w], found'[w])
        BY <1>i, <2>4, Zenon
      <4>2. pc'[w] = "done" /\ asked'[w] \in Days \ Today => found'[w] # None
        BY <2>4, <2>5, SMT
      <4> QED BY <2>5, <3>1, <4>1, <4>2, Zenon
    <3>2. CASE l # w
      BY <1>i, <2>6, <3>2, Zenon
    <3> QED BY <3>1, <3>2
  <2> QED BY <1>i, <2>1, <2>7, Zenon DEF LookInv, IsSaved
<1>18. ASSUME NEW w \in Workers, LookInTable(w)
      PROVE  LookInv'
  <2>1. todo' = todo /\ cache' = cache /\ table' = table /\ asked' = asked
    BY <1>18, Zenon DEF LookInTable, tableVars
  <2>2. /\ \/ /\ found' = [found EXCEPT ![w] = table[asked[w]]]
              /\ pc' = [pc EXCEPT ![w] = IF table[asked[w]] = None THEN "done" ELSE "fill"]
           \/ pc' = [pc EXCEPT ![w] = "failed"] /\ found' = found
        /\ pc[w] = "table"
    BY <1>18, Zenon DEF LookInTable, Goto
  <2>3. w \in Lookups /\ asked[w] \in Days \ Today
    BY <1>f, <2>2, SMT DEF StagesFit, PastFit
  <2>4. found'[w] = table[asked[w]] \/ pc'[w] = "failed"
    BY <1>t, <2>2, <2>3, WorkerFacts, SMT
  <2>5. /\ pc'[w] = "fill" => table[asked[w]] # None
        /\ pc'[w] = "done" => table[asked[w]] = None
    BY <1>t, <2>2, WorkerFacts, SMT
  <2>6. \A l \in Lookups : l # w => found'[l] = found[l] /\ pc'[l] = pc[l]
    BY <1>t, <2>2, <2>3, WorkerFacts, SMT
  <2>7. ASSUME NEW l \in Lookups
        PROVE  /\ asked'[l] \in Today /\ found'[l] # None => IsSaved(asked'[l], found'[l])
               /\ pc'[l] = "fill" => found'[l] # None
               /\ pc'[l] = "done" /\ asked'[l] \in Days \ Today /\ InitTable[asked'[l]] # None =>
                     found'[l] # None
    <3>1. CASE l = w
      <4>1. asked'[w] \notin Today
        BY <2>1, <2>3, SMT
      <4>2. pc'[w] = "done" => ~(asked'[w] \in Days \ Today /\ InitTable[asked'[w]] # None)
        <5>1. asked[w] \in Days
          BY <2>3, SMT
        <5> QED BY <1>i, <2>1, <2>5, <5>1, Zenon
      <4>3. pc'[w] = "fill" => found'[w] # None
        BY <2>4, <2>5, SMT
      <4> QED BY <3>1, <4>1, <4>2, <4>3, Zenon
    <3>2. CASE l # w
      BY <1>i, <2>1, <2>6, <3>2, Zenon
    <3> QED BY <3>1, <3>2
  <2> QED BY <1>i, <2>1, <2>7, Zenon DEF LookInv, IsSaved
<1>19. ASSUME NEW w \in Workers, FillCache(w)
      PROVE  LookInv'
  <2>1. todo' = todo /\ table' = table /\ asked' = asked /\ found' = found
    BY <1>19, Zenon DEF FillCache, workVars, lookVars, tableVars
  <2>2. /\ cache' = [cache EXCEPT ![asked[w]] = found[w]]
        /\ pc' = [pc EXCEPT ![w] = "done"] /\ pc[w] = "fill"
    BY <1>19, Zenon DEF FillCache, Goto
  <2>3. w \in Lookups /\ asked[w] \in Days \ Today
    BY <1>f, <2>2, SMT DEF StagesFit, PastFit
  <2>4. found[w] # None
    BY <1>i, <2>2, <2>3, Zenon
  <2>5. \A d \in Today : cache'[d] = cache[d]
    BY <1>t, <1>p, <2>2, <2>3, SMT
  <2>6. \A l \in Lookups : l # w => pc'[l] = pc[l]
    BY <1>t, <2>2, WorkerFacts, SMT
  <2>7. pc'[w] = "done"
    BY <1>t, <2>2, SMT
  <2>8. ASSUME NEW l \in Lookups
        PROVE  /\ pc'[l] = "fill" => found'[l] # None
               /\ pc'[l] = "done" /\ asked'[l] \in Days \ Today /\ InitTable[asked'[l]] # None =>
                     found'[l] # None
    BY <1>i, <2>1, <2>4, <2>6, Zenon
  <2> QED BY <1>i, <2>1, <2>5, <2>8, Zenon DEF LookInv, IsSaved
<1>20. ASSUME NEW w \in Workers, Crash(w)
      PROVE  LookInv'
  <2>1. cache' = cache /\ table' = table /\ asked' = asked /\ found' = found
    BY <1>20, Zenon DEF Crash, lookVars, tableVars
  <2>2. todo' = [todo EXCEPT ![w] = {}]
    BY <1>20, Zenon DEF Crash
  <2>3. pc' = [pc EXCEPT ![w] = "idle"] \/ pc' = [pc EXCEPT ![w] = "lost"]
    BY <1>20, CrashMoves, Zenon
  <2>4. \A l \in Lookups : pc'[l] \in {"fill", "done"} => pc[l] = pc'[l]
    BY <1>t, <2>3, WorkerFacts, SMT
  <2>5. \A s \in Savers : todo'[s] \subseteq Elems(Saves[s])
    BY <1>t, <1>i, <2>2, WorkerFacts, SMT
  <2>6. ASSUME NEW l \in Lookups
        PROVE  /\ pc'[l] = "fill" => found'[l] # None
               /\ pc'[l] = "done" /\ asked'[l] \in Days \ Today /\ InitTable[asked'[l]] # None =>
                     found'[l] # None
    <3>1. (pc'[l] = "fill" => pc[l] = "fill") /\ (pc'[l] = "done" => pc[l] = "done")
      BY <2>4, Zenon
    <3> QED BY <1>i, <2>1, <3>1, Zenon
  <2> QED BY <1>i, <2>1, <2>5, <2>6, Zenon DEF LookInv, IsSaved
<1>21. ASSUME NEW e \in Days, ExpirePrice(e)
      PROVE  LookInv'
  <2>1. pc' = pc /\ todo' = todo /\ table' = table /\ asked' = asked /\ found' = found
    BY <1>21, Zenon DEF ExpirePrice, workVars, lookVars, tableVars
  <2>2. cache' = [cache EXCEPT ![e] = None]
    BY <1>21, Zenon DEF ExpirePrice
  <2>3. \A d \in Today : cache'[d] # None => cache'[d] = cache[d]
    BY <1>t, <1>p, <2>2, SMT
  <2> QED BY <1>i, <2>1, <2>3, Zenon DEF LookInv, IsSaved
<1>22. ASSUME NEW l \in LockKeys, Expire(l)
      PROVE  LookInv'
  <2>1. todo' = todo /\ cache' = cache /\ table' = table /\ asked' = asked /\ found' = found /\ pc' = pc
    BY <1>22, Zenon DEF Expire, workVars, lookVars, tableVars
  <2> QED BY <2>1, LookHold, Zenon
<1>23. ASSUME vars' = vars
      PROVE  LookInv'
  <2>1. todo' = todo /\ cache' = cache /\ table' = table /\ asked' = asked /\ found' = found /\ pc' = pc
    BY <1>23, Zenon DEF vars, workVars, lookVars, tableVars
  <2> QED BY <2>1, LookHold, Zenon
<1>w. ASSUME NEW w \in Workers,
             \/ CheckMarks(w) \/ CachePrice(w) \/ PushPrice(w) \/ CheckLength(w)
             \/ SaveFails(w) \/ Tick(w) \/ EndTick(w) \/ Lock(w) \/ LockTaken(w)
             \/ ReadQueue(w) \/ WriteBatch(w) \/ Deadlock(w) \/ DrainFails(w)
             \/ DeleteList(w) \/ DeleteMarks(w) \/ Unlock(w)
             \/ LookInCache(w) \/ LookInTable(w) \/ FillCache(w) \/ Crash(w)
      PROVE  LookInv'
  BY <1>w, <1>1, <1>2, <1>3, <1>4, <1>5, <1>6, <1>7, <1>8, <1>9, <1>10, <1>11, <1>12, <1>13, <1>14, <1>15, <1>16, <1>17, <1>18, <1>19, <1>20, Zenon
<1> QED BY <1>w, <1>21, <1>22, <1>23, Steps, Zenon

-----------------------------------------------------------------------------
(* The lock.                                                               *)

\* What leaves the lock alone and lets nobody drain who did not.
LEMMA LockHold ==
    ASSUME LockInv, overruns' = overruns, holder'[QueueLock] = holder[QueueLock],
           \A x \in Workers : pc'[x] \in Draining => pc[x] \in Draining
    PROVE  LockInv'
BY Zenon DEF LockInv, Drains

LEMMA LockKept ==
    ASSUME TypeInv, LockInv, [Next]_vars
    PROVE  LockInv'
<1>t. /\ pc \in [Workers -> Stages] /\ holder \in [LockKeys -> Workers \cup {Free}]
      /\ overruns \in Nat
  BY Zenon DEF TypeInv, TypeOK
<1>k. QueueLock \in LockKeys /\ TickLock \in LockKeys /\ QueueLock # TickLock
  BY SMT DEF LockKeys, QueueLock, TickLock
<1>1. ASSUME NEW w \in Workers, CheckMarks(w)
      PROVE  LockInv'
  <2>1. overruns' = overruns /\ holder'[QueueLock] = holder[QueueLock]
    BY <1>1, Zenon DEF CheckMarks, lockVars
  <2>2. Goes(w, {"idle"}, {"done", "cache"})
    BY <1>1, Moves, Zenon
  <2>3. \A x \in Workers : pc'[x] \in Draining => pc[x] \in Draining
    BY <1>t, <2>2, SMT DEF Goes, Moved, Draining
  <2> QED BY <2>1, <2>3, LockHold
<1>2. ASSUME NEW w \in Workers, CachePrice(w)
      PROVE  LockInv'
  <2>1. overruns' = overruns /\ holder'[QueueLock] = holder[QueueLock]
    BY <1>2, Zenon DEF CachePrice, lockVars
  <2>2. Goes(w, {"cache"}, {"cache", "push", "length"})
    BY <1>2, Moves, Zenon
  <2>3. \A x \in Workers : pc'[x] \in Draining => pc[x] \in Draining
    BY <1>t, <2>2, SMT DEF Goes, Moved, Draining
  <2> QED BY <2>1, <2>3, LockHold
<1>3. ASSUME NEW w \in Workers, PushPrice(w)
      PROVE  LockInv'
  <2>1. overruns' = overruns /\ holder'[QueueLock] = holder[QueueLock]
    BY <1>3, Zenon DEF PushPrice, lockVars
  <2>2. Goes(w, {"push"}, {"push", "length"})
    BY <1>3, Moves, Zenon
  <2>3. \A x \in Workers : pc'[x] \in Draining => pc[x] \in Draining
    BY <1>t, <2>2, SMT DEF Goes, Moved, Draining
  <2> QED BY <2>1, <2>3, LockHold
<1>4. ASSUME NEW w \in Workers, CheckLength(w)
      PROVE  LockInv'
  <2>1. overruns' = overruns /\ holder'[QueueLock] = holder[QueueLock]
    BY <1>4, Zenon DEF CheckLength, lockVars
  <2>2. Goes(w, {"length"}, {"lock", "done"})
    BY <1>4, Moves, Zenon
  <2>3. \A x \in Workers : pc'[x] \in Draining => pc[x] \in Draining
    BY <1>t, <2>2, SMT DEF Goes, Moved, Draining
  <2> QED BY <2>1, <2>3, LockHold
<1>5. ASSUME NEW w \in Workers, SaveFails(w)
      PROVE  LockInv'
  <2>1. overruns' = overruns /\ holder'[QueueLock] = holder[QueueLock]
    BY <1>5, Zenon DEF SaveFails, lockVars
  <2>2. Goes(w, {"push", "length"}, {"done"})
    BY <1>5, Moves, Zenon
  <2>3. \A x \in Workers : pc'[x] \in Draining => pc[x] \in Draining
    BY <1>t, <2>2, SMT DEF Goes, Moved, Draining
  <2> QED BY <2>1, <2>3, LockHold
<1>6. ASSUME NEW w \in Workers, ReadQueue(w)
      PROVE  LockInv'
  <2>1. overruns' = overruns /\ holder'[QueueLock] = holder[QueueLock]
    BY <1>6, Zenon DEF ReadQueue, lockVars
  <2>2. Goes(w, {"read"}, {"unlock", "write"})
    BY <1>6, Moves, Zenon
  <2>3. \A x \in Workers : pc'[x] \in Draining => pc[x] \in Draining
    BY <1>t, <2>2, SMT DEF Goes, Moved, Draining
  <2> QED BY <2>1, <2>3, LockHold
<1>7. ASSUME NEW w \in Workers, WriteBatch(w)
      PROVE  LockInv'
  <2>1. overruns' = overruns /\ holder'[QueueLock] = holder[QueueLock]
    BY <1>7, Zenon DEF WriteBatch, lockVars
  <2>2. Goes(w, {"write"}, {"delete", "write"})
    BY <1>7, Moves, Zenon
  <2>3. \A x \in Workers : pc'[x] \in Draining => pc[x] \in Draining
    BY <1>t, <2>2, SMT DEF Goes, Moved, Draining
  <2> QED BY <2>1, <2>3, LockHold
<1>8. ASSUME NEW w \in Workers, DeleteList(w)
      PROVE  LockInv'
  <2>1. overruns' = overruns /\ holder'[QueueLock] = holder[QueueLock]
    BY <1>8, Zenon DEF DeleteList, lockVars
  <2>2. Goes(w, {"delete"}, {"unmark"})
    BY <1>8, Moves, Zenon
  <2>3. \A x \in Workers : pc'[x] \in Draining => pc[x] \in Draining
    BY <1>t, <2>2, SMT DEF Goes, Moved, Draining
  <2> QED BY <2>1, <2>3, LockHold
<1>9. ASSUME NEW w \in Workers, DeleteMarks(w)
      PROVE  LockInv'
  <2>1. overruns' = overruns /\ holder'[QueueLock] = holder[QueueLock]
    BY <1>9, Zenon DEF DeleteMarks, lockVars
  <2>2. Goes(w, {"unmark"}, {"unlock"})
    BY <1>9, Moves, Zenon
  <2>3. \A x \in Workers : pc'[x] \in Draining => pc[x] \in Draining
    BY <1>t, <2>2, SMT DEF Goes, Moved, Draining
  <2> QED BY <2>1, <2>3, LockHold
<1>10. ASSUME NEW w \in Workers, LookInCache(w)
      PROVE  LockInv'
  <2>1. overruns' = overruns /\ holder'[QueueLock] = holder[QueueLock]
    BY <1>10, Zenon DEF LookInCache, lockVars
  <2>2. Goes(w, {"idle"}, {"done", "table"})
    BY <1>10, Moves, Zenon
  <2>3. \A x \in Workers : pc'[x] \in Draining => pc[x] \in Draining
    BY <1>t, <2>2, SMT DEF Goes, Moved, Draining
  <2> QED BY <2>1, <2>3, LockHold
<1>11. ASSUME NEW w \in Workers, LookInTable(w)
      PROVE  LockInv'
  <2>1. overruns' = overruns /\ holder'[QueueLock] = holder[QueueLock]
    BY <1>11, Zenon DEF LookInTable, lockVars
  <2>2. Goes(w, {"table"}, {"done", "fill", "failed"})
    BY <1>11, Moves, Zenon
  <2>3. \A x \in Workers : pc'[x] \in Draining => pc[x] \in Draining
    BY <1>t, <2>2, SMT DEF Goes, Moved, Draining
  <2> QED BY <2>1, <2>3, LockHold
<1>12. ASSUME NEW w \in Workers, FillCache(w)
      PROVE  LockInv'
  <2>1. overruns' = overruns /\ holder'[QueueLock] = holder[QueueLock]
    BY <1>12, Zenon DEF FillCache, lockVars
  <2>2. Goes(w, {"fill"}, {"done"})
    BY <1>12, Moves, Zenon
  <2>3. \A x \in Workers : pc'[x] \in Draining => pc[x] \in Draining
    BY <1>t, <2>2, SMT DEF Goes, Moved, Draining
  <2> QED BY <2>1, <2>3, LockHold
<1>13. ASSUME NEW w \in Workers, Tick(w)
      PROVE  LockInv'
  <2>1. overruns' = overruns /\ holder'[QueueLock] = holder[QueueLock]
    BY <1>13, <1>t, <1>k, SMT DEF Tick, AcquireLock
  <2>2. Goes(w, {"idle"}, {"lock"})
    BY <1>13, Moves, Zenon
  <2>3. \A x \in Workers : pc'[x] \in Draining => pc[x] \in Draining
    BY <1>t, <2>2, SMT DEF Goes, Moved, Draining
  <2> QED BY <2>1, <2>3, LockHold
<1>14. ASSUME NEW w \in Workers, EndTick(w)
      PROVE  LockInv'
  <2>1. overruns' = overruns /\ holder'[QueueLock] = holder[QueueLock]
    BY <1>14, <1>t, <1>k, SMT DEF EndTick, ReleaseLock
  <2>2. Goes(w, {"untick"}, {"idle"})
    BY <1>14, Moves, Zenon
  <2>3. \A x \in Workers : pc'[x] \in Draining => pc[x] \in Draining
    BY <1>t, <2>2, SMT DEF Goes, Moved, Draining
  <2> QED BY <2>1, <2>3, LockHold
<1>15. ASSUME NEW w \in Workers, LockTaken(w)
      PROVE  LockInv'
  <2>1. overruns' = overruns /\ holder'[QueueLock] = holder[QueueLock]
    BY <1>15, Zenon DEF LockTaken, lockVars
  <2>2. pc' = pc \/ pc' = [pc EXCEPT ![w] = "untick"] \/ pc' = [pc EXCEPT ![w] = "done"]
    BY <1>15, LockTakenMoves, Zenon
  <2>3. \A x \in Workers : pc'[x] \in Draining => pc[x] \in Draining
    BY <1>t, <2>2, SMT DEF Draining
  <2> QED BY <2>1, <2>3, LockHold
<1>16. ASSUME NEW w \in Workers, Deadlock(w)
      PROVE  LockInv'
  <2>1. overruns' = overruns /\ holder'[QueueLock] = holder[QueueLock]
    BY <1>16, Zenon DEF Deadlock, lockVars
  <2>2. pc[w] = "write" /\ (pc' = pc \/ pc' = [pc EXCEPT ![w] = "delete"])
    BY <1>16, DeadlockMoves, Zenon
  <2>3. \A x \in Workers : pc'[x] \in Draining => pc[x] \in Draining
    BY <1>t, <2>2, SMT DEF Draining
  <2> QED BY <2>1, <2>3, LockHold
<1>17. ASSUME NEW w \in Workers, DrainFails(w)
      PROVE  LockInv'
  <2>1. overruns' = overruns /\ holder'[QueueLock] = holder[QueueLock]
    BY <1>17, Zenon DEF DrainFails, lockVars
  <2>2. pc[w] \in Draining /\ \E s \in Stages : pc' = [pc EXCEPT ![w] = s]
    BY <1>17, DrainFailsMoves, Zenon DEF Stages, Draining
  <2>3. \A x \in Workers : pc'[x] \in Draining => pc[x] \in Draining
    BY <1>t, <2>2, SMT DEF Draining
  <2> QED BY <2>1, <2>3, LockHold
<1>18. ASSUME NEW w \in Workers, Crash(w)
      PROVE  LockInv'
  <2>1. overruns' = overruns /\ holder'[QueueLock] = holder[QueueLock]
    BY <1>18, Zenon DEF Crash, lockVars
  <2>2. pc' = [pc EXCEPT ![w] = "idle"] \/ pc' = [pc EXCEPT ![w] = "lost"]
    BY <1>18, CrashMoves, Zenon
  <2>3. \A x \in Workers : pc'[x] \in Draining => pc[x] \in Draining
    BY <1>t, <2>2, SMT DEF Draining
  <2> QED BY <2>1, <2>3, LockHold
<1>19. ASSUME NEW w \in Workers, Lock(w)
      PROVE  LockInv'
  <2>1. holder[QueueLock] = Free /\ holder' = [holder EXCEPT ![QueueLock] = w]
        /\ overruns' = overruns
    BY <1>19, Zenon DEF Lock, AcquireLock
  <2>2. Goes(w, {"lock"}, {"read"})
    BY <1>19, Moves, Zenon
  <2>3. holder'[QueueLock] = w /\ \A x \in Workers : x # w => pc'[x] = pc[x]
    BY <1>t, <1>k, <2>1, <2>2, SMT DEF Goes, Moved
  <2>4. overruns = 0 => \A x \in Workers : ~Drains(x)
    BY <2>1, WorkerAssumption, Zenon DEF LockInv
  <2> QED BY <2>1, <2>3, <2>4, Zenon DEF LockInv, Drains
<1>20. ASSUME NEW w \in Workers, Unlock(w)
      PROVE  LockInv'
  <2>1. overruns' = overruns
    BY <1>20, Zenon DEF Unlock, ReleaseLock
  <2>2. pc[w] = "unlock" /\ (\/ pc' = [pc EXCEPT ![w] = "untick"]
                             \/ pc' = [pc EXCEPT ![w] = "done"])
    BY <1>20, UnlockMoves, Zenon
  <2>3. \A x \in Workers : pc'[x] \in Draining => x # w /\ pc[x] = pc'[x]
    BY <1>t, <2>2, SMT DEF Draining
  <2>4. w \notin Lookups
    BY <2>2, WorkerFacts, SMT DEF TypeInv, StagesFit, Draining
  <2>5. Drains(w)
    BY <2>2, <2>4, Zenon DEF Drains, Draining
  <2>6. overruns = 0 => \A x \in Workers : ~Drains(x)'
    BY <2>3, <2>5, Zenon DEF LockInv, Drains
  <2> QED BY <2>1, <2>6, Zenon DEF LockInv
<1>21. ASSUME NEW d \in Days, ExpirePrice(d)
      PROVE  LockInv'
  <2>1. pc' = pc /\ overruns' = overruns /\ holder' = holder
    BY <1>21, Zenon DEF ExpirePrice, lockVars
  <2> QED BY <2>1, LockHold, Zenon
<1>22. ASSUME NEW l \in LockKeys, Expire(l)
      PROVE  LockInv'
  <2>1. /\ pc' = pc /\ holder' = [holder EXCEPT ![l] = Free]
        /\ \/ ~InUse(l) /\ overruns' = overruns
           \/ overruns < MaxOverruns /\ overruns' = overruns + 1
    BY <1>22, Zenon DEF Expire, ExpireLock
  <2>2. CASE ~InUse(l) /\ overruns' = overruns
    <3>1. CASE l = QueueLock
      <4>1. \A x \in Workers : Drains(x) => holder[QueueLock] # x
        BY <2>2, <3>1, Zenon DEF InUse
      <4>2. overruns = 0 => \A x \in Workers : ~Drains(x)
        BY <4>1, Zenon DEF LockInv
      <4> QED BY <2>1, <2>2, <4>2, Zenon DEF LockInv, Drains
    <3>2. CASE l # QueueLock
      <4>1. holder'[QueueLock] = holder[QueueLock]
        BY <1>t, <1>k, <2>1, <3>2, SMT
      <4> QED BY <2>1, <2>2, <4>1, LockHold, Zenon
    <3> QED BY <3>1, <3>2
  <2>3. CASE overruns < MaxOverruns /\ overruns' = overruns + 1
    <3>1. overruns' <= MaxOverruns /\ overruns' # 0
      BY <1>t, <2>3, BoundFacts, SMT
    <3> QED BY <3>1, Zenon DEF LockInv
  <2> QED BY <2>1, <2>2, <2>3
<1>23. ASSUME vars' = vars
      PROVE  LockInv'
  <2>1. pc' = pc /\ overruns' = overruns /\ holder' = holder
    BY <1>23, Zenon DEF vars, lockVars
  <2> QED BY <2>1, LockHold, Zenon
<1>w. ASSUME NEW w \in Workers,
             \/ CheckMarks(w) \/ CachePrice(w) \/ PushPrice(w) \/ CheckLength(w)
             \/ SaveFails(w) \/ Tick(w) \/ EndTick(w) \/ Lock(w) \/ LockTaken(w)
             \/ ReadQueue(w) \/ WriteBatch(w) \/ Deadlock(w) \/ DrainFails(w)
             \/ DeleteList(w) \/ DeleteMarks(w) \/ Unlock(w)
             \/ LookInCache(w) \/ LookInTable(w) \/ FillCache(w) \/ Crash(w)
      PROVE  LockInv'
  BY <1>w, <1>1, <1>2, <1>3, <1>4, <1>5, <1>6, <1>7, <1>8, <1>9, <1>10, <1>11, <1>12, <1>13, <1>14, <1>15, <1>16, <1>17, <1>18, <1>19, <1>20, Zenon
<1> QED BY <1>w, <1>21, <1>22, <1>23, Steps, Zenon

\* Only one worker drains.
LEMMA DrainsAlone ==
    ASSUME TypeInv, LockInv, overruns = 0, NEW w \in Workers, pc[w] \in Draining,
           NEW x \in Workers, pc[x] \in Draining
    PROVE  x = w
<1>1. w \notin Lookups /\ x \notin Lookups
  BY WorkerFacts, Zenon DEF TypeInv, StagesFit
<1>2. Drains(w) /\ Drains(x)
  BY <1>1, Zenon DEF Drains
<1> QED BY <1>2, Zenon DEF LockInv

-----------------------------------------------------------------------------
(* The drain.                                                              *)

\* What leaves a worker's drain, the list and the table alone, and lets no error be
\* forgotten.
LEMMA OnTrackHolds ==
    ASSUME NEW x, OnTrack(x), pc'[x] = pc[x], seen'[x] = seen[x], written'[x] = written[x],
           queue' = queue, stored' = stored, table' = table, broken => broken'
    PROVE  OnTrack(x)'
BY Zenon DEF OnTrack, LastAreRows

\* The same for all workers.
LEMMA WriteHolds ==
    ASSUME WriteInv, overruns' = overruns, queue' = queue, stored' = stored, table' = table,
           broken => broken',
           \A x \in Workers : pc'[x] \in {"write", "delete"} =>
               pc'[x] = pc[x] /\ seen'[x] = seen[x] /\ written'[x] = written[x]
    PROVE  WriteInv'
<1> SUFFICES ASSUME overruns' = 0, NEW x \in Workers, Writes(x)'
             PROVE  OnTrack(x)'
  BY Zenon DEF WriteInv
<1>1. pc'[x] = pc[x] /\ seen'[x] = seen[x] /\ written'[x] = written[x]
  BY Zenon DEF Writes
<1>2. OnTrack(x)
  BY <1>1, Zenon DEF WriteInv, Writes
<1> QED BY <1>1, <1>2, OnTrackHolds

\* A batch brings the rows up to its end.
LEMMA BatchOnTrack ==
    ASSUME TypeInv, NEW w \in Workers, WriteBatch(w), OnTrack(w)
    PROVE  OnTrack(w)'
<1>t. /\ seen[w] \in Seq(Entry) /\ written[w] \in Nat /\ table \in [Days -> Columns]
      /\ pc \in [Workers -> Stages] /\ written \in [Workers -> Nat]
  BY Zenon DEF TypeInv, TypeOK
<1> DEFINE q == seen[w]
           n == written[w]
           u == Upto(w)
           batch == SubSeq(q, n + 1, u)
<1>1. /\ pc[w] = "write" /\ table' = Upserted(batch)
      /\ stored' = stored \cup Elems(batch)
      /\ written' = [written EXCEPT ![w] = u] /\ seen' = seen
      /\ pc' = [pc EXCEPT ![w] = IF u = Len(q) THEN "delete" ELSE "write"]
      /\ queue' = queue /\ broken' = broken
  BY Zenon DEF WriteBatch, Goto, queueVars
<1>2. written'[w] = u /\ (pc'[w] = "delete" => u = Len(q))
  BY <1>t, <1>1, SMT
<1>3. n <= Len(q)
  BY <1>1, Zenon DEF TypeInv, WrittenFit
<1>4. /\ u \in Nat /\ n <= u /\ u <= Len(q) /\ batch \in Seq(Entry)
      /\ DOMAIN batch = 1..(u - n)
      /\ \A i \in 1..(u - n) : batch[i] = q[n + i]
  BY <1>t, <1>3, NextBatchFits, Zenon
<1>5. /\ \A i \in DOMAIN batch :
            (\A k \in DOMAIN batch : k > i => batch[k].day # batch[i].day) =>
                table'[batch[i].day] = batch[i].price
      /\ \A d \in Days : (\A i \in DOMAIN batch : batch[i].day # d) => table'[d] = table[d]
  <2> HIDE DEF batch
  <2> QED BY <1>t, <1>1, <1>4, UpsertedFits, Zenon
<1>6. \A i \in 1..Len(q) : q[i] \in Entry /\ q[i].day \in Days
  <2>1. \A i \in 1..Len(q) : q[i] \in Entry
    BY <1>t, ElementOfSeq, SMT
  <2> QED BY <2>1, SMT DEF Entry
<1>7. Len(q) \in Nat /\ n \in Nat
  BY <1>t, LenProperties
<1> HIDE DEF q, n, u, batch
<1>8. ASSUME NEW i \in 1..u, ~(i <= n)
      PROVE  i - n \in DOMAIN batch /\ batch[i - n] = q[i]
  <2>1. i - n \in 1..(u - n) /\ n + (i - n) = i
    BY <1>4, <1>7, <1>8, SMT
  <2> QED BY <1>4, <2>1, Zenon
<1>9. ASSUME NEW i \in DOMAIN batch
      PROVE  n + i \in 1..u /\ batch[i] = q[n + i]
  <2>1. i \in 1..(u - n)
    BY <1>4, Zenon
  <2>2. n + i \in 1..u
    BY <1>4, <1>7, <2>1, SMT
  <2> QED BY <1>4, <2>1, <2>2, Zenon
<1>10. ASSUME ~broken
       PROVE  /\ \A i \in 1..u : q[i] \in stored'
              /\ \A i \in 1..u : (\A k \in 1..u : k > i => q[k].day # q[i].day) =>
                    table'[q[i].day] = q[i].price
  <2>1. /\ \A i \in 1..n : q[i] \in stored
        /\ \A i \in 1..n : (\A k \in 1..n : k > i => q[k].day # q[i].day) =>
              table[q[i].day] = q[i].price
    BY <1>10, Zenon DEF OnTrack, LastAreRows, q, n
  <2>2. ASSUME NEW i \in 1..u
        PROVE  q[i] \in stored'
    <3>1. CASE i <= n
      <4>1. i \in 1..n
        BY <1>4, <1>7, <3>1, SMT
      <4> QED BY <1>1, <2>1, <4>1, Zenon
    <3>2. CASE ~(i <= n)
      <4>1. q[i] \in Elems(batch)
        BY <1>8, <3>2, Zenon DEF Elems
      <4> QED BY <1>1, <4>1, Zenon
    <3> QED BY <3>1, <3>2
  <2>3. ASSUME NEW i \in 1..u, \A k \in 1..u : k > i => q[k].day # q[i].day
        PROVE  table'[q[i].day] = q[i].price
    <3>1. CASE i <= n
      <4>1. i \in 1..n /\ \A k \in 1..n : k \in 1..u
        BY <1>4, <1>7, <3>1, SMT
      <4>2. table[q[i].day] = q[i].price
        BY <2>1, <2>3, <4>1, Zenon
      <4>3. \A k \in DOMAIN batch : n + k > i
        <5>1. \A k \in 1..(u - n) : n + k > i
          BY <1>4, <1>7, <3>1, SMT
        <5> QED BY <1>4, <5>1, Zenon
      <4>4. \A k \in DOMAIN batch : batch[k].day # q[i].day
        BY <1>9, <2>3, <4>3, Zenon
      <4>5. q[i].day \in Days
        <5>1. i \in 1..Len(q)
          BY <1>4, <1>7, SMT
        <5> QED BY <1>6, <5>1, Zenon
      <4> QED BY <1>5, <4>2, <4>4, <4>5, Zenon
    <3>2. CASE ~(i <= n)
      <4>1. i - n \in DOMAIN batch /\ batch[i - n] = q[i]
        BY <1>8, <3>2, Zenon
      <4>2. ASSUME NEW k \in DOMAIN batch, k > i - n
            PROVE  batch[k].day # q[i].day
        <5>1. k \in 1..(u - n)
          BY <1>4, <4>2, Zenon
        <5>2. n + k > i
          BY <1>4, <1>7, <4>2, <5>1, SMT
        <5> QED BY <1>9, <2>3, <5>2, Zenon
      <4> QED BY <1>5, <4>1, <4>2, Zenon
    <3> QED BY <3>1, <3>2
  <2> QED BY <2>2, <2>3
<1> QED BY <1>1, <1>2, <1>10, Zenon DEF OnTrack, LastAreRows, q, n, u

LEMMA WriteKept ==
    ASSUME TypeInv, LockInv, WriteInv, [Next]_vars
    PROVE  WriteInv'
<1>t. /\ pc \in [Workers -> Stages] /\ seen \in [Workers -> Seq(Entry)]
      /\ written \in [Workers -> Nat] /\ queue \in Seq(Entry)
      /\ piped \in [Workers -> SUBSET Entry]
  BY Zenon DEF TypeInv, TypeOK
<1>1. ASSUME NEW w \in Workers, CheckMarks(w)
      PROVE  WriteInv'
  <2>1. /\ overruns' = overruns /\ queue' = queue /\ stored' = stored /\ table' = table
        /\ seen' = seen /\ written' = written /\ (broken => broken')
    BY <1>1, Zenon DEF CheckMarks, workVars, queueVars, tableVars, lockVars, AcquireLock, ReleaseLock
  <2>2. Goes(w, {"idle"}, {"done", "cache"})
    BY <1>1, Moves, Zenon
  <2>3. \A x \in Workers : pc'[x] \in {"write", "delete"} => pc'[x] = pc[x]
    BY <1>t, <2>2, SMT DEF Goes, Moved
  <2> QED BY <2>1, <2>3, WriteHolds, Zenon
<1>2. ASSUME NEW w \in Workers, CachePrice(w)
      PROVE  WriteInv'
  <2>1. /\ overruns' = overruns /\ queue' = queue /\ stored' = stored /\ table' = table
        /\ seen' = seen /\ written' = written /\ (broken => broken')
    BY <1>2, Zenon DEF CachePrice, workVars, queueVars, tableVars, lockVars, AcquireLock, ReleaseLock
  <2>2. Goes(w, {"cache"}, {"cache", "push", "length"})
    BY <1>2, Moves, Zenon
  <2>3. \A x \in Workers : pc'[x] \in {"write", "delete"} => pc'[x] = pc[x]
    BY <1>t, <2>2, SMT DEF Goes, Moved
  <2> QED BY <2>1, <2>3, WriteHolds, Zenon
<1>3. ASSUME NEW w \in Workers, CheckLength(w)
      PROVE  WriteInv'
  <2>1. /\ overruns' = overruns /\ queue' = queue /\ stored' = stored /\ table' = table
        /\ seen' = seen /\ written' = written /\ (broken => broken')
    BY <1>3, Zenon DEF CheckLength, workVars, queueVars, tableVars, lockVars, AcquireLock, ReleaseLock
  <2>2. Goes(w, {"length"}, {"lock", "done"})
    BY <1>3, Moves, Zenon
  <2>3. \A x \in Workers : pc'[x] \in {"write", "delete"} => pc'[x] = pc[x]
    BY <1>t, <2>2, SMT DEF Goes, Moved
  <2> QED BY <2>1, <2>3, WriteHolds, Zenon
<1>4. ASSUME NEW w \in Workers, SaveFails(w)
      PROVE  WriteInv'
  <2>1. /\ overruns' = overruns /\ queue' = queue /\ stored' = stored /\ table' = table
        /\ seen' = seen /\ written' = written /\ (broken => broken')
    BY <1>4, Zenon DEF SaveFails, workVars, queueVars, tableVars, lockVars, AcquireLock, ReleaseLock
  <2>2. Goes(w, {"push", "length"}, {"done"})
    BY <1>4, Moves, Zenon
  <2>3. \A x \in Workers : pc'[x] \in {"write", "delete"} => pc'[x] = pc[x]
    BY <1>t, <2>2, SMT DEF Goes, Moved
  <2> QED BY <2>1, <2>3, WriteHolds, Zenon
<1>5. ASSUME NEW w \in Workers, Tick(w)
      PROVE  WriteInv'
  <2>1. /\ overruns' = overruns /\ queue' = queue /\ stored' = stored /\ table' = table
        /\ seen' = seen /\ written' = written /\ (broken => broken')
    BY <1>5, Zenon DEF Tick, workVars, queueVars, tableVars, lockVars, AcquireLock, ReleaseLock
  <2>2. Goes(w, {"idle"}, {"lock"})
    BY <1>5, Moves, Zenon
  <2>3. \A x \in Workers : pc'[x] \in {"write", "delete"} => pc'[x] = pc[x]
    BY <1>t, <2>2, SMT DEF Goes, Moved
  <2> QED BY <2>1, <2>3, WriteHolds, Zenon
<1>6. ASSUME NEW w \in Workers, EndTick(w)
      PROVE  WriteInv'
  <2>1. /\ overruns' = overruns /\ queue' = queue /\ stored' = stored /\ table' = table
        /\ seen' = seen /\ written' = written /\ (broken => broken')
    BY <1>6, Zenon DEF EndTick, workVars, queueVars, tableVars, lockVars, AcquireLock, ReleaseLock
  <2>2. Goes(w, {"untick"}, {"idle"})
    BY <1>6, Moves, Zenon
  <2>3. \A x \in Workers : pc'[x] \in {"write", "delete"} => pc'[x] = pc[x]
    BY <1>t, <2>2, SMT DEF Goes, Moved
  <2> QED BY <2>1, <2>3, WriteHolds, Zenon
<1>7. ASSUME NEW w \in Workers, Lock(w)
      PROVE  WriteInv'
  <2>1. /\ overruns' = overruns /\ queue' = queue /\ stored' = stored /\ table' = table
        /\ seen' = seen /\ written' = written /\ (broken => broken')
    BY <1>7, Zenon DEF Lock, workVars, queueVars, tableVars, lockVars, AcquireLock, ReleaseLock
  <2>2. Goes(w, {"lock"}, {"read"})
    BY <1>7, Moves, Zenon
  <2>3. \A x \in Workers : pc'[x] \in {"write", "delete"} => pc'[x] = pc[x]
    BY <1>t, <2>2, SMT DEF Goes, Moved
  <2> QED BY <2>1, <2>3, WriteHolds, Zenon
<1>8. ASSUME NEW w \in Workers, DeleteMarks(w)
      PROVE  WriteInv'
  <2>1. /\ overruns' = overruns /\ queue' = queue /\ stored' = stored /\ table' = table
        /\ seen' = seen /\ written' = written /\ (broken => broken')
    BY <1>8, Zenon DEF DeleteMarks, workVars, queueVars, tableVars, lockVars, AcquireLock, ReleaseLock
  <2>2. Goes(w, {"unmark"}, {"unlock"})
    BY <1>8, Moves, Zenon
  <2>3. \A x \in Workers : pc'[x] \in {"write", "delete"} => pc'[x] = pc[x]
    BY <1>t, <2>2, SMT DEF Goes, Moved
  <2> QED BY <2>1, <2>3, WriteHolds, Zenon
<1>9. ASSUME NEW w \in Workers, LookInCache(w)
      PROVE  WriteInv'
  <2>1. /\ overruns' = overruns /\ queue' = queue /\ stored' = stored /\ table' = table
        /\ seen' = seen /\ written' = written /\ (broken => broken')
    BY <1>9, Zenon DEF LookInCache, workVars, queueVars, tableVars, lockVars, AcquireLock, ReleaseLock
  <2>2. Goes(w, {"idle"}, {"done", "table"})
    BY <1>9, Moves, Zenon
  <2>3. \A x \in Workers : pc'[x] \in {"write", "delete"} => pc'[x] = pc[x]
    BY <1>t, <2>2, SMT DEF Goes, Moved
  <2> QED BY <2>1, <2>3, WriteHolds, Zenon
<1>10. ASSUME NEW w \in Workers, LookInTable(w)
      PROVE  WriteInv'
  <2>1. /\ overruns' = overruns /\ queue' = queue /\ stored' = stored /\ table' = table
        /\ seen' = seen /\ written' = written /\ (broken => broken')
    BY <1>10, Zenon DEF LookInTable, workVars, queueVars, tableVars, lockVars, AcquireLock, ReleaseLock
  <2>2. Goes(w, {"table"}, {"done", "fill", "failed"})
    BY <1>10, Moves, Zenon
  <2>3. \A x \in Workers : pc'[x] \in {"write", "delete"} => pc'[x] = pc[x]
    BY <1>t, <2>2, SMT DEF Goes, Moved
  <2> QED BY <2>1, <2>3, WriteHolds, Zenon
<1>11. ASSUME NEW w \in Workers, FillCache(w)
      PROVE  WriteInv'
  <2>1. /\ overruns' = overruns /\ queue' = queue /\ stored' = stored /\ table' = table
        /\ seen' = seen /\ written' = written /\ (broken => broken')
    BY <1>11, Zenon DEF FillCache, workVars, queueVars, tableVars, lockVars, AcquireLock, ReleaseLock
  <2>2. Goes(w, {"fill"}, {"done"})
    BY <1>11, Moves, Zenon
  <2>3. \A x \in Workers : pc'[x] \in {"write", "delete"} => pc'[x] = pc[x]
    BY <1>t, <2>2, SMT DEF Goes, Moved
  <2> QED BY <2>1, <2>3, WriteHolds, Zenon
<1>12. ASSUME NEW w \in Workers, LockTaken(w)
      PROVE  WriteInv'
  <2>1. /\ overruns' = overruns /\ queue' = queue /\ stored' = stored /\ table' = table
        /\ seen' = seen /\ written' = written /\ (broken => broken')
    BY <1>12, Zenon DEF LockTaken, queueVars, tableVars, lockVars
  <2>2. \/ pc' = pc \/ pc' = [pc EXCEPT ![w] = "untick"] \/ pc' = [pc EXCEPT ![w] = "done"]
    BY <1>12, LockTakenMoves, Zenon
  <2>3. \A x \in Workers : pc'[x] \in {"write", "delete"} => pc'[x] = pc[x]
    BY <1>t, <2>2, SMT
  <2> QED BY <2>1, <2>3, WriteHolds, Zenon
<1>13. ASSUME NEW w \in Workers, Unlock(w)
      PROVE  WriteInv'
  <2>1. /\ overruns' = overruns /\ queue' = queue /\ stored' = stored /\ table' = table
        /\ seen' = [seen EXCEPT ![w] = <<>>] /\ written' = [written EXCEPT ![w] = 0]
        /\ (broken => broken')
    BY <1>13, Zenon DEF Unlock, queueVars, tableVars, lockVars, ReleaseLock
  <2>2. pc' = [pc EXCEPT ![w] = "untick"] \/ pc' = [pc EXCEPT ![w] = "done"]
    BY <1>13, UnlockMoves, Zenon
  <2>3. \A x \in Workers : pc'[x] \in {"write", "delete"} =>
            pc'[x] = pc[x] /\ seen'[x] = seen[x] /\ written'[x] = written[x]
    BY <1>t, <2>1, <2>2, SMT
  <2> QED BY <2>1, <2>3, WriteHolds, Zenon
<1>14. ASSUME NEW w \in Workers, Crash(w)
      PROVE  WriteInv'
  <2>1. /\ overruns' = overruns /\ queue' = queue /\ stored' = stored /\ table' = table
        /\ seen' = [seen EXCEPT ![w] = <<>>] /\ written' = [written EXCEPT ![w] = 0]
        /\ (broken => broken')
    BY <1>14, Zenon DEF Crash, queueVars, tableVars, lockVars, ReleaseLock
  <2>2. pc' = [pc EXCEPT ![w] = "idle"] \/ pc' = [pc EXCEPT ![w] = "lost"]
    BY <1>14, CrashMoves, Zenon
  <2>3. \A x \in Workers : pc'[x] \in {"write", "delete"} =>
            pc'[x] = pc[x] /\ seen'[x] = seen[x] /\ written'[x] = written[x]
    BY <1>t, <2>1, <2>2, SMT
  <2> QED BY <2>1, <2>3, WriteHolds, Zenon
<1>15. ASSUME NEW w \in Workers, PushPrice(w)
      PROVE  WriteInv'
  <2>1. PICK e \in piped[w] : queue' = Append(queue, e)
    BY <1>15, Zenon DEF PushPrice
  <2>2. e \in Entry
    BY <1>t, <2>1, Zenon
  <2>3. /\ overruns' = overruns /\ stored' = stored /\ table' = table
        /\ seen' = seen /\ written' = written /\ broken' = broken
    BY <1>15, Zenon DEF PushPrice, tableVars, lockVars
  <2>4. Goes(w, {"push"}, {"push", "length"})
    BY <1>15, Moves, Zenon
  <2>5. /\ Len(queue) \in Nat /\ Len(queue') = Len(queue) + 1
        /\ \A i \in 1..Len(queue) : queue'[i] = queue[i]
    BY <1>t, <2>1, <2>2, AppendProperties, LenProperties
  <2> SUFFICES ASSUME overruns' = 0, NEW x \in Workers, Writes(x)'
               PROVE  OnTrack(x)'
    BY Zenon DEF WriteInv
  <2>6. pc'[x] = pc[x] /\ Writes(x)
    BY <1>t, <2>4, SMT DEF Goes, Moved, Writes
  <2>7. OnTrack(x)
    BY <2>3, <2>6, Zenon DEF WriteInv
  <2>8. Len(seen[x]) \in Nat
    BY <1>t, LenProperties
  <2>9. Len(seen[x]) <= Len(queue') /\ \A i \in 1..Len(seen[x]) : queue'[i] = seen[x][i]
    <3>1. Len(seen[x]) <= Len(queue) /\ \A i \in 1..Len(seen[x]) : queue[i] = seen[x][i]
      BY <2>7, Zenon DEF OnTrack
    <3>2. Len(seen[x]) <= Len(queue') /\ \A i \in 1..Len(seen[x]) : i \in 1..Len(queue)
      BY <2>5, <2>8, <3>1, SMT
    <3> QED BY <2>5, <3>1, <3>2, Zenon
  <2> QED BY <2>3, <2>6, <2>7, <2>9, Zenon DEF OnTrack, LastAreRows
<1>16. ASSUME NEW w \in Workers, ReadQueue(w)
      PROVE  WriteInv'
  <2>1. /\ overruns' = overruns /\ queue' = queue /\ stored' = stored /\ table' = table
        /\ seen' = [seen EXCEPT ![w] = queue] /\ written' = [written EXCEPT ![w] = 0]
        /\ broken' = broken
    BY <1>16, Zenon DEF ReadQueue, queueVars, tableVars, lockVars
  <2>2. Goes(w, {"read"}, {"unlock", "write"})
    BY <1>16, Moves, Zenon
  <2> SUFFICES ASSUME overruns' = 0, NEW x \in Workers, Writes(x)'
               PROVE  OnTrack(x)'
    BY Zenon DEF WriteInv
  <2>3. CASE x = w
    <3>1. seen'[w] = queue /\ written'[w] = 0 /\ pc'[w] # "delete"
      BY <1>t, <2>1, <2>2, SMT DEF Goes, Moved
    <3>2. Len(queue) <= Len(queue)
      BY <1>t, LenProperties, SMT
    <3>3. \A i \in 1..0 : FALSE
      BY SMT
    <3> QED BY <2>1, <2>3, <3>1, <3>2, <3>3, Zenon DEF OnTrack, LastAreRows
  <2>4. CASE x # w
    <3>1. pc'[x] = pc[x] /\ seen'[x] = seen[x] /\ written'[x] = written[x]
      BY <1>t, <2>1, <2>2, <2>4, SMT DEF Goes, Moved
    <3>2. OnTrack(x)
      BY <2>1, <3>1, Zenon DEF WriteInv, Writes
    <3> QED BY <2>1, <3>1, <3>2, OnTrackHolds
  <2> QED BY <2>3, <2>4
<1>17. ASSUME NEW w \in Workers, WriteBatch(w)
      PROVE  WriteInv'
  <2>1. overruns' = overruns
    BY <1>17, Zenon DEF WriteBatch, lockVars
  <2>2. Goes(w, {"write"}, {"delete", "write"})
    BY <1>17, Moves, Zenon
  <2> SUFFICES ASSUME overruns' = 0, NEW x \in Workers, Writes(x)'
               PROVE  OnTrack(x)'
    BY Zenon DEF WriteInv
  <2>3. pc[w] \in Draining /\ (x # w => pc[x] \in Draining)
    BY <1>t, <2>2, SMT DEF Goes, Moved, Writes, Draining
  <2>4. x = w
    BY <2>1, <2>3, DrainsAlone, Zenon
  <2>5. OnTrack(w)
    BY <2>1, <2>2, Zenon DEF WriteInv, Writes, Goes
  <2> QED BY <1>17, <2>4, <2>5, BatchOnTrack
<1>18. ASSUME NEW w \in Workers, Deadlock(w)
      PROVE  WriteInv'
  <2>1. /\ overruns' = overruns /\ queue' = queue /\ stored' = stored /\ table' = table
        /\ seen' = seen
    BY <1>18, Zenon DEF Deadlock, queueVars, tableVars, lockVars
  <2>2. /\ pc[w] = "write"
        /\ \/ /\ written' = [written EXCEPT ![w] = 0]
              /\ pc' = pc /\ broken' = broken
           \/ /\ broken' = TRUE /\ pc' = [pc EXCEPT ![w] = "delete"] /\ written' = written
    BY <1>18, DeadlockMoves, Zenon
  <2> SUFFICES ASSUME overruns' = 0, NEW x \in Workers, Writes(x)'
               PROVE  OnTrack(x)'
    BY Zenon DEF WriteInv
  <2>3. Writes(x) /\ (x # w => pc'[x] = pc[x] /\ written'[x] = written[x])
    BY <1>t, <2>2, SMT DEF Writes
  <2>4. OnTrack(x)
    BY <2>1, <2>3, Zenon DEF WriteInv
  <2>5. broken => broken'
    BY <2>2, Zenon
  <2>6. CASE x # w
    BY <2>1, <2>3, <2>4, <2>5, <2>6, OnTrackHolds, Zenon
  <2>7. CASE x = w /\ broken' = TRUE
    BY <2>1, <2>4, <2>7, Zenon DEF OnTrack
  <2>8. CASE x = w /\ written' = [written EXCEPT ![w] = 0] /\ pc' = pc
    <3>1. written'[x] = 0
      BY <1>t, <2>8, SMT
    <3>2. \A i \in 1..0 : FALSE
      BY SMT
    <3>3. pc'[x] # "delete"
      <4>1. pc'[x] = "write"
        BY <2>2, <2>8, Zenon
      <4> QED BY <4>1, SMT
    <3> QED BY <2>1, <2>4, <3>1, <3>2, <3>3, Zenon DEF OnTrack, LastAreRows
  <2> QED BY <2>2, <2>6, <2>7, <2>8, Zenon
<1>19. ASSUME NEW w \in Workers, DrainFails(w)
      PROVE  WriteInv'
  <2>1. /\ overruns' = overruns /\ queue' = queue /\ stored' = stored /\ table' = table
        /\ seen' = seen /\ written' = written /\ broken' = TRUE
    BY <1>19, Zenon DEF DrainFails, workVars, queueVars, tableVars, lockVars
  <2>2. \/ pc[w] = "write" /\ pc' = [pc EXCEPT ![w] = "delete"]
        \/ \E s \in {"unmark", "unlock", "untick", "done"} : pc' = [pc EXCEPT ![w] = s]
    BY <1>19, DrainFailsMoves, Zenon
  <2> SUFFICES ASSUME overruns' = 0, NEW x \in Workers, Writes(x)'
               PROVE  OnTrack(x)'
    BY Zenon DEF WriteInv
  <2>3. Writes(x)
    BY <1>t, <2>2, SMT DEF Writes
  <2>4. OnTrack(x)
    BY <2>1, <2>3, Zenon DEF WriteInv
  <2> QED BY <2>1, <2>4, Zenon DEF OnTrack
<1>20. ASSUME NEW w \in Workers, DeleteList(w)
      PROVE  WriteInv'
  <2>1. overruns' = overruns
    BY <1>20, Zenon DEF DeleteList, lockVars
  <2>2. Goes(w, {"delete"}, {"unmark"})
    BY <1>20, Moves, Zenon
  <2> SUFFICES ASSUME overruns' = 0, NEW x \in Workers, Writes(x)'
               PROVE  OnTrack(x)'
    BY Zenon DEF WriteInv
  <2>3. pc[w] \in Draining /\ x # w /\ pc[x] \in Draining
    BY <1>t, <2>2, SMT DEF Goes, Moved, Writes, Draining
  <2> QED BY <2>1, <2>3, DrainsAlone, Zenon
<1>21. ASSUME NEW d \in Days, ExpirePrice(d)
      PROVE  WriteInv'
  <2>1. /\ overruns' = overruns /\ queue' = queue /\ stored' = stored /\ table' = table
        /\ seen' = seen /\ written' = written /\ pc' = pc /\ broken' = broken
    BY <1>21, Zenon DEF ExpirePrice, workVars, queueVars, tableVars, lockVars
  <2> QED BY <2>1, WriteHolds, Zenon
<1>22. ASSUME vars' = vars
      PROVE  WriteInv'
  <2>1. /\ overruns' = overruns /\ queue' = queue /\ stored' = stored /\ table' = table
        /\ seen' = seen /\ written' = written /\ pc' = pc /\ broken' = broken
    BY <1>22, Zenon DEF vars, workVars, queueVars, tableVars, lockVars
  <2> QED BY <2>1, WriteHolds, Zenon
<1>23. ASSUME NEW l \in LockKeys, Expire(l)
      PROVE  WriteInv'
  <2>1. /\ queue' = queue /\ stored' = stored /\ table' = table
        /\ seen' = seen /\ written' = written /\ pc' = pc /\ broken' = broken
    BY <1>23, Zenon DEF Expire, workVars, queueVars, tableVars
  <2>2. overruns \in Nat /\ (overruns' = overruns \/ overruns' = overruns + 1)
    BY <1>23, Zenon DEF Expire, ExpireLock, TypeInv, TypeOK
  <2>3. overruns' = 0 => overruns = 0
    BY <2>2, SMT
  <2> SUFFICES ASSUME overruns' = 0, NEW x \in Workers, Writes(x)'
               PROVE  OnTrack(x)'
    BY Zenon DEF WriteInv
  <2>4. OnTrack(x)
    BY <2>1, <2>3, Zenon DEF WriteInv, Writes
  <2> QED BY <2>1, <2>4, OnTrackHolds, Zenon
<1>w. ASSUME NEW w \in Workers,
             \/ CheckMarks(w) \/ CachePrice(w) \/ PushPrice(w) \/ CheckLength(w)
             \/ SaveFails(w) \/ Tick(w) \/ EndTick(w) \/ Lock(w) \/ LockTaken(w)
             \/ ReadQueue(w) \/ WriteBatch(w) \/ Deadlock(w) \/ DrainFails(w)
             \/ DeleteList(w) \/ DeleteMarks(w) \/ Unlock(w)
             \/ LookInCache(w) \/ LookInTable(w) \/ FillCache(w) \/ Crash(w)
      PROVE  WriteInv'
  BY <1>w, <1>1, <1>2, <1>3, <1>4, <1>5, <1>6, <1>7, <1>8, <1>9, <1>10, <1>11, <1>12, <1>13, <1>14, <1>15, <1>16, <1>17, <1>18, <1>19, <1>20, Zenon
<1> QED BY <1>w, <1>21, <1>22, <1>23, Steps, Zenon

-----------------------------------------------------------------------------
(* The theorems.                                                           *)

LEMMA InitInv == Init => IInv
<1> SUFFICES ASSUME Init PROVE IInv
  OBVIOUS
<1>1. TypeInv
  BY TypeInit
<1>2. MarksInv
  BY Zenon DEF Init, MarksInv
<1>3. pc = [w \in Workers |-> "idle"]
  BY Zenon DEF Init
<1>4. \A w \in Workers : pc[w] = "idle"
  BY <1>3, SMT
<1>5. LookInv
  <2>1. \A s \in Savers : todo[s] = {}
    BY WorkerFacts, Zenon DEF Init
  <2>2. \A d \in Today : cache[d] = None
    BY PriceAssumption, SMT DEF Init
  <2>3. table = InitTable
    BY Zenon DEF Init
  <2>4. \A l \in Lookups : found[l] = None /\ pc[l] # "fill" /\ pc[l] # "done"
    <3>1. \A l \in Lookups : found[l] = None
      BY Zenon DEF Init
    <3>2. \A l \in Lookups : pc[l] = "idle"
      BY <1>4, WorkerFacts, Zenon
    <3> QED BY <3>1, <3>2, SMT
  <2> QED BY <2>1, <2>2, <2>3, <2>4, Zenon DEF LookInv
<1>6. LockInv
  <2>1. overruns = 0 /\ 0 <= MaxOverruns
    BY BoundFacts, SMT DEF Init, InitLocks
  <2>2. \A w \in Workers : ~Drains(w)
    BY <1>4, SMT DEF Drains, Draining
  <2> QED BY <2>1, <2>2, Zenon DEF LockInv
<1>7. WriteInv
  BY <1>4, SMT DEF WriteInv, Writes
<1> QED BY <1>1, <1>2, <1>5, <1>6, <1>7 DEF IInv

\* The inductive invariant.
LEMMA Inductive == Spec => []IInv
<1>1. Init => IInv
  BY InitInv
<1>2. IInv /\ [Next]_vars => IInv'
  BY TypeKept, MarksKept, LookKept, LockKept, WriteKept, Zenon DEF IInv
<1> QED BY <1>1, <1>2, PTL DEF Spec

\* Every variable keeps its type.
THEOREM TypeCorrect == Spec => []TypeOK
<1>1. IInv => TypeOK
  BY DEF IInv, TypeInv
<1> QED BY <1>1, Inductive, PTL

\* While no drain is at work and nothing has failed, a marked coin and day has an entry
\* in the list, also if the lock has run out under a drain.
THEOREM MarkedAreQueuedCorrect == Spec => []MarkedAreQueued
<1>1. IInv => MarkedAreQueued
  <2> SUFFICES ASSUME IInv, ~broken, \A w \in Workers : ~Drains(w)
               PROVE  \A d \in marks : \E i \in DOMAIN queue : queue[i].day = d
    BY Zenon DEF MarkedAreQueued
  <2>1. \A w \in Workers : pc[w] # "unmark"
    <3>1. SUFFICES ASSUME NEW w \in Workers, pc[w] = "unmark"
                   PROVE  FALSE
      OBVIOUS
    <3>2. pc[w] \in Draining
      BY <3>1, Zenon DEF Draining
    <3>3. w \notin Lookups
      BY <3>2, WorkerFacts, Zenon DEF IInv, TypeInv, StagesFit
    <3> QED BY <3>2, <3>3, Zenon DEF Drains
  <2> QED BY <2>1, Zenon DEF IInv, MarksInv
<1> QED BY <1>1, Inductive, PTL

\* A look-up whose query did not fail finds a price for a past day that has a row;
\* for the current day it finds none but one that was saved.
THEOREM LookupsAreCurrentCorrect == Spec => []LookupsAreCurrent
<1>1. IInv => LookupsAreCurrent
  BY Zenon DEF IInv, LookInv, LookupsAreCurrent, IsSaved
<1> QED BY <1>1, Inductive, PTL

\* As long as the lock has not run out under a drain, a drain that has written its
\* batches leaves the price pushed last for each coin and day in the table.
THEOREM LastPushedWinsCorrect == Spec => [](overruns = 0 => LastPushedWins)
<1>1. IInv => (overruns = 0 => LastPushedWins)
  <2> SUFFICES ASSUME IInv, overruns = 0,
                      NEW w \in Workers, pc[w] = "delete", ~broken,
                      NEW e \in LastOfEach(seen[w])
               PROVE  table[e.day] = e.price
    BY Zenon DEF LastPushedWins
  <2>2. OnTrack(w)
    BY Zenon DEF IInv, WriteInv, Writes
  <2>3. written[w] = Len(seen[w]) /\ LastAreRows(w)
    BY <2>2, Zenon DEF OnTrack
  <2>4. DOMAIN seen[w] = 1..Len(seen[w])
    BY LenProperties, Zenon DEF IInv, TypeInv, TypeOK
  <2>5. PICK i \in DOMAIN seen[w] :
            e = seen[w][i] /\ \A k \in DOMAIN seen[w] : k > i => seen[w][k].day # seen[w][i].day
    BY Zenon DEF LastOfEach
  <2> QED BY <2>3, <2>4, <2>5, Zenon DEF LastAreRows
<1> QED BY <1>1, Inductive, PTL

-----------------------------------------------------------------------------
(* The refinement.                                                         *)

\* How much the drain at work has read: the mapping of Abstract.
ReadLen == IF \E w \in Workers : pc[w] \in {"write", "delete"}
           THEN Len(seen[CHOOSE w \in Workers : pc[w] \in {"write", "delete"}])
           ELSE 0

\* With one such worker, it is what that one has read.
LEMMA ReadOfOne ==
    ASSUME NEW p, NEW s, NEW w \in Workers, p[w] \in {"write", "delete"},
           \A x \in Workers : p[x] \in {"write", "delete"} => x = w
    PROVE  (IF \E x \in Workers : p[x] \in {"write", "delete"}
            THEN Len(s[CHOOSE x \in Workers : p[x] \in {"write", "delete"}])
            ELSE 0) = Len(s[w])
<1>1. (CHOOSE x \in Workers : p[x] \in {"write", "delete"}) = w
  BY Zenon
<1> QED BY <1>1, Zenon

\* Every step does what a step of DrainedQueue does, or nothing it would see.
LEMMA StepImplements ==
    ASSUME TypeInv, TypeInv', LockInv, LockInv', WriteInv, overruns = 0, overruns' = 0,
           [Next]_vars
    PROVE  [Abstract!Next]_(Abstract!queueVars)
<1> DEFINE G == [Abstract!Next]_(Abstract!queueVars)
<1>t. /\ pc \in [Workers -> Stages] /\ seen \in [Workers -> Seq(Entry)]
      /\ written \in [Workers -> Nat] /\ piped \in [Workers -> SUBSET Entry]
      /\ pc' \in [Workers -> Stages] /\ queue \in Seq(Entry)
  BY Zenon DEF TypeInv, TypeOK
\* The steps of DrainedQueue.
<1>s. ASSUME queue' = queue, ReadLen' = ReadLen, stored' = stored, broken' = broken
      PROVE  G
  BY <1>s, Zenon DEF Abstract!queueVars, ReadLen
<1>p. ASSUME NEW e \in Entry, queue' = Append(queue, e), ReadLen' = ReadLen,
             stored' = stored, broken' = broken
      PROVE  G
  BY <1>p, Zenon DEF Abstract!Next, Abstract!Push, ReadLen
<1>r. ASSUME queue' = queue, ReadLen = 0, ReadLen' = Len(queue), stored' = stored,
             broken' = broken
      PROVE  G
  BY <1>r, Zenon DEF Abstract!Next, Abstract!Read, ReadLen
<1>o. ASSUME queue' = queue, ReadLen' = ReadLen, broken' = broken,
             NEW S \in SUBSET {queue[i] : i \in 1..ReadLen}, stored' = stored \cup S
      PROVE  G
  BY <1>o, Zenon DEF Abstract!Next, Abstract!Store, Abstract!ReadPart, ReadLen
<1>c. ASSUME broken \/ {queue[i] : i \in 1..ReadLen} \subseteq stored, queue' = <<>>,
             ReadLen' = 0, stored' = stored, broken' = broken
      PROVE  G
  BY <1>c, Zenon DEF Abstract!Next, Abstract!Clear, Abstract!ReadPart, ReadLen
<1>f. ASSUME broken' = TRUE, ReadLen' \in {0, ReadLen}, queue' = queue, stored' = stored
      PROVE  G
  BY <1>f, Zenon DEF Abstract!Next, Abstract!Fail, ReadLen
<1> HIDE DEF G
\* What the drain has read.
<1>a. \A w, x \in Workers : pc[w] \in Draining /\ pc[x] \in Draining => x = w
  BY DrainsAlone, Zenon
<1>b. \A w, x \in Workers : pc'[w] \in Draining /\ pc'[x] \in Draining => x = w
  <2>1. \A w \in Workers : pc'[w] \in Draining => w \notin Lookups
    BY WorkerFacts, Zenon DEF TypeInv, StagesFit
  <2>2. \A w \in Workers : Drains(w)' => holder'[QueueLock] = w
    BY Zenon DEF LockInv
  <2> QED BY <2>1, <2>2, Zenon DEF Drains
<1>d. "write" \in Draining /\ "delete" \in Draining
  BY SMT DEF Draining
<1>1. \A w \in Workers : Writes(w) => ReadLen = Len(seen[w])
  <2> SUFFICES ASSUME NEW w \in Workers, pc[w] \in {"write", "delete"}
               PROVE  ReadLen = Len(seen[w])
    BY Zenon DEF Writes
  <2>1. \A x \in Workers : pc[x] \in {"write", "delete"} => x = w
    BY <1>a, <1>d, Zenon
  <2> QED BY <2>1, ReadOfOne, Zenon DEF ReadLen
<1>2. \A w \in Workers : Writes(w)' => ReadLen' = Len(seen'[w])
  <2> SUFFICES ASSUME NEW w \in Workers, pc'[w] \in {"write", "delete"}
               PROVE  ReadLen' = Len(seen'[w])
    BY Zenon DEF Writes
  <2>1. \A x \in Workers : pc'[x] \in {"write", "delete"} => x = w
    BY <1>b, <1>d, Zenon
  <2> QED BY <2>1, ReadOfOne, Zenon DEF ReadLen
<1>3. (\A w \in Workers : ~Writes(w)) => ReadLen = 0
  BY Zenon DEF Writes, ReadLen
<1>4. (\A w \in Workers : ~Writes(w)') => ReadLen' = 0
  BY Zenon DEF Writes, ReadLen
<1>5. ASSUME \A x \in Workers : Writes(x)' => Writes(x) /\ seen'[x] = seen[x]
      PROVE  ReadLen' \in {0, ReadLen}
  BY <1>1, <1>2, <1>4, <1>5, Zenon
<1>6. ASSUME \A x \in Workers : Writes(x)' => Writes(x) /\ seen'[x] = seen[x],
             \A x \in Workers : Writes(x) => Writes(x)'
      PROVE  ReadLen' = ReadLen
  <2>1. CASE \E x \in Workers : Writes(x)
    BY <1>1, <1>2, <1>6, <2>1, Zenon
  <2>2. CASE ~ \E x \in Workers : Writes(x)
    BY <1>3, <1>4, <1>6, <2>2, Zenon
  <2> QED BY <2>1, <2>2
<1>7. ASSUME NEW w \in Workers, CheckMarks(w)
       PROVE  G
  <2>1. queue' = queue /\ stored' = stored /\ broken' = broken /\ seen' = seen
    BY <1>7, Zenon DEF CheckMarks, workVars, queueVars, tableVars
  <2>2. Goes(w, {"idle"}, {"done", "cache"})
    BY <1>7, Moves, Zenon
  <2>3. /\ \A x \in Workers : Writes(x)' => Writes(x)
        /\ \A x \in Workers : Writes(x) => Writes(x)'
    BY <1>t, <2>2, SMT DEF Goes, Moved, Writes
  <2>4. ReadLen' = ReadLen
    BY <1>6, <2>1, <2>3, Zenon
  <2> QED BY <1>s, <2>1, <2>4, Zenon
<1>8. ASSUME NEW w \in Workers, CachePrice(w)
       PROVE  G
  <2>1. queue' = queue /\ stored' = stored /\ broken' = broken /\ seen' = seen
    BY <1>8, Zenon DEF CachePrice, workVars, queueVars, tableVars
  <2>2. Goes(w, {"cache"}, {"cache", "push", "length"})
    BY <1>8, Moves, Zenon
  <2>3. /\ \A x \in Workers : Writes(x)' => Writes(x)
        /\ \A x \in Workers : Writes(x) => Writes(x)'
    BY <1>t, <2>2, SMT DEF Goes, Moved, Writes
  <2>4. ReadLen' = ReadLen
    BY <1>6, <2>1, <2>3, Zenon
  <2> QED BY <1>s, <2>1, <2>4, Zenon
<1>9. ASSUME NEW w \in Workers, CheckLength(w)
       PROVE  G
  <2>1. queue' = queue /\ stored' = stored /\ broken' = broken /\ seen' = seen
    BY <1>9, Zenon DEF CheckLength, workVars, queueVars, tableVars
  <2>2. Goes(w, {"length"}, {"lock", "done"})
    BY <1>9, Moves, Zenon
  <2>3. /\ \A x \in Workers : Writes(x)' => Writes(x)
        /\ \A x \in Workers : Writes(x) => Writes(x)'
    BY <1>t, <2>2, SMT DEF Goes, Moved, Writes
  <2>4. ReadLen' = ReadLen
    BY <1>6, <2>1, <2>3, Zenon
  <2> QED BY <1>s, <2>1, <2>4, Zenon
<1>10. ASSUME NEW w \in Workers, Tick(w)
       PROVE  G
  <2>1. queue' = queue /\ stored' = stored /\ broken' = broken /\ seen' = seen
    BY <1>10, Zenon DEF Tick, workVars, queueVars, tableVars
  <2>2. Goes(w, {"idle"}, {"lock"})
    BY <1>10, Moves, Zenon
  <2>3. /\ \A x \in Workers : Writes(x)' => Writes(x)
        /\ \A x \in Workers : Writes(x) => Writes(x)'
    BY <1>t, <2>2, SMT DEF Goes, Moved, Writes
  <2>4. ReadLen' = ReadLen
    BY <1>6, <2>1, <2>3, Zenon
  <2> QED BY <1>s, <2>1, <2>4, Zenon
<1>11. ASSUME NEW w \in Workers, EndTick(w)
       PROVE  G
  <2>1. queue' = queue /\ stored' = stored /\ broken' = broken /\ seen' = seen
    BY <1>11, Zenon DEF EndTick, workVars, queueVars, tableVars
  <2>2. Goes(w, {"untick"}, {"idle"})
    BY <1>11, Moves, Zenon
  <2>3. /\ \A x \in Workers : Writes(x)' => Writes(x)
        /\ \A x \in Workers : Writes(x) => Writes(x)'
    BY <1>t, <2>2, SMT DEF Goes, Moved, Writes
  <2>4. ReadLen' = ReadLen
    BY <1>6, <2>1, <2>3, Zenon
  <2> QED BY <1>s, <2>1, <2>4, Zenon
<1>12. ASSUME NEW w \in Workers, Lock(w)
       PROVE  G
  <2>1. queue' = queue /\ stored' = stored /\ broken' = broken /\ seen' = seen
    BY <1>12, Zenon DEF Lock, workVars, queueVars, tableVars
  <2>2. Goes(w, {"lock"}, {"read"})
    BY <1>12, Moves, Zenon
  <2>3. /\ \A x \in Workers : Writes(x)' => Writes(x)
        /\ \A x \in Workers : Writes(x) => Writes(x)'
    BY <1>t, <2>2, SMT DEF Goes, Moved, Writes
  <2>4. ReadLen' = ReadLen
    BY <1>6, <2>1, <2>3, Zenon
  <2> QED BY <1>s, <2>1, <2>4, Zenon
<1>13. ASSUME NEW w \in Workers, DeleteMarks(w)
       PROVE  G
  <2>1. queue' = queue /\ stored' = stored /\ broken' = broken /\ seen' = seen
    BY <1>13, Zenon DEF DeleteMarks, workVars, queueVars, tableVars
  <2>2. Goes(w, {"unmark"}, {"unlock"})
    BY <1>13, Moves, Zenon
  <2>3. /\ \A x \in Workers : Writes(x)' => Writes(x)
        /\ \A x \in Workers : Writes(x) => Writes(x)'
    BY <1>t, <2>2, SMT DEF Goes, Moved, Writes
  <2>4. ReadLen' = ReadLen
    BY <1>6, <2>1, <2>3, Zenon
  <2> QED BY <1>s, <2>1, <2>4, Zenon
<1>14. ASSUME NEW w \in Workers, LookInCache(w)
       PROVE  G
  <2>1. queue' = queue /\ stored' = stored /\ broken' = broken /\ seen' = seen
    BY <1>14, Zenon DEF LookInCache, workVars, queueVars, tableVars
  <2>2. Goes(w, {"idle"}, {"done", "table"})
    BY <1>14, Moves, Zenon
  <2>3. /\ \A x \in Workers : Writes(x)' => Writes(x)
        /\ \A x \in Workers : Writes(x) => Writes(x)'
    BY <1>t, <2>2, SMT DEF Goes, Moved, Writes
  <2>4. ReadLen' = ReadLen
    BY <1>6, <2>1, <2>3, Zenon
  <2> QED BY <1>s, <2>1, <2>4, Zenon
<1>15. ASSUME NEW w \in Workers, LookInTable(w)
       PROVE  G
  <2>1. queue' = queue /\ stored' = stored /\ broken' = broken /\ seen' = seen
    BY <1>15, Zenon DEF LookInTable, workVars, queueVars, tableVars
  <2>2. Goes(w, {"table"}, {"done", "fill", "failed"})
    BY <1>15, Moves, Zenon
  <2>3. /\ \A x \in Workers : Writes(x)' => Writes(x)
        /\ \A x \in Workers : Writes(x) => Writes(x)'
    BY <1>t, <2>2, SMT DEF Goes, Moved, Writes
  <2>4. ReadLen' = ReadLen
    BY <1>6, <2>1, <2>3, Zenon
  <2> QED BY <1>s, <2>1, <2>4, Zenon
<1>16. ASSUME NEW w \in Workers, FillCache(w)
       PROVE  G
  <2>1. queue' = queue /\ stored' = stored /\ broken' = broken /\ seen' = seen
    BY <1>16, Zenon DEF FillCache, workVars, queueVars, tableVars
  <2>2. Goes(w, {"fill"}, {"done"})
    BY <1>16, Moves, Zenon
  <2>3. /\ \A x \in Workers : Writes(x)' => Writes(x)
        /\ \A x \in Workers : Writes(x) => Writes(x)'
    BY <1>t, <2>2, SMT DEF Goes, Moved, Writes
  <2>4. ReadLen' = ReadLen
    BY <1>6, <2>1, <2>3, Zenon
  <2> QED BY <1>s, <2>1, <2>4, Zenon
<1>17. ASSUME NEW w \in Workers, LockTaken(w) \/ Unlock(w)
       PROVE  G
  <2>1. /\ queue' = queue /\ stored' = stored /\ broken' = broken
        /\ seen' = seen \/ seen' = [seen EXCEPT ![w] = <<>>]
    BY <1>17, Zenon DEF LockTaken, Unlock, queueVars, tableVars
  <2>2. /\ pc[w] \in {"lock", "unlock"}
        /\ \/ pc' = pc \/ pc' = [pc EXCEPT ![w] = "untick"] \/ pc' = [pc EXCEPT ![w] = "done"]
    BY <1>17, LockTakenMoves, UnlockMoves, Zenon
  <2>3. /\ \A x \in Workers : Writes(x)' => Writes(x) /\ x # w
        /\ \A x \in Workers : Writes(x) => Writes(x)'
    BY <1>t, <2>2, SMT DEF Writes
  <2>4. \A x \in Workers : x # w => seen'[x] = seen[x]
    BY <1>t, <2>1, SMT
  <2>5. ReadLen' = ReadLen
    BY <1>6, <2>3, <2>4, Zenon
  <2> QED BY <1>s, <2>1, <2>5, Zenon
<1>18. ASSUME NEW w \in Workers, SaveFails(w)
       PROVE  G
  <2>1. queue' = queue /\ stored' = stored /\ broken' = TRUE /\ seen' = seen
    BY <1>18, Zenon DEF SaveFails, tableVars
  <2>2. Goes(w, {"push", "length"}, {"done"})
    BY <1>18, Moves, Zenon
  <2>3. \A x \in Workers : Writes(x)' => Writes(x)
    BY <1>t, <2>2, SMT DEF Goes, Moved, Writes
  <2>4. ReadLen' \in {0, ReadLen}
    BY <1>5, <2>1, <2>3, Zenon
  <2> QED BY <1>f, <2>1, <2>4, Zenon
<1>19. ASSUME NEW w \in Workers, DrainFails(w)
       PROVE  G
  <2>1. queue' = queue /\ stored' = stored /\ broken' = TRUE /\ seen' = seen
    BY <1>19, Zenon DEF DrainFails, workVars, queueVars, tableVars
  <2>2. \/ pc[w] = "write" /\ pc' = [pc EXCEPT ![w] = "delete"]
        \/ \E s \in {"unmark", "unlock", "untick", "done"} : pc' = [pc EXCEPT ![w] = s]
    BY <1>19, DrainFailsMoves, Zenon
  <2>3. \A x \in Workers : Writes(x)' => Writes(x)
    BY <1>t, <2>2, SMT DEF Writes
  <2>4. ReadLen' \in {0, ReadLen}
    BY <1>5, <2>1, <2>3, Zenon
  <2> QED BY <1>f, <2>1, <2>4, Zenon
<1>20. ASSUME NEW w \in Workers, Crash(w)
       PROVE  G
  <2>1. /\ queue' = queue /\ stored' = stored /\ broken' = TRUE
        /\ seen' = [seen EXCEPT ![w] = <<>>]
    BY <1>20, Zenon DEF Crash, queueVars, tableVars
  <2>2. pc' = [pc EXCEPT ![w] = "idle"] \/ pc' = [pc EXCEPT ![w] = "lost"]
    BY <1>20, CrashMoves, Zenon
  <2>3. \A x \in Workers : Writes(x)' => Writes(x) /\ x # w
    BY <1>t, <2>2, SMT DEF Writes
  <2>4. \A x \in Workers : x # w => seen'[x] = seen[x]
    BY <1>t, <2>1, SMT
  <2>5. ReadLen' \in {0, ReadLen}
    BY <1>5, <2>3, <2>4, Zenon
  <2> QED BY <1>f, <2>1, <2>5, Zenon
<1>21. ASSUME NEW w \in Workers, Deadlock(w)
       PROVE  G
  <2>1. queue' = queue /\ stored' = stored /\ seen' = seen
    BY <1>21, Zenon DEF Deadlock, queueVars, tableVars
  <2>2. /\ pc[w] = "write"
        /\ \/ pc' = pc /\ broken' = broken
           \/ broken' = TRUE /\ pc' = [pc EXCEPT ![w] = "delete"]
    BY <1>21, DeadlockMoves, Zenon
  <2>3. /\ \A x \in Workers : Writes(x)' => Writes(x)
        /\ \A x \in Workers : Writes(x) => Writes(x)'
    BY <1>t, <2>2, SMT DEF Writes
  <2>4. ReadLen' = ReadLen
    BY <1>6, <2>1, <2>3, Zenon
  <2> QED BY <1>s, <1>f, <2>1, <2>2, <2>4, Zenon
<1>22. ASSUME NEW w \in Workers, PushPrice(w)
       PROVE  G
  <2>1. PICK e \in piped[w] : queue' = Append(queue, e)
    BY <1>22, Zenon DEF PushPrice
  <2>2. e \in Entry
    BY <1>t, <2>1, Zenon
  <2>3. stored' = stored /\ broken' = broken /\ seen' = seen
    BY <1>22, Zenon DEF PushPrice, tableVars
  <2>4. Goes(w, {"push"}, {"push", "length"})
    BY <1>22, Moves, Zenon
  <2>5. /\ \A x \in Workers : Writes(x)' => Writes(x)
        /\ \A x \in Workers : Writes(x) => Writes(x)'
    BY <1>t, <2>4, SMT DEF Goes, Moved, Writes
  <2>6. ReadLen' = ReadLen
    BY <1>6, <2>3, <2>5, Zenon
  <2> QED BY <1>p, <2>1, <2>2, <2>3, <2>6, Zenon
<1>23. ASSUME NEW w \in Workers, ReadQueue(w)
       PROVE  G
  <2>1. /\ queue' = queue /\ stored' = stored /\ broken' = broken
        /\ seen' = [seen EXCEPT ![w] = queue] /\ pc[w] = "read"
        /\ pc' = [pc EXCEPT ![w] = IF queue = <<>> THEN "unlock" ELSE "write"]
    BY <1>23, Zenon DEF ReadQueue, Goto, queueVars, tableVars
  <2>2. \A x \in Workers : ~Writes(x)
    <3>1. pc[w] \in Draining /\ ~Writes(w)
      BY <2>1, SMT DEF Draining, Writes
    <3>2. \A x \in Workers : Writes(x) => pc[x] \in Draining
      BY <1>d, Zenon DEF Writes
    <3> QED BY <1>a, <3>1, <3>2, Zenon
  <2>3. \A x \in Workers : x # w => ~Writes(x)'
    BY <1>t, <2>1, <2>2, SMT DEF Writes
  <2>4. ReadLen = 0
    BY <1>3, <2>2
  <2>5. CASE queue = <<>>
    <3>1. ~Writes(w)'
      BY <1>t, <2>1, <2>5, SMT DEF Writes
    <3>2. ReadLen' = 0
      BY <1>4, <2>3, <3>1, Zenon
    <3> QED BY <1>s, <2>1, <2>4, <3>2, Zenon
  <2>6. CASE queue # <<>>
    <3>1. Writes(w)' /\ seen'[w] = queue
      BY <1>t, <2>1, <2>6, SMT DEF Writes
    <3>2. ReadLen' = Len(queue)
      BY <1>2, <3>1, Zenon
    <3> QED BY <1>r, <2>1, <2>4, <3>2, Zenon
  <2> QED BY <2>5, <2>6
<1>24. ASSUME NEW w \in Workers, WriteBatch(w)
       PROVE  G
  <2> DEFINE batch == SubSeq(seen[w], written[w] + 1, Upto(w))
  <2>1. /\ queue' = queue /\ broken' = broken /\ seen' = seen
        /\ stored' = stored \cup Elems(batch)
    BY <1>24, Zenon DEF WriteBatch, queueVars
  <2>2. Goes(w, {"write"}, {"delete", "write"})
    BY <1>24, Moves, Zenon
  <2>3. /\ \A x \in Workers : Writes(x)' => Writes(x)
        /\ \A x \in Workers : Writes(x) => Writes(x)'
    BY <1>t, <2>2, SMT DEF Goes, Moved, Writes
  <2>4. ReadLen' = ReadLen
    BY <1>6, <2>1, <2>3, Zenon
  <2>5. Writes(w) /\ OnTrack(w)
    BY <2>2, Zenon DEF WriteInv, Writes, Goes
  <2>6. ReadLen = Len(seen[w]) /\ \A i \in 1..Len(seen[w]) : queue[i] = seen[w][i]
    BY <1>1, <2>5, Zenon DEF OnTrack
  <2>7. /\ Upto(w) \in Nat /\ written[w] <= Upto(w) /\ Upto(w) <= Len(seen[w])
        /\ DOMAIN batch = 1..(Upto(w) - written[w])
        /\ \A i \in 1..(Upto(w) - written[w]) : batch[i] = seen[w][written[w] + i]
    <3>1. written[w] <= Len(seen[w])
      BY <2>2, Zenon DEF TypeInv, WrittenFit, Goes
    <3>2. seen[w] \in Seq(Entry) /\ written[w] \in Nat
      BY <1>t, Zenon
    <3> QED BY <3>1, <3>2, NextBatchFits, Zenon
  <2>8. written[w] \in Nat /\ Len(seen[w]) \in Nat
    BY <1>t, LenProperties
  <2> HIDE DEF batch
  <2>9. Elems(batch) \subseteq {queue[i] : i \in 1..ReadLen}
    <3>1. SUFFICES ASSUME NEW i \in DOMAIN batch
                   PROVE  batch[i] \in {queue[k] : k \in 1..ReadLen}
      BY Zenon DEF Elems
    <3>2. i \in 1..(Upto(w) - written[w])
      BY <2>7, Zenon
    <3>3. written[w] + i \in 1..Len(seen[w])
      BY <2>7, <2>8, <3>2, SMT
    <3> QED BY <2>6, <2>7, <3>2, <3>3, Zenon
  <2> QED BY <1>o, <2>1, <2>4, <2>9, Zenon
<1>25. ASSUME NEW w \in Workers, DeleteList(w)
       PROVE  G
  <2>1. /\ queue' = <<>> /\ stored' = stored /\ broken' = broken /\ pc[w] = "delete"
        /\ pc' = [pc EXCEPT ![w] = "unmark"]
    BY <1>25, Zenon DEF DeleteList, Goto, tableVars
  <2>2. Writes(w)
    BY <2>1, Zenon DEF Writes
  <2>3. \A x \in Workers : Writes(x) => x = w
    BY <1>a, <1>d, <2>2, Zenon DEF Writes
  <2>4. \A x \in Workers : ~Writes(x)'
    BY <1>t, <2>1, <2>3, SMT DEF Writes
  <2>5. ReadLen' = 0
    BY <1>4, <2>4, Zenon
  <2>6. broken \/ {queue[i] : i \in 1..ReadLen} \subseteq stored
    <3>1. SUFFICES ASSUME ~broken, NEW i \in 1..ReadLen
                   PROVE  queue[i] \in stored
      BY Zenon
    <3>2. OnTrack(w)
      BY <2>2, Zenon DEF WriteInv
    <3>3. /\ ReadLen = Len(seen[w]) /\ written[w] = Len(seen[w])
          /\ \A k \in 1..Len(seen[w]) : queue[k] = seen[w][k]
          /\ \A k \in 1..written[w] : seen[w][k] \in stored
      BY <1>1, <2>1, <2>2, <3>1, <3>2, Zenon DEF OnTrack
    <3> QED BY <3>3, Zenon
  <2> QED BY <1>c, <2>1, <2>5, <2>6, Zenon
<1>26. ASSUME NEW d \in Days, ExpirePrice(d)
       PROVE  G
  <2>1. queue' = queue /\ stored' = stored /\ broken' = broken /\ seen' = seen /\ pc' = pc
    BY <1>26, Zenon DEF ExpirePrice, workVars, queueVars, tableVars
  <2>2. ReadLen' = ReadLen
    BY <2>1, Zenon DEF ReadLen
  <2> QED BY <1>s, <2>1, <2>2, Zenon
<1>27. ASSUME NEW l \in LockKeys, Expire(l)
       PROVE  G
  <2>1. queue' = queue /\ stored' = stored /\ broken' = broken /\ seen' = seen /\ pc' = pc
    BY <1>27, Zenon DEF Expire, workVars, queueVars, tableVars
  <2>2. ReadLen' = ReadLen
    BY <2>1, Zenon DEF ReadLen
  <2> QED BY <1>s, <2>1, <2>2, Zenon
<1>28. ASSUME vars' = vars
       PROVE  G
  <2>1. queue' = queue /\ stored' = stored /\ broken' = broken /\ seen' = seen /\ pc' = pc
    BY <1>28, Zenon DEF vars, workVars, queueVars, tableVars
  <2>2. ReadLen' = ReadLen
    BY <2>1, Zenon DEF ReadLen
  <2> QED BY <1>s, <2>1, <2>2, Zenon
<1>w. ASSUME NEW w \in Workers,
             \/ CheckMarks(w) \/ CachePrice(w) \/ PushPrice(w) \/ CheckLength(w)
             \/ SaveFails(w) \/ Tick(w) \/ EndTick(w) \/ Lock(w) \/ LockTaken(w)
             \/ ReadQueue(w) \/ WriteBatch(w) \/ Deadlock(w) \/ DrainFails(w)
             \/ DeleteList(w) \/ DeleteMarks(w) \/ Unlock(w)
             \/ LookInCache(w) \/ LookInTable(w) \/ FillCache(w) \/ Crash(w)
      PROVE  G
  BY <1>w, <1>7, <1>8, <1>9, <1>10, <1>11, <1>12, <1>13, <1>14, <1>15, <1>16, <1>17, <1>18, <1>19, <1>20, <1>21, <1>22, <1>23, <1>24, <1>25, Zenon
<1>g. G
  BY <1>w, <1>26, <1>27, <1>28, Steps, Zenon
<1> QED BY <1>g DEF G

\* As long as the lock does not run out under a drain, the queue does what DrainedQueue
\* promises: a list is cleared only when what was read of it is stored, unless something
\* has failed.
THEOREM DrainedAsPromisedCorrect ==
    ASSUME MaxOverruns = 0
    PROVE  Spec => DrainedAsPromised
<1>1. Init => Abstract!Init
  <2> SUFFICES ASSUME Init PROVE Abstract!Init
    OBVIOUS
  <2>1. \A w \in Workers : pc[w] = "idle"
    BY Zenon DEF Init
  <2>2. \A w \in Workers : pc[w] \notin {"write", "delete"}
    BY <2>1, SMT
  <2> QED BY <2>2, Zenon DEF Init, Abstract!Init
<1>2. IInv /\ IInv' /\ [Next]_vars => [Abstract!Next]_(Abstract!queueVars)
  <2> SUFFICES ASSUME IInv, IInv', [Next]_vars
               PROVE  [Abstract!Next]_(Abstract!queueVars)
    OBVIOUS
  <2>1. /\ overruns \in Nat /\ overruns <= 0
        /\ overruns' \in Nat /\ overruns' <= 0
    BY Zenon DEF IInv, TypeInv, TypeOK, LockInv
  <2>2. overruns = 0 /\ overruns' = 0
    BY <2>1, SMT
  <2> QED BY <2>2, StepImplements, Zenon DEF IInv
<1> QED BY <1>1, <1>2, Inductive, PTL DEF Spec, Abstract!Spec, DrainedAsPromised
=============================================================================
