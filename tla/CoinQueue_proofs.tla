-------------------------- MODULE CoinQueue_proofs --------------------------
(***************************************************************************)
(* Proofs about CoinQueue for any number of processes, calls and coins.    *)
(***************************************************************************)
EXTENDS CoinQueue, PositionLemmas, SequenceTheorems, FiniteSetTheorems, TLAPS

-----------------------------------------------------------------------------
(* Sequences of entries.                                                   *)

\* Every coin of a queue is in LastOfEach.
LEMMA LastOfEachCovers ==
    ASSUME NEW q \in Seq(Entry)
    PROVE  /\ LastOfEach(q) \subseteq Coin
           /\ \A e \in Elems(q) : \E c \in LastOfEach(q) : c.id = e.id
<1>1. Len(q) \in Nat /\ DOMAIN q = 1..Len(q) /\ \A i \in DOMAIN q : q[i] \in Entry
  BY LenProperties, ElementOfSeq, SMT
<1>2. LastOfEach(q) \subseteq Coin
  BY <1>1, SMT DEF LastOfEach, CoinOf, Coin, Entry
<1>3. ASSUME NEW i \in DOMAIN q
      PROVE  \E c \in LastOfEach(q) : c.id = q[i].id
  <2> DEFINE S == {k \in DOMAIN q : q[k].id = q[i].id}
  <2>1. S \in SUBSET (1..Len(q)) /\ S # {}
    BY <1>1, SMT
  <2>2. PICK m \in S : \A k \in S : k <= m
    <3> HIDE DEF S
    <3>1. Len(q) \in Nat
      BY <1>1
    <3> QED BY <2>1, <3>1, Greatest, Zenon
  <2>3. \A k \in DOMAIN q : k > m => q[k].id # q[m].id
    BY <1>1, <2>2, SMT
  <2>4. CoinOf(q[m]) \in LastOfEach(q)
    BY <2>2, <2>3, SMT DEF LastOfEach
  <2>5. CoinOf(q[m]).id = q[i].id
    BY <2>2 DEF CoinOf
  <2> QED BY <2>4, <2>5
<1> QED BY <1>2, <1>3, SMT DEF Elems

-----------------------------------------------------------------------------
(* The inductive invariant.                                                *)

\* A refresh has ids to read, then rows to cache.
RowsFit ==
    \A w \in Workers : /\ pc[w] \in {"update", "refresh"} => rows[w] \subseteq CoinIDs
                       /\ pc[w] = "cache" => rows[w] \subseteq Coin

\* Who can be at which stage.
StagesFit ==
    \A w \in Workers :
        /\ pc[w] \in {"push", "length"} => w \in Adders
        /\ pc[w] \in {"lock", "read", "delete", "clear", "abort", "unlock"}
              => w \in Adders \cup Tickers
        /\ pc[w] = "upsert" => w \notin Refreshers
        /\ pc[w] = "update" => w \in Refreshers

\* What a drain read is in the table, or among the coins it will write.
DrainsCover ==
    \A w \in Adders \cup Tickers :
        /\ pc[w] \in {"upsert", "refresh", "cache"} =>
              \A e \in Elems(seen[w]) :
                  e \in stored \/ \E r \in rest[w] : r.id = e.id
        /\ pc[w] \in {"delete", "clear"} => Elems(seen[w]) \subseteq stored

IInv == TypeOK /\ RowsFit /\ StagesFit /\ DrainsCover

\* While no lock expires too early a drain has its lock.
DrainsHold == \A w \in Workers : Drains(w) => holder[QueueLock] = w

\* The goroutine of w goes on to one of the stages of S.
Moved(w, S) == \E s \in S : pc' = [pc EXCEPT ![w] = s]

\* What an attempt on the lock comes to when it fails ...
TriedAgain(w) ==
    \/ /\ attempt[w] < LockAttempts
       /\ attempt' = [attempt EXCEPT ![w] = @ + 1]
       /\ pc' = [pc EXCEPT ![w] = "lock"]
    \/ attempt' = attempt /\ pc' = [pc EXCEPT ![w] = "untick"]
    \/ attempt' = attempt /\ pc' = [pc EXCEPT ![w] = "done"]

LEMMA TryAgainSteps == \A w : TryAgain(w) => TriedAgain(w)
BY Zenon DEF TryAgain, TriedAgain, Leave, Goto

\* ... where a failed command leaves a drain ...
LEMMA DrainFailsSteps ==
    \A w : DrainFails(w) => Moved(w, {"unlock", "clear", "untick", "done", "idle"})
BY Zenon DEF DrainFails, Leave, Goto, Moved

\* ... and what a tick starts.
Ticked(w) ==
    \/ /\ w \in Tickers /\ rows' = rows
       /\ pc' = [pc EXCEPT ![w] = "lock"]
    \/ /\ w \notin Tickers /\ rows' = [rows EXCEPT ![w] = CoinIDs]
       /\ pc' = [pc EXCEPT ![w] = "update"]

LEMMA TickSteps == \A w : Tick(w) => Ticked(w)
BY Zenon DEF Tick, Ticked, Goto

\* The fields of a coin.
LEMMA CoinFields == \A c \in Coin : c.id \in CoinIDs /\ c.col \in Columns
BY SMT DEF Coin

\* The elements of a queue are entries.
LEMMA ElemsType ==
    ASSUME NEW q \in Seq(Entry)
    PROVE  Elems(q) \subseteq Entry
BY LenProperties, ElementOfSeq, SMT DEF Elems

\* Each action keeps the types.
LEMMA TypesKept ==
    ASSUME IInv, [Next]_vars
    PROVE  TypeOK'
<1> USE DEF IInv, TypeOK, WorkTypes
<1>1. ASSUME NEW w \in Workers, GetCoinsByID(w)
      PROVE  TypeOK'
  <2>1. pc' \in [Workers -> Stages]
    BY <1>1, SMT DEF GetCoinsByID, Goto, Stages, Resting
  <2>2. todo' \in [Workers -> SUBSET Entry]
    <3>1. PICK T : /\ T = {[id |-> c, col |-> cache[c], by |-> w] :
                            c \in {c \in Adds[w] : cache[c] # Absent}}
                   /\ todo' = [todo EXCEPT ![w] = T]
      BY <1>1, Zenon DEF GetCoinsByID
    <3>2. w \in Adders /\ Adds[w] \subseteq CoinIDs
      BY <1>1, CoinAssumption DEF GetCoinsByID
    <3>3. T \subseteq Entry
      BY <3>1, <3>2, SMT DEF Entry
    <3> QED BY <3>1, <3>3
  <2> QED BY <1>1, <2>1, <2>2, SMT DEF GetCoinsByID,
         queueVars, tableVars, lockVars, workVars, localVars
<1>2. ASSUME NEW w \in Workers, AddToQueue(w)
      PROVE  TypeOK'
  <2>1. pc' \in [Workers -> Stages]
    BY <1>2, SMT DEF AddToQueue, Goto, Stages
  <2>2. todo' \in [Workers -> SUBSET Entry]
    BY <1>2, SMT DEF AddToQueue
  <2>3. queue' \in Seq(Entry)
    BY <1>2, SMT DEF AddToQueue, PushCoin
  <2>4. members' \in SUBSET CoinIDs
    BY <1>2, SMT DEF AddToQueue, PushCoin, Entry
  <2> QED BY <1>2, <2>1, <2>2, <2>3, <2>4, SMT DEF AddToQueue, PushCoin,
         queueVars, tableVars, lockVars, workVars, localVars
<1>3. ASSUME NEW w \in Workers, CheckLength(w)
      PROVE  TypeOK'
  <2>1. pc' \in [Workers -> Stages]
    BY <1>3, SMT DEF CheckLength, Goto, Stages, Resting
  <2>2. attempt' \in [Workers -> 1..LockAttempts]
    BY <1>3, BoundAssumption, SMT DEF CheckLength
  <2> QED BY <1>3, <2>1, <2>2, SMT DEF CheckLength,
         queueVars, tableVars, lockVars, workVars, localVars
<1>4. ASSUME NEW w \in Workers, Tick(w)
      PROVE  TypeOK'
  <2>1. pc' \in [Workers -> Stages]
    <3>1. Ticked(w)
      BY <1>4, TickSteps, Zenon
    <3>2. CASE /\ w \in Tickers /\ rows' = rows
               /\ pc' = [pc EXCEPT ![w] = "lock"]
      BY <3>2, SMT DEF Stages, Draining
    <3>3. CASE /\ w \notin Tickers
               /\ rows' = [rows EXCEPT ![w] = CoinIDs]
               /\ pc' = [pc EXCEPT ![w] = "update"]
      BY <3>3, SMT DEF Stages, Draining
    <3> QED BY <3>1, <3>2, <3>3, Zenon DEF Ticked
  <2>2. attempt' \in [Workers -> 1..LockAttempts]
    BY <1>4, BoundAssumption, SMT DEF Tick
  <2>3. rows' \in [Workers -> SUBSET (Coin \cup CoinIDs)]
    <3>1. Ticked(w)
      BY <1>4, TickSteps, Zenon
    <3>2. CASE /\ w \in Tickers /\ rows' = rows
               /\ pc' = [pc EXCEPT ![w] = "lock"]
      BY <3>2, SMT DEF Stages, Draining
    <3>3. CASE /\ w \notin Tickers
               /\ rows' = [rows EXCEPT ![w] = CoinIDs]
               /\ pc' = [pc EXCEPT ![w] = "update"]
      BY <3>3, SMT DEF Stages, Draining
    <3> QED BY <3>1, <3>2, <3>3, Zenon DEF Ticked
  <2>4. holder' \in [LockKeys -> Workers \cup {Free}]
    BY <1>4, SMT DEF Tick, AcquireLock, OwnLock, LockKeys, QueueLock, TickLock,
       CacheLock
  <2> QED BY <1>4, <2>1, <2>2, <2>3, <2>4, SMT DEF Tick, AcquireLock,
         queueVars, tableVars, lockVars, workVars, localVars
<1>5. ASSUME NEW w \in Workers, EndTick(w)
      PROVE  TypeOK'
  <2>1. pc' \in [Workers -> Stages]
    BY <1>5, SMT DEF EndTick, Goto, Stages, Resting
  <2>2. holder' \in [LockKeys -> Workers \cup {Free}]
    BY <1>5, SMT DEF EndTick, ReleaseLock, OwnLock, LockKeys, QueueLock,
       TickLock, CacheLock
  <2> QED BY <1>5, <2>1, <2>2, SMT DEF EndTick, ReleaseLock,
         queueVars, tableVars, lockVars, workVars, localVars
<1>6. ASSUME NEW w \in Workers, Lock(w)
      PROVE  TypeOK'
  <2>1. pc' \in [Workers -> Stages]
    BY <1>6, SMT DEF Lock, Goto, Stages, Draining, QueueLock, TickLock,
       CacheLock
  <2>2. holder' \in [LockKeys -> Workers \cup {Free}]
    BY <1>6, SMT DEF Lock, AcquireLock, LockKeys, QueueLock, TickLock,
       CacheLock
  <2> QED BY <1>6, <2>1, <2>2, SMT DEF Lock, AcquireLock,
         queueVars, tableVars, lockVars, workVars, localVars
<1>7. ASSUME NEW w \in Workers, LockTaken(w)
      PROVE  TypeOK'
  <2>1. pc' \in [Workers -> Stages]
    <3>1. TriedAgain(w)
      BY <1>7, TryAgainSteps, Zenon DEF LockTaken
    <3>2. CASE /\ attempt[w] < LockAttempts
               /\ attempt' = [attempt EXCEPT ![w] = @ + 1]
               /\ pc' = [pc EXCEPT ![w] = "lock"]
      BY <3>2, SMT DEF Stages, Resting
    <3>3. CASE attempt' = attempt /\ pc' = [pc EXCEPT ![w] = "untick"]
      BY <3>3, SMT DEF Stages, Resting
    <3>4. CASE attempt' = attempt /\ pc' = [pc EXCEPT ![w] = "done"]
      BY <3>4, SMT DEF Stages, Resting
    <3> QED BY <3>1, <3>2, <3>3, <3>4, Zenon DEF TriedAgain
  <2>2. attempt' \in [Workers -> 1..LockAttempts]
    <3>1. TriedAgain(w)
      BY <1>7, TryAgainSteps, Zenon DEF LockTaken
    <3>2. CASE /\ attempt[w] < LockAttempts
               /\ attempt' = [attempt EXCEPT ![w] = @ + 1]
               /\ pc' = [pc EXCEPT ![w] = "lock"]
      BY <3>2, BoundAssumption, SMT
    <3>3. CASE attempt' = attempt /\ pc' = [pc EXCEPT ![w] = "untick"]
      BY <3>3, BoundAssumption, SMT
    <3>4. CASE attempt' = attempt /\ pc' = [pc EXCEPT ![w] = "done"]
      BY <3>4, BoundAssumption, SMT
    <3> QED BY <3>1, <3>2, <3>3, <3>4, Zenon DEF TriedAgain
  <2> QED BY <1>7, <2>1, <2>2, SMT DEF LockTaken,
         queueVars, tableVars, lockVars, workVars, localVars
<1>8. ASSUME NEW w \in Workers, ReadQueue(w)
      PROVE  TypeOK'
  <2>1. pc' \in [Workers -> Stages]
    BY <1>8, SMT DEF ReadQueue, Goto, Stages, Draining
  <2>2. seen' \in [Workers -> Seq(Entry)]
    BY <1>8, SMT DEF ReadQueue
  <2>3. rest' \in [Workers -> SUBSET Coin]
    BY <1>8, LastOfEachCovers, SMT DEF ReadQueue
  <2> QED BY <1>8, <2>1, <2>2, <2>3, SMT DEF ReadQueue,
         queueVars, tableVars, lockVars, workVars, localVars
<1>9. ASSUME NEW w \in Workers, EditCoin(w)
      PROVE  TypeOK'
  <2>1. pc' \in [Workers -> Stages]
    BY <1>9, SMT DEF EditCoin, Goto, Stages, Draining
  <2>2. rest' \in [Workers -> SUBSET Coin]
    BY <1>9, CoinAssumption, SMT DEF EditCoin, Coin
  <2> QED BY <1>9, <2>1, <2>2, SMT DEF EditCoin,
         queueVars, tableVars, lockVars, workVars, localVars
<1>10. ASSUME NEW w \in Workers, UpsertCoins(w)
      PROVE  TypeOK'
  <2>1. pc' \in [Workers -> Stages]
    BY <1>10, SMT DEF UpsertCoins, Goto, Stages, Draining
  <2>2. rest' \in [Workers -> SUBSET Coin]
    BY <1>10, SMT DEF UpsertCoins
  <2>3. rows' \in [Workers -> SUBSET (Coin \cup CoinIDs)]
    <3>1. PICK B \in Batches(rest[w]) :
              rows' = [rows EXCEPT ![w] = {b.id : b \in B}]
      BY <1>10 DEF UpsertCoins
    <3>2. \A b \in B : b \in Coin
      BY <3>1, SMT DEF Batches
    <3>3. \A b \in B : b.id \in CoinIDs
      BY <3>2, CoinFields
    <3> QED BY <3>1, <3>3
  <2>4. coins' \in [CoinIDs -> Columns]
    <3>1. PICK B \in Batches(rest[w]) :
              \E first \in B : coins' = Upserted(B, first)
      BY <1>10 DEF UpsertCoins
    <3>2. B \subseteq Coin
      BY <3>1, SMT DEF Batches
    <3>3. \A b \in B : b.col \in Columns
      BY <3>2, SMT DEF Coin
    <3> QED BY <3>1, <3>3, SMT DEF Upserted
  <2>5. stored' \in SUBSET Entry
    <3>1. seen[w] \in Seq(Entry)
      OBVIOUS
    <3>2. Elems(seen[w]) \subseteq Entry
      BY <3>1, ElemsType, Zenon
    <3> QED BY <1>10, <3>2, SMT DEF UpsertCoins
  <2> QED BY <1>10, <2>1, <2>2, <2>3, <2>4, <2>5, SMT DEF UpsertCoins,
         queueVars, tableVars, lockVars, workVars, localVars
<1>11. ASSUME NEW w \in Workers, UpsertFails(w)
      PROVE  TypeOK'
  <2>1. pc' \in [Workers -> Stages]
    BY <1>11, SMT DEF UpsertFails, Goto, Stages, Resting, Draining
  <2> QED BY <1>11, <2>1, SMT DEF UpsertFails, Fault,
         queueVars, tableVars, lockVars, workVars, localVars
<1>12. ASSUME NEW w \in Workers, ReadRows(w)
      PROVE  TypeOK'
  <2>1. pc' \in [Workers -> Stages]
    BY <1>12, SMT DEF ReadRows, Goto, Stages, Draining
  <2>2. rows' \in [Workers -> SUBSET (Coin \cup CoinIDs)]
    <3>1. rows[w] \subseteq CoinIDs
      BY <1>12, SMT DEF RowsFit, ReadRows
    <3>2. {[id |-> c, col |-> coins[c]] : c \in rows[w]} \subseteq Coin
      BY <3>1, SMT DEF Coin
    <3> QED BY <1>12, <3>2, SMT DEF ReadRows
  <2> QED BY <1>12, <2>1, <2>2, SMT DEF ReadRows,
         queueVars, tableVars, lockVars, workVars, localVars
<1>13. ASSUME NEW w \in Workers, CacheRows(w)
      PROVE  TypeOK'
  <2>1. pc' \in [Workers -> Stages]
    BY <1>13, SMT DEF CacheRows, AfterBatch, Goto, Stages, Resting, Draining
  <2>2. rows' \in [Workers -> SUBSET (Coin \cup CoinIDs)]
    BY <1>13, SMT DEF CacheRows
  <2>3. cache' \in [CoinIDs -> Columns \cup {Absent}]
    <3>1. rows[w] \subseteq Coin
      BY <1>13, SMT DEF RowsFit, CacheRows
    <3>2. \A r \in rows[w] : r.col \in Columns
      BY <3>1, SMT DEF Coin
    <3> QED BY <1>13, <3>2, SMT DEF CacheRows
  <2> QED BY <1>13, <2>1, <2>2, <2>3, SMT DEF CacheRows,
         queueVars, tableVars, lockVars, workVars, localVars
<1>14. ASSUME NEW w \in Workers, RefreshFails(w)
      PROVE  TypeOK'
  <2>1. pc' \in [Workers -> Stages]
    BY <1>14, SMT DEF RefreshFails, AfterBatch, Goto, Stages, Resting, Draining
  <2>2. rows' \in [Workers -> SUBSET (Coin \cup CoinIDs)]
    BY <1>14, SMT DEF RefreshFails
  <2> QED BY <1>14, <2>1, <2>2, SMT DEF RefreshFails, Fault,
         queueVars, tableVars, lockVars, workVars, localVars
<1>15. ASSUME NEW w \in Workers, DeleteQueue(w)
      PROVE  TypeOK'
  <2>1. pc' \in [Workers -> Stages]
    BY <1>15, SMT DEF DeleteQueue, Goto, Stages, Draining
  <2>2. queue' \in Seq(Entry)
    BY <1>15, SMT DEF DeleteQueue, DropQueue
  <2>3. lost' \in SUBSET Entry
    BY <1>15, SMT DEF DeleteQueue, DropQueue, Elems
  <2> QED BY <1>15, <2>1, <2>2, <2>3, SMT DEF DeleteQueue, DropQueue,
         queueVars, tableVars, lockVars, workVars, localVars
<1>16. ASSUME NEW w \in Workers, Clear(w)
      PROVE  TypeOK'
  <2>1. pc' \in [Workers -> Stages]
    BY <1>16, SMT DEF Clear, Goto, Stages, Draining
  <2>2. queue' \in Seq(Entry)
    BY <1>16, SMT DEF Clear, DropQueue
  <2>3. lost' \in SUBSET Entry
    BY <1>16, SMT DEF Clear, DropQueue, Elems
  <2>4. members' \in SUBSET CoinIDs
    BY <1>16, SMT DEF Clear
  <2> QED BY <1>16, <2>1, <2>2, <2>3, <2>4, SMT DEF Clear, DropQueue,
         queueVars, tableVars, lockVars, workVars, localVars
<1>17. ASSUME NEW w \in Workers, Unlock(w)
      PROVE  TypeOK'
  <2>1. pc' \in [Workers -> Stages]
    BY <1>17, SMT DEF Unlock, Leave, Goto, Stages, Resting
  <2>2. seen' \in [Workers -> Seq(Entry)]
    BY <1>17, SMT DEF Unlock
  <2>3. rest' \in [Workers -> SUBSET Coin]
    BY <1>17, SMT DEF Unlock
  <2>4. holder' \in [LockKeys -> Workers \cup {Free}]
    BY <1>17, SMT DEF Unlock, ReleaseLock, LockKeys, QueueLock, TickLock,
       CacheLock
  <2> QED BY <1>17, <2>1, <2>2, <2>3, <2>4, SMT DEF Unlock, ReleaseLock,
         queueVars, tableVars, lockVars, workVars, localVars
<1>18. ASSUME NEW w \in Workers, AddFails(w)
      PROVE  TypeOK'
  <2>1. pc' \in [Workers -> Stages]
    BY <1>18, SMT DEF AddFails, Goto, Stages, Resting
  <2>2. todo' \in [Workers -> SUBSET Entry]
    BY <1>18, SMT DEF AddFails
  <2> QED BY <1>18, <2>1, <2>2, SMT DEF AddFails, Fault,
         queueVars, tableVars, lockVars, workVars, localVars
<1>19. ASSUME NEW w \in Workers, LockFails(w)
      PROVE  TypeOK'
  <2>1. pc' \in [Workers -> Stages]
    <3>1. TriedAgain(w)
      BY <1>19, TryAgainSteps, Zenon DEF LockFails
    <3>2. CASE /\ attempt[w] < LockAttempts
               /\ attempt' = [attempt EXCEPT ![w] = @ + 1]
               /\ pc' = [pc EXCEPT ![w] = "lock"]
      BY <3>2, SMT DEF Stages, Resting
    <3>3. CASE attempt' = attempt /\ pc' = [pc EXCEPT ![w] = "untick"]
      BY <3>3, SMT DEF Stages, Resting
    <3>4. CASE attempt' = attempt /\ pc' = [pc EXCEPT ![w] = "done"]
      BY <3>4, SMT DEF Stages, Resting
    <3> QED BY <3>1, <3>2, <3>3, <3>4, Zenon DEF TriedAgain
  <2>2. attempt' \in [Workers -> 1..LockAttempts]
    <3>1. TriedAgain(w)
      BY <1>19, TryAgainSteps, Zenon DEF LockFails
    <3>2. CASE /\ attempt[w] < LockAttempts
               /\ attempt' = [attempt EXCEPT ![w] = @ + 1]
               /\ pc' = [pc EXCEPT ![w] = "lock"]
      BY <3>2, BoundAssumption, SMT
    <3>3. CASE attempt' = attempt /\ pc' = [pc EXCEPT ![w] = "untick"]
      BY <3>3, BoundAssumption, SMT
    <3>4. CASE attempt' = attempt /\ pc' = [pc EXCEPT ![w] = "done"]
      BY <3>4, BoundAssumption, SMT
    <3> QED BY <3>1, <3>2, <3>3, <3>4, Zenon DEF TriedAgain
  <2>3. holder' \in [LockKeys -> Workers \cup {Free}]
    <3>1. CASE UNCHANGED lockVars
      BY <3>1, SMT DEF lockVars
    <3>2. CASE AcquireLock(QueueLock, w)
      BY <3>2, SMT DEF AcquireLock, LockKeys, QueueLock, TickLock, CacheLock
    <3> QED BY <1>19, <3>1, <3>2, Zenon DEF LockFails
  <2> QED BY <1>19, <2>1, <2>2, <2>3, SMT DEF LockFails, Fault, AcquireLock,
         queueVars, tableVars, lockVars, workVars, localVars
<1>20. ASSUME NEW w \in Workers, DrainFails(w)
      PROVE  TypeOK'
  <2>1. pc' \in [Workers -> Stages]
    <3>1. Moved(w, {"unlock", "clear", "untick", "done", "idle"})
      BY <1>20, DrainFailsSteps, Zenon
    <3> QED BY <3>1, SMT DEF Moved, Stages, Resting, Draining
  <2> QED BY <1>20, <2>1, SMT DEF DrainFails, Fault,
         queueVars, tableVars, lockVars, workVars, localVars
<1>21. ASSUME NEW c \in CoinIDs, ExpireCoin(c)
      PROVE  TypeOK'
  <2>1. cache' \in [CoinIDs -> Columns \cup {Absent}]
    BY <1>21, SMT DEF ExpireCoin
  <2> QED BY <1>21, <2>1, SMT DEF ExpireCoin, Fault,
         queueVars, tableVars, lockVars, workVars, localVars
<1>22. ASSUME NEW p \in Pods, Crash(p)
      PROVE  TypeOK'
  <2>1. pc' \in [Workers -> Stages]
    BY <1>22, SMT DEF Crash, Stages, Resting
  <2>2. todo' \in [Workers -> SUBSET Entry]
    BY <1>22, SMT DEF Crash
  <2>3. seen' \in [Workers -> Seq(Entry)]
    BY <1>22, SMT DEF Crash
  <2>4. rest' \in [Workers -> SUBSET Coin]
    BY <1>22, SMT DEF Crash
  <2>5. rows' \in [Workers -> SUBSET (Coin \cup CoinIDs)]
    BY <1>22, SMT DEF Crash
  <2> QED BY <1>22, <2>1, <2>2, <2>3, <2>4, <2>5, SMT DEF Crash, Fault,
         queueVars, tableVars, lockVars, workVars, localVars
<1>23. ASSUME NEW l \in LockKeys, Expire(l)
      PROVE  TypeOK'
  <2>1. holder' \in [LockKeys -> Workers \cup {Free}]
    BY <1>23, SMT DEF Expire, ExpireLock
  <2>2. overruns' \in Nat
    BY <1>23, SMT DEF Expire, ExpireLock
  <2> QED BY <1>23, <2>1, <2>2, SMT DEF Expire, ExpireLock,
         queueVars, tableVars, lockVars, workVars, localVars
<1>24. ASSUME UNCHANGED vars
      PROVE  TypeOK'
  BY <1>24, SMT DEF vars, queueVars, tableVars, lockVars, workVars, localVars
<1>25. ASSUME NEW w \in Workers, SetSources(w)
      PROVE  TypeOK'
  <2>1. pc' \in [Workers -> Stages]
    BY <1>25, SMT DEF SetSources, Goto, Stages, Draining
  <2>2. coins' \in [CoinIDs -> Columns]
    <3>1. Gecko \in Columns
      BY CoinAssumption, Zenon DEF Columns
    <3>2. coins' = [c \in CoinIDs |-> IF c \in Listed THEN Gecko ELSE coins[c]]
      BY <1>25, Zenon DEF SetSources
    <3> QED BY <3>1, <3>2, SMT
  <2> QED BY <1>25, <2>1, <2>2, SMT DEF SetSources,
         queueVars, tableVars, lockVars, workVars, localVars
<1> QED BY <1>1, <1>2, <1>3, <1>4, <1>5, <1>6, <1>7, <1>8, <1>9, <1>10, <1>11,
         <1>12, <1>13, <1>14, <1>15, <1>16, <1>17, <1>18, <1>19, <1>20, <1>21,
         <1>22, <1>23, <1>24, <1>25,
         Zenon DEF Next, Work, Environment

LEMMA RowsKept ==
    ASSUME IInv, [Next]_vars
    PROVE  RowsFit'
<1> USE DEF IInv, TypeOK, WorkTypes, RowsFit, Goto
<1>1. ASSUME NEW w \in Workers, GetCoinsByID(w)
      PROVE  RowsFit'
  BY <1>1, SMT DEF GetCoinsByID, localVars, workVars
<1>2. ASSUME NEW w \in Workers, AddToQueue(w)
      PROVE  RowsFit'
  BY <1>2, SMT DEF AddToQueue, PushCoin, localVars, workVars
<1>3. ASSUME NEW w \in Workers, CheckLength(w)
      PROVE  RowsFit'
  BY <1>3, SMT DEF CheckLength, localVars, workVars
<1>4. ASSUME NEW w \in Workers, Tick(w)
      PROVE  RowsFit'
  <2>1. Ticked(w)
    BY <1>4, TickSteps, Zenon
  <2>2. CASE /\ w \in Tickers /\ rows' = rows
             /\ pc' = [pc EXCEPT ![w] = "lock"]
    BY <2>2, SMT
  <2>3. CASE /\ w \notin Tickers
             /\ rows' = [rows EXCEPT ![w] = CoinIDs]
             /\ pc' = [pc EXCEPT ![w] = "update"]
    BY <2>3, SMT
  <2> QED BY <2>1, <2>2, <2>3, Zenon DEF Ticked
<1>5. ASSUME NEW w \in Workers, EndTick(w)
      PROVE  RowsFit'
  BY <1>5, SMT DEF EndTick, ReleaseLock, OwnLock, localVars, workVars
<1>6. ASSUME NEW w \in Workers, Lock(w)
      PROVE  RowsFit'
  BY <1>6, SMT DEF Lock, AcquireLock, localVars, workVars
<1>7. ASSUME NEW w \in Workers, LockTaken(w)
      PROVE  RowsFit'
  <2>0. rows' = rows
    BY <1>7 DEF LockTaken, workVars
  <2>1. TriedAgain(w)
    BY <1>7, TryAgainSteps, Zenon DEF LockTaken
  <2>2. CASE /\ attempt[w] < LockAttempts
             /\ attempt' = [attempt EXCEPT ![w] = @ + 1]
             /\ pc' = [pc EXCEPT ![w] = "lock"]
    BY <2>2, <2>0, SMT
  <2>3. CASE attempt' = attempt /\ pc' = [pc EXCEPT ![w] = "untick"]
    BY <2>3, <2>0, SMT
  <2>4. CASE attempt' = attempt /\ pc' = [pc EXCEPT ![w] = "done"]
    BY <2>4, <2>0, SMT
  <2> QED BY <2>1, <2>2, <2>3, <2>4, Zenon DEF TriedAgain
<1>8. ASSUME NEW w \in Workers, ReadQueue(w)
      PROVE  RowsFit'
  BY <1>8, SMT DEF ReadQueue, localVars, workVars
<1>9. ASSUME NEW w \in Workers, EditCoin(w)
      PROVE  RowsFit'
  BY <1>9, SMT DEF EditCoin, localVars, workVars
<1>10. ASSUME NEW w \in Workers, UpsertCoins(w)
      PROVE  RowsFit'
  <2>1. PICK B \in Batches(rest[w]) : rows' = [rows EXCEPT ![w] = {b.id : b \in B}]
    BY <1>10 DEF UpsertCoins
  <2>2. \A b \in B : b \in Coin
    BY <2>1, SMT DEF Batches
  <2>3. \A b \in B : b.id \in CoinIDs
    BY <2>2, CoinFields
  <2>4. pc' = [pc EXCEPT ![w] = "refresh"]
    BY <1>10 DEF UpsertCoins
  <2> QED BY <2>1, <2>3, <2>4, SMT
<1>11. ASSUME NEW w \in Workers, UpsertFails(w)
      PROVE  RowsFit'
  BY <1>11, SMT DEF UpsertFails, Fault, localVars, workVars
<1>12. ASSUME NEW w \in Workers, ReadRows(w)
      PROVE  RowsFit'
  <2>1. {[id |-> c, col |-> coins[c]] : c \in rows[w]} \subseteq Coin
    BY <1>12, SMT DEF ReadRows, Coin
  <2> QED BY <1>12, <2>1, SMT DEF ReadRows
<1>13. ASSUME NEW w \in Workers, CacheRows(w)
      PROVE  RowsFit'
  BY <1>13, SMT DEF CacheRows, AfterBatch, localVars, workVars
<1>14. ASSUME NEW w \in Workers, RefreshFails(w)
      PROVE  RowsFit'
  BY <1>14, SMT DEF RefreshFails, Fault, AfterBatch, localVars, workVars
<1>15. ASSUME NEW w \in Workers, DeleteQueue(w)
      PROVE  RowsFit'
  BY <1>15, SMT DEF DeleteQueue, DropQueue, localVars, workVars
<1>16. ASSUME NEW w \in Workers, Clear(w)
      PROVE  RowsFit'
  BY <1>16, SMT DEF Clear, DropQueue, localVars, workVars
<1>17. ASSUME NEW w \in Workers, Unlock(w)
      PROVE  RowsFit'
  BY <1>17, SMT DEF Unlock, ReleaseLock, Leave, localVars, workVars
<1>18. ASSUME NEW w \in Workers, AddFails(w)
      PROVE  RowsFit'
  BY <1>18, SMT DEF AddFails, Fault, localVars, workVars
<1>19. ASSUME NEW w \in Workers, LockFails(w)
      PROVE  RowsFit'
  <2>0. rows' = rows
    BY <1>19 DEF LockFails, workVars
  <2>1. TriedAgain(w)
    BY <1>19, TryAgainSteps, Zenon DEF LockFails
  <2>2. CASE /\ attempt[w] < LockAttempts
             /\ attempt' = [attempt EXCEPT ![w] = @ + 1]
             /\ pc' = [pc EXCEPT ![w] = "lock"]
    BY <2>2, <2>0, SMT
  <2>3. CASE attempt' = attempt /\ pc' = [pc EXCEPT ![w] = "untick"]
    BY <2>3, <2>0, SMT
  <2>4. CASE attempt' = attempt /\ pc' = [pc EXCEPT ![w] = "done"]
    BY <2>4, <2>0, SMT
  <2> QED BY <2>1, <2>2, <2>3, <2>4, Zenon DEF TriedAgain
<1>20. ASSUME NEW w \in Workers, DrainFails(w)
      PROVE  RowsFit'
  <2>1. Moved(w, {"unlock", "clear", "untick", "done", "idle"})
    BY <1>20, DrainFailsSteps, Zenon
  <2> QED BY <1>20, <2>1, SMT DEF DrainFails, Moved, workVars
<1>21. ASSUME NEW c \in CoinIDs, ExpireCoin(c)
      PROVE  RowsFit'
  BY <1>21, SMT DEF ExpireCoin, Fault, localVars, workVars
<1>22. ASSUME NEW p \in Pods, Crash(p)
      PROVE  RowsFit'
  BY <1>22, SMT DEF Crash, Fault, Resting, localVars, workVars
<1>23. ASSUME NEW l \in LockKeys, Expire(l)
      PROVE  RowsFit'
  BY <1>23, SMT DEF Expire, ExpireLock, localVars, workVars
<1>24. ASSUME UNCHANGED vars
      PROVE  RowsFit'
  BY <1>24, SMT DEF vars, localVars, workVars
<1>25. ASSUME NEW w \in Workers, SetSources(w)
      PROVE  RowsFit'
  BY <1>25, SMT DEF SetSources, localVars, workVars
<1> QED BY <1>1, <1>2, <1>3, <1>4, <1>5, <1>6, <1>7, <1>8, <1>9, <1>10, <1>11,
         <1>12, <1>13, <1>14, <1>15, <1>16, <1>17, <1>18, <1>19, <1>20, <1>21,
         <1>22, <1>23, <1>24, <1>25,
         Zenon DEF Next, Work, Environment

LEMMA StagesKept ==
    ASSUME IInv, [Next]_vars
    PROVE  StagesFit'
<1> USE DEF IInv, TypeOK, WorkTypes, StagesFit, Goto
<1>1. ASSUME NEW w \in Workers, GetCoinsByID(w)
      PROVE  StagesFit'
  BY <1>1, WorkerAssumption, SMT DEF GetCoinsByID, localVars, workVars,
     Workers, Resting
<1>2. ASSUME NEW w \in Workers, AddToQueue(w)
      PROVE  StagesFit'
  BY <1>2, WorkerAssumption, SMT DEF AddToQueue, PushCoin, localVars, workVars,
     Workers, Resting
<1>3. ASSUME NEW w \in Workers, CheckLength(w)
      PROVE  StagesFit'
  BY <1>3, WorkerAssumption, SMT DEF CheckLength, localVars, workVars, Workers,
     Resting
<1>4. ASSUME NEW w \in Workers, Tick(w)
      PROVE  StagesFit'
  BY <1>4, WorkerAssumption, SMT DEF Tick, AcquireLock, OwnLock, localVars,
     workVars, Workers, Resting
<1>5. ASSUME NEW w \in Workers, EndTick(w)
      PROVE  StagesFit'
  BY <1>5, WorkerAssumption, SMT DEF EndTick, ReleaseLock, OwnLock, localVars,
     workVars, Workers, Resting
<1>6. ASSUME NEW w \in Workers, Lock(w)
      PROVE  StagesFit'
  BY <1>6, WorkerAssumption, SMT DEF Lock, AcquireLock, localVars, workVars,
     Workers, Resting
<1>7. ASSUME NEW w \in Workers, LockTaken(w)
      PROVE  StagesFit'
  BY <1>7, WorkerAssumption, SMT DEF LockTaken, TryAgain, Leave, localVars,
     workVars, Workers, Resting
<1>8. ASSUME NEW w \in Workers, ReadQueue(w)
      PROVE  StagesFit'
  BY <1>8, WorkerAssumption, SMT DEF ReadQueue, localVars, workVars, Workers,
     Resting
<1>9. ASSUME NEW w \in Workers, EditCoin(w)
      PROVE  StagesFit'
  BY <1>9, WorkerAssumption, SMT DEF EditCoin, localVars, workVars, Workers,
     Resting
<1>10. ASSUME NEW w \in Workers, UpsertCoins(w)
      PROVE  StagesFit'
  BY <1>10, WorkerAssumption, SMT DEF UpsertCoins, localVars, workVars,
     Workers, Resting
<1>11. ASSUME NEW w \in Workers, UpsertFails(w)
      PROVE  StagesFit'
  BY <1>11, WorkerAssumption, SMT DEF UpsertFails, Fault, localVars, workVars,
     Workers, Resting
<1>12. ASSUME NEW w \in Workers, ReadRows(w)
      PROVE  StagesFit'
  BY <1>12, WorkerAssumption, SMT DEF ReadRows, localVars, workVars, Workers,
     Resting
<1>13. ASSUME NEW w \in Workers, CacheRows(w)
      PROVE  StagesFit'
  BY <1>13, WorkerAssumption, SMT DEF CacheRows, AfterBatch, localVars,
     workVars, Workers, Resting
<1>14. ASSUME NEW w \in Workers, RefreshFails(w)
      PROVE  StagesFit'
  BY <1>14, WorkerAssumption, SMT DEF RefreshFails, Fault, AfterBatch,
     localVars, workVars, Workers, Resting
<1>15. ASSUME NEW w \in Workers, DeleteQueue(w)
      PROVE  StagesFit'
  BY <1>15, WorkerAssumption, SMT DEF DeleteQueue, DropQueue, localVars,
     workVars, Workers, Resting
<1>16. ASSUME NEW w \in Workers, Clear(w)
      PROVE  StagesFit'
  BY <1>16, WorkerAssumption, SMT DEF Clear, DropQueue, localVars, workVars,
     Workers, Resting
<1>17. ASSUME NEW w \in Workers, Unlock(w)
      PROVE  StagesFit'
  BY <1>17, WorkerAssumption, SMT DEF Unlock, ReleaseLock, Leave, localVars,
     workVars, Workers, Resting
<1>18. ASSUME NEW w \in Workers, AddFails(w)
      PROVE  StagesFit'
  BY <1>18, WorkerAssumption, SMT DEF AddFails, Fault, localVars, workVars,
     Workers, Resting
<1>19. ASSUME NEW w \in Workers, LockFails(w)
      PROVE  StagesFit'
  BY <1>19, WorkerAssumption, SMT DEF LockFails, Fault, AcquireLock, TryAgain,
     Leave, localVars, workVars, Workers, Resting
<1>20. ASSUME NEW w \in Workers, DrainFails(w)
      PROVE  StagesFit'
  BY <1>20, WorkerAssumption, SMT DEF DrainFails, Fault, Leave, localVars,
     workVars, Workers, Resting
<1>21. ASSUME NEW c \in CoinIDs, ExpireCoin(c)
      PROVE  StagesFit'
  BY <1>21, WorkerAssumption, SMT DEF ExpireCoin, Fault, localVars, workVars,
     Workers, Resting
<1>22. ASSUME NEW p \in Pods, Crash(p)
      PROVE  StagesFit'
  BY <1>22, WorkerAssumption, SMT DEF Crash, Fault, Resting, localVars,
     workVars, Workers, Resting
<1>23. ASSUME NEW l \in LockKeys, Expire(l)
      PROVE  StagesFit'
  BY <1>23, WorkerAssumption, SMT DEF Expire, ExpireLock, localVars, workVars,
     Workers, Resting
<1>24. ASSUME UNCHANGED vars
      PROVE  StagesFit'
  BY <1>24, SMT DEF vars, localVars, workVars, Workers, Resting
<1>25. ASSUME NEW w \in Workers, SetSources(w)
      PROVE  StagesFit'
  BY <1>25, WorkerAssumption, SMT DEF SetSources, localVars, workVars, Workers,
     Resting
<1> QED BY <1>1, <1>2, <1>3, <1>4, <1>5, <1>6, <1>7, <1>8, <1>9, <1>10, <1>11,
         <1>12, <1>13, <1>14, <1>15, <1>16, <1>17, <1>18, <1>19, <1>20, <1>21,
         <1>22, <1>23, <1>24, <1>25,
         Zenon DEF Next, Work, Environment

LEMMA CoverKept ==
    ASSUME IInv, [Next]_vars
    PROVE  DrainsCover'
<1> USE DEF IInv, TypeOK, WorkTypes, StagesFit, DrainsCover, Goto
<1>1. ASSUME NEW w \in Workers, GetCoinsByID(w)
      PROVE  DrainsCover'
  BY <1>1, WorkerAssumption, SMT DEF GetCoinsByID, localVars, workVars,
     tableVars, Workers, Resting
<1>2. ASSUME NEW w \in Workers, AddToQueue(w)
      PROVE  DrainsCover'
  BY <1>2, WorkerAssumption, SMT DEF AddToQueue, PushCoin, localVars, workVars,
     tableVars, Workers, Resting
<1>3. ASSUME NEW w \in Workers, CheckLength(w)
      PROVE  DrainsCover'
  BY <1>3, WorkerAssumption, SMT DEF CheckLength, localVars, workVars,
     tableVars, Workers, Resting
<1>4. ASSUME NEW w \in Workers, Tick(w)
      PROVE  DrainsCover'
  <2>0. w \in Tickers \cup Refreshers /\ seen' = seen /\ rest' = rest /\ stored' = stored
    BY <1>4 DEF Tick, tableVars
  <2>1. Ticked(w)
    BY <1>4, TickSteps, Zenon
  <2>2. CASE /\ w \in Tickers /\ rows' = rows
             /\ pc' = [pc EXCEPT ![w] = "lock"]
    BY <2>2, <2>0, WorkerAssumption, SMT DEF Workers
  <2>3. CASE /\ w \notin Tickers
             /\ rows' = [rows EXCEPT ![w] = CoinIDs]
             /\ pc' = [pc EXCEPT ![w] = "update"]
    BY <2>3, <2>0, WorkerAssumption, SMT DEF Workers
  <2> QED BY <2>1, <2>2, <2>3, Zenon DEF Ticked
<1>5. ASSUME NEW w \in Workers, EndTick(w)
      PROVE  DrainsCover'
  BY <1>5, WorkerAssumption, SMT DEF EndTick, ReleaseLock, OwnLock, localVars,
     workVars, tableVars, Workers, Resting
<1>6. ASSUME NEW w \in Workers, Lock(w)
      PROVE  DrainsCover'
  BY <1>6, WorkerAssumption, SMT DEF Lock, AcquireLock, localVars, workVars,
     tableVars, Workers, Resting
<1>7. ASSUME NEW w \in Workers, LockTaken(w)
      PROVE  DrainsCover'
  <2>1. seen' = seen /\ rest' = rest /\ stored' = stored
    BY <1>7 DEF LockTaken, tableVars, workVars
  <2>2. Moved(w, {"lock", "untick", "done"})
    BY <1>7, Zenon DEF LockTaken, TryAgain, Leave, Goto, Moved
  <2>3. PICK s \in {"lock", "untick", "done"} : pc' = [pc EXCEPT ![w] = s]
    BY <2>2, Zenon DEF Moved
  <2>4. \A v \in Adders \cup Tickers :
           pc'[v] = pc[v] \/ pc'[v] \in {"lock", "untick", "done"}
    BY <2>3, SMT DEF Workers
  <2>5. ASSUME NEW v \in Adders \cup Tickers
        PROVE  /\ pc'[v] \in {"upsert", "refresh", "cache"} =>
                    \A e \in Elems(seen'[v]) :
                        e \in stored' \/ \E r \in rest'[v] : r.id = e.id
               /\ pc'[v] \in {"delete", "clear"} => Elems(seen'[v]) \subseteq stored'
    <3>1. CASE pc'[v] = pc[v]
      BY <2>1, <3>1, SMT
    <3>2. CASE pc'[v] \in {"lock", "untick", "done"}
      BY <3>2, SMT
    <3> QED BY <2>4, <3>1, <3>2
  <2> QED BY <2>5
<1>8. ASSUME NEW w \in Workers, ReadQueue(w)
      PROVE  DrainsCover'
  <2>1. \A e \in Elems(queue) : \E c \in LastOfEach(queue) : c.id = e.id
    BY LastOfEachCovers
  <2>2. /\ w \in Adders \cup Tickers
        /\ seen' = [seen EXCEPT ![w] = queue]
        /\ rest' = [rest EXCEPT ![w] = LastOfEach(queue)]
        /\ pc' = [pc EXCEPT ![w] = IF queue = <<>> THEN "unlock" ELSE "upsert"]
        /\ stored' = stored
    BY <1>8, SMT DEF ReadQueue, tableVars
  <2>3. ASSUME NEW v \in Adders \cup Tickers, v # w
        PROVE  pc'[v] = pc[v] /\ seen'[v] = seen[v] /\ rest'[v] = rest[v]
    BY <2>2, <2>3, SMT DEF Workers
  <2>4. /\ seen'[w] = queue /\ rest'[w] = LastOfEach(queue)
        /\ pc'[w] \in {"unlock", "upsert"}
    BY <2>2, SMT DEF Workers
  <2>5. ASSUME NEW v \in Adders \cup Tickers
        PROVE  /\ pc'[v] \in {"upsert", "refresh", "cache"} =>
                    \A e \in Elems(seen'[v]) :
                        e \in stored' \/ \E r \in rest'[v] : r.id = e.id
               /\ pc'[v] \in {"delete", "clear"} => Elems(seen'[v]) \subseteq stored'
    <3>1. CASE v = w
      BY <2>1, <2>2, <2>4, <3>1, SMT
    <3>2. CASE v # w
      BY <2>2, <2>3, <3>2, SMT
    <3> QED BY <3>1, <3>2
  <2> QED BY <2>5
<1>9. ASSUME NEW w \in Workers, EditCoin(w)
      PROVE  DrainsCover'
  BY <1>9, WorkerAssumption, SMT DEF EditCoin, localVars, workVars, tableVars,
     Workers, Resting
<1>10. ASSUME NEW w \in Workers, UpsertCoins(w)
      PROVE  DrainsCover'
  BY <1>10, WorkerAssumption, SMT DEF UpsertCoins, localVars, workVars,
     tableVars, Workers, Resting
<1>11. ASSUME NEW w \in Workers, UpsertFails(w)
      PROVE  DrainsCover'
  BY <1>11, WorkerAssumption, SMT DEF UpsertFails, Fault, localVars, workVars,
     tableVars, Workers, Resting
<1>12. ASSUME NEW w \in Workers, ReadRows(w)
      PROVE  DrainsCover'
  BY <1>12, WorkerAssumption, SMT DEF ReadRows, localVars, workVars, tableVars,
     Workers, Resting
<1>13. ASSUME NEW w \in Workers, CacheRows(w)
      PROVE  DrainsCover'
  BY <1>13, WorkerAssumption, SMT DEF CacheRows, AfterBatch, localVars,
     workVars, tableVars, Workers, Resting
<1>14. ASSUME NEW w \in Workers, RefreshFails(w)
      PROVE  DrainsCover'
  BY <1>14, WorkerAssumption, SMT DEF RefreshFails, Fault, AfterBatch,
     localVars, workVars, tableVars, Workers, Resting
<1>15. ASSUME NEW w \in Workers, DeleteQueue(w)
      PROVE  DrainsCover'
  BY <1>15, WorkerAssumption, SMT DEF DeleteQueue, DropQueue, localVars,
     workVars, tableVars, Workers, Resting
<1>16. ASSUME NEW w \in Workers, Clear(w)
      PROVE  DrainsCover'
  BY <1>16, WorkerAssumption, SMT DEF Clear, DropQueue, localVars, workVars,
     tableVars, Workers, Resting
<1>17. ASSUME NEW w \in Workers, Unlock(w)
      PROVE  DrainsCover'
  BY <1>17, WorkerAssumption, SMT DEF Unlock, ReleaseLock, Leave, localVars,
     workVars, tableVars, Workers, Resting
<1>18. ASSUME NEW w \in Workers, AddFails(w)
      PROVE  DrainsCover'
  BY <1>18, WorkerAssumption, SMT DEF AddFails, Fault, localVars, workVars,
     tableVars, Workers, Resting
<1>19. ASSUME NEW w \in Workers, LockFails(w)
      PROVE  DrainsCover'
  BY <1>19, WorkerAssumption, SMT DEF LockFails, Fault, AcquireLock, TryAgain,
     Leave, localVars, workVars, tableVars, Workers, Resting
<1>20. ASSUME NEW w \in Workers, DrainFails(w)
      PROVE  DrainsCover'
  <2>1. PICK s \in {"unlock", "clear", "untick", "done", "idle"} :
            pc' = [pc EXCEPT ![w] = s] /\ (s = "clear" => pc[w] = "delete")
    BY <1>20, SMT DEF DrainFails, Leave
  <2>2. seen' = seen /\ rest' = rest /\ stored' = stored
    BY <1>20, Zenon DEF DrainFails, workVars, tableVars
  <2> QED BY <2>1, <2>2, WorkerAssumption, SMT DEF Workers
<1>21. ASSUME NEW c \in CoinIDs, ExpireCoin(c)
      PROVE  DrainsCover'
  BY <1>21, WorkerAssumption, SMT DEF ExpireCoin, Fault, localVars, workVars,
     tableVars, Workers, Resting
<1>22. ASSUME NEW p \in Pods, Crash(p)
      PROVE  DrainsCover'
  BY <1>22, WorkerAssumption, SMT DEF Crash, Fault, Resting, localVars,
     workVars, tableVars, Workers, Resting
<1>23. ASSUME NEW l \in LockKeys, Expire(l)
      PROVE  DrainsCover'
  BY <1>23, WorkerAssumption, SMT DEF Expire, ExpireLock, localVars, workVars,
     tableVars, Workers, Resting
<1>24. ASSUME UNCHANGED vars
      PROVE  DrainsCover'
  BY <1>24, SMT DEF vars, localVars, workVars, tableVars, Workers, Resting
<1>25. ASSUME NEW w \in Workers, SetSources(w)
      PROVE  DrainsCover'
  BY <1>25, WorkerAssumption, SMT DEF SetSources, localVars, workVars, tableVars,
     Workers, Resting
<1> QED BY <1>1, <1>2, <1>3, <1>4, <1>5, <1>6, <1>7, <1>8, <1>9, <1>10, <1>11,
         <1>12, <1>13, <1>14, <1>15, <1>16, <1>17, <1>18, <1>19, <1>20, <1>21,
         <1>22, <1>23, <1>24, <1>25,
         Zenon DEF Next, Work, Environment

LEMMA HoldKept ==
    ASSUME IInv, DrainsHold, MaxOverruns = 0, [Next]_vars
    PROVE  DrainsHold'
<1> USE DEF IInv, TypeOK, WorkTypes, StagesFit, DrainsHold, Drains, Draining, Goto
<1>1. ASSUME NEW w \in Workers, GetCoinsByID(w)
      PROVE  DrainsHold'
  BY <1>1, WorkerAssumption, SMT DEF GetCoinsByID, localVars, workVars,
         lockVars, Workers, Resting, QueueLock, TickLock, CacheLock, LockKeys
<1>2. ASSUME NEW w \in Workers, AddToQueue(w)
      PROVE  DrainsHold'
  BY <1>2, WorkerAssumption, SMT DEF AddToQueue, PushCoin, localVars, workVars,
         lockVars, Workers, Resting, QueueLock, TickLock, CacheLock, LockKeys
<1>3. ASSUME NEW w \in Workers, CheckLength(w)
      PROVE  DrainsHold'
  BY <1>3, WorkerAssumption, SMT DEF CheckLength, localVars, workVars,
         lockVars, Workers, Resting, QueueLock, TickLock, CacheLock, LockKeys
<1>4. ASSUME NEW w \in Workers, Tick(w)
      PROVE  DrainsHold'
  BY <1>4, WorkerAssumption, SMT DEF Tick, AcquireLock, OwnLock, localVars,
     workVars,
         lockVars, Workers, Resting, QueueLock, TickLock, CacheLock, LockKeys
<1>5. ASSUME NEW w \in Workers, EndTick(w)
      PROVE  DrainsHold'
  BY <1>5, WorkerAssumption, SMT DEF EndTick, ReleaseLock, OwnLock, localVars,
     workVars,
         lockVars, Workers, Resting, QueueLock, TickLock, CacheLock, LockKeys
<1>6. ASSUME NEW w \in Workers, Lock(w)
      PROVE  DrainsHold'
  BY <1>6, WorkerAssumption, SMT DEF Lock, AcquireLock, localVars, workVars,
         lockVars, Workers, Resting, QueueLock, TickLock, CacheLock, LockKeys
<1>7. ASSUME NEW w \in Workers, LockTaken(w)
      PROVE  DrainsHold'
  BY <1>7, WorkerAssumption, SMT DEF LockTaken, TryAgain, Leave, localVars,
     workVars,
         lockVars, Workers, Resting, QueueLock, TickLock, CacheLock, LockKeys
<1>8. ASSUME NEW w \in Workers, ReadQueue(w)
      PROVE  DrainsHold'
  BY <1>8, WorkerAssumption, SMT DEF ReadQueue, localVars, workVars,
         lockVars, Workers, Resting, QueueLock, TickLock, CacheLock, LockKeys
<1>9. ASSUME NEW w \in Workers, EditCoin(w)
      PROVE  DrainsHold'
  BY <1>9, WorkerAssumption, SMT DEF EditCoin, localVars, workVars,
         lockVars, Workers, Resting, QueueLock, TickLock, CacheLock, LockKeys
<1>10. ASSUME NEW w \in Workers, UpsertCoins(w)
      PROVE  DrainsHold'
  BY <1>10, WorkerAssumption, SMT DEF UpsertCoins, localVars, workVars,
         lockVars, Workers, Resting, QueueLock, TickLock, CacheLock, LockKeys
<1>11. ASSUME NEW w \in Workers, UpsertFails(w)
      PROVE  DrainsHold'
  BY <1>11, WorkerAssumption, SMT DEF UpsertFails, Fault, localVars, workVars,
         lockVars, Workers, Resting, QueueLock, TickLock, CacheLock, LockKeys
<1>12. ASSUME NEW w \in Workers, ReadRows(w)
      PROVE  DrainsHold'
  BY <1>12, WorkerAssumption, SMT DEF ReadRows, localVars, workVars,
         lockVars, Workers, Resting, QueueLock, TickLock, CacheLock, LockKeys
<1>13. ASSUME NEW w \in Workers, CacheRows(w)
      PROVE  DrainsHold'
  BY <1>13, WorkerAssumption, SMT DEF CacheRows, AfterBatch, localVars,
     workVars,
         lockVars, Workers, Resting, QueueLock, TickLock, CacheLock, LockKeys
<1>14. ASSUME NEW w \in Workers, RefreshFails(w)
      PROVE  DrainsHold'
  BY <1>14, WorkerAssumption, SMT DEF RefreshFails, Fault, AfterBatch,
     localVars, workVars,
         lockVars, Workers, Resting, QueueLock, TickLock, CacheLock, LockKeys
<1>15. ASSUME NEW w \in Workers, DeleteQueue(w)
      PROVE  DrainsHold'
  BY <1>15, WorkerAssumption, SMT DEF DeleteQueue, DropQueue, localVars,
     workVars,
         lockVars, Workers, Resting, QueueLock, TickLock, CacheLock, LockKeys
<1>16. ASSUME NEW w \in Workers, Clear(w)
      PROVE  DrainsHold'
  BY <1>16, WorkerAssumption, SMT DEF Clear, DropQueue, localVars, workVars,
         lockVars, Workers, Resting, QueueLock, TickLock, CacheLock, LockKeys
<1>17. ASSUME NEW w \in Workers, Unlock(w)
      PROVE  DrainsHold'
  BY <1>17, WorkerAssumption, SMT DEF Unlock, ReleaseLock, Leave, localVars,
     workVars,
         lockVars, Workers, Resting, QueueLock, TickLock, CacheLock, LockKeys
<1>18. ASSUME NEW w \in Workers, AddFails(w)
      PROVE  DrainsHold'
  BY <1>18, WorkerAssumption, SMT DEF AddFails, Fault, localVars, workVars,
         lockVars, Workers, Resting, QueueLock, TickLock, CacheLock, LockKeys
<1>19. ASSUME NEW w \in Workers, LockFails(w)
      PROVE  DrainsHold'
  BY <1>19, WorkerAssumption, SMT DEF LockFails, Fault, AcquireLock, TryAgain,
     Leave, localVars, workVars,
         lockVars, Workers, Resting, QueueLock, TickLock, CacheLock, LockKeys
<1>20. ASSUME NEW w \in Workers, DrainFails(w)
      PROVE  DrainsHold'
  BY <1>20, WorkerAssumption, SMT DEF DrainFails, Fault, Leave, localVars,
     workVars,
         lockVars, Workers, Resting, QueueLock, TickLock, CacheLock, LockKeys
<1>21. ASSUME NEW c \in CoinIDs, ExpireCoin(c)
      PROVE  DrainsHold'
  BY <1>21, WorkerAssumption, SMT DEF ExpireCoin, Fault, localVars, workVars,
         lockVars, Workers, Resting, QueueLock, TickLock, CacheLock, LockKeys
<1>22. ASSUME NEW p \in Pods, Crash(p)
      PROVE  DrainsHold'
  BY <1>22, WorkerAssumption, SMT DEF Crash, Fault, Resting, localVars,
     workVars,
         lockVars, Workers, Resting, QueueLock, TickLock, CacheLock, LockKeys
<1>23. ASSUME NEW l \in LockKeys, Expire(l)
      PROVE  DrainsHold'
  BY <1>23, SMT DEF Expire, ExpireLock, InUse, localVars
<1>24. ASSUME UNCHANGED vars
      PROVE  DrainsHold'
  BY <1>24, SMT DEF vars, localVars, workVars,
         lockVars, Workers, Resting, QueueLock, TickLock, CacheLock, LockKeys
<1>25. ASSUME NEW w \in Workers, SetSources(w)
      PROVE  DrainsHold'
  BY <1>25, WorkerAssumption, SMT DEF SetSources, localVars, workVars,
         lockVars, Workers, Resting, QueueLock, TickLock, CacheLock, LockKeys
<1> QED BY <1>1, <1>2, <1>3, <1>4, <1>5, <1>6, <1>7, <1>8, <1>9, <1>10, <1>11,
         <1>12, <1>13, <1>14, <1>15, <1>16, <1>17, <1>18, <1>19, <1>20, <1>21,
         <1>22, <1>23, <1>24, <1>25,
         Zenon DEF Next, Work, Environment

-----------------------------------------------------------------------------
(* The theorems.                                                           *)

LEMMA InitIInv == Init => IInv
<1> SUFFICES ASSUME Init PROVE IInv
  OBVIOUS
<1> USE DEF Init, InitLocks
<1>1. TypeOK
  <2>1. <<>> \in Seq(Entry)
    BY EmptySeq
  <2>2. WorkTypes
    BY <2>1, BoundAssumption, SMT DEF WorkTypes, Stages, Resting
  <2>3. cache \in [CoinIDs -> Columns \cup {Absent}] /\ coins \in [CoinIDs -> Columns]
    BY CoinAssumption, SMT
  <2> QED BY <2>1, <2>2, <2>3, SMT DEF TypeOK
<1>2. RowsFit /\ StagesFit /\ DrainsCover
  BY SMT DEF RowsFit, StagesFit, DrainsCover, Workers
<1> QED BY <1>1, <1>2 DEF IInv

LEMMA IInvKept == IInv /\ [Next]_vars => IInv'
BY TypesKept, RowsKept, StagesKept, CoverKept, Zenon DEF IInv

LEMMA Invariance == Spec => []IInv
BY InitIInv, IInvKept, PTL DEF Spec

\* Every variable keeps its type, whatever the number of processes, calls and
\* coins (coins_repository.go, ProcessQueue and UpsertCoins).
THEOREM TypeCorrect == Spec => []TypeOK
<1>1. IInv => TypeOK
  BY DEF IInv
<1> QED BY <1>1, Invariance, PTL

\* Two drains of the queue never overlap, as long as none takes longer than the
\* time to live of the lock (coins_repository.go:427, redis.go AcquireLock).
THEOREM DrainsAreExclusiveCorrect ==
    ASSUME MaxOverruns = 0
    PROVE  Spec => []DrainsAreExclusive
<1>1. Init => DrainsHold
  BY SMT DEF Init, DrainsHold, Drains, Draining
<1>2. IInv /\ DrainsHold /\ [Next]_vars => DrainsHold'
  BY HoldKept, Zenon
<1>3. DrainsHold => DrainsAreExclusive
  BY Zenon DEF DrainsHold, DrainsAreExclusive
<1> QED BY <1>1, <1>2, <1>3, Invariance, PTL DEF Spec

\* A drain deletes nothing it read and did not write, unless it gave up: what
\* is lost was pushed after the drain read the queue (coins_repository.go:444,
\* 502, 455).
THEOREM OnlyUnreadAreLostCorrect == Spec => OnlyUnreadAreLost
<1> DEFINE Lost == \A e \in lost' \ lost : \E w \in Workers :
                      /\ pc[w] \in {"delete", "clear", "abort"}
                      /\ pc[w] = "abort" \/ e \notin Elems(seen[w])
<1>1. ASSUME IInv, Next
      PROVE  Lost \/ UNCHANGED lost
  <2>1. ASSUME NEW w \in Workers, DeleteQueue(w) \/ Clear(w)
        PROVE  Lost
    <3>1. pc[w] \in {"delete", "clear", "abort"}
      BY <2>1 DEF DeleteQueue, Clear
    <3>2. w \in Adders \cup Tickers
      BY <3>1, <1>1, SMT DEF IInv, StagesFit
    <3>3. pc[w] # "abort" => Elems(seen[w]) \subseteq stored
      BY <3>1, <3>2, <1>1, SMT DEF IInv, DrainsCover
    <3>4. \A e \in lost' \ lost : e \notin stored
      BY <2>1, SMT DEF DeleteQueue, Clear, DropQueue
    <3> QED BY <3>1, <3>3, <3>4, Zenon
  <2>2. ASSUME NEW w \in Workers,
               GetCoinsByID(w) \/ EditCoin(w) \/ Tick(w) \/ AddToQueue(w)
                  \/ CheckLength(w) \/ Lock(w) \/ LockTaken(w) \/ ReadQueue(w)
                  \/ UpsertCoins(w) \/ UpsertFails(w) \/ SetSources(w) \/ ReadRows(w)
                  \/ CacheRows(w) \/ RefreshFails(w) \/ Unlock(w) \/ EndTick(w)
                  \/ AddFails(w) \/ LockFails(w) \/ DrainFails(w)
        PROVE  UNCHANGED lost
    BY <2>2, Zenon DEF GetCoinsByID, EditCoin, Tick, AddToQueue, CheckLength,
       Lock, LockTaken, ReadQueue, UpsertCoins, UpsertFails, SetSources,
       ReadRows, CacheRows, RefreshFails, Unlock, EndTick, AddFails, LockFails,
       DrainFails, queueVars
  <2>3. ASSUME Environment
        PROVE  UNCHANGED lost
    BY <2>3, Zenon DEF Environment, ExpireCoin, Crash, Expire, queueVars
  <2> QED BY <1>1, <2>1, <2>2, <2>3, Zenon DEF Next, Work
<1>2. IInv /\ [Next]_vars => [Lost]_vars
  <2>1. UNCHANGED lost => Lost
    BY Zenon
  <2> QED BY <1>1, <2>1, Zenon
<1> QED BY <1>2, Invariance, PTL DEF Spec, OnlyUnreadAreLost
=============================================================================
