-------------------------- MODULE TaskQueue_proofs --------------------------
(***************************************************************************)
(* Proofs about TaskQueue for any number of callers, coins, workers and    *)
(* tickers, and channels, lists and batches of any length.                 *)
(***************************************************************************)
EXTENDS TaskQueue, PositionLemmas, SequenceTheorems, FiniteSetTheorems, TLAPS

-----------------------------------------------------------------------------
(* Lists.                                                                  *)

LEMMA FunctionIsList ==
    ASSUME NEW S, NEW n \in Nat, NEW f \in [1..n -> S]
    PROVE  f \in Seq(S) /\ Len(f) = n
<1>1. f \in Seq(S)
  BY SeqDef, Zenon
<1>2. 1..Len(f) = 1..n /\ Len(f) \in Nat
  BY <1>1, LenProperties, SMT
<1> QED BY <1>1, <1>2, SMT

\* What a list holds is a finite set.
LEMMA ListFits ==
    ASSUME NEW S, NEW q \in Seq(S)
    PROVE  ToSet(q) \subseteq S /\ IsFiniteSet(ToSet(q))
<1>1. Len(q) \in Nat /\ DOMAIN q = 1..Len(q) /\ \A i \in DOMAIN q : q[i] \in S
  BY LenProperties, ElementOfSeq, SMT
<1>2. q \in Surjection(1..Len(q), ToSet(q))
  <2>1. q \in [1..Len(q) -> ToSet(q)]
    BY <1>1, LenProperties, SMT DEF ToSet
  <2>2. \A x \in ToSet(q) : \E i \in 1..Len(q) : q[i] = x
    BY <1>1, SMT DEF ToSet
  <2> QED BY <2>1, <2>2, Zenon DEF Surjection
<1>3. IsFiniteSet(1..Len(q))
  BY <1>1, FS_Interval, SMT
<1>4. IsFiniteSet(ToSet(q))
  BY <1>2, <1>3, FS_Surjection, Zenon
<1>5. ToSet(q) \subseteq S
  BY <1>1, SMT DEF ToSet
<1> QED BY <1>4, <1>5

LEMMA EmptyListFits ==
    ToSet(<<>>) = {} /\ DOMAIN <<>> = {} /\ Len(<<>>) = 0 /\ \A S : <<>> \in Seq(S)
BY EmptySeq, SMT DEF ToSet

\* A new element at the end of a list without repetitions.
LEMMA AppendFits ==
    ASSUME NEW S, NEW q \in Seq(S), NEW e \in S
    PROVE  /\ Append(q, e) \in Seq(S) /\ Len(Append(q, e)) = Len(q) + 1
           /\ ToSet(Append(q, e)) = ToSet(q) \cup {e}
           /\ IsInjective(q) /\ e \notin ToSet(q) => IsInjective(Append(q, e))
<1> DEFINE a == Append(q, e)
<1>1. Len(q) \in Nat /\ DOMAIN q = 1..Len(q)
  BY LenProperties
<1>2. /\ a \in Seq(S) /\ Len(a) = Len(q) + 1
      /\ DOMAIN a = 1..(Len(q) + 1)
      /\ \A i \in 1..Len(q) : a[i] = q[i]
      /\ a[Len(q) + 1] = e
  BY <1>1, SMT
<1> HIDE DEF a
<1>3. ToSet(a) = ToSet(q) \cup {e}
  <2>1. ASSUME NEW x \in ToSet(a)
        PROVE  x \in ToSet(q) \cup {e}
    <3>1. PICK i \in 1..(Len(q) + 1) : x = a[i]
      BY <1>2, <2>1, Zenon DEF ToSet
    <3>2. i \in 1..Len(q) \/ i = Len(q) + 1
      BY <1>1, SMT
    <3> QED BY <1>1, <1>2, <3>1, <3>2, SMT DEF ToSet
  <2>2. ToSet(q) \subseteq ToSet(a)
    BY <1>1, <1>2, SMT DEF ToSet
  <2>3. e \in ToSet(a)
    BY <1>1, <1>2, SMT DEF ToSet
  <2> QED BY <2>1, <2>2, <2>3
<1>4. ASSUME IsInjective(q), e \notin ToSet(q)
      PROVE  IsInjective(a)
  <2>1. \A i \in 1..Len(q) : q[i] # e
    BY <1>1, <1>4, SMT DEF ToSet
  <2>2. \A i, j \in 1..Len(q) : q[i] = q[j] => i = j
    BY <1>1, <1>4, Zenon DEF IsInjective
  <2>3. SUFFICES ASSUME NEW i \in 1..(Len(q) + 1), NEW j \in 1..(Len(q) + 1), a[i] = a[j]
                 PROVE  i = j
    BY <1>2, Zenon DEF IsInjective
  <2> QED BY <1>1, <1>2, <2>1, <2>2, <2>3, SMT
<1> QED BY <1>2, <1>3, <1>4 DEF a

\* The first element of a list without repetitions, and the rest of it.
LEMMA HeadFits ==
    ASSUME NEW S, NEW q \in Seq(S), q # <<>>
    PROVE  /\ Tail(q) \in Seq(S) /\ Len(Tail(q)) = Len(q) - 1
           /\ Head(q) \in ToSet(q) /\ ToSet(Tail(q)) \subseteq ToSet(q)
           /\ IsInjective(q) => IsInjective(Tail(q)) /\ Head(q) \notin ToSet(Tail(q))
<1> DEFINE r == Tail(q)
<1>1. Len(q) \in Nat \ {0} /\ DOMAIN q = 1..Len(q)
  BY LenProperties, EmptySeq
<1>2. /\ r \in Seq(S) /\ Len(r) = Len(q) - 1
      /\ DOMAIN r = 1..(Len(q) - 1)
      /\ \A i \in 1..(Len(q) - 1) : r[i] = q[i + 1]
  BY HeadTailProperties, LenProperties
<1>3. Head(q) = q[1]
  BY SMT
<1> HIDE DEF r
<1>4. Head(q) \in ToSet(q)
  BY <1>1, <1>3, SMT DEF ToSet
<1>5. ToSet(r) \subseteq ToSet(q)
  <2>1. SUFFICES ASSUME NEW i \in 1..(Len(q) - 1)
                 PROVE  r[i] \in ToSet(q)
    BY <1>2, Zenon DEF ToSet
  <2>2. i + 1 \in DOMAIN q
    BY <1>1, SMT
  <2> QED BY <1>2, <2>2, Zenon DEF ToSet
<1>6. ASSUME IsInjective(q)
      PROVE  IsInjective(r) /\ Head(q) \notin ToSet(r)
  <2>1. \A i, j \in 1..Len(q) : q[i] = q[j] => i = j
    BY <1>1, <1>6, Zenon DEF IsInjective
  <2>2. ASSUME NEW i \in 1..(Len(q) - 1), NEW j \in 1..(Len(q) - 1), r[i] = r[j]
        PROVE  i = j
    BY <1>1, <1>2, <2>1, <2>2, SMT
  <2>3. ASSUME NEW i \in 1..(Len(q) - 1)
        PROVE  r[i] # Head(q)
    <3>1. i + 1 \in 1..Len(q) /\ 1 \in 1..Len(q) /\ i + 1 # 1
      BY <1>1, SMT
    <3> QED BY <1>2, <1>3, <2>1, <3>1, Zenon
  <2>4. IsInjective(r)
    BY <1>2, <2>2, Zenon DEF IsInjective
  <2>5. Head(q) \notin ToSet(r)
    BY <1>2, <2>3, Zenon DEF ToSet
  <2> QED BY <2>4, <2>5
<1> QED BY <1>2, <1>4, <1>5, <1>6 DEF r

\* The orders of a finite set hold each of its elements once.
LEMMA OrderFits ==
    ASSUME NEW S, IsFiniteSet(S), NEW u \in SetToSeqs(S)
    PROVE  /\ u \in Seq(S) /\ {u[i] : i \in DOMAIN u} = S
           /\ \A i, j \in DOMAIN u : i # j => u[i] # u[j]
<1> DEFINE n == Cardinality(S)
<1>1. n \in Nat
  BY FS_CardinalityType
<1>2. u \in [1..n -> S] /\ \A i, j \in 1..n : i # j => u[i] # u[j]
  BY Zenon DEF SetToSeqs
<1> HIDE DEF n
<1>3. DOMAIN u = 1..n
  BY <1>2, Zenon
<1>4. u \in Injection(1..n, S)
  <2>1. IsInjective(u)
    BY <1>2, <1>3, Zenon DEF IsInjective
  <2> QED BY <1>2, <2>1, Zenon DEF Injection
<1>5. IsFiniteSet(1..n) /\ Cardinality(1..n) = n
  BY <1>1, FS_Interval, SMT
<1>6. u \in Surjection(1..n, S)
  <2>1. Cardinality(1..n) = Cardinality(S)
    BY <1>5 DEF n
  <2> QED BY <1>4, <2>1, FS_Injection, Zenon
<1>7. \A x \in S : \E i \in 1..n : u[i] = x
  BY <1>6, Zenon DEF Surjection
<1>8. u \in Seq(S)
  BY <1>1, <1>2, FunctionIsList, Zenon
<1>9. {u[i] : i \in DOMAIN u} = S
  BY <1>2, <1>3, <1>7, Zenon
<1> QED BY <1>2, <1>3, <1>8, <1>9, Zenon

\* The rows made of a list hold what the list holds, and none twice.
LEMMA RowsFit ==
    ASSUME NEW q \in Seq(Callers), NEW u \in Units(q)
    PROVE  /\ u \in Seq(SUBSET Callers)
           /\ ToSet(q) = UNION {u[i] : i \in DOMAIN u}
           /\ q = <<>> => Len(u) = 0
           /\ IsInjective(q) =>
                 \A i, j \in DOMAIN u : i # j => u[i] \cap u[j] = {}
<1>1. Len(q) \in Nat /\ DOMAIN q = 1..Len(q) /\ \A i \in DOMAIN q : q[i] \in Callers
  BY LenProperties, ElementOfSeq, SMT
<1>2. CASE kind = "logs"
  <2>1. u = [i \in 1..Len(q) |-> {q[i]}]
    BY <1>1, <1>2, Zenon DEF Units
  <2>2. DOMAIN u = 1..Len(q) /\ \A i \in 1..Len(q) : u[i] = {q[i]}
    BY <2>1, Zenon
  <2>3. u \in [1..Len(q) -> SUBSET Callers]
    BY <1>1, <2>1, SMT
  <2>4. u \in Seq(SUBSET Callers)
    BY <1>1, <2>3, FunctionIsList, Zenon
  <2>5. ToSet(q) = UNION {u[i] : i \in DOMAIN u}
    BY <1>1, <2>2, SMT DEF ToSet
  <2>6. q = <<>> => Len(u) = 0
    <3>1. Len(u) = Len(q)
      BY <1>1, <2>2, <2>4, LenProperties, SMT
    <3> QED BY <3>1, EmptyListFits, Zenon
  <2>7. IsInjective(q) => \A i, j \in DOMAIN u : i # j => u[i] \cap u[j] = {}
    BY <1>1, <2>2, SMT DEF IsInjective
  <2> QED BY <2>4, <2>5, <2>6, <2>7
<1>3. CASE kind # "logs"
  <2> DEFINE row(c) == {e \in ToSet(q) : About[e] = c}
             S == {row(c) : c \in {About[f] : f \in ToSet(q)}}
  <2>1. u \in SetToSeqs(S)
    BY <1>3, Zenon DEF Units
  <2>2. ToSet(q) \subseteq Callers /\ IsFiniteSet(ToSet(q))
    BY ListFits, Zenon
  <2>3. IsFiniteSet(S)
    <3>1. S \subseteq SUBSET ToSet(q)
      BY Zenon
    <3>2. IsFiniteSet(SUBSET ToSet(q))
      BY <2>2, FS_SUBSET, Zenon
    <3> QED BY <3>1, <3>2, FS_Subset, Zenon
  <2>4. /\ u \in Seq(S) /\ {u[i] : i \in DOMAIN u} = S
        /\ \A i, j \in DOMAIN u : i # j => u[i] # u[j]
    BY <2>1, <2>3, OrderFits, Zenon
  <2>5. S \subseteq SUBSET Callers
    BY <2>2, Zenon
  <2>6. u \in Seq(SUBSET Callers)
    <3> HIDE DEF S
    <3> QED BY <2>4, <2>5, SeqMonotonic, Zenon
  <2>7. UNION S = ToSet(q)
    <3>1. ASSUME NEW e \in ToSet(q)
          PROVE  e \in UNION S
      <4>1. e \in row(About[e]) /\ row(About[e]) \in S
        BY <3>1, Zenon
      <4> QED BY <4>1, Zenon
    <3>2. \A R \in S : R \subseteq ToSet(q)
      BY Zenon
    <3> QED BY <3>1, <3>2, Zenon
  <2>8. q = <<>> => Len(u) = 0
    <3>1. SUFFICES ASSUME q = <<>> PROVE Len(u) = 0
      OBVIOUS
    <3>2. S = {}
      BY <3>1, EmptyListFits, Zenon
    <3>3. DOMAIN u = {}
      BY <2>4, <3>2, Zenon
    <3>4. DOMAIN u = 1..Len(u) /\ Len(u) \in Nat
      BY <2>6, LenProperties
    <3> QED BY <3>3, <3>4, SMT
  <2>9. \A i, j \in DOMAIN u : i # j => u[i] \cap u[j] = {}
    <3>1. SUFFICES ASSUME NEW i \in DOMAIN u, NEW j \in DOMAIN u, i # j,
                          NEW e \in u[i], e \in u[j]
                   PROVE  FALSE
      BY Zenon
    <3>2. u[i] \in S /\ u[j] \in S /\ u[i] # u[j]
      <4> HIDE DEF S
      <4> QED BY <2>4, <3>1, Zenon
    <3>3. PICK c : u[i] = row(c)
      BY <3>2, Zenon
    <3>4. PICK d : u[j] = row(d)
      BY <3>2, Zenon
    <3>5. About[e] = c /\ About[e] = d
      BY <3>1, <3>3, <3>4, Zenon
    <3> QED BY <3>2, <3>3, <3>4, <3>5, Zenon
  <2> QED BY <2>4, <2>6, <2>7, <2>8, <2>9, Zenon
<1> QED BY <1>2, <1>3

-----------------------------------------------------------------------------
(* The inductive invariant.                                                *)

\* The entries of some rows.
Rows(u) == UNION {u[i] : i \in DOMAIN u}

\* The rows of a drain hold what it has read, and it has not written more rows than
\* there are.
UnitsFit ==
    \A t \in Tickers :
        /\ ToSet(seen[t]) = Rows(units[t])
        /\ written[t] <= Len(units[t])

\* Only a drain between its read and its release of the lock has entries, and the two
\* kinds of queue delete the list at different times.
StagesFit ==
    /\ \A t \in Tickers :
          pc[t] \notin {"early", "write", "late", "unlock"} =>
              seen[t] = <<>> /\ units[t] = <<>>
    /\ \A t \in Tickers : pc[t] # (IF kind = "slack" THEN "late" ELSE "early")

\* Finitely many entries have reached the table.
TableFinite == IsFiniteSet({e \in Callers : times[e] > 0})

TypeInv == TypeOK /\ UnitsFit /\ StagesFit /\ TableFinite

\* The rows a drain has written are in the table, and it leaves the loop over its
\* batches with all of them unless something has failed.
TakenInv ==
    \A t \in Tickers :
        /\ \A i \in 1..written[t] : \A e \in units[t][i] : times[e] > 0
        /\ pc[t] \in {"late", "unlock"} /\ ~broken => written[t] = Len(units[t])

\* As long as no lock runs out under its holder, one ticker is at work.
LockInv == overruns = 0 => \A t \in Tickers : pc[t] # "idle" => holder[TickLock] = t

\* The entry is not in the list, not in the table, and no drain has read it.
Unread(e) ==
    /\ times[e] = 0 /\ e \notin ToSet(queue)
    /\ \A t \in Tickers : e \notin ToSet(seen[t])

\* Each entry is in one place on its way from its caller to the list.
OnePlace ==
    /\ \A e \in calling :
          Unread(e) /\ e \notin ToSet(channel) /\ \A w \in TaskWorkers : hand[w] # e
    /\ \A e \in ToSet(channel) : Unread(e) /\ \A w \in TaskWorkers : hand[w] # e
    /\ \A w \in TaskWorkers : hand[w] # Nobody =>
          Unread(hand[w]) /\ \A v \in TaskWorkers : hand[v] = hand[w] => v = w
    /\ IsInjective(channel) /\ IsInjective(queue)

\* No entry is in two rows of a drain, and none in a row that is still to be written is
\* in the table.
RowsAreNew ==
    \A t \in Tickers : \A i \in DOMAIN units[t] :
        /\ \A j \in DOMAIN units[t] : i # j => units[t][i] \cap units[t][j] = {}
        /\ i > written[t] => \A e \in units[t][i] : times[e] = 0

\* The stages at which a delete of the list is still to come before the next read.
Unswept == {"write", "late", "unlock", "tickdel"}

\* What is in the list and in the table waits for a ticker that has yet to delete the
\* list.
ListIsNew ==
    \A e \in ToSet(queue) : times[e] > 0 => \E t \in Tickers : pc[t] \in Unswept

\* An entry is written once, and a row counts what came in since its last release.
Counted ==
    /\ \A e \in Callers : times[e] <= 1
    /\ kind = "slack" => \A c \in Coins :
          /\ released[c] \subseteq Stored(c)
          /\ alive[c] => counter[c] = Cardinality(Stored(c) \ released[c])
          /\ ~alive[c] => Stored(c) = released[c]

\* Nothing has failed, and no lock has run out under its holder.
Undisturbed == ~broken /\ ~rewrote /\ overruns = 0

OnceFacts == OnePlace /\ RowsAreNew /\ ListIsNew /\ Counted

OnceInv == Undisturbed => OnceFacts

IInv == TypeInv /\ TakenInv /\ LockInv /\ OnceInv

-----------------------------------------------------------------------------
(* Steps.                                                                  *)

LEMMA BoundFacts ==
    /\ ChannelSize \in Nat \ {0} /\ BatchSize \in Nat \ {0} /\ LockAttempts \in Nat \ {0}
    /\ MaxRetries \in Nat \ {0} /\ TopSize \in Nat \ {0} /\ MaxFaults \in Nat
    /\ MaxOverruns \in Nat
BY BoundAssumption, OverrunAssumption, SMT

LEMMA ExceptFits ==
    ASSUME NEW S, NEW f \in [Tickers -> S], NEW t, NEW v \in S
    PROVE  [f EXCEPT ![t] = v] \in [Tickers -> S]
OBVIOUS

Stages == Draining \cup {"idle", "lock", "tickdel", "untick"}

\* The stages between the read of a list and the release of its lock.
Busy == {"early", "write", "late", "unlock"}

\* What the write of a batch puts into the table.
Batch(t) == UNION {units[t][i] : i \in (written[t] + 1)..Upto(t)}

\* A batch starts after what is written, and ends with the rows.
LEMMA UptoFits ==
    ASSUME TypeOK, UnitsFit, NEW t \in Tickers
    PROVE  /\ written[t] \in Nat /\ Upto(t) \in Nat /\ Len(units[t]) \in Nat
           /\ written[t] <= Upto(t) /\ Upto(t) <= Len(units[t])
           /\ DOMAIN units[t] = 1..Len(units[t])
           /\ written[t] < Len(units[t]) => written[t] < Upto(t)
<1>1. units[t] \in Seq(SUBSET Callers) /\ written[t] \in Nat
  BY Zenon DEF TypeOK
<1>2. Len(units[t]) \in Nat /\ DOMAIN units[t] = 1..Len(units[t])
  BY <1>1, LenProperties, Zenon
<1>3. written[t] <= Len(units[t])
  BY Zenon DEF UnitsFit
<1> QED BY <1>1, <1>2, <1>3, BoundFacts, SMT DEF Upto

\* The entries of a batch are some of those the drain has read: finitely many.
LEMMA BatchFits ==
    ASSUME TypeOK, UnitsFit, NEW t \in Tickers
    PROVE  /\ Batch(t) \subseteq ToSet(seen[t]) /\ Batch(t) \subseteq Callers
           /\ IsFiniteSet(Batch(t))
<1>1. seen[t] \in Seq(Callers)
  BY Zenon DEF TypeOK
<1>2. ToSet(seen[t]) \subseteq Callers /\ IsFiniteSet(ToSet(seen[t]))
  BY <1>1, ListFits, Zenon
<1>3. ToSet(seen[t]) = UNION {units[t][i] : i \in DOMAIN units[t]}
  BY Zenon DEF UnitsFit, Rows
<1>4. (written[t] + 1)..Upto(t) \subseteq DOMAIN units[t]
  BY UptoFits, SMT
<1>5. Batch(t) \subseteq ToSet(seen[t])
  BY <1>3, <1>4, Zenon DEF Batch
<1>6. IsFiniteSet(Batch(t))
  BY <1>2, <1>5, FS_Subset, Zenon
<1> QED BY <1>2, <1>5, <1>6, Zenon

\* Every step is of one of these kinds.
LEMMA Steps ==
    ASSUME [Next]_vars
    PROVE  \/ \E e \in Callers : Insert(e)
           \/ \E w \in TaskWorkers : TakeTask(w) \/ RunTask(w)
           \/ \E t \in Tickers :
                 \/ Tick(t) \/ Lock(t) \/ LockTaken(t) \/ ReadQueue(t) \/ ReadFails(t)
                 \/ DeleteList(t) \/ WriteBatch(t) \/ WriteFails(t) \/ Unlock(t)
                 \/ EndTick(t) \/ Crash(t)
           \/ ReadTop \/ ReleaseTop \/ ReleaseFails \/ Midnight
           \/ \E l \in LockKeys : Expire(l)
           \/ vars' = vars
BY Zenon DEF Next, Work

\* Where a drain goes after its read and after its last batch.
AfterRead == IF kind = "logs" THEN "write" ELSE "early"
AfterRows == IF kind = "logs" THEN "late" ELSE "unlock"

\* t is at one of the stages of From, and goes to one of those of To.
Goes(t, From, To) ==
    pc[t] \in From /\ \E s \in To : pc' = [pc EXCEPT ![t] = s]

\* Where each action finds its ticker and where it leaves it.
LEMMA Moves ==
    ASSUME NEW t
    PROVE  /\ Tick(t) => Goes(t, {"idle"}, {"lock"})
           /\ Lock(t) => Goes(t, {"lock"}, {"read"})
           /\ LockTaken(t) => pc[t] = "lock" /\ (pc' = pc \/ Goes(t, {"lock"}, {"tickdel"}))
           /\ ReadQueue(t) => Goes(t, {"read"}, {"unlock", AfterRead})
           /\ ReadFails(t) => Goes(t, {"read"}, {"unlock"})
           /\ WriteBatch(t) => Goes(t, {"write"}, {"write", AfterRows})
           /\ WriteFails(t) => pc[t] = "write" /\ (pc' = pc \/ Goes(t, {"write"}, {AfterRows}))
           /\ Unlock(t) => Goes(t, {"unlock"}, {"tickdel"})
           /\ EndTick(t) => Goes(t, {"untick"}, {"idle"})
           /\ DeleteList(t) => \/ Goes(t, {"early"}, {"write"})
                               \/ Goes(t, {"late"}, {"unlock"})
                               \/ Goes(t, {"tickdel"}, {"untick"})
           /\ Crash(t) => pc[t] # "idle" /\ pc' = [pc EXCEPT ![t] = "idle"]
<1> USE DEF Goes, Goto, AfterRead, AfterRows
<1>1. Tick(t) => Goes(t, {"idle"}, {"lock"})
  BY Zenon DEF Tick
<1>2. Lock(t) => Goes(t, {"lock"}, {"read"})
  BY Zenon DEF Lock
<1>3. LockTaken(t) => pc[t] = "lock" /\ (pc' = pc \/ Goes(t, {"lock"}, {"tickdel"}))
  BY Zenon DEF LockTaken
<1>4. ReadQueue(t) => Goes(t, {"read"}, {"unlock", AfterRead})
  BY Zenon DEF ReadQueue
<1>5. WriteBatch(t) => Goes(t, {"write"}, {"write", AfterRows})
  BY Zenon DEF WriteBatch, AfterBatch
<1>6. WriteFails(t) => pc[t] = "write" /\ (pc' = pc \/ Goes(t, {"write"}, {AfterRows}))
  BY Zenon DEF WriteFails
<1>7. Unlock(t) => Goes(t, {"unlock"}, {"tickdel"})
  BY Zenon DEF Unlock
<1>8. EndTick(t) => Goes(t, {"untick"}, {"idle"})
  BY Zenon DEF EndTick
<1>9. DeleteList(t) => \/ Goes(t, {"early"}, {"write"})
                       \/ Goes(t, {"late"}, {"unlock"})
                       \/ Goes(t, {"tickdel"}, {"untick"})
  <2> SUFFICES ASSUME DeleteList(t)
               PROVE  \/ Goes(t, {"early"}, {"write"})
                      \/ Goes(t, {"late"}, {"unlock"})
                      \/ Goes(t, {"tickdel"}, {"untick"})
    OBVIOUS
  <2>1. CASE pc[t] = "early"
    BY <2>1, SMT DEF DeleteList
  <2>2. CASE pc[t] = "late"
    BY <2>2, SMT DEF DeleteList
  <2>3. CASE pc[t] = "tickdel"
    BY <2>3, SMT DEF DeleteList
  <2> QED BY <2>1, <2>2, <2>3, Zenon DEF DeleteList
<1>10. Crash(t) => pc[t] # "idle" /\ pc' = [pc EXCEPT ![t] = "idle"]
  BY Zenon DEF Crash
<1>11. ReadFails(t) => Goes(t, {"read"}, {"unlock"})
  BY Zenon DEF ReadFails
<1> QED BY <1>1, <1>2, <1>3, <1>4, <1>5, <1>6, <1>7, <1>8, <1>9, <1>10, <1>11, Zenon

-----------------------------------------------------------------------------
(* Types, and what a drain holds.                                          *)

LEMMA TypeInit == Init => TypeInv
<1> SUFFICES ASSUME Init PROVE TypeInv
  OBVIOUS
<1>1. /\ pc = [t \in Tickers |-> "idle"] /\ seen = [t \in Tickers |-> <<>>]
      /\ units = [t \in Tickers |-> <<>>] /\ written = [t \in Tickers |-> 0]
      /\ times = [e \in Callers |-> 0] /\ queue = <<>> /\ channel = <<>>
      /\ kind \in {"logs", "slack"}
  BY Zenon DEF Init
<1>2. channel \in Seq(Callers) /\ Len(channel) <= ChannelSize /\ queue \in Seq(Callers)
  BY <1>1, EmptyListFits, BoundFacts, SMT
<1>3. /\ seen \in [Tickers -> Seq(Callers)] /\ units \in [Tickers -> Seq(SUBSET Callers)]
      /\ \A t \in Tickers : seen[t] = <<>> /\ units[t] = <<>> /\ written[t] = 0
  <2>1. <<>> \in Seq(Callers) /\ <<>> \in Seq(SUBSET Callers)
    BY EmptyListFits, Zenon
  <2> QED BY <1>1, <2>1, Zenon
<1>4. /\ calling \subseteq Callers /\ top \subseteq Coins
      /\ hand \in [TaskWorkers -> Callers \cup {Nobody}]
      /\ broken \in BOOLEAN /\ rewrote \in BOOLEAN /\ faults = 0
  BY Zenon DEF Init
<1>4a. released \in [Coins -> SUBSET Callers] /\ alive \in [Coins -> BOOLEAN]
  BY Zenon DEF Init
<1>4b. /\ written \in [Tickers -> Nat] /\ attempt \in [Tickers -> Nat]
      /\ times \in [Callers -> Nat] /\ counter \in [Coins -> Nat]
      /\ date \in [Coins -> Nat] /\ dated \in [Callers -> Nat] /\ day \in Nat
      /\ faults \in Nat
  BY <1>1, <1>4, SMT DEF Init
<1>5. holder \in [LockKeys -> Tickers \cup {Free}] /\ overruns \in Nat
  BY SMT DEF Init, InitLocks
<1>6. pc \in [Tickers -> Stages]
  <2>1. "idle" \in Stages
    BY Zenon DEF Stages
  <2> HIDE DEF Stages
  <2> QED BY <1>1, <2>1, Zenon
<1>7. TypeOK
  BY <1>1, <1>2, <1>3, <1>4, <1>4a, <1>4b, <1>5, <1>6, Zenon DEF TypeOK, Stages
<1>8. UnitsFit
  <2> SUFFICES ASSUME NEW t \in Tickers
               PROVE  /\ ToSet(seen[t]) = Rows(units[t])
                      /\ written[t] <= Len(units[t])
    BY Zenon DEF UnitsFit
  <2>1. ToSet(seen[t]) = {} /\ DOMAIN units[t] = {} /\ Len(units[t]) = 0 /\ written[t] = 0
    BY <1>3, EmptyListFits, Zenon
  <2> QED BY <2>1, SMT DEF Rows
<1>9. StagesFit
  <2>1. \A t \in Tickers : pc[t] = "idle"
    BY <1>1, Zenon
  <2> QED BY <1>3, <2>1, SMT DEF StagesFit
<1>10. TableFinite
  <2>1. {e \in Callers : times[e] > 0} = {}
    BY <1>1, SMT
  <2> QED BY <2>1, FS_EmptySet, Zenon DEF TableFinite
<1> QED BY <1>7, <1>8, <1>9, <1>10 DEF TypeInv

\* What a step must leave alone for them to hold.
LEMMA TypeHold ==
    ASSUME TypeInv, TypeOK', kind' = kind, seen' = seen, units' = units,
           written' = written, times' = times, StagesFit'
    PROVE  TypeInv'
<1>1. UnitsFit' /\ TableFinite'
  BY Zenon DEF TypeInv, UnitsFit, TableFinite
<1> QED BY <1>1, Zenon DEF TypeInv

LEMMA StagesHold ==
    ASSUME StagesFit, kind' = kind, pc' = pc, seen' = seen, units' = units
    PROVE  StagesFit'
BY Zenon DEF StagesFit

LEMMA StagesMove ==
    ASSUME TypeOK, StagesFit, kind' = kind, NEW t \in Tickers, NEW s \in Stages,
           pc' = [pc EXCEPT ![t] = s],
           s # (IF kind = "slack" THEN "late" ELSE "early"),
           s \notin Busy => seen'[t] = <<>> /\ units'[t] = <<>>,
           \A x \in Tickers : x # t => seen'[x] = seen[x] /\ units'[x] = units[x]
    PROVE  StagesFit' /\ pc' \in [Tickers -> Stages]
<1>1. pc \in [Tickers -> Stages]
  BY Zenon DEF TypeOK, Stages
<1>2. pc' \in [Tickers -> Stages] /\ pc'[t] = s /\ \A x \in Tickers : x # t => pc'[x] = pc[x]
  <2> HIDE DEF Stages
  <2> QED BY <1>1, SMT
<1>3. \A x \in Tickers : pc'[x] \notin Busy => seen'[x] = <<>> /\ units'[x] = <<>>
  <2> SUFFICES ASSUME NEW x \in Tickers, pc'[x] \notin Busy
               PROVE  seen'[x] = <<>> /\ units'[x] = <<>>
    OBVIOUS
  <2>1. CASE x = t
    BY <1>2, <2>1, Zenon
  <2>2. CASE x # t
    <3>1. pc[x] \notin Busy
      BY <1>2, <2>2, Zenon
    <3>2. seen[x] = <<>> /\ units[x] = <<>>
      BY <3>1, Zenon DEF StagesFit, Busy
    <3> QED BY <2>2, <3>2, Zenon
  <2> QED BY <2>1, <2>2
<1>4. \A x \in Tickers : pc'[x] # (IF kind' = "slack" THEN "late" ELSE "early")
  BY <1>2, Zenon DEF StagesFit
<1> QED BY <1>2, <1>3, <1>4, Zenon DEF StagesFit, Busy

\* What stands for all notifications of a coin is one of them.
LEMMA LastFits ==
    ASSUME NEW q \in Seq(Callers), NEW c, \E e \in ToSet(q) : About[e] = c
    PROVE  LastAbout(q, c) \in Callers
<1> DEFINE S == {i \in DOMAIN q : About[q[i]] = c}
<1>1. Len(q) \in Nat /\ DOMAIN q = 1..Len(q) /\ \A i \in DOMAIN q : q[i] \in Callers
  BY LenProperties, ElementOfSeq, SMT
<1>2. S \in SUBSET (1..Len(q)) /\ S # {}
  BY <1>1, SMT DEF ToSet
<1>3. \E m \in S : \A k \in S : k <= m
  <2> HIDE DEF S
  <2> QED BY <1>1, <1>2, Greatest, Zenon
<1>4. \E i \in DOMAIN q :
          About[q[i]] = c /\ \A j \in DOMAIN q : About[q[j]] = c => j <= i
  BY <1>3, Zenon
<1>5. PICK i \in DOMAIN q : LastAbout(q, c) = q[i]
  BY <1>4, Zenon DEF LastAbout
<1> QED BY <1>1, <1>5, Zenon

\* Every action keeps them.
LEMMA TypeKept ==
    ASSUME TypeInv, [Next]_vars
    PROVE  TypeInv'
<1>t. /\ kind \in {"logs", "slack"} /\ calling \subseteq Callers
      /\ channel \in Seq(Callers) /\ Len(channel) <= ChannelSize
      /\ hand \in [TaskWorkers -> Callers \cup {Nobody}] /\ queue \in Seq(Callers)
      /\ pc \in [Tickers -> Stages] /\ attempt \in [Tickers -> Nat]
      /\ seen \in [Tickers -> Seq(Callers)]
      /\ units \in [Tickers -> Seq(SUBSET Callers)] /\ written \in [Tickers -> Nat]
      /\ times \in [Callers -> Nat] /\ counter \in [Coins -> Nat]
      /\ alive \in [Coins -> BOOLEAN] /\ top \subseteq Coins
      /\ date \in [Coins -> Nat] /\ dated \in [Callers -> Nat] /\ day \in Nat
      /\ released \in [Coins -> SUBSET Callers]
      /\ broken \in BOOLEAN /\ rewrote \in BOOLEAN /\ faults \in Nat
      /\ holder \in [LockKeys -> Tickers \cup {Free}] /\ overruns \in Nat
  BY Zenon DEF TypeInv, TypeOK, Stages
<1>u. TypeOK /\ UnitsFit /\ StagesFit /\ TableFinite
  BY Zenon DEF TypeInv
<1>l. QueueLock \in LockKeys /\ TickLock \in LockKeys
  BY Zenon DEF LockKeys
<1>e. <<>> \in Seq(Callers) /\ <<>> \in Seq(SUBSET Callers)
  BY EmptyListFits, Zenon
<1>1. ASSUME NEW e \in Callers, Insert(e)
      PROVE  TypeInv'
  <2>1. calling' \subseteq Callers
    BY <1>1, <1>t, Zenon DEF Insert
  <2>2. channel' \in Seq(Callers) /\ Len(channel') <= ChannelSize
    <3>1. CASE Len(channel) < ChannelSize
      <4>1. channel' = Append(channel, e)
        BY <1>1, <3>1, Zenon DEF Insert
      <4> QED BY <1>t, <3>1, <4>1, AppendFits, BoundFacts, LenProperties, SMT
    <3>2. CASE ~(Len(channel) < ChannelSize)
      <4>1. channel' = channel
        BY <1>1, <3>2, Zenon DEF Insert
      <4> QED BY <1>t, <4>1, Zenon
    <3> QED BY <3>1, <3>2
  <2>3. dated' \in [Callers -> Nat]
    BY <1>1, <1>t, SMT DEF Insert
  <2>a. TypeOK'
    BY <1>1, <1>t, <2>1, <2>2, <2>3, Zenon DEF Insert, channelVars, drainVars, tableVars, dayVars, historyVars, lockVars, TypeOK, Stages
  <2>h. /\ kind' = kind /\ pc' = pc /\ seen' = seen /\ units' = units
        /\ written' = written /\ times' = times
    BY <1>1, Zenon DEF Insert, drainVars, tableVars, vars
  <2> QED BY <1>u, <2>a, <2>h, StagesHold, TypeHold, Zenon
<1>2. ASSUME NEW w \in TaskWorkers, TakeTask(w)
      PROVE  TypeInv'
  <2>1. channel # <<>> /\ channel' = Tail(channel) /\ hand' = [hand EXCEPT ![w] = Head(channel)]
    BY <1>2, Zenon DEF TakeTask
  <2>2. /\ Tail(channel) \in Seq(Callers) /\ Len(Tail(channel)) = Len(channel) - 1
        /\ Head(channel) \in ToSet(channel) /\ ToSet(channel) \subseteq Callers
    BY <1>t, <2>1, HeadFits, ListFits, Zenon
  <2>3. channel' \in Seq(Callers) /\ Len(channel') <= ChannelSize
    BY <1>t, <2>1, <2>2, BoundFacts, LenProperties, SMT
  <2>4. hand' \in [TaskWorkers -> Callers \cup {Nobody}]
    BY <1>t, <2>1, <2>2, SMT
  <2>a. TypeOK'
    BY <1>2, <1>t, <2>3, <2>4, Zenon DEF TakeTask, channelVars, drainVars, tableVars, dayVars, historyVars, lockVars, TypeOK, Stages
  <2>h. /\ kind' = kind /\ pc' = pc /\ seen' = seen /\ units' = units
        /\ written' = written /\ times' = times
    BY <1>2, Zenon DEF TakeTask, drainVars, tableVars, vars
  <2> QED BY <1>u, <2>a, <2>h, StagesHold, TypeHold, Zenon
<1>3. ASSUME NEW w \in TaskWorkers, RunTask(w)
      PROVE  TypeInv'
  <2>1. hand' \in [TaskWorkers -> Callers \cup {Nobody}]
    BY <1>3, <1>t, SMT DEF RunTask
  <2>2. queue' \in Seq(Callers) /\ broken' \in BOOLEAN /\ faults' \in Nat
    <3>1. CASE queue' = Append(queue, hand[w]) /\ UNCHANGED <<broken, faults>>
      <4>1. hand[w] \in Callers
        BY <1>3, <1>t, Zenon DEF RunTask
      <4> QED BY <1>t, <3>1, <4>1, AppendFits, Zenon
    <3>2. CASE Fault /\ broken' = TRUE /\ UNCHANGED queue
      BY <1>t, <3>2, SMT DEF Fault
    <3> QED BY <1>3, <3>1, <3>2, Zenon DEF RunTask
  <2>a. TypeOK'
    BY <1>3, <1>t, <2>1, <2>2, Zenon DEF RunTask, channelVars, drainVars, tableVars, dayVars, historyVars, lockVars, TypeOK, Stages
  <2>h. /\ kind' = kind /\ pc' = pc /\ seen' = seen /\ units' = units
        /\ written' = written /\ times' = times
    BY <1>3, Zenon DEF RunTask, drainVars, tableVars, vars
  <2> QED BY <1>u, <2>a, <2>h, StagesHold, TypeHold, Zenon
<1>4. ASSUME NEW t \in Tickers, Tick(t)
      PROVE  TypeInv'
  <2>s. StagesFit' /\ pc' \in [Tickers -> Stages]
    <3>1. /\ kind' = kind /\ seen' = seen /\ units' = units
          /\ \E s \in {"lock"} : pc' = [pc EXCEPT ![t] = s]
      BY <1>4, Moves, Zenon DEF Tick, drainVars, Goes
    <3>2. PICK s \in {"lock"} : pc' = [pc EXCEPT ![t] = s]
      BY <3>1
    <3>3. s \in Stages /\ s # (IF kind = "slack" THEN "late" ELSE "early")
      BY <1>t, <3>2, Zenon DEF Stages, Draining, AfterRead, AfterRows
    <3>4. seen[t] = <<>> /\ units[t] = <<>>
      BY <1>4, <1>u, Moves, Zenon DEF StagesFit, Goes
    <3> QED BY <1>u, <3>1, <3>2, <3>3, <3>4, StagesMove, Zenon
  <2>1. holder' \in [LockKeys -> Tickers \cup {Free}] /\ overruns' \in Nat
    BY <1>4, <1>t, <1>l, SMT DEF Tick, AcquireLock
  <2>a. TypeOK'
    BY <1>4, <1>t, <2>s, <2>1, Zenon DEF Tick, channelVars, drainVars, tableVars, dayVars, historyVars, lockVars, TypeOK, Stages
  <2>h. /\ kind' = kind /\ seen' = seen /\ units' = units
        /\ written' = written /\ times' = times
    BY <1>4, Zenon DEF Tick, drainVars, tableVars
  <2> QED BY <1>u, <2>a, <2>h, <2>s, TypeHold, Zenon
<1>5. ASSUME NEW t \in Tickers, Lock(t)
      PROVE  TypeInv'
  <2>s. StagesFit' /\ pc' \in [Tickers -> Stages]
    <3>1. /\ kind' = kind /\ seen' = seen /\ units' = units
          /\ \E s \in {"read"} : pc' = [pc EXCEPT ![t] = s]
      BY <1>5, Moves, Zenon DEF Lock, drainVars, Goes
    <3>2. PICK s \in {"read"} : pc' = [pc EXCEPT ![t] = s]
      BY <3>1
    <3>3. s \in Stages /\ s # (IF kind = "slack" THEN "late" ELSE "early")
      BY <1>t, <3>2, Zenon DEF Stages, Draining, AfterRead, AfterRows
    <3>4. seen[t] = <<>> /\ units[t] = <<>>
      BY <1>5, <1>u, Moves, Zenon DEF StagesFit, Goes
    <3> QED BY <1>u, <3>1, <3>2, <3>3, <3>4, StagesMove, Zenon
  <2>1. holder' \in [LockKeys -> Tickers \cup {Free}] /\ overruns' \in Nat
    BY <1>5, <1>t, <1>l, SMT DEF Lock, AcquireLock
  <2>2. attempt' \in [Tickers -> Nat]
    BY <1>5, <1>t, SMT DEF Lock
  <2>a. TypeOK'
    BY <1>5, <1>t, <2>s, <2>1, <2>2, Zenon DEF Lock, channelVars, drainVars, tableVars, dayVars, historyVars, lockVars, TypeOK, Stages
  <2>h. /\ kind' = kind /\ seen' = seen /\ units' = units
        /\ written' = written /\ times' = times
    BY <1>5, Zenon DEF Lock, drainVars, tableVars
  <2> QED BY <1>u, <2>a, <2>h, <2>s, TypeHold, Zenon
<1>6. ASSUME NEW t \in Tickers, LockTaken(t)
      PROVE  TypeInv'
  <2>s. StagesFit' /\ pc' \in [Tickers -> Stages]
    <3>1. kind' = kind /\ seen' = seen /\ units' = units
      BY <1>6, Zenon DEF LockTaken
    <3>2. CASE pc' = pc
      BY <1>t, <1>u, <3>1, <3>2, StagesHold, Zenon
    <3>3. CASE Goes(t, {"lock"}, {"tickdel"})
      <4>1. pc[t] = "lock" /\ pc' = [pc EXCEPT ![t] = "tickdel"]
        BY <3>3, Zenon DEF Goes
      <4>2. seen[t] = <<>> /\ units[t] = <<>>
        BY <1>u, <4>1, Zenon DEF StagesFit
      <4>3. "tickdel" \in Stages /\ "tickdel" # (IF kind = "slack" THEN "late" ELSE "early")
        BY Zenon DEF Stages
      <4> QED BY <1>u, <3>1, <4>1, <4>2, <4>3, StagesMove, Zenon
    <3> QED BY <1>6, <3>2, <3>3, Moves, Zenon
  <2>2. attempt' \in [Tickers -> Nat]
    <3>1. attempt[t] + 1 \in Nat
      BY <1>t, SMT
    <3>2. \/ attempt' = [attempt EXCEPT ![t] = attempt[t] + 1]
          \/ attempt' = [attempt EXCEPT ![t] = 1]
      BY <1>6, Zenon DEF LockTaken
    <3>3. 1 \in Nat
      OBVIOUS
    <3>4. /\ [attempt EXCEPT ![t] = attempt[t] + 1] \in [Tickers -> Nat]
          /\ [attempt EXCEPT ![t] = 1] \in [Tickers -> Nat]
      BY <1>t, <3>1, <3>3, ExceptFits
    <3> QED BY <3>2, <3>4, Zenon
  <2>a. TypeOK'
    BY <1>6, <1>t, <2>s, <2>2, Zenon DEF LockTaken, channelVars, drainVars, tableVars, dayVars, historyVars, lockVars, TypeOK, Stages
  <2>h. /\ kind' = kind /\ seen' = seen /\ units' = units
        /\ written' = written /\ times' = times
    BY <1>6, Zenon DEF LockTaken, drainVars, tableVars
  <2> QED BY <1>u, <2>a, <2>h, <2>s, TypeHold, Zenon
<1>7. ASSUME NEW t \in Tickers, ReadQueue(t)
      PROVE  TypeInv'
  <2>1. /\ kind' = kind /\ times' = times /\ seen' = [seen EXCEPT ![t] = queue]
        /\ written' = [written EXCEPT ![t] = 0]
        /\ \E u \in Units(queue) : units' = [units EXCEPT ![t] = u]
        /\ pc' = [pc EXCEPT ![t] = IF queue = <<>> THEN "unlock"
                                   ELSE IF kind = "logs" THEN "write" ELSE "early"]
    BY <1>7, Zenon DEF ReadQueue, tableVars, Goto
  <2>2. PICK u \in Units(queue) : units' = [units EXCEPT ![t] = u]
    BY <2>1
  <2>3. u \in Seq(SUBSET Callers) /\ ToSet(queue) = Rows(u)
    BY <1>t, RowsFit, Zenon DEF Rows
  <2>4. /\ seen' \in [Tickers -> Seq(Callers)] /\ written' \in [Tickers -> Nat]
        /\ units' \in [Tickers -> Seq(SUBSET Callers)]
        /\ seen'[t] = queue /\ units'[t] = u /\ written'[t] = 0
        /\ \A x \in Tickers : x # t =>
              seen'[x] = seen[x] /\ units'[x] = units[x] /\ written'[x] = written[x]
    BY <1>t, <2>1, <2>2, <2>3, SMT
  <2>s. StagesFit' /\ pc' \in [Tickers -> Stages]
    <3>1. PICK s \in {"unlock", AfterRead} : pc' = [pc EXCEPT ![t] = s]
      BY <1>7, Moves, Zenon DEF Goes
    <3>2. s \in Stages /\ s \in Busy /\ s # (IF kind = "slack" THEN "late" ELSE "early")
      BY <1>t, <3>1, Zenon DEF Stages, Draining, AfterRead, Busy
    <3> QED BY <1>u, <2>1, <2>4, <3>1, <3>2, StagesMove, Zenon
  <2>a. TypeOK'
    BY <1>7, <1>t, <2>s, <2>4, Zenon DEF ReadQueue, channelVars, drainVars, tableVars, dayVars, historyVars, lockVars, TypeOK, Stages
  <2>5. UnitsFit'
    <3> SUFFICES ASSUME NEW x \in Tickers
                 PROVE  /\ ToSet(seen'[x]) = Rows(units'[x])
                        /\ written'[x] <= Len(units'[x])
      BY Zenon DEF UnitsFit
    <3>1. CASE x = t
      <4>1. Len(u) \in Nat
        BY <2>3, LenProperties
      <4>2. 0 <= Len(u)
        BY <4>1, SMT
      <4> QED BY <2>3, <2>4, <3>1, <4>2, Zenon
    <3>2. CASE x # t
      BY <1>u, <2>4, <3>2, Zenon DEF UnitsFit
    <3> QED BY <3>1, <3>2
  <2>6. TableFinite'
    BY <1>u, <2>1, Zenon DEF TableFinite
  <2> QED BY <2>a, <2>s, <2>5, <2>6, Zenon DEF TypeInv
<1>8. ASSUME NEW t \in Tickers, DeleteList(t)
      PROVE  TypeInv'
  <2>s. StagesFit' /\ pc' \in [Tickers -> Stages]
    <3>1. kind' = kind /\ seen' = seen /\ units' = units
      BY <1>8, Zenon DEF DeleteList, drainVars
    <3>2. \/ pc[t] = "early" /\ pc' = [pc EXCEPT ![t] = "write"]
          \/ pc[t] = "late" /\ pc' = [pc EXCEPT ![t] = "unlock"]
          \/ pc[t] = "tickdel" /\ pc' = [pc EXCEPT ![t] = "untick"]
      BY <1>8, Moves, Zenon DEF Goes
    <3>3. PICK s \in {"write", "unlock", "untick"} :
              /\ pc' = [pc EXCEPT ![t] = s]
              /\ s = "untick" => pc[t] = "tickdel"
      BY <3>2, SMT
    <3>4. s \in Stages /\ s # (IF kind = "slack" THEN "late" ELSE "early")
      BY <3>3, Zenon DEF Stages, Draining
    <3>5. s \notin Busy => seen[t] = <<>> /\ units[t] = <<>>
      <4>1. SUFFICES ASSUME s \notin Busy PROVE seen[t] = <<>> /\ units[t] = <<>>
        OBVIOUS
      <4>2. pc[t] = "tickdel"
        BY <3>3, <4>1, Zenon DEF Busy
      <4> QED BY <1>u, <4>2, Zenon DEF StagesFit
    <3> QED BY <1>u, <3>1, <3>3, <3>4, <3>5, StagesMove, Zenon
  <2>1. queue' \in Seq(Callers) /\ broken' \in BOOLEAN /\ faults' \in Nat
    <3>1. faults + 1 \in Nat
      BY <1>t, SMT
    <3>2. \/ queue' = <<>> /\ broken' = broken /\ faults' = faults
          \/ /\ queue' = queue /\ faults' = faults + 1
             /\ broken' = (broken \/ pc[t] = "tickdel")
      BY <1>8, Zenon DEF DeleteList, DropList, Fault
    <3> QED BY <1>t, <1>e, <3>1, <3>2, Zenon
  <2>a. TypeOK'
    BY <1>8, <1>t, <2>s, <2>1, Zenon DEF DeleteList, channelVars, drainVars, tableVars, dayVars, historyVars, lockVars, TypeOK, Stages
  <2>h. /\ kind' = kind /\ seen' = seen /\ units' = units
        /\ written' = written /\ times' = times
    BY <1>8, Zenon DEF DeleteList, drainVars, tableVars
  <2> QED BY <1>u, <2>a, <2>h, <2>s, TypeHold, Zenon
<1>9. ASSUME NEW t \in Tickers, WriteBatch(t)
      PROVE  TypeInv'
  <2>1. /\ times' = [e \in Callers |-> times[e] + IF e \in Batch(t) THEN 1 ELSE 0]
        /\ written' = [written EXCEPT ![t] = Upto(t)]
        /\ kind' = kind /\ seen' = seen /\ units' = units
    BY <1>9, Zenon DEF WriteBatch, Batch
  <2>2. /\ Batch(t) \subseteq Callers /\ IsFiniteSet(Batch(t))
        /\ Upto(t) \in Nat /\ Upto(t) <= Len(units[t])
    BY <1>u, BatchFits, UptoFits, Zenon
  <2>3. times' \in [Callers -> Nat] /\ \A e \in Callers : times'[e] > 0 => times[e] > 0 \/ e \in Batch(t)
    BY <1>t, <2>1, SMT
  <2>4. counter' \in [Coins -> Nat] /\ alive' \in [Coins -> BOOLEAN]
    <3>1. CASE kind = "slack"
      <4> DEFINE new(c) == Cardinality({e \in Batch(t) : About[e] = c})
      <4>1. \A c : new(c) \in Nat
        <5> SUFFICES ASSUME NEW c PROVE new(c) \in Nat
          OBVIOUS
        <5>1. {e \in Batch(t) : About[e] = c} \in SUBSET Batch(t)
          BY Zenon
        <5>2. IsFiniteSet({e \in Batch(t) : About[e] = c})
          BY <2>2, <5>1, FS_Subset, Zenon
        <5> QED BY <5>2, FS_CardinalityType, Zenon
      <4>2. Count(t, Batch(t))
        BY <1>9, <3>1, Zenon DEF WriteBatch, Batch
      <4>3. /\ counter' = [c \in Coins |-> IF alive[c] \/ new(c) = 0
                                          THEN counter[c] + new(c) ELSE new(c)]
            /\ alive' = [c \in Coins |-> alive[c] \/ new(c) > 0]
        BY <4>2, Zenon DEF Count
      <4> HIDE DEF new
      <4> QED BY <1>t, <4>1, <4>3, SMT
    <3>2. CASE kind # "slack"
      BY <1>9, <1>t, <3>2, Zenon DEF WriteBatch
    <3> QED BY <3>1, <3>2
  <2>8. date' \in [Coins -> Nat]
    <3>1. CASE kind = "slack"
      <4> DEFINE new(c) == Cardinality({e \in Batch(t) : About[e] = c})
                 day1(c) == IF new(c) = 0 THEN date[c] ELSE dated[LastAbout(seen[t], c)]
      <4>1. Count(t, Batch(t))
        BY <1>9, <3>1, Zenon DEF WriteBatch, Batch
      <4>2. date' = [c \in Coins |-> day1(c)]
        BY <4>1, Zenon DEF Count
      <4>3. \A c \in Coins : day1(c) \in Nat
        <5> SUFFICES ASSUME NEW c \in Coins PROVE day1(c) \in Nat
          OBVIOUS
        <5>1. CASE new(c) = 0
          BY <1>t, <5>1, Zenon
        <5>2. CASE new(c) # 0
          <6>1. {e \in Batch(t) : About[e] = c} # {}
            BY <5>2, FS_EmptySet, Zenon
          <6>2. \E e \in ToSet(seen[t]) : About[e] = c
            BY <1>u, <6>1, BatchFits, Zenon
          <6>3. LastAbout(seen[t], c) \in Callers
            BY <1>t, <6>2, LastFits, Zenon
          <6>4. day1(c) = dated[LastAbout(seen[t], c)]
            BY <5>2, Zenon
          <6> QED BY <1>t, <6>3, <6>4, Zenon
        <5> QED BY <5>1, <5>2
      <4> HIDE DEF day1
      <4> QED BY <4>2, <4>3, Zenon
    <3>2. CASE kind # "slack"
      BY <1>9, <1>t, <3>2, Zenon DEF WriteBatch
    <3> QED BY <3>1, <3>2
  <2>5. written' \in [Tickers -> Nat]
    BY <1>t, <2>1, <2>2, SMT
  <2>s. StagesFit' /\ pc' \in [Tickers -> Stages]
    <3>1. /\ kind' = kind /\ seen' = seen /\ units' = units
          /\ \E s \in {"write", AfterRows} : pc' = [pc EXCEPT ![t] = s]
      BY <1>9, Moves, Zenon DEF WriteBatch, drainVars, Goes
    <3>2. PICK s \in {"write", AfterRows} : pc' = [pc EXCEPT ![t] = s]
      BY <3>1
    <3>3. s \in Stages /\ s # (IF kind = "slack" THEN "late" ELSE "early")
      BY <1>t, <3>2, Zenon DEF Stages, Draining, AfterRead, AfterRows
    <3>4. s \in Busy
      BY <3>2, Zenon DEF Busy, AfterRead, AfterRows
    <3> QED BY <1>u, <3>1, <3>2, <3>3, <3>4, StagesMove, Zenon
  <2>a. TypeOK'
    BY <1>9, <1>t, <2>s, <2>3, <2>4, <2>5, <2>8, Zenon DEF WriteBatch, channelVars, drainVars, tableVars, dayVars, historyVars, lockVars, TypeOK, Stages
  <2>6. UnitsFit'
    <3>1. \A x \in Tickers : written'[x] <= Len(units[x])
      BY <1>t, <1>u, <2>1, <2>2, SMT DEF UnitsFit
    <3> QED BY <1>u, <2>1, <3>1, Zenon DEF UnitsFit
  <2>7. TableFinite'
    <3>1. {e \in Callers : times'[e] > 0} \subseteq {e \in Callers : times[e] > 0} \cup Batch(t)
      BY <2>3, Zenon
    <3>2. IsFiniteSet({e \in Callers : times[e] > 0} \cup Batch(t))
      BY <1>u, <2>2, FS_Union, Zenon DEF TableFinite
    <3> QED BY <3>1, <3>2, FS_Subset, Zenon DEF TableFinite
  <2> QED BY <2>a, <2>s, <2>6, <2>7, Zenon DEF TypeInv
<1>10. ASSUME NEW t \in Tickers, WriteFails(t)
      PROVE  TypeInv'
  <2>1. kind' = kind /\ seen' = seen /\ units' = units /\ times' = times
    BY <1>10, Zenon DEF WriteFails, tableVars
  <2>2. /\ attempt' \in [Tickers -> Nat] /\ written' \in [Tickers -> Nat]
        /\ broken' \in BOOLEAN /\ rewrote' \in BOOLEAN /\ faults' \in Nat
    <3>1. attempt[t] + 1 \in Nat /\ faults' \in Nat
      BY <1>10, <1>t, SMT DEF WriteFails, Fault
    <3>2. \/ /\ attempt' = [attempt EXCEPT ![t] = attempt[t] + 1]
             /\ written' = [written EXCEPT ![t] = 0]
             /\ rewrote' = (rewrote \/ written[t] > 0) /\ broken' = broken
          \/ attempt' = attempt /\ written' = written /\ broken' = TRUE /\ rewrote' = rewrote
      BY <1>10, Zenon DEF WriteFails
    <3>3. attempt' \in [Tickers -> Nat] /\ written' \in [Tickers -> Nat]
      <4>1. 0 \in Nat
        OBVIOUS
      <4>2. /\ [attempt EXCEPT ![t] = attempt[t] + 1] \in [Tickers -> Nat]
            /\ [written EXCEPT ![t] = 0] \in [Tickers -> Nat]
        BY <1>t, <3>1, <4>1, ExceptFits
      <4> QED BY <1>t, <3>2, <4>2, Zenon
    <3>4. broken' \in BOOLEAN /\ rewrote' \in BOOLEAN
      BY <1>t, <3>2, Zenon
    <3> QED BY <3>1, <3>3, <3>4
  <2>s. StagesFit' /\ pc' \in [Tickers -> Stages]
    <3>1. CASE pc' = pc
      BY <1>t, <1>u, <2>1, <3>1, StagesHold, Zenon
    <3>2. CASE Goes(t, {"write"}, {AfterRows})
      <4>1. pc' = [pc EXCEPT ![t] = AfterRows]
        BY <3>2, Zenon DEF Goes
      <4>2. /\ AfterRows \in Stages /\ AfterRows \in Busy
            /\ AfterRows # (IF kind = "slack" THEN "late" ELSE "early")
        BY <1>t, Zenon DEF Stages, Draining, AfterRows, Busy
      <4> QED BY <1>u, <2>1, <4>1, <4>2, StagesMove, Zenon
    <3> QED BY <1>10, <3>1, <3>2, Moves, Zenon
  <2>a. TypeOK'
    BY <1>10, <1>t, <2>s, <2>2, Zenon DEF WriteFails, channelVars, drainVars, tableVars, dayVars, historyVars, lockVars, TypeOK, Stages
  <2>5. UnitsFit'
    <3>1. \A x \in Tickers : Len(units[x]) \in Nat
      BY <1>t, LenProperties
    <3>2. \A x \in Tickers : written'[x] = written[x] \/ written'[x] = 0
      BY <1>10, <1>t, SMT DEF WriteFails
    <3>3. \A x \in Tickers : written'[x] <= Len(units[x])
      BY <1>u, <3>1, <3>2, SMT DEF UnitsFit
    <3> QED BY <1>u, <2>1, <3>3, Zenon DEF UnitsFit
  <2>6. TableFinite'
    BY <1>u, <2>1, Zenon DEF TableFinite
  <2> QED BY <2>a, <2>s, <2>5, <2>6, Zenon DEF TypeInv
<1>11. ASSUME NEW t \in Tickers, Unlock(t)
      PROVE  TypeInv'
  <2>1. /\ kind' = kind /\ times' = times
        /\ seen' = [seen EXCEPT ![t] = <<>>] /\ units' = [units EXCEPT ![t] = <<>>]
        /\ written' = [written EXCEPT ![t] = 0] /\ attempt' = [attempt EXCEPT ![t] = 1]
        /\ pc' = [pc EXCEPT ![t] = "tickdel"]
    BY <1>11, Zenon DEF Unlock, tableVars, Goto
  <2>4. /\ seen' \in [Tickers -> Seq(Callers)] /\ written' \in [Tickers -> Nat]
        /\ units' \in [Tickers -> Seq(SUBSET Callers)] /\ attempt' \in [Tickers -> Nat]
        /\ seen'[t] = <<>> /\ units'[t] = <<>> /\ written'[t] = 0
        /\ \A x \in Tickers : x # t =>
              seen'[x] = seen[x] /\ units'[x] = units[x] /\ written'[x] = written[x]
    BY <1>t, <1>e, <2>1, SMT
  <2>s. StagesFit' /\ pc' \in [Tickers -> Stages]
    <3>1. "tickdel" \in Stages /\ "tickdel" # (IF kind = "slack" THEN "late" ELSE "early")
      BY Zenon DEF Stages
    <3> QED BY <1>u, <2>1, <2>4, <3>1, StagesMove, Zenon
  <2>2. holder' \in [LockKeys -> Tickers \cup {Free}] /\ overruns' \in Nat
    BY <1>11, <1>t, <1>l, SMT DEF Unlock, ReleaseLock
  <2>a. TypeOK'
    BY <1>11, <1>t, <2>s, <2>2, <2>4, Zenon DEF Unlock, channelVars, drainVars, tableVars, dayVars, historyVars, lockVars, TypeOK, Stages
  <2>5. UnitsFit'
    <3> SUFFICES ASSUME NEW x \in Tickers
                 PROVE  /\ ToSet(seen'[x]) = Rows(units'[x])
                        /\ written'[x] <= Len(units'[x])
      BY Zenon DEF UnitsFit
    <3>1. CASE x = t
      <4>1. /\ ToSet(seen'[x]) = {} /\ DOMAIN units'[x] = {} /\ Len(units'[x]) = 0
            /\ written'[x] = 0
        BY <2>4, <3>1, EmptyListFits, Zenon
      <4> QED BY <4>1, SMT DEF Rows
    <3>2. CASE x # t
      BY <1>u, <2>4, <3>2, Zenon DEF UnitsFit
    <3> QED BY <3>1, <3>2
  <2>6. TableFinite'
    BY <1>u, <2>1, Zenon DEF TableFinite
  <2> QED BY <2>a, <2>s, <2>5, <2>6, Zenon DEF TypeInv
<1>12. ASSUME NEW t \in Tickers, EndTick(t)
      PROVE  TypeInv'
  <2>s. StagesFit' /\ pc' \in [Tickers -> Stages]
    <3>1. /\ kind' = kind /\ seen' = seen /\ units' = units
          /\ \E s \in {"idle"} : pc' = [pc EXCEPT ![t] = s]
      BY <1>12, Moves, Zenon DEF EndTick, drainVars, Goes
    <3>2. PICK s \in {"idle"} : pc' = [pc EXCEPT ![t] = s]
      BY <3>1
    <3>3. s \in Stages /\ s # (IF kind = "slack" THEN "late" ELSE "early")
      BY <1>t, <3>2, Zenon DEF Stages, Draining, AfterRead, AfterRows
    <3>4. seen[t] = <<>> /\ units[t] = <<>>
      BY <1>12, <1>u, Moves, Zenon DEF StagesFit, Goes
    <3> QED BY <1>u, <3>1, <3>2, <3>3, <3>4, StagesMove, Zenon
  <2>1. holder' \in [LockKeys -> Tickers \cup {Free}] /\ overruns' \in Nat
    BY <1>12, <1>t, <1>l, SMT DEF EndTick, ReleaseLock
  <2>a. TypeOK'
    BY <1>12, <1>t, <2>s, <2>1, Zenon DEF EndTick, channelVars, drainVars, tableVars, dayVars, historyVars, lockVars, TypeOK, Stages
  <2>h. /\ kind' = kind /\ seen' = seen /\ units' = units
        /\ written' = written /\ times' = times
    BY <1>12, Zenon DEF EndTick, drainVars, tableVars
  <2> QED BY <1>u, <2>a, <2>h, <2>s, TypeHold, Zenon
<1>13. ASSUME NEW t \in Tickers, Crash(t)
      PROVE  TypeInv'
  <2>1. /\ kind' = kind /\ times' = times
        /\ seen' = [seen EXCEPT ![t] = <<>>] /\ units' = [units EXCEPT ![t] = <<>>]
        /\ written' = [written EXCEPT ![t] = 0] /\ attempt' = [attempt EXCEPT ![t] = 1]
        /\ pc' = [pc EXCEPT ![t] = "idle"]
    BY <1>13, Zenon DEF Crash, tableVars, Goto
  <2>4. /\ seen' \in [Tickers -> Seq(Callers)] /\ written' \in [Tickers -> Nat]
        /\ units' \in [Tickers -> Seq(SUBSET Callers)] /\ attempt' \in [Tickers -> Nat]
        /\ seen'[t] = <<>> /\ units'[t] = <<>> /\ written'[t] = 0
        /\ \A x \in Tickers : x # t =>
              seen'[x] = seen[x] /\ units'[x] = units[x] /\ written'[x] = written[x]
    BY <1>t, <1>e, <2>1, SMT
  <2>s. StagesFit' /\ pc' \in [Tickers -> Stages]
    <3>1. "idle" \in Stages /\ "idle" # (IF kind = "slack" THEN "late" ELSE "early")
      BY Zenon DEF Stages
    <3> QED BY <1>u, <2>1, <2>4, <3>1, StagesMove, Zenon
  <2>2. broken' \in BOOLEAN /\ faults' \in Nat
    BY <1>13, <1>t, SMT DEF Crash, Fault
  <2>a. TypeOK'
    BY <1>13, <1>t, <2>s, <2>2, <2>4, Zenon DEF Crash, channelVars, drainVars, tableVars, dayVars, historyVars, lockVars, TypeOK, Stages
  <2>5. UnitsFit'
    <3> SUFFICES ASSUME NEW x \in Tickers
                 PROVE  /\ ToSet(seen'[x]) = Rows(units'[x])
                        /\ written'[x] <= Len(units'[x])
      BY Zenon DEF UnitsFit
    <3>1. CASE x = t
      <4>1. /\ ToSet(seen'[x]) = {} /\ DOMAIN units'[x] = {} /\ Len(units'[x]) = 0
            /\ written'[x] = 0
        BY <2>4, <3>1, EmptyListFits, Zenon
      <4> QED BY <4>1, SMT DEF Rows
    <3>2. CASE x # t
      BY <1>u, <2>4, <3>2, Zenon DEF UnitsFit
    <3> QED BY <3>1, <3>2
  <2>6. TableFinite'
    BY <1>u, <2>1, Zenon DEF TableFinite
  <2> QED BY <2>a, <2>s, <2>5, <2>6, Zenon DEF TypeInv
<1>14. ASSUME ReadTop
      PROVE  TypeInv'
  <2>1. top' \subseteq Coins
    BY <1>14, Zenon DEF ReadTop, TopSets
  <2>a. TypeOK'
    BY <1>14, <1>t, <2>1, Zenon DEF ReadTop, channelVars, drainVars, tableVars, dayVars, historyVars, lockVars, TypeOK, Stages
  <2>h. /\ kind' = kind /\ pc' = pc /\ seen' = seen /\ units' = units
        /\ written' = written /\ times' = times
    BY <1>14, Zenon DEF ReadTop, drainVars, tableVars, vars
  <2> QED BY <1>u, <2>a, <2>h, StagesHold, TypeHold, Zenon
<1>15. ASSUME ReleaseTop
      PROVE  TypeInv'
  <2>1. PICK c \in top : /\ top' = top \ {c} /\ alive' = [alive EXCEPT ![c] = FALSE]
                         /\ released' = [released EXCEPT ![c] = Stored(c)]
    BY <1>15, Zenon DEF ReleaseTop
  <2>2. top' \subseteq Coins /\ alive' \in [Coins -> BOOLEAN]
    BY <1>t, <2>1, SMT
  <2>3. released' \in [Coins -> SUBSET Callers]
    <3>1. Stored(c) \in SUBSET Callers
      BY Zenon DEF Stored
    <3> QED BY <1>t, <2>1, <3>1, SMT
  <2>a. TypeOK'
    BY <1>15, <1>t, <2>2, <2>3, Zenon DEF ReleaseTop, channelVars, drainVars, tableVars, dayVars, historyVars, lockVars, TypeOK, Stages
  <2>h. /\ kind' = kind /\ pc' = pc /\ seen' = seen /\ units' = units
        /\ written' = written /\ times' = times
    BY <1>15, Zenon DEF ReleaseTop, drainVars, tableVars, vars
  <2> QED BY <1>u, <2>a, <2>h, StagesHold, TypeHold, Zenon
<1>16. ASSUME NEW l \in LockKeys, Expire(l)
      PROVE  TypeInv'
  <2>1. holder' \in [LockKeys -> Tickers \cup {Free}] /\ overruns' \in Nat
    BY <1>16, <1>t, SMT DEF Expire, ExpireLock
  <2>a. TypeOK'
    BY <1>16, <1>t, <2>1, Zenon DEF Expire, channelVars, drainVars, tableVars, dayVars, historyVars, lockVars, TypeOK, Stages
  <2>h. /\ kind' = kind /\ pc' = pc /\ seen' = seen /\ units' = units
        /\ written' = written /\ times' = times
    BY <1>16, Zenon DEF Expire, drainVars, tableVars, vars
  <2> QED BY <1>u, <2>a, <2>h, StagesHold, TypeHold, Zenon
<1>17. ASSUME vars' = vars
      PROVE  TypeInv'
  <2>a. TypeOK'
    BY <1>17, <1>t, Zenon DEF vars, channelVars, drainVars, tableVars, dayVars, historyVars, lockVars, TypeOK, Stages
  <2>h. /\ kind' = kind /\ pc' = pc /\ seen' = seen /\ units' = units
        /\ written' = written /\ times' = times
    BY <1>17, Zenon DEF vars, drainVars, tableVars
  <2> QED BY <1>u, <2>a, <2>h, StagesHold, TypeHold, Zenon
<1>18. ASSUME NEW t \in Tickers, ReadFails(t)
      PROVE  TypeInv'
  <2>1. /\ kind' = kind /\ seen' = seen /\ units' = units
        /\ written' = written /\ times' = times
        /\ pc' = [pc EXCEPT ![t] = "unlock"]
    BY <1>18, Zenon DEF ReadFails, drainVars, tableVars, Goto
  <2>s. StagesFit' /\ pc' \in [Tickers -> Stages]
    <3>1. /\ "unlock" \in Stages /\ "unlock" \in Busy
          /\ "unlock" # (IF kind = "slack" THEN "late" ELSE "early")
      BY Zenon DEF Stages, Draining, Busy
    <3> QED BY <1>u, <2>1, <3>1, StagesMove, Zenon
  <2>2. faults' \in Nat
    BY <1>18, <1>t, SMT DEF ReadFails, Fault
  <2>a. TypeOK'
    BY <1>18, <1>t, <2>s, <2>2, Zenon DEF ReadFails, channelVars, drainVars, tableVars, dayVars, historyVars, lockVars, TypeOK, Stages
  <2> QED BY <1>u, <2>a, <2>1, <2>s, TypeHold, Zenon
<1>19. ASSUME ReleaseFails
      PROVE  TypeInv'
  <2>1. top' \subseteq Coins
    BY <1>19, <1>t, Zenon DEF ReleaseFails
  <2>2. faults' \in Nat
    BY <1>19, <1>t, SMT DEF ReleaseFails, Fault
  <2>a. TypeOK'
    BY <1>19, <1>t, <2>1, <2>2, Zenon DEF ReleaseFails, channelVars, drainVars, tableVars, dayVars, historyVars, lockVars, TypeOK, Stages
  <2>h. /\ kind' = kind /\ pc' = pc /\ seen' = seen /\ units' = units
        /\ written' = written /\ times' = times
    BY <1>19, Zenon DEF ReleaseFails, drainVars, tableVars
  <2> QED BY <1>u, <2>a, <2>h, StagesHold, TypeHold, Zenon
<1>20. ASSUME Midnight
      PROVE  TypeInv'
  <2>1. day' \in Nat
    BY <1>20, <1>t, SMT DEF Midnight
  <2>a. TypeOK'
    BY <1>20, <1>t, <2>1, Zenon DEF Midnight, channelVars, drainVars, tableVars, historyVars, lockVars, TypeOK, Stages
  <2>h. /\ kind' = kind /\ pc' = pc /\ seen' = seen /\ units' = units
        /\ written' = written /\ times' = times
    BY <1>20, Zenon DEF Midnight, drainVars, tableVars
  <2> QED BY <1>u, <2>a, <2>h, StagesHold, TypeHold, Zenon
<1>w. ASSUME NEW t \in Tickers,
             \/ Tick(t) \/ Lock(t) \/ LockTaken(t) \/ ReadQueue(t) \/ ReadFails(t)
             \/ DeleteList(t) \/ WriteBatch(t) \/ WriteFails(t) \/ Unlock(t)
             \/ EndTick(t) \/ Crash(t)
      PROVE  TypeInv'
  BY <1>w, <1>4, <1>5, <1>6, <1>7, <1>8, <1>9, <1>10, <1>11, <1>12, <1>13, <1>18, Zenon
<1> QED BY <1>w, <1>1, <1>2, <1>3, <1>14, <1>15, <1>16, <1>17, <1>19, <1>20, Steps, Zenon

-----------------------------------------------------------------------------
(* What a drain has taken is written.                                      *)

LEMMA TakenInit == Init => TakenInv
<1> SUFFICES ASSUME Init, NEW t \in Tickers
             PROVE  written[t] = 0 /\ pc[t] = "idle" /\ 1..written[t] = {}
  BY SMT DEF TakenInv
<1> QED BY SMT DEF Init

\* What a step must leave alone for it to hold.
LEMMA TakenHold ==
    ASSUME TakenInv, units' = units, written' = written, times' = times,
           broken' = broken \/ broken' = TRUE,
           \A x \in Tickers : pc'[x] \in {"late", "unlock"} => pc[x] \in {"late", "unlock"}
    PROVE  TakenInv'
<1>1. CASE broken' = broken
  BY <1>1, Zenon DEF TakenInv
<1>2. CASE broken' = TRUE
  BY <1>2, Zenon DEF TakenInv
<1> QED BY <1>1, <1>2

\* A ticker that does not leave its loop over the batches.
LEMMA TakenMove ==
    ASSUME TypeInv, TakenInv, units' = units, written' = written, times' = times,
           broken' = broken, NEW t \in Tickers, NEW s, pc' = [pc EXCEPT ![t] = s],
           s \in {"late", "unlock"} => pc[t] \in {"late", "unlock"}
    PROVE  TakenInv'
<1>1. pc \in [Tickers -> Stages]
  BY Zenon DEF TypeInv, TypeOK, Stages
<1>2. \A x \in Tickers : pc'[x] \in {"late", "unlock"} => pc[x] \in {"late", "unlock"}
  <2> HIDE DEF Stages
  <2> QED BY <1>1, SMT
<1> QED BY <1>2, TakenHold, Zenon

LEMMA TakenKept ==
    ASSUME TypeInv, TakenInv, [Next]_vars
    PROVE  TakenInv'
<1>t. /\ pc \in [Tickers -> Stages] /\ times \in [Callers -> Nat]
      /\ seen \in [Tickers -> Seq(Callers)]
      /\ units \in [Tickers -> Seq(SUBSET Callers)] /\ written \in [Tickers -> Nat]
      /\ broken \in BOOLEAN /\ rewrote \in BOOLEAN /\ queue \in Seq(Callers)
  BY Zenon DEF TypeInv, TypeOK, Stages
<1>u. TypeOK /\ UnitsFit /\ StagesFit
  BY Zenon DEF TypeInv
<1>n. 1..0 = {}
  BY SMT
<1>1. ASSUME NEW e \in Callers, Insert(e)
      PROVE  TakenInv'
  <2>1. /\ units' = units /\ written' = written /\ times' = times /\ pc' = pc
        /\ (broken' = broken \/ broken' = TRUE)
    BY <1>1, Zenon DEF Insert, drainVars, tableVars, historyVars, vars
  <2> QED BY <2>1, TakenHold, Zenon
<1>2. ASSUME NEW w \in TaskWorkers, TakeTask(w)
      PROVE  TakenInv'
  <2>1. /\ units' = units /\ written' = written /\ times' = times /\ pc' = pc
        /\ (broken' = broken \/ broken' = TRUE)
    BY <1>2, Zenon DEF TakeTask, drainVars, tableVars, historyVars, vars
  <2> QED BY <2>1, TakenHold, Zenon
<1>3. ASSUME NEW w \in TaskWorkers, RunTask(w)
      PROVE  TakenInv'
  <2>1. /\ units' = units /\ written' = written /\ times' = times /\ pc' = pc
        /\ (broken' = broken \/ broken' = TRUE)
    BY <1>3, Zenon DEF RunTask, drainVars, tableVars, historyVars, vars
  <2> QED BY <2>1, TakenHold, Zenon
<1>4. ASSUME NEW t \in Tickers, Tick(t)
      PROVE  TakenInv'
  <2>1. /\ units' = units /\ written' = written /\ times' = times /\ broken' = broken
        /\ pc' = [pc EXCEPT ![t] = "lock"]
    BY <1>4, Moves, Zenon DEF Tick, drainVars, tableVars, historyVars, Goes
  <2>2. "lock" \notin {"late", "unlock"}
    OBVIOUS
  <2> QED BY <2>1, <2>2, TakenMove, Zenon
<1>5. ASSUME NEW t \in Tickers, Lock(t)
      PROVE  TakenInv'
  <2>1. /\ units' = units /\ written' = written /\ times' = times /\ broken' = broken
        /\ pc' = [pc EXCEPT ![t] = "read"]
    BY <1>5, Moves, Zenon DEF Lock, drainVars, tableVars, historyVars, Goes
  <2>2. "read" \notin {"late", "unlock"}
    OBVIOUS
  <2> QED BY <2>1, <2>2, TakenMove, Zenon
<1>6. ASSUME NEW t \in Tickers, LockTaken(t)
      PROVE  TakenInv'
  <2>1. units' = units /\ written' = written /\ times' = times /\ broken' = broken
    BY <1>6, Zenon DEF LockTaken, tableVars, historyVars
  <2>2. CASE pc' = pc
    BY <2>1, <2>2, TakenHold, Zenon
  <2>3. CASE Goes(t, {"lock"}, {"tickdel"})
    <3>1. pc' = [pc EXCEPT ![t] = "tickdel"] /\ "tickdel" \notin {"late", "unlock"}
      BY <2>3, Zenon DEF Goes
    <3> QED BY <2>1, <3>1, TakenMove, Zenon
  <2> QED BY <1>6, <2>2, <2>3, Moves, Zenon
<1>7. ASSUME NEW t \in Tickers, ReadQueue(t)
      PROVE  TakenInv'
  <2>1. /\ times' = times /\ broken' = broken /\ written' = [written EXCEPT ![t] = 0]
        /\ pc' = [pc EXCEPT ![t] = IF queue = <<>> THEN "unlock"
                                   ELSE IF kind = "logs" THEN "write" ELSE "early"]
    BY <1>7, Zenon DEF ReadQueue, tableVars, historyVars, Goto
  <2>2. PICK u \in Units(queue) : units' = [units EXCEPT ![t] = u]
    BY <1>7, Zenon DEF ReadQueue
  <2>3. queue = <<>> => Len(u) = 0
    BY <1>t, RowsFit, Zenon
  <2>4. /\ written'[t] = 0 /\ units'[t] = u
        /\ \A x \in Tickers : x # t =>
              written'[x] = written[x] /\ units'[x] = units[x] /\ pc'[x] = pc[x]
    BY <1>t, <2>1, <2>2, SMT
  <2>5. pc'[t] \in {"late", "unlock"} => queue = <<>>
    BY <1>t, <2>1, SMT
  <2> SUFFICES ASSUME NEW x \in Tickers
               PROVE  /\ \A i \in 1..written'[x] : \A e \in units'[x][i] : times'[e] > 0
                      /\ pc'[x] \in {"late", "unlock"} /\ ~broken' =>
                            written'[x] = Len(units'[x])
    BY Zenon DEF TakenInv
  <2>6. CASE x = t
    BY <1>n, <2>3, <2>4, <2>5, <2>6, Zenon
  <2>7. CASE x # t
    BY <2>1, <2>4, <2>7, Zenon DEF TakenInv
  <2> QED BY <2>6, <2>7
<1>8. ASSUME NEW t \in Tickers, DeleteList(t)
      PROVE  TakenInv'
  <2>1. /\ units' = units /\ written' = written /\ times' = times
        /\ (broken' = broken \/ broken' = TRUE)
    <3>1. broken' = broken \/ broken' = (broken \/ pc[t] = "tickdel")
      BY <1>8, Zenon DEF DeleteList
    <3>2. broken' = broken \/ broken' = TRUE
      BY <1>t, <3>1, Zenon
    <3> QED BY <1>8, <3>2, Zenon DEF DeleteList, drainVars, tableVars
  <2>2. \/ pc[t] = "early" /\ pc' = [pc EXCEPT ![t] = "write"]
        \/ pc[t] = "late" /\ pc' = [pc EXCEPT ![t] = "unlock"]
        \/ pc[t] = "tickdel" /\ pc' = [pc EXCEPT ![t] = "untick"]
    BY <1>8, Moves, Zenon DEF Goes
  <2>3. PICK s \in {"write", "unlock", "untick"} :
            pc' = [pc EXCEPT ![t] = s] /\ (s = "unlock" => pc[t] = "late")
    BY <2>2, SMT
  <2>4. s \in {"late", "unlock"} => pc[t] \in {"late", "unlock"}
    BY <2>3, Zenon
  <2>5. \A x \in Tickers : pc'[x] \in {"late", "unlock"} => pc[x] \in {"late", "unlock"}
    <3> HIDE DEF Stages
    <3> QED BY <1>t, <2>3, <2>4, SMT
  <2> QED BY <2>1, <2>5, TakenHold, Zenon
<1>9. ASSUME NEW t \in Tickers, WriteBatch(t)
      PROVE  TakenInv'
  <2>1. /\ times' = [e \in Callers |-> times[e] + IF e \in Batch(t) THEN 1 ELSE 0]
        /\ written' = [written EXCEPT ![t] = Upto(t)]
        /\ units' = units /\ broken' = broken
        /\ pc' = [pc EXCEPT ![t] = IF Upto(t) = Len(units[t])
                                   THEN IF kind = "logs" THEN "late" ELSE "unlock"
                                   ELSE "write"]
    BY <1>9, Zenon DEF WriteBatch, Batch, AfterBatch, Goto, historyVars
  <2>2. /\ written[t] \in Nat /\ Upto(t) \in Nat /\ written[t] <= Upto(t)
        /\ Upto(t) <= Len(units[t]) /\ DOMAIN units[t] = 1..Len(units[t])
        /\ Len(units[t]) \in Nat /\ Batch(t) \subseteq Callers
    BY <1>u, UptoFits, BatchFits, Zenon
  <2>3. /\ \A e \in Callers : times[e] > 0 => times'[e] > 0
        /\ \A e \in Batch(t) : times'[e] > 0
    BY <1>t, <2>1, <2>2, SMT
  <2>4. /\ written'[t] = Upto(t)
        /\ \A x \in Tickers : x # t => written'[x] = written[x] /\ pc'[x] = pc[x]
    BY <1>t, <2>1, SMT
  <2>5. pc'[t] \in {"late", "unlock"} => Upto(t) = Len(units[t])
    BY <1>t, <2>1, SMT
  <2>6. \A x \in Tickers : \A i \in 1..written[x] : \A e \in units[x][i] : times'[e] > 0
    <3> SUFFICES ASSUME NEW x \in Tickers, NEW i \in 1..written[x], NEW e \in units[x][i]
                 PROVE  times'[e] > 0
      OBVIOUS
    <3>1. DOMAIN units[x] = 1..Len(units[x]) /\ written[x] <= Len(units[x])
          /\ Len(units[x]) \in Nat /\ written[x] \in Nat
      BY <1>u, UptoFits, Zenon DEF UnitsFit
    <3>2. i \in 1..Len(units[x])
      BY <3>1, SMT
    <3>3. units[x][i] \in SUBSET Callers
      BY <1>t, <3>1, <3>2, ElementOfSeq, Zenon
    <3>4. times[e] > 0
      BY Zenon DEF TakenInv
    <3> QED BY <2>3, <3>3, <3>4, Zenon
  <2>7. \A i \in 1..Upto(t) : \A e \in units[t][i] : times'[e] > 0
    <3> SUFFICES ASSUME NEW i \in 1..Upto(t), NEW e \in units[t][i]
                 PROVE  times'[e] > 0
      OBVIOUS
    <3>1. CASE i \in 1..written[t]
      BY <2>6, <3>1, Zenon
    <3>2. CASE i \notin 1..written[t]
      <4>1. i \in (written[t] + 1)..Upto(t)
        BY <2>2, <3>2, SMT
      <4>2. e \in Batch(t)
        BY <4>1, Zenon DEF Batch
      <4> QED BY <2>3, <4>2
    <3> QED BY <3>1, <3>2
  <2> SUFFICES ASSUME NEW x \in Tickers
               PROVE  /\ \A i \in 1..written'[x] : \A e \in units[x][i] : times'[e] > 0
                      /\ pc'[x] \in {"late", "unlock"} /\ ~broken =>
                            written'[x] = Len(units[x])
    BY <2>1, Zenon DEF TakenInv
  <2>8. CASE x = t
    BY <2>4, <2>5, <2>7, <2>8, Zenon
  <2>9. CASE x # t
    <3>1. pc[x] \in {"late", "unlock"} /\ ~broken => written[x] = Len(units[x])
      BY Zenon DEF TakenInv
    <3> QED BY <2>4, <2>6, <2>9, <3>1, Zenon
  <2> QED BY <2>8, <2>9
<1>10. ASSUME NEW t \in Tickers, WriteFails(t)
      PROVE  TakenInv'
  <2>1. units' = units /\ times' = times
    BY <1>10, Zenon DEF WriteFails, tableVars
  <2>2. CASE pc' = pc /\ broken' = broken /\ written' = [written EXCEPT ![t] = 0]
    <3>1. pc[t] = "write"
      BY <1>10, Zenon DEF WriteFails
    <3>2. written'[t] = 0 /\ \A x \in Tickers : x # t => written'[x] = written[x]
      BY <1>t, <2>2, SMT
    <3> SUFFICES ASSUME NEW x \in Tickers
                 PROVE  /\ \A i \in 1..written'[x] : \A e \in units[x][i] : times[e] > 0
                        /\ pc[x] \in {"late", "unlock"} /\ ~broken =>
                              written'[x] = Len(units[x])
      BY <2>1, <2>2, Zenon DEF TakenInv
    <3>3. CASE x = t
      BY <1>n, <3>1, <3>2, <3>3, Zenon
    <3>4. CASE x # t
      BY <3>2, <3>4, Zenon DEF TakenInv
    <3> QED BY <3>3, <3>4
  <2>3. CASE broken' = TRUE /\ written' = written
    BY <2>1, <2>3, Zenon DEF TakenInv
  <2> QED BY <1>10, <2>2, <2>3, Zenon DEF WriteFails
<1>11. ASSUME NEW t \in Tickers, Unlock(t)
      PROVE  TakenInv'
  <2>1. /\ times' = times /\ (broken' = broken \/ broken' = TRUE)
        /\ units' = [units EXCEPT ![t] = <<>>] /\ written' = [written EXCEPT ![t] = 0]
        /\ pc' = [pc EXCEPT ![t] = "tickdel"]
    BY <1>11, Zenon DEF Unlock, tableVars, historyVars, Goto
  <2>2. /\ written'[t] = 0 /\ pc'[t] = "tickdel"
        /\ \A x \in Tickers : x # t =>
              written'[x] = written[x] /\ units'[x] = units[x] /\ pc'[x] = pc[x]
    BY <1>t, <2>1, SMT
  <2> SUFFICES ASSUME NEW x \in Tickers
               PROVE  /\ \A i \in 1..written'[x] : \A e \in units'[x][i] : times'[e] > 0
                      /\ pc'[x] \in {"late", "unlock"} /\ ~broken' =>
                            written'[x] = Len(units'[x])
    BY Zenon DEF TakenInv
  <2>3. CASE x = t
    BY <1>n, <2>2, <2>3, Zenon
  <2>4. CASE x # t
    <3>1. ~broken' => ~broken
      BY <2>1, Zenon
    <3> QED BY <2>1, <2>2, <2>4, <3>1, Zenon DEF TakenInv
  <2> QED BY <2>3, <2>4
<1>12. ASSUME NEW t \in Tickers, EndTick(t)
      PROVE  TakenInv'
  <2>1. /\ units' = units /\ written' = written /\ times' = times /\ broken' = broken
        /\ pc' = [pc EXCEPT ![t] = "idle"]
    BY <1>12, Moves, Zenon DEF EndTick, drainVars, tableVars, historyVars, Goes
  <2>2. "idle" \notin {"late", "unlock"}
    OBVIOUS
  <2> QED BY <2>1, <2>2, TakenMove, Zenon
<1>13. ASSUME NEW t \in Tickers, Crash(t)
      PROVE  TakenInv'
  <2>1. /\ times' = times /\ (broken' = broken \/ broken' = TRUE)
        /\ units' = [units EXCEPT ![t] = <<>>] /\ written' = [written EXCEPT ![t] = 0]
        /\ pc' = [pc EXCEPT ![t] = "idle"]
    BY <1>13, Zenon DEF Crash, tableVars, historyVars, Goto
  <2>2. /\ written'[t] = 0 /\ pc'[t] = "idle"
        /\ \A x \in Tickers : x # t =>
              written'[x] = written[x] /\ units'[x] = units[x] /\ pc'[x] = pc[x]
    BY <1>t, <2>1, SMT
  <2> SUFFICES ASSUME NEW x \in Tickers
               PROVE  /\ \A i \in 1..written'[x] : \A e \in units'[x][i] : times'[e] > 0
                      /\ pc'[x] \in {"late", "unlock"} /\ ~broken' =>
                            written'[x] = Len(units'[x])
    BY Zenon DEF TakenInv
  <2>3. CASE x = t
    BY <1>n, <2>2, <2>3, Zenon
  <2>4. CASE x # t
    <3>1. ~broken' => ~broken
      BY <2>1, Zenon
    <3> QED BY <2>1, <2>2, <2>4, <3>1, Zenon DEF TakenInv
  <2> QED BY <2>3, <2>4
<1>14. ASSUME ReadTop
      PROVE  TakenInv'
  <2>1. /\ units' = units /\ written' = written /\ times' = times /\ pc' = pc
        /\ (broken' = broken \/ broken' = TRUE)
    BY <1>14, Zenon DEF ReadTop, drainVars, tableVars, historyVars, vars
  <2> QED BY <2>1, TakenHold, Zenon
<1>15. ASSUME ReleaseTop
      PROVE  TakenInv'
  <2>1. /\ units' = units /\ written' = written /\ times' = times /\ pc' = pc
        /\ (broken' = broken \/ broken' = TRUE)
    BY <1>15, Zenon DEF ReleaseTop, drainVars, tableVars, historyVars, vars
  <2> QED BY <2>1, TakenHold, Zenon
<1>16. ASSUME NEW l \in LockKeys, Expire(l)
      PROVE  TakenInv'
  <2>1. /\ units' = units /\ written' = written /\ times' = times /\ pc' = pc
        /\ (broken' = broken \/ broken' = TRUE)
    BY <1>16, Zenon DEF Expire, drainVars, tableVars, historyVars, vars
  <2> QED BY <2>1, TakenHold, Zenon
<1>17. ASSUME vars' = vars
      PROVE  TakenInv'
  <2>1. /\ units' = units /\ written' = written /\ times' = times /\ pc' = pc
        /\ (broken' = broken \/ broken' = TRUE)
    BY <1>17, Zenon DEF vars, drainVars, tableVars, historyVars
  <2> QED BY <2>1, TakenHold, Zenon
<1>18. ASSUME NEW t \in Tickers, ReadFails(t)
      PROVE  TakenInv'
  <2>1. /\ units' = units /\ written' = written /\ times' = times /\ broken' = broken
        /\ pc[t] = "read" /\ pc' = [pc EXCEPT ![t] = "unlock"]
    BY <1>18, Zenon DEF ReadFails, drainVars, tableVars, historyVars, Goto
  <2>2. units[t] = <<>>
    <3>1. pc[t] \notin {"early", "write", "late", "unlock"}
      BY <2>1, SMT
    <3> QED BY <1>u, <3>1, Zenon DEF StagesFit
  <2>3. written[t] = Len(units[t])
    <3>1. Len(units[t]) = 0
      BY <2>2, EmptyListFits, Zenon
    <3>2. written[t] <= Len(units[t]) /\ written[t] \in Nat
      BY <1>t, <1>u, Zenon DEF UnitsFit
    <3> QED BY <3>1, <3>2, SMT
  <2> SUFFICES ASSUME NEW x \in Tickers
               PROVE  /\ \A i \in 1..written[x] : \A e \in units[x][i] : times[e] > 0
                      /\ pc'[x] \in {"late", "unlock"} /\ ~broken =>
                            written[x] = Len(units[x])
    BY <2>1, Zenon DEF TakenInv
  <2>4. \A i \in 1..written[x] : \A e \in units[x][i] : times[e] > 0
    BY Zenon DEF TakenInv
  <2>5. CASE x = t
    BY <2>3, <2>4, <2>5, Zenon
  <2>6. CASE x # t
    <3>1. pc'[x] = pc[x]
      BY <1>t, <2>1, <2>6, SMT
    <3> QED BY <2>4, <3>1, Zenon DEF TakenInv
  <2> QED BY <2>5, <2>6
<1>19. ASSUME ReleaseFails
      PROVE  TakenInv'
  <2>1. /\ units' = units /\ written' = written /\ times' = times /\ pc' = pc
        /\ (broken' = broken \/ broken' = TRUE)
    BY <1>19, Zenon DEF ReleaseFails, drainVars, tableVars, historyVars, vars
  <2> QED BY <2>1, TakenHold, Zenon
<1>20. ASSUME Midnight
      PROVE  TakenInv'
  <2>1. /\ units' = units /\ written' = written /\ times' = times /\ pc' = pc
        /\ (broken' = broken \/ broken' = TRUE)
    BY <1>20, Zenon DEF Midnight, drainVars, tableVars, historyVars, vars
  <2> QED BY <2>1, TakenHold, Zenon
<1>w. ASSUME NEW t \in Tickers,
             \/ Tick(t) \/ Lock(t) \/ LockTaken(t) \/ ReadQueue(t) \/ ReadFails(t)
             \/ DeleteList(t) \/ WriteBatch(t) \/ WriteFails(t) \/ Unlock(t)
             \/ EndTick(t) \/ Crash(t)
      PROVE  TakenInv'
  BY <1>w, <1>4, <1>5, <1>6, <1>7, <1>8, <1>9, <1>10, <1>11, <1>12, <1>13, <1>18, Zenon
<1> QED BY <1>w, <1>1, <1>2, <1>3, <1>14, <1>15, <1>16, <1>17, <1>19, <1>20, Steps, Zenon

-----------------------------------------------------------------------------
(* One ticker at a time.                                                   *)

LEMMA LockInit == Init => LockInv
BY SMT DEF Init, LockInv

\* A ticker that is at work and stays so, the locks being left alone.
LEMMA LockHold ==
    ASSUME LockInv, holder' = holder, overruns' = overruns,
           \A t \in Tickers : pc'[t] # "idle" => pc[t] # "idle"
    PROVE  LockInv'
BY Zenon DEF LockInv

LEMMA LockKept ==
    ASSUME TypeInv, LockInv, [Next]_vars
    PROVE  LockInv'
<1>t. /\ pc \in [Tickers -> Stages] /\ overruns \in Nat
      /\ holder \in [LockKeys -> Tickers \cup {Free}]
  BY Zenon DEF TypeInv, TypeOK, Stages
<1>l. TickLock \in LockKeys /\ QueueLock \in LockKeys /\ TickLock # QueueLock
  BY SMT DEF LockKeys, TickLock, QueueLock
<1>m. ASSUME NEW t \in Tickers, NEW s, pc[t] # "idle", pc' = [pc EXCEPT ![t] = s]
      PROVE  \A x \in Tickers : pc'[x] # "idle" => pc[x] # "idle"
  <2> HIDE DEF Stages
  <2> QED BY <1>t, <1>m, SMT
<1>1. ASSUME NEW e \in Callers, Insert(e)
      PROVE  LockInv'
  <2>1. holder' = holder /\ overruns' = overruns /\ pc' = pc
    BY <1>1, Zenon DEF Insert, lockVars, vars
  <2> QED BY <2>1, LockHold, Zenon
<1>2. ASSUME NEW w \in TaskWorkers, TakeTask(w)
      PROVE  LockInv'
  <2>1. holder' = holder /\ overruns' = overruns /\ pc' = pc
    BY <1>2, Zenon DEF TakeTask, lockVars, vars
  <2> QED BY <2>1, LockHold, Zenon
<1>3. ASSUME NEW w \in TaskWorkers, RunTask(w)
      PROVE  LockInv'
  <2>1. holder' = holder /\ overruns' = overruns /\ pc' = pc
    BY <1>3, Zenon DEF RunTask, lockVars, vars
  <2> QED BY <2>1, LockHold, Zenon
<1>4. ASSUME NEW t \in Tickers, Tick(t)
      PROVE  LockInv'
  <2>1. /\ holder[TickLock] = Free /\ holder' = [holder EXCEPT ![TickLock] = t]
        /\ overruns' = overruns /\ pc' = [pc EXCEPT ![t] = "lock"]
    BY <1>4, Zenon DEF Tick, AcquireLock, Goto
  <2> SUFFICES ASSUME overruns = 0, NEW x \in Tickers, pc'[x] # "idle"
               PROVE  holder'[TickLock] = x
    BY <2>1, Zenon DEF LockInv
  <2>2. x = t
    <3>1. SUFFICES ASSUME x # t PROVE FALSE
      OBVIOUS
    <3>2. pc[x] # "idle"
      BY <1>t, <2>1, <3>1, SMT
    <3>3. holder[TickLock] = x
      BY <3>2, Zenon DEF LockInv
    <3> QED BY <2>1, <3>3, PeopleAssumption, Zenon
  <2> QED BY <1>t, <1>l, <2>1, <2>2, SMT
<1>5. ASSUME NEW t \in Tickers, Lock(t)
      PROVE  LockInv'
  <2>1. /\ holder' = [holder EXCEPT ![QueueLock] = t] /\ overruns' = overruns
        /\ pc[t] # "idle" /\ pc' = [pc EXCEPT ![t] = "read"]
    BY <1>5, SMT DEF Lock, AcquireLock, Goto
  <2>2. holder'[TickLock] = holder[TickLock]
    BY <1>t, <1>l, <2>1, SMT
  <2>3. \A x \in Tickers : pc'[x] # "idle" => pc[x] # "idle"
    BY <1>m, <2>1, Zenon
  <2> QED BY <2>1, <2>2, <2>3, Zenon DEF LockInv
<1>6. ASSUME NEW t \in Tickers, LockTaken(t)
      PROVE  LockInv'
  <2>1. holder' = holder /\ overruns' = overruns /\ pc[t] # "idle"
    BY <1>6, Moves, SMT DEF LockTaken, lockVars, Goes
  <2>2. pc' = pc \/ \E s : pc' = [pc EXCEPT ![t] = s]
    BY <1>6, Moves, Zenon DEF Goes
  <2>3. CASE pc' = pc
    BY <2>1, <2>3, LockHold, Zenon
  <2>4. CASE \E s : pc' = [pc EXCEPT ![t] = s]
    <3>1. PICK s : pc' = [pc EXCEPT ![t] = s]
      BY <2>4
    <3>2. \A x \in Tickers : pc'[x] # "idle" => pc[x] # "idle"
      BY <1>m, <2>1, <3>1, Zenon
    <3> QED BY <2>1, <3>2, LockHold, Zenon
  <2> QED BY <2>2, <2>3, <2>4
<1>7. ASSUME NEW t \in Tickers, ReadQueue(t)
      PROVE  LockInv'
  <2>1. holder' = holder /\ overruns' = overruns /\ pc[t] # "idle"
    BY <1>7, Moves, SMT DEF ReadQueue, lockVars, Goes
  <2>2. pc' = pc \/ \E s : pc' = [pc EXCEPT ![t] = s]
    BY <1>7, Moves, Zenon DEF Goes
  <2>3. CASE pc' = pc
    BY <2>1, <2>3, LockHold, Zenon
  <2>4. CASE \E s : pc' = [pc EXCEPT ![t] = s]
    <3>1. PICK s : pc' = [pc EXCEPT ![t] = s]
      BY <2>4
    <3>2. \A x \in Tickers : pc'[x] # "idle" => pc[x] # "idle"
      BY <1>m, <2>1, <3>1, Zenon
    <3> QED BY <2>1, <3>2, LockHold, Zenon
  <2> QED BY <2>2, <2>3, <2>4
<1>8. ASSUME NEW t \in Tickers, DeleteList(t)
      PROVE  LockInv'
  <2>1. holder' = holder /\ overruns' = overruns /\ pc[t] # "idle"
    BY <1>8, Moves, SMT DEF DeleteList, lockVars, Goes
  <2>2. pc' = pc \/ \E s : pc' = [pc EXCEPT ![t] = s]
    BY <1>8, Moves, Zenon DEF Goes
  <2>3. CASE pc' = pc
    BY <2>1, <2>3, LockHold, Zenon
  <2>4. CASE \E s : pc' = [pc EXCEPT ![t] = s]
    <3>1. PICK s : pc' = [pc EXCEPT ![t] = s]
      BY <2>4
    <3>2. \A x \in Tickers : pc'[x] # "idle" => pc[x] # "idle"
      BY <1>m, <2>1, <3>1, Zenon
    <3> QED BY <2>1, <3>2, LockHold, Zenon
  <2> QED BY <2>2, <2>3, <2>4
<1>9. ASSUME NEW t \in Tickers, WriteBatch(t)
      PROVE  LockInv'
  <2>1. holder' = holder /\ overruns' = overruns /\ pc[t] # "idle"
    BY <1>9, Moves, SMT DEF WriteBatch, lockVars, Goes
  <2>2. pc' = pc \/ \E s : pc' = [pc EXCEPT ![t] = s]
    BY <1>9, Moves, Zenon DEF Goes
  <2>3. CASE pc' = pc
    BY <2>1, <2>3, LockHold, Zenon
  <2>4. CASE \E s : pc' = [pc EXCEPT ![t] = s]
    <3>1. PICK s : pc' = [pc EXCEPT ![t] = s]
      BY <2>4
    <3>2. \A x \in Tickers : pc'[x] # "idle" => pc[x] # "idle"
      BY <1>m, <2>1, <3>1, Zenon
    <3> QED BY <2>1, <3>2, LockHold, Zenon
  <2> QED BY <2>2, <2>3, <2>4
<1>10. ASSUME NEW t \in Tickers, WriteFails(t)
      PROVE  LockInv'
  <2>1. holder' = holder /\ overruns' = overruns /\ pc[t] # "idle"
    BY <1>10, Moves, SMT DEF WriteFails, lockVars, Goes
  <2>2. pc' = pc \/ \E s : pc' = [pc EXCEPT ![t] = s]
    BY <1>10, Moves, Zenon DEF Goes
  <2>3. CASE pc' = pc
    BY <2>1, <2>3, LockHold, Zenon
  <2>4. CASE \E s : pc' = [pc EXCEPT ![t] = s]
    <3>1. PICK s : pc' = [pc EXCEPT ![t] = s]
      BY <2>4
    <3>2. \A x \in Tickers : pc'[x] # "idle" => pc[x] # "idle"
      BY <1>m, <2>1, <3>1, Zenon
    <3> QED BY <2>1, <3>2, LockHold, Zenon
  <2> QED BY <2>2, <2>3, <2>4
<1>11. ASSUME NEW t \in Tickers, Unlock(t)
      PROVE  LockInv'
  <2>1. /\ holder' = [holder EXCEPT ![QueueLock] = Free] /\ overruns' = overruns
        /\ pc[t] # "idle" /\ pc' = [pc EXCEPT ![t] = "tickdel"]
    BY <1>11, SMT DEF Unlock, ReleaseLock, Goto
  <2>2. holder'[TickLock] = holder[TickLock]
    BY <1>t, <1>l, <2>1, SMT
  <2>3. \A x \in Tickers : pc'[x] # "idle" => pc[x] # "idle"
    BY <1>m, <2>1, Zenon
  <2> QED BY <2>1, <2>2, <2>3, Zenon DEF LockInv
<1>12. ASSUME NEW t \in Tickers, EndTick(t)
      PROVE  LockInv'
  <2>1. /\ overruns' = overruns /\ pc[t] = "untick" /\ pc' = [pc EXCEPT ![t] = "idle"]
    BY <1>12, Zenon DEF EndTick, ReleaseLock, Goto
  <2> SUFFICES ASSUME overruns = 0, NEW x \in Tickers, pc'[x] # "idle"
               PROVE  FALSE
    BY <2>1, Zenon DEF LockInv
  <2>2. x # t /\ pc[x] # "idle" /\ pc[t] # "idle"
    BY <1>t, <2>1, SMT
  <2> QED BY <2>2, Zenon DEF LockInv
<1>13. ASSUME NEW t \in Tickers, Crash(t)
      PROVE  LockInv'
  <2>1. holder' = holder /\ overruns' = overruns /\ pc[t] # "idle"
    BY <1>13, Moves, SMT DEF Crash, lockVars, Goes
  <2>2. pc' = pc \/ \E s : pc' = [pc EXCEPT ![t] = s]
    BY <1>13, Moves, Zenon DEF Goes
  <2>3. CASE pc' = pc
    BY <2>1, <2>3, LockHold, Zenon
  <2>4. CASE \E s : pc' = [pc EXCEPT ![t] = s]
    <3>1. PICK s : pc' = [pc EXCEPT ![t] = s]
      BY <2>4
    <3>2. \A x \in Tickers : pc'[x] # "idle" => pc[x] # "idle"
      BY <1>m, <2>1, <3>1, Zenon
    <3> QED BY <2>1, <3>2, LockHold, Zenon
  <2> QED BY <2>2, <2>3, <2>4
<1>14. ASSUME ReadTop
      PROVE  LockInv'
  <2>1. holder' = holder /\ overruns' = overruns /\ pc' = pc
    BY <1>14, Zenon DEF ReadTop, lockVars, vars
  <2> QED BY <2>1, LockHold, Zenon
<1>15. ASSUME ReleaseTop
      PROVE  LockInv'
  <2>1. holder' = holder /\ overruns' = overruns /\ pc' = pc
    BY <1>15, Zenon DEF ReleaseTop, lockVars, vars
  <2> QED BY <2>1, LockHold, Zenon
<1>16. ASSUME NEW l \in LockKeys, Expire(l)
      PROVE  LockInv'
  <2>1. pc' = pc /\ holder' = [holder EXCEPT ![l] = Free]
    BY <1>16, Zenon DEF Expire, ExpireLock
  <2>2. CASE ~InUse(l) /\ overruns' = overruns
    <3> SUFFICES ASSUME overruns = 0, NEW t \in Tickers, pc[t] # "idle"
                 PROVE  holder'[TickLock] = t
      BY <2>1, <2>2, Zenon DEF LockInv
    <3>1. holder[TickLock] = t
      BY Zenon DEF LockInv
    <3>2. l # TickLock
      <4>1. SUFFICES ASSUME l = TickLock PROVE InUse(l)
        BY <2>2
      <4> QED BY <1>l, <3>1, <4>1, Zenon DEF InUse
    <3> QED BY <1>t, <1>l, <2>1, <3>1, <3>2, SMT
  <2>3. CASE InUse(l) /\ overruns' = overruns + 1
    <3>1. overruns' # 0
      BY <1>t, <2>3, SMT
    <3> QED BY <3>1, Zenon DEF LockInv
  <2> QED BY <1>16, <2>2, <2>3, Zenon DEF Expire, ExpireLock
<1>17. ASSUME vars' = vars
      PROVE  LockInv'
  <2>1. holder' = holder /\ overruns' = overruns /\ pc' = pc
    BY <1>17, Zenon DEF vars, lockVars
  <2> QED BY <2>1, LockHold, Zenon
<1>18. ASSUME NEW t \in Tickers, ReadFails(t)
      PROVE  LockInv'
  <2>1. holder' = holder /\ overruns' = overruns /\ pc[t] # "idle"
    BY <1>18, Moves, SMT DEF ReadFails, lockVars, Goes
  <2>2. pc' = pc \/ \E s : pc' = [pc EXCEPT ![t] = s]
    BY <1>18, Moves, Zenon DEF Goes
  <2>3. CASE pc' = pc
    BY <2>1, <2>3, LockHold, Zenon
  <2>4. CASE \E s : pc' = [pc EXCEPT ![t] = s]
    <3>1. PICK s : pc' = [pc EXCEPT ![t] = s]
      BY <2>4
    <3>2. \A x \in Tickers : pc'[x] # "idle" => pc[x] # "idle"
      BY <1>m, <2>1, <3>1, Zenon
    <3> QED BY <2>1, <3>2, LockHold, Zenon
  <2> QED BY <2>2, <2>3, <2>4
<1>19. ASSUME ReleaseFails
      PROVE  LockInv'
  <2>1. holder' = holder /\ overruns' = overruns /\ pc' = pc
    BY <1>19, Zenon DEF ReleaseFails, lockVars, vars
  <2> QED BY <2>1, LockHold, Zenon
<1>20. ASSUME Midnight
      PROVE  LockInv'
  <2>1. holder' = holder /\ overruns' = overruns /\ pc' = pc
    BY <1>20, Zenon DEF Midnight, lockVars, vars
  <2> QED BY <2>1, LockHold, Zenon
<1>w. ASSUME NEW t \in Tickers,
             \/ Tick(t) \/ Lock(t) \/ LockTaken(t) \/ ReadQueue(t) \/ ReadFails(t)
             \/ DeleteList(t) \/ WriteBatch(t) \/ WriteFails(t) \/ Unlock(t)
             \/ EndTick(t) \/ Crash(t)
      PROVE  LockInv'
  BY <1>w, <1>4, <1>5, <1>6, <1>7, <1>8, <1>9, <1>10, <1>11, <1>12, <1>13, <1>18, Zenon
<1> QED BY <1>w, <1>1, <1>2, <1>3, <1>14, <1>15, <1>16, <1>17, <1>19, <1>20, Steps, Zenon

-----------------------------------------------------------------------------
(* What a drain writes is new.                                             *)

LEMMA DisjointSum ==
    ASSUME NEW S, NEW T, IsFiniteSet(S), IsFiniteSet(T), S \cap T = {}
    PROVE  Cardinality(S \cup T) = Cardinality(S) + Cardinality(T)
<1>1. Cardinality(S \cup T) = Cardinality(S) + Cardinality(T) - Cardinality(S \cap T)
  BY FS_Union, Zenon
<1>2. Cardinality(S \cap T) = 0
  BY FS_EmptySet, Zenon
<1>3. Cardinality(S) \in Nat /\ Cardinality(T) \in Nat
  BY FS_CardinalityType, Zenon
<1> QED BY <1>1, <1>2, <1>3, SMT

LEMMA OnceInit == Init => OnceInv
<1> SUFFICES ASSUME Init PROVE OnceFacts
  BY Zenon DEF OnceInv
<1>1. /\ calling = Callers /\ channel = <<>> /\ queue = <<>>
      /\ hand = [v \in TaskWorkers |-> Nobody]
      /\ seen = [t \in Tickers |-> <<>>] /\ units = [t \in Tickers |-> <<>>]
      /\ times = [e \in Callers |-> 0] /\ pc = [t \in Tickers |-> "idle"]
      /\ alive = [c \in Coins |-> FALSE] /\ released = [c \in Coins |-> {}]
  BY Zenon DEF Init
<1>2. ToSet(<<>>) = {} /\ DOMAIN <<>> = {}
  BY EmptyListFits, Zenon
<1>3. OnePlace
  <2>1. \A e \in Callers : Unread(e)
    <3>1. \A e \in Callers : times[e] = 0
      BY <1>1, Zenon
    <3>2. \A t \in Tickers : seen[t] = <<>>
      BY <1>1, Zenon
    <3> QED BY <1>1, <1>2, <3>1, <3>2, Zenon DEF Unread
  <2>2. \A v \in TaskWorkers : hand[v] = Nobody
    BY <1>1, Zenon
  <2>3. Nobody \notin Callers
    BY PeopleAssumption, Zenon
  <2>4. IsInjective(channel) /\ IsInjective(queue)
    BY <1>1, <1>2, Zenon DEF IsInjective
  <2>5. ToSet(channel) = {}
    BY <1>1, <1>2, Zenon
  <2> QED BY <1>1, <2>1, <2>2, <2>3, <2>4, <2>5, Zenon DEF OnePlace
<1>4. RowsAreNew
  <2>1. \A t \in Tickers : units[t] = <<>>
    BY <1>1, Zenon
  <2> QED BY <1>2, <2>1, Zenon DEF RowsAreNew
<1>5. ListIsNew
  BY <1>1, <1>2, Zenon DEF ListIsNew
<1>6. Counted
  <2>1. \A e \in Callers : times[e] = 0
    BY <1>1, Zenon
  <2>2. \A e \in Callers : times[e] <= 1 /\ ~(times[e] > 0)
    BY <2>1, SMT
  <2>3. \A c \in Coins : Stored(c) = {} /\ released[c] = {} /\ ~alive[c]
    BY <1>1, <2>2, Zenon DEF Stored
  <2> QED BY <2>2, <2>3, Zenon DEF Counted
<1> QED BY <1>3, <1>4, <1>5, <1>6 DEF OnceFacts

\* What a step must leave alone for each part to hold.
LEMMA OnePlaceHold ==
    ASSUME TypeOK, OnePlace, calling' = calling, channel' = channel, hand' = hand,
           IsInjective(queue'), \A e \in Callers : Unread(e) => Unread(e)'
    PROVE  OnePlace'
<1>1. /\ calling \subseteq Callers /\ channel \in Seq(Callers)
      /\ hand \in [TaskWorkers -> Callers \cup {Nobody}]
  BY Zenon DEF TypeOK
<1>2. ToSet(channel) \subseteq Callers
  BY <1>1, ListFits, Zenon
<1>3. \A v \in TaskWorkers : hand[v] # Nobody => hand[v] \in Callers
  BY <1>1, Zenon
<1>4. \A e \in calling :
          Unread(e)' /\ e \notin ToSet(channel) /\ \A v \in TaskWorkers : hand[v] # e
  BY <1>1, Zenon DEF OnePlace
<1>5. \A e \in ToSet(channel) : Unread(e)' /\ \A v \in TaskWorkers : hand[v] # e
  BY <1>2, Zenon DEF OnePlace
<1>6. \A v \in TaskWorkers : hand[v] # Nobody =>
          Unread(hand[v])' /\ \A x \in TaskWorkers : hand[x] = hand[v] => x = v
  <2> SUFFICES ASSUME NEW v \in TaskWorkers, hand[v] # Nobody
               PROVE  Unread(hand[v])' /\ \A x \in TaskWorkers : hand[x] = hand[v] => x = v
    OBVIOUS
  <2>1. Unread(hand[v]) /\ hand[v] \in Callers
        /\ \A x \in TaskWorkers : hand[x] = hand[v] => x = v
    BY <1>3, Zenon DEF OnePlace
  <2>2. times'[hand[v]] = 0 /\ hand[v] \notin ToSet(queue')
        /\ \A t \in Tickers : hand[v] \notin ToSet(seen'[t])
    BY <2>1, Zenon DEF Unread
  <2>3. Unread(hand[v])'
    BY <2>2, Zenon DEF Unread
  <2> QED BY <2>1, <2>3
<1>7. IsInjective(channel)
  BY Zenon DEF OnePlace
<1> QED BY <1>4, <1>5, <1>6, <1>7, Zenon DEF OnePlace

LEMMA UnreadHold ==
    ASSUME queue' = queue, times' = times, seen' = seen
    PROVE  \A e : Unread(e) <=> Unread(e)'
BY Zenon DEF Unread

LEMMA RowsHold ==
    ASSUME RowsAreNew, units' = units, written' = written, times' = times
    PROVE  RowsAreNew'
BY Zenon DEF RowsAreNew

LEMMA ListHold ==
    ASSUME ListIsNew, queue' = queue, times' = times,
           \A x \in Tickers : pc[x] \in Unswept => pc'[x] \in Unswept
    PROVE  ListIsNew'
BY Zenon DEF ListIsNew

LEMMA CountedHold ==
    ASSUME Counted, kind' = kind, times' = times, counter' = counter, alive' = alive,
           released' = released
    PROVE  Counted'
<1>1. \A c : Stored(c)' = Stored(c)
  BY Zenon DEF Stored
<1>2. ASSUME kind = "slack", NEW c \in Coins
      PROVE  /\ released[c] \subseteq Stored(c)'
             /\ alive[c] => counter[c] = Cardinality(Stored(c)' \ released[c])
             /\ ~alive[c] => Stored(c)' = released[c]
  BY <1>1, <1>2, Zenon DEF Counted
<1>3. \A e \in Callers : times[e] <= 1
  BY Zenon DEF Counted
<1> QED BY <1>2, <1>3, Zenon DEF Counted

\* A step that leaves the entries alone.
LEMMA OnceHold ==
    ASSUME TypeOK, OnceFacts, kind' = kind,
           calling' = calling, channel' = channel, hand' = hand, queue' = queue,
           seen' = seen, units' = units, written' = written,
           times' = times, counter' = counter, alive' = alive, released' = released,
           \A x \in Tickers : pc[x] \in Unswept => pc'[x] \in Unswept
    PROVE  OnceFacts'
<1>1. OnePlace'
  BY OnePlaceHold, UnreadHold, Zenon DEF OnceFacts, OnePlace
<1>2. RowsAreNew' /\ ListIsNew' /\ Counted'
  BY RowsHold, ListHold, CountedHold, Zenon DEF OnceFacts
<1> QED BY <1>1, <1>2 DEF OnceFacts

\* A step of a ticker that has no delete before it or keeps it so, and leaves the
\* entries alone.
LEMMA OnceMove ==
    ASSUME TypeOK, OnceFacts, kind' = kind,
           calling' = calling, channel' = channel, hand' = hand, queue' = queue,
           seen' = seen, units' = units, written' = written,
           times' = times, counter' = counter, alive' = alive, released' = released,
           NEW t \in Tickers, NEW s, pc' = [pc EXCEPT ![t] = s],
           pc[t] \in Unswept => s \in Unswept
    PROVE  OnceFacts'
<1>1. pc \in [Tickers -> Stages]
  BY Zenon DEF TypeOK, Stages
<1>2. \A x \in Tickers : pc[x] \in Unswept => pc'[x] \in Unswept
  <2> HIDE DEF Stages, Unswept
  <2> QED BY <1>1, SMT
<1> QED BY <1>2, OnceHold, Zenon

\* A batch adds what is new in it to the counters of its coins.
LEMMA CountedWrite ==
    ASSUME TypeInv, Counted, NEW B \in SUBSET Callers, IsFiniteSet(B),
           \A e \in B : times[e] = 0, kind' = kind, released' = released, NEW t,
           times' = [e \in Callers |-> times[e] + IF e \in B THEN 1 ELSE 0],
           kind = "slack" => Count(t, B)
    PROVE  Counted'
<1>t. /\ times \in [Callers -> Nat] /\ counter \in [Coins -> Nat]
      /\ alive \in [Coins -> BOOLEAN] /\ IsFiniteSet({e \in Callers : times[e] > 0})
  BY Zenon DEF TypeInv, TypeOK, TableFinite
<1>1. \A e \in Callers : times'[e] <= 1
  <2>1. \A e \in Callers : times[e] <= 1
    BY Zenon DEF Counted
  <2> QED BY <1>t, <2>1, SMT
<1>2. \A e \in Callers : times'[e] > 0 <=> times[e] > 0 \/ e \in B
  BY <1>t, SMT
<1>3. ASSUME kind = "slack", NEW c \in Coins
      PROVE  /\ released[c] \subseteq Stored(c)'
             /\ alive'[c] => counter'[c] = Cardinality(Stored(c)' \ released[c])
             /\ ~alive'[c] => Stored(c)' = released[c]
  <2> DEFINE N == {e \in B : About[e] = c}
  <2>1. Stored(c)' = Stored(c) \cup N
    BY <1>2, Zenon DEF Stored
  <2>2. Stored(c) \cap N = {}
    <3>1. \A e \in B : ~(times[e] > 0)
      BY SMT
    <3> QED BY <3>1, Zenon DEF Stored
  <2>3. /\ released[c] \subseteq Stored(c)
        /\ alive[c] => counter[c] = Cardinality(Stored(c) \ released[c])
        /\ ~alive[c] => Stored(c) = released[c]
    BY <1>3, Zenon DEF Counted
  <2>4. IsFiniteSet(N)
    <3>1. N \in SUBSET B
      BY Zenon
    <3> HIDE DEF N
    <3> QED BY <3>1, FS_Subset, Zenon
  <2>5. IsFiniteSet(Stored(c) \ released[c])
    <3>1. Stored(c) \ released[c] \in SUBSET {e \in Callers : times[e] > 0}
      BY Zenon DEF Stored
    <3> QED BY <1>t, <3>1, FS_Subset, Zenon
  <2>6. Cardinality(N) \in Nat /\ (Cardinality(N) = 0 <=> N = {})
    BY <2>4, FS_CardinalityType, FS_EmptySet, Zenon
  <2>7. /\ counter' = [d \in Coins |->
                IF alive[d] \/ Cardinality({e \in B : About[e] = d}) = 0
                THEN counter[d] + Cardinality({e \in B : About[e] = d})
                ELSE Cardinality({e \in B : About[e] = d})]
        /\ alive' = [d \in Coins |-> alive[d] \/ Cardinality({e \in B : About[e] = d}) > 0]
    BY <1>3, Zenon DEF Count
  <2>8. /\ counter'[c] = IF alive[c] \/ Cardinality(N) = 0
                         THEN counter[c] + Cardinality(N) ELSE Cardinality(N)
        /\ alive'[c] = (alive[c] \/ Cardinality(N) > 0)
    BY <2>7, Zenon
  <2> HIDE DEF N
  <2>9. CASE alive[c]
    <3>1. Stored(c)' \ released[c] = (Stored(c) \ released[c]) \cup N
      BY <2>1, <2>2, <2>3, Zenon
    <3>2. (Stored(c) \ released[c]) \cap N = {}
      BY <2>2, Zenon
    <3>3. Cardinality(Stored(c)' \ released[c]) =
              Cardinality(Stored(c) \ released[c]) + Cardinality(N)
      BY <2>4, <2>5, <3>1, <3>2, DisjointSum, Zenon
    <3>4. counter'[c] = Cardinality(Stored(c) \ released[c]) + Cardinality(N)
      BY <2>3, <2>8, <2>9, Zenon
    <3>5. alive'[c]
      BY <2>8, <2>9, Zenon
    <3> QED BY <2>1, <2>3, <3>3, <3>4, <3>5, Zenon
  <2>10. CASE ~alive[c] /\ Cardinality(N) = 0
    <3>1. ~(Cardinality(N) > 0)
      BY <2>10, SMT
    <3>2. ~alive'[c] /\ N = {}
      BY <2>6, <2>8, <2>10, <3>1, Zenon
    <3>3. Stored(c)' = Stored(c)
      BY <2>1, <3>2, Zenon
    <3> QED BY <2>3, <2>10, <3>2, <3>3, Zenon
  <2>11. CASE ~alive[c] /\ Cardinality(N) # 0
    <3>1. Cardinality(N) > 0
      BY <2>6, <2>11, SMT
    <3>2. alive'[c] /\ counter'[c] = Cardinality(N)
      BY <2>8, <2>11, <3>1, Zenon
    <3>3. Stored(c)' \ released[c] = N
      BY <2>1, <2>2, <2>3, <2>11, Zenon
    <3> QED BY <2>1, <2>3, <3>2, <3>3, Zenon
  <2> QED BY <2>9, <2>10, <2>11, Zenon
<1> QED BY <1>1, <1>3, Zenon DEF Counted

LEMMA OnceKept ==
    ASSUME TypeInv, TypeInv', TakenInv, LockInv, OnceInv, [Next]_vars
    PROVE  OnceInv'
<1>t. /\ kind \in {"logs", "slack"} /\ calling \subseteq Callers
      /\ channel \in Seq(Callers) /\ queue \in Seq(Callers)
      /\ hand \in [TaskWorkers -> Callers \cup {Nobody}]
      /\ pc \in [Tickers -> Stages] /\ seen \in [Tickers -> Seq(Callers)]
      /\ units \in [Tickers -> Seq(SUBSET Callers)] /\ written \in [Tickers -> Nat]
      /\ times \in [Callers -> Nat] /\ alive \in [Coins -> BOOLEAN]
      /\ released \in [Coins -> SUBSET Callers] /\ top \subseteq Coins
      /\ overruns \in Nat /\ overruns' \in Nat
      /\ broken \in BOOLEAN /\ rewrote \in BOOLEAN
  BY Zenon DEF TypeInv, TypeOK, Stages
<1>u. TypeOK /\ UnitsFit /\ StagesFit
  BY Zenon DEF TypeInv
<1>o. Undisturbed => OnceFacts
  BY Zenon DEF OnceInv
<1>i. SUFFICES ASSUME Undisturbed' PROVE OnceFacts'
  BY Zenon DEF OnceInv
\* Only the ticker that is at work has rows.
<1>a. ASSUME NEW t \in Tickers, pc[t] # "idle", Undisturbed,
             NEW x \in Tickers, x # t
      PROVE  pc[x] = "idle" /\ seen[x] = <<>> /\ units[x] = <<>>
  <2>1. pc[x] = "idle"
    BY <1>a, Zenon DEF LockInv, Undisturbed
  <2>2. pc[x] \notin {"early", "write", "late", "unlock"}
    BY <2>1, SMT
  <2> QED BY <1>u, <2>1, <2>2, Zenon DEF StagesFit
<1>e. ToSet(<<>>) = {} /\ DOMAIN <<>> = {}
  BY EmptyListFits, Zenon
<1>1. ASSUME NEW e \in Callers, Insert(e)
      PROVE  OnceFacts'
  <2>0. Undisturbed /\ OnceFacts
    <3>1. Undisturbed
      BY <1>1, <1>i, Zenon DEF Undisturbed, Insert, historyVars, lockVars
    <3> QED BY <1>o, <3>1
  <2>1. /\ e \in calling /\ calling' = calling \ {e} /\ hand' = hand /\ kind' = kind
        /\ queue' = queue /\ seen' = seen /\ units' = units /\ written' = written
        /\ times' = times /\ counter' = counter /\ alive' = alive /\ released' = released
        /\ pc' = pc
    BY <1>1, Zenon DEF Insert, channelVars, drainVars, tableVars, historyVars
  <2>2. RowsAreNew' /\ ListIsNew' /\ Counted'
    BY <2>0, <2>1, RowsHold, ListHold, CountedHold, Zenon DEF OnceFacts
  <2>3. \A x : Unread(x) <=> Unread(x)'
    BY <2>1, UnreadHold, Zenon
  <2>4. OnePlace
    BY <2>0 DEF OnceFacts
  <2>5. /\ \A x \in calling' : x \notin ToSet(channel')
        /\ \A x \in ToSet(channel') : Unread(x)' /\ \A v \in TaskWorkers : hand[v] # x
        /\ IsInjective(channel')
    <3>1. /\ \A x \in calling : x \notin ToSet(channel)
          /\ \A x \in ToSet(channel) \cup {e} : Unread(x)' /\ \A v \in TaskWorkers : hand[v] # x
          /\ IsInjective(channel)
      BY <2>1, <2>3, <2>4, Zenon DEF OnePlace
    <3>2. CASE channel' = channel
      BY <2>1, <3>1, <3>2, Zenon
    <3>3. CASE channel' = Append(channel, e)
      <4>1. e \notin ToSet(channel)
        BY <2>1, <3>1, Zenon
      <4>2. ToSet(channel') = ToSet(channel) \cup {e} /\ IsInjective(channel')
        <5>1. /\ ToSet(Append(channel, e)) = ToSet(channel) \cup {e}
              /\ IsInjective(channel) /\ e \notin ToSet(channel) => IsInjective(Append(channel, e))
          BY <1>t, AppendFits
        <5> QED BY <3>1, <3>3, <4>1, <5>1, Zenon
      <4> QED BY <2>1, <3>1, <4>2, Zenon
    <3> QED BY <1>1, <3>2, <3>3, Zenon DEF Insert
  <2>6. /\ \A x \in calling' : Unread(x)' /\ \A v \in TaskWorkers : hand[v] # x
        /\ IsInjective(queue)
    BY <2>1, <2>3, <2>4, Zenon DEF OnePlace
  <2>7. \A v \in TaskWorkers : hand[v] # Nobody =>
            Unread(hand[v])' /\ \A x \in TaskWorkers : hand[x] = hand[v] => x = v
    <3> SUFFICES ASSUME NEW v \in TaskWorkers, hand[v] # Nobody
                 PROVE  Unread(hand[v])' /\ \A x \in TaskWorkers : hand[x] = hand[v] => x = v
      OBVIOUS
    <3>1. Unread(hand[v]) /\ \A x \in TaskWorkers : hand[x] = hand[v] => x = v
      BY <2>4, Zenon DEF OnePlace
    <3> QED BY <2>1, <3>1, Zenon DEF Unread
  <2>8. OnePlace'
    BY <2>1, <2>5, <2>6, <2>7, Zenon DEF OnePlace
  <2> QED BY <2>2, <2>8 DEF OnceFacts
<1>2. ASSUME NEW w \in TaskWorkers, TakeTask(w)
      PROVE  OnceFacts'
  <2>0. Undisturbed /\ OnceFacts
    <3>1. Undisturbed
      BY <1>2, <1>i, Zenon DEF Undisturbed, TakeTask, historyVars, lockVars
    <3> QED BY <1>o, <3>1
  <2>1. /\ channel # <<>> /\ hand[w] = Nobody /\ calling' = calling /\ kind' = kind
        /\ hand' = [hand EXCEPT ![w] = Head(channel)] /\ channel' = Tail(channel)
        /\ queue' = queue /\ seen' = seen /\ units' = units /\ written' = written
        /\ times' = times /\ counter' = counter /\ alive' = alive /\ released' = released
        /\ pc' = pc
    BY <1>2, Zenon DEF TakeTask, drainVars, tableVars, historyVars
  <2>2. RowsAreNew' /\ ListIsNew' /\ Counted'
    BY <2>0, <2>1, RowsHold, ListHold, CountedHold, Zenon DEF OnceFacts
  <2>3. \A x : Unread(x) <=> Unread(x)'
    BY <2>1, UnreadHold, Zenon
  <2>4. OnePlace
    BY <2>0 DEF OnceFacts
  <2>h. PICK h : h = Head(channel)
    OBVIOUS
  <2>5. /\ h \in ToSet(channel) /\ ToSet(channel') \subseteq ToSet(channel)
        /\ IsInjective(channel') /\ h \notin ToSet(channel')
    BY <1>t, <2>h, <2>1, <2>4, HeadFits, Zenon DEF OnePlace
  <2>6. hand'[w] = h /\ \A v \in TaskWorkers : v # w => hand'[v] = hand[v]
    BY <1>t, <2>h, <2>1, SMT
  <2>7. /\ \A x \in ToSet(channel) : Unread(x)' /\ x \notin calling
        /\ \A x \in ToSet(channel) : \A v \in TaskWorkers : hand[v] # x
        /\ \A x \in calling : Unread(x)' /\ \A v \in TaskWorkers : hand[v] # x
        /\ IsInjective(queue)
    BY <2>3, <2>4, Zenon DEF OnePlace
  <2>8. \A x \in calling : Unread(x)' /\ x \notin ToSet(channel') /\ \A v \in TaskWorkers : hand'[v] # x
    <3> SUFFICES ASSUME NEW x \in calling
                 PROVE  Unread(x)' /\ x \notin ToSet(channel') /\ \A v \in TaskWorkers : hand'[v] # x
      OBVIOUS
    <3>1. x # h /\ x \notin ToSet(channel')
      BY <2>5, <2>7, Zenon
    <3> QED BY <2>6, <2>7, <3>1, Zenon
  <2>9. \A x \in ToSet(channel') : Unread(x)' /\ \A v \in TaskWorkers : hand'[v] # x
    <3> SUFFICES ASSUME NEW x \in ToSet(channel')
                 PROVE  Unread(x)' /\ \A v \in TaskWorkers : hand'[v] # x
      OBVIOUS
    <3>1. x # h /\ x \in ToSet(channel)
      BY <2>5, Zenon
    <3> QED BY <2>6, <2>7, <3>1, Zenon
  <2>10. \A v \in TaskWorkers : hand'[v] # Nobody =>
             Unread(hand[v])' /\ \A x \in TaskWorkers : hand'[x] = hand'[v] => x = v
    <3> SUFFICES ASSUME NEW v \in TaskWorkers, hand'[v] # Nobody
                 PROVE  Unread(hand[v])' /\ \A x \in TaskWorkers : hand'[x] = hand'[v] => x = v
      OBVIOUS
    <3>1. CASE v = w
      <4>1. Unread(h)' /\ \A x \in TaskWorkers : hand[x] # h
        BY <2>5, <2>7, Zenon
      <4>2. \A x \in TaskWorkers : hand'[x] = h => x = w
        BY <2>6, <4>1, Zenon
      <4>3. hand'[v] = h
        BY <2>6, <3>1, Zenon
      <4> QED BY <3>1, <4>1, <4>2, <4>3, Zenon DEF Unread
    <3>2. CASE v # w
      <4>1. hand'[v] = hand[v]
        BY <2>6, <3>2, Zenon
      <4>2. Unread(hand[v]) /\ \A x \in TaskWorkers : hand[x] = hand[v] => x = v
        BY <2>4, <4>1, Zenon DEF OnePlace
      <4>3. hand[v] # h
        BY <2>5, <2>7, Zenon
      <4>4. \A x \in TaskWorkers : hand'[x] = hand[v] => x = v
        BY <2>6, <4>2, <4>3, Zenon
      <4> QED BY <2>1, <4>1, <4>2, <4>4, Zenon DEF Unread
    <3> QED BY <3>1, <3>2
  <2>11. OnePlace'
    BY <2>1, <2>5, <2>7, <2>8, <2>9, <2>10, Zenon DEF OnePlace
  <2> QED BY <2>2, <2>11 DEF OnceFacts
<1>3. ASSUME NEW w \in TaskWorkers, RunTask(w)
      PROVE  OnceFacts'
  <2>1. /\ hand[w] # Nobody /\ calling' = calling /\ channel' = channel /\ kind' = kind
        /\ hand' = [hand EXCEPT ![w] = Nobody] /\ seen' = seen /\ units' = units
        /\ written' = written /\ times' = times /\ counter' = counter /\ alive' = alive
        /\ released' = released /\ pc' = pc /\ rewrote' = rewrote /\ overruns' = overruns
    BY <1>3, Zenon DEF RunTask, drainVars, tableVars, lockVars
  <2>2. queue' = Append(queue, hand[w]) /\ broken' = broken
    BY <1>3, <1>i, Zenon DEF RunTask, Undisturbed
  <2>0. Undisturbed /\ OnceFacts
    BY <1>i, <1>o, <2>1, <2>2, Zenon DEF Undisturbed
  <2>3. OnePlace /\ ListIsNew
    BY <2>0 DEF OnceFacts
  <2>h. PICK h : h = hand[w]
    OBVIOUS
  <2>4. /\ h \in Callers /\ Unread(h) /\ \A v \in TaskWorkers : hand[v] = h => v = w
    <3>1. Unread(hand[w]) /\ \A v \in TaskWorkers : hand[v] = hand[w] => v = w
      BY <2>1, <2>3, Zenon DEF OnePlace
    <3> QED BY <1>t, <2>h, <2>1, <3>1, Zenon
  <2>5. times[h] = 0 /\ h \notin ToSet(queue) /\ \A t \in Tickers : h \notin ToSet(seen[t])
    BY <2>4, Zenon DEF Unread
  <2>6. ToSet(queue') = ToSet(queue) \cup {h} /\ IsInjective(queue')
    <3>1. /\ ToSet(Append(queue, h)) = ToSet(queue) \cup {h}
          /\ IsInjective(queue) /\ h \notin ToSet(queue) => IsInjective(Append(queue, h))
      BY <1>t, <2>4, AppendFits
    <3> QED BY <2>h, <2>2, <2>3, <2>5, <3>1, Zenon DEF OnePlace
  <2>7. hand'[w] = Nobody /\ \A v \in TaskWorkers : v # w => hand'[v] = hand[v]
    BY <1>t, <2>1, SMT
  <2>8. \A x : Unread(x) /\ x # h => Unread(x)'
    BY <2>1, <2>6, Zenon DEF Unread
  <2>9. Nobody \notin Callers /\ ToSet(channel) \subseteq Callers
    BY <1>t, ListFits, PeopleAssumption, Zenon
  <2>10. \A x \in calling : Unread(x)' /\ x \notin ToSet(channel) /\ \A v \in TaskWorkers : hand'[v] # x
    <3> SUFFICES ASSUME NEW x \in calling
                 PROVE  Unread(x)' /\ x \notin ToSet(channel) /\ \A v \in TaskWorkers : hand'[v] # x
      OBVIOUS
    <3>1. Unread(x) /\ x \notin ToSet(channel) /\ \A v \in TaskWorkers : hand[v] # x
      BY <2>3, Zenon DEF OnePlace
    <3>2. x # h /\ x # Nobody
      BY <1>t, <2>h, <2>9, <3>1, Zenon
    <3> QED BY <2>7, <2>8, <3>1, <3>2, Zenon
  <2>11. \A x \in ToSet(channel) : Unread(x)' /\ \A v \in TaskWorkers : hand'[v] # x
    <3> SUFFICES ASSUME NEW x \in ToSet(channel)
                 PROVE  Unread(x)' /\ \A v \in TaskWorkers : hand'[v] # x
      OBVIOUS
    <3>1. Unread(x) /\ \A v \in TaskWorkers : hand[v] # x
      BY <2>3, Zenon DEF OnePlace
    <3>2. x # h /\ x # Nobody
      BY <2>h, <2>9, <3>1, Zenon
    <3> QED BY <2>7, <2>8, <3>1, <3>2, Zenon
  <2>12. \A v \in TaskWorkers : hand'[v] # Nobody =>
             Unread(hand[v])' /\ \A x \in TaskWorkers : hand'[x] = hand'[v] => x = v
    <3> SUFFICES ASSUME NEW v \in TaskWorkers, hand'[v] # Nobody
                 PROVE  Unread(hand[v])' /\ \A x \in TaskWorkers : hand'[x] = hand'[v] => x = v
      OBVIOUS
    <3>1. v # w /\ hand'[v] = hand[v]
      BY <2>7, Zenon
    <3>2. Unread(hand[v]) /\ \A x \in TaskWorkers : hand[x] = hand[v] => x = v
      BY <2>3, <3>1, Zenon DEF OnePlace
    <3>3. hand[v] # h
      BY <2>4, <3>1, Zenon
    <3>4. \A x \in TaskWorkers : hand'[x] = hand[v] => x = v
      BY <2>7, <3>1, <3>2, Zenon
    <3>5. times'[hand[v]] = 0 /\ hand[v] \notin ToSet(queue')
          /\ \A t \in Tickers : hand[v] \notin ToSet(seen'[t])
      BY <2>8, <3>2, <3>3, Zenon DEF Unread
    <3> QED BY <3>1, <3>4, <3>5, Zenon DEF Unread
  <2>13. OnePlace'
    <3>1. IsInjective(channel)
      BY <2>3 DEF OnePlace
    <3> QED BY <2>1, <2>6, <2>10, <2>11, <2>12, <3>1, Zenon DEF OnePlace
  <2>14. ListIsNew'
    <3> SUFFICES ASSUME NEW e \in ToSet(queue'), times'[e] > 0
                 PROVE  \E t \in Tickers : pc'[t] \in Unswept
      BY Zenon DEF ListIsNew
    <3>1. e # h
      <4>1. ~(times[h] > 0)
        BY <2>5, SMT
      <4> QED BY <2>1, <4>1, Zenon
    <3>2. e \in ToSet(queue) /\ times[e] > 0
      BY <2>1, <2>6, <3>1, Zenon
    <3> QED BY <2>1, <2>3, <3>2, Zenon DEF ListIsNew
  <2>15. RowsAreNew' /\ Counted'
    BY <2>0, <2>1, RowsHold, CountedHold, Zenon DEF OnceFacts
  <2> QED BY <2>13, <2>14, <2>15 DEF OnceFacts
<1>4. ASSUME NEW t \in Tickers, Tick(t)
      PROVE  OnceFacts'
  <2>0. Undisturbed /\ OnceFacts
    <3>1. Undisturbed
      BY <1>4, <1>i, Zenon DEF Undisturbed, Tick, historyVars, lockVars, AcquireLock
    <3> QED BY <1>o, <3>1
  <2>1. /\ kind' = kind /\ calling' = calling /\ channel' = channel /\ hand' = hand
        /\ queue' = queue /\ seen' = seen /\ units' = units /\ written' = written
        /\ times' = times /\ counter' = counter /\ alive' = alive /\ released' = released
        /\ pc[t] = "idle" /\ pc' = [pc EXCEPT ![t] = "lock"]
    BY <1>4, Zenon DEF Tick, Goto, channelVars, drainVars, tableVars, historyVars
  <2>2. pc[t] \notin Unswept
    BY <2>1, SMT DEF Unswept
  <2> QED BY <1>u, <2>0, <2>1, <2>2, OnceMove, Zenon
<1>5. ASSUME NEW t \in Tickers, Lock(t)
      PROVE  OnceFacts'
  <2>0. Undisturbed /\ OnceFacts
    <3>1. Undisturbed
      BY <1>5, <1>i, Zenon DEF Undisturbed, Lock, historyVars, lockVars, AcquireLock
    <3> QED BY <1>o, <3>1
  <2>1. /\ kind' = kind /\ calling' = calling /\ channel' = channel /\ hand' = hand
        /\ queue' = queue /\ seen' = seen /\ units' = units /\ written' = written
        /\ times' = times /\ counter' = counter /\ alive' = alive /\ released' = released
        /\ pc[t] = "lock" /\ pc' = [pc EXCEPT ![t] = "read"]
    BY <1>5, Zenon DEF Lock, Goto, channelVars, drainVars, tableVars, historyVars
  <2>2. pc[t] \notin Unswept
    BY <2>1, SMT DEF Unswept
  <2> QED BY <1>u, <2>0, <2>1, <2>2, OnceMove, Zenon
<1>6. ASSUME NEW t \in Tickers, LockTaken(t)
      PROVE  OnceFacts'
  <2>0. Undisturbed /\ OnceFacts
    <3>1. Undisturbed
      BY <1>6, <1>i, Zenon DEF Undisturbed, LockTaken, historyVars, lockVars
    <3> QED BY <1>o, <3>1
  <2>1. /\ kind' = kind /\ calling' = calling /\ channel' = channel /\ hand' = hand
        /\ queue' = queue /\ seen' = seen /\ units' = units /\ written' = written
        /\ times' = times /\ counter' = counter /\ alive' = alive /\ released' = released
        /\ pc[t] = "lock" /\ (pc' = pc \/ pc' = [pc EXCEPT ![t] = "tickdel"])
    BY <1>6, Zenon DEF LockTaken, Goto, channelVars, drainVars, tableVars, historyVars
  <2>2. CASE pc' = pc
    BY <1>u, <2>0, <2>1, <2>2, OnceHold, Zenon
  <2>3. CASE pc' = [pc EXCEPT ![t] = "tickdel"]
    <3>1. pc[t] \notin Unswept
      BY <2>1, SMT DEF Unswept
    <3> QED BY <1>u, <2>0, <2>1, <2>3, <3>1, OnceMove, Zenon
  <2> QED BY <2>1, <2>2, <2>3
<1>7. ASSUME NEW t \in Tickers, ReadQueue(t)
      PROVE  OnceFacts'
  <2>0. Undisturbed /\ OnceFacts
    <3>1. Undisturbed
      BY <1>7, <1>i, Zenon DEF Undisturbed, ReadQueue, historyVars, lockVars
    <3> QED BY <1>o, <3>1
  <2>1. /\ kind' = kind /\ calling' = calling /\ channel' = channel /\ hand' = hand
        /\ queue' = queue /\ times' = times /\ counter' = counter /\ alive' = alive
        /\ released' = released /\ pc[t] = "read"
        /\ seen' = [seen EXCEPT ![t] = queue] /\ written' = [written EXCEPT ![t] = 0]
        /\ pc' = [pc EXCEPT ![t] = IF queue = <<>> THEN "unlock"
                                   ELSE IF kind = "logs" THEN "write" ELSE "early"]
    BY <1>7, Zenon DEF ReadQueue, channelVars, tableVars, historyVars, Goto
  <2>2. PICK u \in Units(queue) : units' = [units EXCEPT ![t] = u]
    BY <1>7, Zenon DEF ReadQueue
  <2>3. OnePlace /\ RowsAreNew /\ ListIsNew /\ Counted
    BY <2>0 DEF OnceFacts
  <2>4. ToSet(queue) = Rows(u) /\ \A i, j \in DOMAIN u : i # j => u[i] \cap u[j] = {}
    <3>1. IsInjective(queue)
      BY <2>3 DEF OnePlace
    <3>2. /\ ToSet(queue) = UNION {u[i] : i \in DOMAIN u}
          /\ IsInjective(queue) => \A i, j \in DOMAIN u : i # j => u[i] \cap u[j] = {}
      BY <1>t, RowsFit, Zenon
    <3> QED BY <3>1, <3>2, Zenon DEF Rows
  <2>5. /\ seen'[t] = queue /\ units'[t] = u /\ written'[t] = 0
        /\ \A x \in Tickers : x # t => /\ seen'[x] = seen[x] /\ units'[x] = units[x]
                                       /\ written'[x] = written[x] /\ pc'[x] = pc[x]
    BY <1>t, <2>1, <2>2, SMT
  <2>6. \A x \in Tickers : pc[x] \notin Unswept
    <3> SUFFICES ASSUME NEW x \in Tickers PROVE pc[x] \notin Unswept
      OBVIOUS
    <3>1. pc[t] # "idle"
      BY <2>1, SMT
    <3>2. x # t => pc[x] = "idle"
      BY <1>a, <2>0, <3>1, Zenon
    <3> QED BY <2>1, <3>2, SMT DEF Unswept
  <2>7. \A e \in ToSet(queue) : ~(times[e] > 0)
    BY <2>3, <2>6, Zenon DEF ListIsNew
  <2>8. OnePlace'
    <3>1. \A e \in Callers : Unread(e) => Unread(e)'
      <4> SUFFICES ASSUME NEW e \in Callers, Unread(e)
                   PROVE  Unread(e)'
        OBVIOUS
      <4>1. times[e] = 0 /\ e \notin ToSet(queue) /\ \A x \in Tickers : e \notin ToSet(seen[x])
        BY Zenon DEF Unread
      <4>2. \A x \in Tickers : e \notin ToSet(seen'[x])
        BY <2>5, <4>1, Zenon
      <4> QED BY <2>1, <4>1, <4>2, Zenon DEF Unread
    <3>2. IsInjective(queue')
      BY <2>1, <2>3, Zenon DEF OnePlace
    <3> QED BY <1>u, <2>1, <2>3, <3>1, <3>2, OnePlaceHold, Zenon
  <2>9. RowsAreNew'
    <3> SUFFICES ASSUME NEW x \in Tickers, NEW i \in DOMAIN units'[x]
                 PROVE  /\ \A j \in DOMAIN units'[x] : i # j => units'[x][i] \cap units'[x][j] = {}
                        /\ i > written'[x] => \A e \in units'[x][i] : times'[e] = 0
      BY Zenon DEF RowsAreNew
    <3>1. CASE x = t
      <4>1. i \in DOMAIN u
        BY <2>5, <3>1, Zenon
      <4>2. \A e \in u[i] : e \in ToSet(queue)
        BY <2>4, <4>1, Zenon DEF Rows
      <4>3. \A e \in u[i] : times[e] = 0
        <5> SUFFICES ASSUME NEW e \in u[i] PROVE times[e] = 0
          OBVIOUS
        <5>1. e \in Callers
          BY <1>t, <4>2, ListFits, Zenon
        <5>2. ~(times[e] > 0)
          BY <2>7, <4>2, Zenon
        <5> QED BY <1>t, <5>1, <5>2, SMT
      <4> QED BY <2>1, <2>4, <2>5, <3>1, <4>1, <4>3, Zenon
    <3>2. CASE x # t
      BY <2>1, <2>3, <2>5, <3>2, Zenon DEF RowsAreNew
    <3> QED BY <3>1, <3>2
  <2>10. ListIsNew'
    BY <2>1, <2>7, Zenon DEF ListIsNew
  <2>11. Counted'
    BY <2>1, <2>3, CountedHold, Zenon
  <2> QED BY <2>8, <2>9, <2>10, <2>11 DEF OnceFacts
<1>8. ASSUME NEW t \in Tickers, DeleteList(t)
      PROVE  OnceFacts'
  <2>0. Undisturbed /\ OnceFacts
    <3>1. \/ broken' = broken
          \/ broken' = (broken \/ pc[t] = "tickdel")
      BY <1>8, Zenon DEF DeleteList
    <3>2. rewrote' = rewrote /\ overruns' = overruns
      BY <1>8, Zenon DEF DeleteList, lockVars
    <3>3. ~broken
      BY <1>i, <3>1, Zenon DEF Undisturbed
    <3> QED BY <1>i, <1>o, <3>2, <3>3, Zenon DEF Undisturbed
  <2>1. /\ kind' = kind /\ calling' = calling /\ channel' = channel /\ hand' = hand
        /\ seen' = seen /\ units' = units /\ written' = written
        /\ times' = times /\ counter' = counter /\ alive' = alive /\ released' = released
    BY <1>8, Zenon DEF DeleteList, channelVars, drainVars, tableVars
  <2>2. OnePlace /\ RowsAreNew /\ ListIsNew /\ Counted
    BY <2>0 DEF OnceFacts
  <2>3. CASE queue' = <<>>
    <3>1. \A e \in Callers : Unread(e) => Unread(e)'
      BY <1>e, <2>1, <2>3, Zenon DEF Unread
    <3>2. IsInjective(queue')
      BY <1>e, <2>3, Zenon DEF IsInjective
    <3>3. OnePlace'
      BY <1>u, <2>1, <2>2, <3>1, <3>2, OnePlaceHold, Zenon
    <3>4. ToSet(queue') = {}
      BY <1>e, <2>3, Zenon
    <3>5. ListIsNew'
      BY <3>4, Zenon DEF ListIsNew
    <3>6. RowsAreNew' /\ Counted'
      BY <2>1, <2>2, RowsHold, CountedHold, Zenon
    <3> QED BY <3>3, <3>5, <3>6 DEF OnceFacts
  <2>4. CASE queue' = queue /\ broken' = (broken \/ pc[t] = "tickdel")
    <3>1. pc[t] # "tickdel"
      BY <1>i, <2>4, Zenon DEF Undisturbed
    <3>2. \/ pc[t] = "early" /\ pc' = [pc EXCEPT ![t] = "write"]
          \/ pc[t] = "late" /\ pc' = [pc EXCEPT ![t] = "unlock"]
          \/ pc[t] = "tickdel" /\ pc' = [pc EXCEPT ![t] = "untick"]
      BY <1>8, Moves, Zenon DEF Goes
    <3>3. PICK s \in Unswept : pc' = [pc EXCEPT ![t] = s]
      BY <3>1, <3>2, SMT DEF Unswept
    <3> QED BY <1>u, <2>0, <2>1, <2>4, <3>3, OnceMove, Zenon
  <2> QED BY <1>8, <2>3, <2>4, Zenon DEF DeleteList, DropList
<1>9. ASSUME NEW t \in Tickers, WriteBatch(t)
      PROVE  OnceFacts'
  <2>0. Undisturbed /\ OnceFacts
    <3>1. Undisturbed
      BY <1>9, <1>i, Zenon DEF Undisturbed, WriteBatch, historyVars, lockVars
    <3> QED BY <1>o, <3>1
  <2>1. /\ kind' = kind /\ calling' = calling /\ channel' = channel /\ hand' = hand
        /\ queue' = queue /\ seen' = seen /\ units' = units /\ released' = released
        /\ times' = [e \in Callers |-> times[e] + IF e \in Batch(t) THEN 1 ELSE 0]
        /\ written' = [written EXCEPT ![t] = Upto(t)]
        /\ kind = "slack" => Count(t, Batch(t))
        /\ pc[t] = "write"
    BY <1>9, Zenon DEF WriteBatch, Batch, channelVars, historyVars
  <2>2. OnePlace /\ RowsAreNew /\ ListIsNew /\ Counted
    BY <2>0 DEF OnceFacts
  <2>3. /\ written[t] \in Nat /\ Upto(t) \in Nat /\ written[t] <= Upto(t)
        /\ Upto(t) <= Len(units[t]) /\ DOMAIN units[t] = 1..Len(units[t])
        /\ Len(units[t]) \in Nat
    BY <1>u, UptoFits, Zenon
  <2>4. Batch(t) \subseteq ToSet(seen[t]) /\ Batch(t) \subseteq Callers /\ IsFiniteSet(Batch(t))
    BY <1>u, BatchFits, Zenon
  <2>5. \A e \in Batch(t) : times[e] = 0
    <3> SUFFICES ASSUME NEW e \in Batch(t) PROVE times[e] = 0
      OBVIOUS
    <3>1. PICK i \in (written[t] + 1)..Upto(t) : e \in units[t][i]
      BY Zenon DEF Batch
    <3>2. i \in DOMAIN units[t] /\ i > written[t]
      BY <2>3, <3>1, SMT
    <3> QED BY <2>2, <3>1, <3>2, Zenon DEF RowsAreNew
  <2>6. /\ \A e \in Callers : e \notin Batch(t) => times'[e] = times[e]
        /\ \A e \in Callers : times'[e] > 0 => times[e] > 0 \/ e \in Batch(t)
    BY <1>t, <2>1, SMT
  <2>7. /\ written'[t] = Upto(t) /\ \A x \in Tickers : x # t => pc'[x] = pc[x]
        /\ pc'[t] \in Unswept
    <3>1. pc' = [pc EXCEPT ![t] = IF Upto(t) = Len(units[t])
                                  THEN IF kind = "logs" THEN "late" ELSE "unlock"
                                  ELSE "write"]
      BY <1>9, Zenon DEF WriteBatch, AfterBatch, Goto
    <3> QED BY <1>t, <2>1, <3>1, SMT DEF Unswept
  <2>8. \A x \in Tickers : x # t => units[x] = <<>> /\ pc[x] = "idle"
    <3>1. pc[t] # "idle"
      BY <2>1, SMT
    <3> QED BY <1>a, <2>0, <3>1, Zenon
  <2>9. OnePlace'
    <3>1. \A e \in Callers : Unread(e) => Unread(e)'
      <4> SUFFICES ASSUME NEW e \in Callers, Unread(e)
                   PROVE  Unread(e)'
        OBVIOUS
      <4>1. times[e] = 0 /\ e \notin ToSet(queue) /\ \A x \in Tickers : e \notin ToSet(seen[x])
        BY Zenon DEF Unread
      <4>2. e \notin Batch(t)
        BY <2>4, <4>1, Zenon
      <4>3. times'[e] = 0
        BY <2>6, <4>1, <4>2, Zenon
      <4> QED BY <2>1, <4>1, <4>3, Zenon DEF Unread
    <3>2. IsInjective(queue')
      BY <2>1, <2>2, Zenon DEF OnePlace
    <3> QED BY <1>u, <2>1, <2>2, <3>1, <3>2, OnePlaceHold, Zenon
  <2>10. RowsAreNew'
    <3> SUFFICES ASSUME NEW x \in Tickers, NEW i \in DOMAIN units[x]
                 PROVE  /\ \A j \in DOMAIN units[x] : i # j => units[x][i] \cap units[x][j] = {}
                        /\ i > written'[x] => \A e \in units[x][i] : times'[e] = 0
      BY <2>1, Zenon DEF RowsAreNew
    <3>1. x = t
      BY <1>e, <2>8, Zenon
    <3>2. \A j \in DOMAIN units[t] : i # j => units[t][i] \cap units[t][j] = {}
      BY <2>2, <3>1, Zenon DEF RowsAreNew
    <3>3. ASSUME i > Upto(t), NEW e \in units[t][i]
          PROVE  times'[e] = 0
      <4>1. i \in DOMAIN units[t] /\ i \in Nat
        BY <2>3, <3>1, SMT
      <4>2. i > written[t]
        BY <2>3, <3>3, <4>1, SMT
      <4>3. times[e] = 0
        BY <2>2, <3>3, <4>1, <4>2, Zenon DEF RowsAreNew
      <4>4. e \notin Batch(t)
        <5>1. SUFFICES ASSUME e \in Batch(t) PROVE FALSE
          OBVIOUS
        <5>2. PICK j \in (written[t] + 1)..Upto(t) : e \in units[t][j]
          BY <5>1, Zenon DEF Batch
        <5>3. j \in DOMAIN units[t] /\ i # j
          BY <2>3, <3>3, <4>1, <5>2, SMT
        <5> QED BY <3>2, <3>3, <5>2, <5>3, Zenon
      <4>5. e \in Callers
        <5>1. units[t][i] \in SUBSET Callers
          BY <1>t, <2>3, <4>1, ElementOfSeq, Zenon
        <5> QED BY <3>3, <5>1, Zenon
      <4> QED BY <2>6, <4>3, <4>4, <4>5, Zenon
    <3> QED BY <2>7, <3>1, <3>2, <3>3, Zenon
  <2>11. ListIsNew'
    BY <2>7, Zenon DEF ListIsNew
  <2>12. Counted'
    BY <2>1, <2>2, <2>4, <2>5, CountedWrite, Zenon
  <2> QED BY <2>9, <2>10, <2>11, <2>12 DEF OnceFacts
<1>10. ASSUME NEW t \in Tickers, WriteFails(t)
      PROVE  OnceFacts'
  <2>1. /\ kind' = kind /\ calling' = calling /\ channel' = channel /\ hand' = hand
        /\ queue' = queue /\ seen' = seen /\ units' = units
        /\ times' = times /\ counter' = counter /\ alive' = alive /\ released' = released
        /\ overruns' = overruns
    BY <1>10, Zenon DEF WriteFails, channelVars, tableVars, lockVars
  <2>2. /\ written' = [written EXCEPT ![t] = 0] /\ pc' = pc /\ broken' = broken
        /\ rewrote' = (rewrote \/ written[t] > 0)
    BY <1>10, <1>i, Zenon DEF WriteFails, Undisturbed
  <2>0. Undisturbed /\ OnceFacts
    BY <1>i, <1>o, <2>1, <2>2, Zenon DEF Undisturbed
  <2>3. written' = written
    <3>1. ~(written[t] > 0)
      BY <1>i, <2>2, Zenon DEF Undisturbed
    <3>2. written[t] = 0
      BY <1>t, <3>1, SMT
    <3> QED BY <1>t, <2>2, <3>2, SMT
  <2> QED BY <1>u, <2>0, <2>1, <2>2, <2>3, OnceHold, Zenon
<1>11. ASSUME NEW t \in Tickers, Unlock(t)
      PROVE  OnceFacts'
  <2>0. Undisturbed /\ OnceFacts
    <3>1. Undisturbed
      BY <1>11, <1>i, Zenon DEF Undisturbed, Unlock, historyVars, lockVars, ReleaseLock
    <3> QED BY <1>o, <3>1
  <2>1. /\ kind' = kind /\ calling' = calling /\ channel' = channel /\ hand' = hand
        /\ queue' = queue /\ times' = times /\ counter' = counter /\ alive' = alive
        /\ released' = released /\ pc[t] = "unlock"
        /\ seen' = [seen EXCEPT ![t] = <<>>] /\ units' = [units EXCEPT ![t] = <<>>]
        /\ written' = [written EXCEPT ![t] = 0] /\ pc' = [pc EXCEPT ![t] = "tickdel"]
    BY <1>11, Zenon DEF Unlock, channelVars, tableVars, historyVars, Goto
  <2>2. OnePlace /\ RowsAreNew /\ ListIsNew /\ Counted
    BY <2>0 DEF OnceFacts
  <2>3. /\ seen'[t] = <<>> /\ units'[t] = <<>> /\ pc'[t] = "tickdel"
        /\ \A x \in Tickers : x # t => /\ seen'[x] = seen[x] /\ units'[x] = units[x]
                                       /\ written'[x] = written[x] /\ pc'[x] = pc[x]
    BY <1>t, <2>1, SMT
  <2>4. OnePlace'
    <3>1. \A e \in Callers : Unread(e) => Unread(e)'
      <4> SUFFICES ASSUME NEW e \in Callers, Unread(e)
                   PROVE  Unread(e)'
        OBVIOUS
      <4>1. times[e] = 0 /\ e \notin ToSet(queue) /\ \A x \in Tickers : e \notin ToSet(seen[x])
        BY Zenon DEF Unread
      <4>2. \A x \in Tickers : e \notin ToSet(seen'[x])
        BY <1>e, <2>3, <4>1, Zenon
      <4> QED BY <2>1, <4>1, <4>2, Zenon DEF Unread
    <3>2. IsInjective(queue')
      BY <2>1, <2>2, Zenon DEF OnePlace
    <3> QED BY <1>u, <2>1, <2>2, <3>1, <3>2, OnePlaceHold, Zenon
  <2>5. RowsAreNew'
    <3> SUFFICES ASSUME NEW x \in Tickers, NEW i \in DOMAIN units'[x]
                 PROVE  /\ \A j \in DOMAIN units'[x] : i # j => units'[x][i] \cap units'[x][j] = {}
                        /\ i > written'[x] => \A e \in units'[x][i] : times'[e] = 0
      BY Zenon DEF RowsAreNew
    <3>1. x # t
      BY <1>e, <2>3, Zenon
    <3> QED BY <2>1, <2>2, <2>3, <3>1, Zenon DEF RowsAreNew
  <2>6. ListIsNew'
    <3>1. pc'[t] \in Unswept
      BY <2>3, Zenon DEF Unswept
    <3> QED BY <3>1, Zenon DEF ListIsNew
  <2>7. Counted'
    BY <2>1, <2>2, CountedHold, Zenon
  <2> QED BY <2>4, <2>5, <2>6, <2>7 DEF OnceFacts
<1>12. ASSUME NEW t \in Tickers, EndTick(t)
      PROVE  OnceFacts'
  <2>0. Undisturbed /\ OnceFacts
    <3>1. Undisturbed
      BY <1>12, <1>i, Zenon DEF Undisturbed, EndTick, historyVars, lockVars, ReleaseLock
    <3> QED BY <1>o, <3>1
  <2>1. /\ kind' = kind /\ calling' = calling /\ channel' = channel /\ hand' = hand
        /\ queue' = queue /\ seen' = seen /\ units' = units /\ written' = written
        /\ times' = times /\ counter' = counter /\ alive' = alive /\ released' = released
        /\ pc[t] = "untick" /\ pc' = [pc EXCEPT ![t] = "idle"]
    BY <1>12, Zenon DEF EndTick, Goto, channelVars, drainVars, tableVars, historyVars
  <2>2. pc[t] \notin Unswept
    BY <2>1, SMT DEF Unswept
  <2> QED BY <1>u, <2>0, <2>1, <2>2, OnceMove, Zenon
<1>13. ASSUME NEW t \in Tickers, Crash(t)
      PROVE  OnceFacts'
  BY <1>13, <1>i, Zenon DEF Crash, Undisturbed
<1>14. ASSUME ReadTop
      PROVE  OnceFacts'
  <2>0. Undisturbed /\ OnceFacts
    <3>1. Undisturbed
      BY <1>14, <1>i, Zenon DEF Undisturbed, ReadTop, historyVars, lockVars
    <3> QED BY <1>o, <3>1
  <2>1. /\ kind' = kind /\ calling' = calling /\ channel' = channel /\ hand' = hand
        /\ queue' = queue /\ seen' = seen /\ units' = units /\ written' = written
        /\ times' = times /\ counter' = counter /\ alive' = alive /\ released' = released
        /\ pc' = pc
    BY <1>14, Zenon DEF ReadTop, channelVars, drainVars, tableVars, historyVars
  <2> QED BY <1>u, <2>0, <2>1, OnceHold, Zenon
<1>15. ASSUME ReleaseTop
      PROVE  OnceFacts'
  <2>0. Undisturbed /\ OnceFacts
    <3>1. Undisturbed
      BY <1>15, <1>i, Zenon DEF Undisturbed, ReleaseTop, historyVars, lockVars
    <3> QED BY <1>o, <3>1
  <2>1. /\ kind' = kind /\ calling' = calling /\ channel' = channel /\ hand' = hand
        /\ queue' = queue /\ seen' = seen /\ units' = units /\ written' = written
        /\ times' = times /\ counter' = counter /\ pc' = pc
    BY <1>15, Zenon DEF ReleaseTop, channelVars, drainVars
  <2>2. PICK c \in top : /\ alive' = [alive EXCEPT ![c] = FALSE]
                         /\ released' = [released EXCEPT ![c] = Stored(c)]
    BY <1>15, Zenon DEF ReleaseTop
  <2>3. OnePlace /\ RowsAreNew /\ ListIsNew /\ Counted
    BY <2>0 DEF OnceFacts
  <2>4. \A x \in Callers : Unread(x) <=> Unread(x)'
    BY <2>1, UnreadHold, Zenon
  <2>5. OnePlace' /\ RowsAreNew' /\ ListIsNew'
    <3>1. IsInjective(queue')
      BY <2>1, <2>3, Zenon DEF OnePlace
    <3>2. OnePlace'
      BY <1>u, <2>1, <2>3, <2>4, <3>1, OnePlaceHold, Zenon
    <3> QED BY <2>1, <2>3, <3>2, RowsHold, ListHold, Zenon
  <2>6. Counted'
    <3>1. \A d : Stored(d)' = Stored(d)
      BY <2>1, Zenon DEF Stored
    <3>2. /\ c \in Coins /\ ~alive'[c] /\ released'[c] = Stored(c)
          /\ \A d \in Coins : d # c => alive'[d] = alive[d] /\ released'[d] = released[d]
      BY <1>t, <2>2, SMT
    <3>3. ASSUME kind = "slack", NEW d \in Coins
          PROVE  /\ released'[d] \subseteq Stored(d)'
                 /\ alive'[d] => counter[d] = Cardinality(Stored(d)' \ released'[d])
                 /\ ~alive'[d] => Stored(d)' = released'[d]
      <4>1. CASE d = c
        BY <3>1, <3>2, <4>1, Zenon
      <4>2. CASE d # c
        <5>1. /\ released[d] \subseteq Stored(d)
              /\ alive[d] => counter[d] = Cardinality(Stored(d) \ released[d])
              /\ ~alive[d] => Stored(d) = released[d]
          BY <2>3, <3>3, Zenon DEF Counted
        <5>2. alive'[d] = alive[d] /\ released'[d] = released[d] /\ Stored(d)' = Stored(d)
          BY <3>1, <3>2, <4>2, Zenon
        <5> QED BY <5>1, <5>2, Zenon
      <4> QED BY <4>1, <4>2
    <3>4. \A e \in Callers : times[e] <= 1
      BY <2>3, Zenon DEF Counted
    <3> QED BY <2>1, <3>3, <3>4, Zenon DEF Counted
  <2> QED BY <2>5, <2>6 DEF OnceFacts
<1>16. ASSUME NEW l \in LockKeys, Expire(l)
      PROVE  OnceFacts'
  <2>1. /\ kind' = kind /\ calling' = calling /\ channel' = channel /\ hand' = hand
        /\ queue' = queue /\ seen' = seen /\ units' = units /\ written' = written
        /\ times' = times /\ counter' = counter /\ alive' = alive /\ released' = released
        /\ pc' = pc
    BY <1>16, Zenon DEF Expire, channelVars, drainVars, tableVars, historyVars
  <2>2. broken' = broken /\ rewrote' = rewrote /\ (overruns' = overruns \/ overruns' = overruns + 1)
    BY <1>16, Zenon DEF Expire, ExpireLock, historyVars
  <2>3. overruns = 0
    BY <1>t, <1>i, <2>2, SMT DEF Undisturbed
  <2>0. Undisturbed /\ OnceFacts
    BY <1>i, <1>o, <2>2, <2>3, Zenon DEF Undisturbed
  <2> QED BY <1>u, <2>0, <2>1, OnceHold, Zenon
<1>17. ASSUME vars' = vars
      PROVE  OnceFacts'
  <2>0. Undisturbed /\ OnceFacts
    <3>1. Undisturbed
      BY <1>17, <1>i, Zenon DEF Undisturbed, vars, historyVars, lockVars
    <3> QED BY <1>o, <3>1
  <2>1. /\ kind' = kind /\ calling' = calling /\ channel' = channel /\ hand' = hand
        /\ queue' = queue /\ seen' = seen /\ units' = units /\ written' = written
        /\ times' = times /\ counter' = counter /\ alive' = alive /\ released' = released
        /\ pc' = pc
    BY <1>17, Zenon DEF vars, channelVars, drainVars, tableVars, historyVars
  <2> QED BY <1>u, <2>0, <2>1, OnceHold, Zenon
<1>18. ASSUME NEW t \in Tickers, ReadFails(t)
      PROVE  OnceFacts'
  <2>0. Undisturbed /\ OnceFacts
    <3>1. Undisturbed
      BY <1>18, <1>i, Zenon DEF Undisturbed, ReadFails, historyVars, lockVars
    <3> QED BY <1>o, <3>1
  <2>1. /\ kind' = kind /\ calling' = calling /\ channel' = channel /\ hand' = hand
        /\ queue' = queue /\ seen' = seen /\ units' = units /\ written' = written
        /\ times' = times /\ counter' = counter /\ alive' = alive /\ released' = released
        /\ pc[t] = "read" /\ pc' = [pc EXCEPT ![t] = "unlock"]
    BY <1>18, Zenon DEF ReadFails, Goto, channelVars, drainVars, tableVars, historyVars
  <2>2. pc[t] \notin Unswept
    BY <2>1, SMT DEF Unswept
  <2> QED BY <1>u, <2>0, <2>1, <2>2, OnceMove, Zenon
<1>19. ASSUME ReleaseFails
      PROVE  OnceFacts'
  <2>0. Undisturbed /\ OnceFacts
    <3>1. Undisturbed
      BY <1>19, <1>i, Zenon DEF Undisturbed, ReleaseFails, historyVars, lockVars
    <3> QED BY <1>o, <3>1
  <2>1. /\ kind' = kind /\ calling' = calling /\ channel' = channel /\ hand' = hand
        /\ queue' = queue /\ seen' = seen /\ units' = units /\ written' = written
        /\ times' = times /\ counter' = counter /\ alive' = alive /\ released' = released
        /\ pc' = pc
    BY <1>19, Zenon DEF ReleaseFails, channelVars, drainVars, tableVars, historyVars
  <2> QED BY <1>u, <2>0, <2>1, OnceHold, Zenon
<1>20. ASSUME Midnight
      PROVE  OnceFacts'
  <2>0. Undisturbed /\ OnceFacts
    <3>1. Undisturbed
      BY <1>20, <1>i, Zenon DEF Undisturbed, Midnight, historyVars, lockVars
    <3> QED BY <1>o, <3>1
  <2>1. /\ kind' = kind /\ calling' = calling /\ channel' = channel /\ hand' = hand
        /\ queue' = queue /\ seen' = seen /\ units' = units /\ written' = written
        /\ times' = times /\ counter' = counter /\ alive' = alive /\ released' = released
        /\ pc' = pc
    BY <1>20, Zenon DEF Midnight, channelVars, drainVars, tableVars, historyVars
  <2> QED BY <1>u, <2>0, <2>1, OnceHold, Zenon
<1>w. ASSUME NEW t \in Tickers,
             \/ Tick(t) \/ Lock(t) \/ LockTaken(t) \/ ReadQueue(t) \/ ReadFails(t)
             \/ DeleteList(t) \/ WriteBatch(t) \/ WriteFails(t) \/ Unlock(t)
             \/ EndTick(t) \/ Crash(t)
      PROVE  OnceFacts'
  BY <1>w, <1>4, <1>5, <1>6, <1>7, <1>8, <1>9, <1>10, <1>11, <1>12, <1>13, <1>18, Zenon
<1> QED BY <1>w, <1>1, <1>2, <1>3, <1>14, <1>15, <1>16, <1>17, <1>19, <1>20, Steps, Zenon

-----------------------------------------------------------------------------
(* The theorems.                                                           *)

LEMMA Inductive == Spec => []IInv
<1>1. Init => IInv
  BY TypeInit, TakenInit, LockInit, OnceInit, Zenon DEF IInv
<1>2. IInv /\ [Next]_vars => IInv'
  <2> SUFFICES ASSUME IInv, [Next]_vars PROVE IInv'
    OBVIOUS
  <2>1. TypeInv'
    BY TypeKept, Zenon DEF IInv
  <2> QED BY <2>1, TakenKept, LockKept, OnceKept, Zenon DEF IInv
<1> QED BY <1>1, <1>2, PTL DEF Spec

\* Every variable keeps its type.
THEOREM TypeCorrect == Spec => []TypeOK
<1>1. IInv => TypeOK
  BY DEF IInv, TypeInv
<1> QED BY <1>1, Inductive, PTL

\* Unless a push, a write or the delete of a tick failed or a process died, every
\* entry a drain has read is in the table when the drain ends, also if its lock has
\* run out.
THEOREM TakenAreWrittenCorrect == Spec => []TakenAreWritten
<1>1. IInv => TakenAreWritten
  <2> SUFFICES ASSUME IInv, NEW t \in Tickers, pc[t] \in {"late", "unlock"}, ~broken,
                      NEW e \in ToSet(seen[t])
               PROVE  times[e] > 0
    BY Zenon DEF TakenAreWritten
  <2>1. TypeOK /\ UnitsFit /\ TakenInv
    BY Zenon DEF IInv, TypeInv
  <2>2. written[t] = Len(units[t]) /\ DOMAIN units[t] = 1..Len(units[t])
    BY <2>1, UptoFits, Zenon DEF TakenInv
  <2>3. PICK i \in DOMAIN units[t] : e \in units[t][i]
    <3>1. e \in Rows(units[t])
      BY <2>1, Zenon DEF UnitsFit
    <3> QED BY <3>1, Zenon DEF Rows
  <2>4. i \in 1..written[t]
    BY <2>2, <2>3, Zenon
  <2> QED BY <2>1, <2>3, <2>4, Zenon DEF TakenInv
<1> QED BY <1>1, Inductive, PTL

\* As long as no lock has run out under its holder, nothing is written or counted twice
\* unless a process died, a push, a write or the delete of a tick failed or a retry
\* wrote a committed batch again.
THEOREM WrittenOnceCorrect == Spec => [](overruns = 0 => WrittenOnce)
<1>1. IInv => (overruns = 0 => WrittenOnce)
  BY Zenon DEF IInv, OnceInv, Undisturbed, OnceFacts, Counted, WrittenOnce
<1> QED BY <1>1, Inductive, PTL

\* Under the same conditions the counter of a live row is the number of notifications
\* that reached the table since the row was last released.
THEOREM CountersAreExactCorrect == Spec => [](overruns = 0 => CountersAreExact)
<1>1. IInv => (overruns = 0 => CountersAreExact)
  BY Zenon DEF IInv, OnceInv, Undisturbed, OnceFacts, Counted, CountersAreExact, Waiting
<1> QED BY <1>1, Inductive, PTL
=============================================================================
