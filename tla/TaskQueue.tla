----------------------------- MODULE TaskQueue -----------------------------
(***************************************************************************)
(* The queues of request logs (price/repository/request_log_repository.go) *)
(* and of Slack notifications (slack_notification_repository.go), which    *)
(* share their design.  A caller puts a task on a bounded channel of its   *)
(* process or drops it; workers of the process push the entries on a Redis *)
(* list; a ticker of the scheduler drains the list into a table.  The two  *)
(* differ in what a drain does to the table and when it deletes the list;  *)
(* kind says which one a behaviour is about.  Each minute the coins with   *)
(* the most notifications of the current day are released from their       *)
(* throttle and their rows are soft-deleted.                               *)
(***************************************************************************)
EXTENDS Naturals, Sequences, FiniteSets, SequencesExt, RedisLock

CONSTANTS
    Callers,      \* calls of InsertLog or InsertNotification, one entry each
    Coins, About, \* About[c]: the coin and day the notification c is about
    TaskWorkers,  \* goroutines that push
    Tickers,      \* a StartProcessRequestLogs or StartProcessSlackNotifications
                  \* per process
    Nobody,       \* no entry in hand
    ChannelSize,  \* capacity of taskQueue
    BatchSize,    \* rows of one transaction
    LockAttempts, MaxRetries,  \* logLockRetryCount, logMaxRetries
    TopSize,      \* rows that one ProcessTopNotifications takes
    MaxFaults,    \* bound on the errors and the deaths of a behaviour
    MaxDays       \* bound on the midnights that pass

ASSUME PeopleAssumption ==
    /\ About \in [Callers -> Coins]
    /\ Nobody \notin Callers /\ Free \notin Tickers

ASSUME BoundAssumption ==
    /\ {ChannelSize, BatchSize, LockAttempts, MaxRetries, TopSize} \subseteq Nat \ {0}
    /\ {MaxFaults, MaxDays} \subseteq Nat

VARIABLES
    kind,      \* "logs" or "slack"
    calling,   \* the calls that have not returned
    channel,
    hand,      \* the task of each worker
    queue,     \* the Redis list
    \* the goroutine of each ticker
    pc, attempt,
    seen,      \* the entries its drain has read
    units,     \* the rows it writes: each a set of entries
    written,   \* how many of them are written
    \* the table
    times,     \* how often an entry was written
    counter, alive,  \* the rows of notifications; alive: not soft-deleted
    date,      \* the days of their notifications, for each the one it was given last
    top,       \* the rows ProcessTopNotifications has read
    \* the current day, and that on which each entry was made
    day, dated,
    \* history: the entries of each coin that were counted when its row was last
    \* soft-deleted; a push, a write or the delete of a tick failed or a process
    \* died; a retry wrote rows again
    released, broken, rewrote,
    faults

channelVars == <<calling, channel, hand>>
drainVars   == <<attempt, seen, units, written>>
tableVars   == <<times, counter, alive, date>>
dayVars     == <<day, dated>>
historyVars == <<released, broken, rewrote>>
vars == <<kind, channelVars, queue, pc, drainVars, tableVars, top, dayVars,
          historyVars, lockVars, faults>>

QueueLock == "lock:queue"
TickLock  == "sync_process_lock"
LockKeys  == {QueueLock, TickLock}

Draining == {"read", "early", "write", "late", "unlock"}

Goto(t, stage) == pc' = [pc EXCEPT ![t] = stage]
Fault == faults < MaxFaults /\ faults' = faults + 1

\* The entries of a coin that reached the table.
Stored(c) == {e \in Callers : About[e] = c /\ times[e] > 0}

\* Those counted on its row since it was last released.
Waiting(c) == Stored(c) \ released[c]

\* The end of the batch that is written next.
Upto(t) == IF written[t] + BatchSize < Len(units[t])
           THEN written[t] + BatchSize ELSE Len(units[t])

Init ==
    /\ kind \in {"logs", "slack"}
    /\ calling = Callers /\ channel = <<>> /\ queue = <<>>
    /\ hand = [w \in TaskWorkers |-> Nobody]
    /\ pc = [t \in Tickers |-> "idle"] /\ attempt = [t \in Tickers |-> 1]
    /\ seen = [t \in Tickers |-> <<>>] /\ units = [t \in Tickers |-> <<>>]
    /\ written = [t \in Tickers |-> 0]
    /\ times = [e \in Callers |-> 0]
    /\ counter = [c \in Coins |-> 0] /\ alive = [c \in Coins |-> FALSE]
    /\ date = [c \in Coins |-> 0] /\ day = 0 /\ dated = [e \in Callers |-> 0]
    /\ top = {} /\ released = [c \in Coins |-> {}]
    /\ broken = FALSE /\ rewrote = FALSE /\ faults = 0
    /\ InitLocks(LockKeys)

-----------------------------------------------------------------------------
(* Planted bugs.  Each operator below is a wrong variant of the definition *)
(* of the same parameters it is paired with in PROJECT.json; no action uses *)
(* them.                                                                   *)

\* A row that comes back goes on with its old counter.
CountOn(t, batch) ==
    LET new(c) == {e \in batch : About[e] = c} IN
    /\ counter' = [c \in Coins |-> counter[c] + Cardinality(new(c))]
    /\ alive' = [c \in Coins |-> alive[c] \/ new(c) # {}]
    /\ date' = [c \in Coins |-> IF new(c) = {} THEN date[c]
                                ELSE CHOOSE d \in {dated[e] : e \in new(c)} : TRUE]

\* A row that comes back keeps its date.
DateStays(t, batch) ==
    LET new(c) == {e \in batch : About[e] = c} IN
    /\ counter' = [c \in Coins |-> IF alive[c] \/ new(c) = {}
                                   THEN counter[c] + Cardinality(new(c))
                                   ELSE Cardinality(new(c))]
    /\ alive' = [c \in Coins |-> alive[c] \/ new(c) # {}]
    /\ UNCHANGED date

\* The loop over the batches stops one row early.
AfterBatchEarly(t) ==
    Goto(t, IF Upto(t) + 1 >= Len(units[t])
            THEN IF kind = "logs" THEN "late" ELSE "unlock" ELSE "write")

\* Neither the drain nor the scheduler deletes the list.
KeepList == UNCHANGED queue

-----------------------------------------------------------------------------
(* InsertLog and InsertNotification, and the workers.                      *)

\* With the channel full the entry is dropped and the caller is told nothing.
Insert(e) ==
    /\ e \in calling
    /\ calling' = calling \ {e}
    /\ channel' = IF Len(channel) < ChannelSize THEN Append(channel, e) ELSE channel
    /\ dated' = [dated EXCEPT ![e] = day]
    /\ UNCHANGED <<kind, hand, queue, pc, drainVars, tableVars, top, day,
                   historyVars, lockVars, faults>>

TakeTask(w) ==
    /\ channel # <<>> /\ hand[w] = Nobody
    /\ hand' = [hand EXCEPT ![w] = Head(channel)]
    /\ channel' = Tail(channel)
    /\ UNCHANGED <<kind, calling, queue, pc, drainVars, tableVars, top, dayVars,
                   historyVars, lockVars, faults>>

\* A failed push is logged and forgotten.
RunTask(w) ==
    /\ hand[w] # Nobody
    /\ \/ queue' = Append(queue, hand[w]) /\ UNCHANGED <<broken, faults>>
       \/ Fault /\ broken' = TRUE /\ UNCHANGED queue
    /\ hand' = [hand EXCEPT ![w] = Nobody]
    /\ UNCHANGED <<kind, calling, channel, pc, drainVars, tableVars, top, dayVars,
                   released, rewrote, lockVars>>

-----------------------------------------------------------------------------
(* The ticker and ProcessQueue.                                            *)

Tick(t) ==
    /\ pc[t] = "idle"
    /\ AcquireLock(TickLock, t)
    /\ Goto(t, "lock")
    /\ UNCHANGED <<kind, channelVars, queue, drainVars, tableVars, top, dayVars,
                   historyVars, faults>>

Lock(t) ==
    /\ pc[t] = "lock"
    /\ AcquireLock(QueueLock, t)
    /\ attempt' = [attempt EXCEPT ![t] = 1]
    /\ Goto(t, "read")
    /\ UNCHANGED <<kind, channelVars, queue, seen, units, written, tableVars, top,
                   dayVars, historyVars, faults>>

\* The log queue returns an error after the last attempt, the other one none;
\* the ticker goes on the same way.
LockTaken(t) ==
    /\ pc[t] = "lock" /\ holder[QueueLock] # Free
    /\ IF attempt[t] < LockAttempts
       THEN attempt' = [attempt EXCEPT ![t] = @ + 1] /\ UNCHANGED pc
       ELSE attempt' = [attempt EXCEPT ![t] = 1] /\ Goto(t, "tickdel")
    /\ UNCHANGED <<kind, channelVars, queue, seen, units, written, tableVars, top,
                   dayVars, historyVars, lockVars, faults>>

\* A log is a row; the notifications of a coin are one, their counters added up,
\* and come out of a map.
Units(q) ==
    IF kind = "logs" THEN {[i \in DOMAIN q |-> {q[i]}]}
    ELSE SetToSeqs({{e \in ToSet(q) : About[e] = c} : c \in {About[f] : f \in ToSet(q)}})

ReadQueue(t) ==
    /\ pc[t] = "read"
    /\ seen' = [seen EXCEPT ![t] = queue]
    /\ \E u \in Units(queue) : units' = [units EXCEPT ![t] = u]
    /\ written' = [written EXCEPT ![t] = 0]
    /\ Goto(t, IF queue = <<>> THEN "unlock"
               ELSE IF kind = "logs" THEN "write" ELSE "early")
    /\ UNCHANGED <<kind, channelVars, queue, attempt, tableVars, top, dayVars,
                   historyVars, lockVars, faults>>

\* After a failed LRANGE the drain returns, and the ticker deletes the list that
\* nobody has read.
ReadFails(t) ==
    /\ Fault /\ pc[t] = "read"
    /\ Goto(t, "unlock")
    /\ UNCHANGED <<kind, channelVars, queue, drainVars, tableVars, top, dayVars,
                   historyVars, lockVars>>

DropList == queue' = <<>>

\* The list is deleted with whatever it holds by now: by the drain of the
\* notifications as soon as it has read it, by the drain of the logs in the end,
\* and again by the ticker, also after an error.  A failed DEL goes unnoticed; the
\* ticker's makes up for the drain's.
DeleteList(t) ==
    /\ pc[t] \in {"early", "late", "tickdel"}
    /\ \/ DropList /\ UNCHANGED <<broken, faults>>
       \/ /\ Fault /\ UNCHANGED queue
          /\ broken' = (broken \/ pc[t] = "tickdel")
    /\ Goto(t, CASE pc[t] = "early" -> "write" [] pc[t] = "late" -> "unlock"
                 [] pc[t] = "tickdel" -> "untick")
    /\ UNCHANGED <<kind, channelVars, drainVars, tableVars, top, dayVars, released,
                   rewrote, lockVars>>

\* The notification that comes last in a list stands for all of its coin.
LastAbout(q, c) ==
    q[CHOOSE i \in DOMAIN q :
        About[q[i]] = c /\ \A j \in DOMAIN q : About[q[j]] = c => j <= i]

\* The counter of a row that was soft-deleted starts again.
Count(t, batch) ==
    LET new(c) == Cardinality({e \in batch : About[e] = c}) IN
    /\ counter' = [c \in Coins |-> IF alive[c] \/ new(c) = 0 THEN counter[c] + new(c)
                                   ELSE new(c)]
    /\ alive' = [c \in Coins |-> alive[c] \/ new(c) > 0]
    /\ date' = [c \in Coins |-> IF new(c) = 0 THEN date[c]
                                ELSE dated[LastAbout(seen[t], c)]]

AfterBatch(t) ==
    Goto(t, IF Upto(t) = Len(units[t])
            THEN IF kind = "logs" THEN "late" ELSE "unlock" ELSE "write")

WriteBatch(t) ==
    LET batch == UNION {units[t][i] : i \in (written[t] + 1)..Upto(t)} IN
    /\ pc[t] = "write"
    /\ times' = [e \in Callers |-> times[e] + IF e \in batch THEN 1 ELSE 0]
    /\ IF kind = "slack" THEN Count(t, batch) ELSE UNCHANGED <<counter, alive, date>>
    /\ written' = [written EXCEPT ![t] = Upto(t)]
    /\ AfterBatch(t)
    /\ UNCHANGED <<kind, channelVars, queue, attempt, seen, units, top, dayVars,
                   historyVars, lockVars, faults>>

\* After a deadlock all batches are written again, also those that are committed;
\* after the last one, and after any other error, the drain ends.
WriteFails(t) ==
    /\ Fault /\ pc[t] = "write"
    /\ \/ /\ attempt[t] < MaxRetries
          /\ attempt' = [attempt EXCEPT ![t] = @ + 1]
          /\ written' = [written EXCEPT ![t] = 0]
          /\ rewrote' = (rewrote \/ written[t] > 0)
          /\ UNCHANGED <<pc, broken>>
       \/ /\ broken' = TRUE
          /\ Goto(t, IF kind = "logs" THEN "late" ELSE "unlock")
          /\ UNCHANGED <<attempt, written, rewrote>>
    /\ UNCHANGED <<kind, channelVars, queue, seen, units, tableVars, top, dayVars,
                   released, lockVars>>

Unlock(t) ==
    /\ pc[t] = "unlock"
    /\ ReleaseLock(QueueLock)
    /\ attempt' = [attempt EXCEPT ![t] = 1] /\ written' = [written EXCEPT ![t] = 0]
    /\ seen' = [seen EXCEPT ![t] = <<>>] /\ units' = [units EXCEPT ![t] = <<>>]
    /\ Goto(t, "tickdel")
    /\ UNCHANGED <<kind, channelVars, queue, tableVars, top, dayVars, historyVars,
                   faults>>

EndTick(t) ==
    /\ pc[t] = "untick"
    /\ ReleaseLock(TickLock)
    /\ Goto(t, "idle")
    /\ UNCHANGED <<kind, channelVars, queue, drainVars, tableVars, top, dayVars,
                   historyVars, faults>>

-----------------------------------------------------------------------------
(* ProcessTopNotifications, under a lock of its own; module CoinsThrottler  *)
(* has the keys it deletes.                                                *)

\* The live rows whose date is after the last midnight.
TopSets ==
    LET rows == {c \in Coins : alive[c] /\ date[c] = day} IN
    {T \in SUBSET rows :
        /\ Cardinality(T) = IF Cardinality(rows) < TopSize THEN Cardinality(rows)
                            ELSE TopSize
        /\ \A c \in T, d \in rows \ T : counter[c] >= counter[d]}

ReadTop ==
    /\ kind = "slack" /\ top = {}
    /\ top' \in TopSets /\ top' # {}
    /\ UNCHANGED <<kind, channelVars, queue, pc, drainVars, tableVars, dayVars,
                   historyVars, lockVars, faults>>

\* What was counted since the rows were read goes with them.
ReleaseTop ==
    /\ \E c \in top :
          /\ top' = top \ {c}
          /\ alive' = [alive EXCEPT ![c] = FALSE]
          /\ released' = [released EXCEPT ![c] = Stored(c)]
    /\ UNCHANGED <<kind, channelVars, queue, pc, drainVars, times, counter, date,
                   dayVars, broken, rewrote, lockVars, faults>>

\* The delete of a row fails, or the process dies with the rows it has read.
ReleaseFails ==
    /\ Fault /\ \E c \in top : top' \in {top \ {c}, {}}
    /\ UNCHANGED <<kind, channelVars, queue, pc, drainVars, tableVars, dayVars,
                   historyVars, lockVars>>

\* Only the notifications have a date that is asked for.
Midnight ==
    /\ kind = "slack" /\ day < MaxDays
    /\ day' = day + 1
    /\ UNCHANGED <<kind, channelVars, queue, pc, drainVars, tableVars, top, dated,
                   historyVars, lockVars, faults>>

-----------------------------------------------------------------------------
\* The process of a ticker dies, and comes back.  The locks stay.
Crash(t) ==
    /\ Fault /\ pc[t] # "idle"
    /\ Goto(t, "idle")
    /\ attempt' = [attempt EXCEPT ![t] = 1] /\ written' = [written EXCEPT ![t] = 0]
    /\ seen' = [seen EXCEPT ![t] = <<>>] /\ units' = [units EXCEPT ![t] = <<>>]
    /\ broken' = TRUE
    /\ UNCHANGED <<kind, channelVars, queue, tableVars, top, dayVars, released,
                   rewrote, lockVars>>

InUse(l) ==
    \E t \in Tickers : holder[l] = t /\ (IF l = QueueLock THEN pc[t] \in Draining
                                       ELSE pc[t] # "idle")

Expire(l) ==
    /\ ExpireLock(l, InUse(l))
    /\ UNCHANGED <<kind, channelVars, queue, pc, drainVars, tableVars, top, dayVars,
                   historyVars, faults>>

-----------------------------------------------------------------------------
Work(t) ==
    \/ Lock(t) \/ LockTaken(t) \/ ReadQueue(t) \/ ReadFails(t) \/ DeleteList(t)
    \/ WriteBatch(t) \/ WriteFails(t) \/ Unlock(t) \/ EndTick(t)

Next ==
    \/ \E e \in Callers : Insert(e)
    \/ \E w \in TaskWorkers : TakeTask(w) \/ RunTask(w)
    \/ \E t \in Tickers : Tick(t) \/ Work(t) \/ Crash(t)
    \/ ReadTop \/ ReleaseTop \/ ReleaseFails \/ Midnight
    \/ \E l \in LockKeys : Expire(l)

Spec == Init /\ [][Next]_vars

\* The tickers tick, and what they started goes on.
FairSpec == Spec /\ WF_vars(ReadTop) /\ WF_vars(ReleaseTop)

-----------------------------------------------------------------------------
\* Every variable keeps its type.
TypeOK ==
    /\ kind \in {"logs", "slack"} /\ calling \subseteq Callers
    /\ channel \in Seq(Callers) /\ Len(channel) <= ChannelSize
    /\ hand \in [TaskWorkers -> Callers \cup {Nobody}]
    /\ queue \in Seq(Callers)
    /\ pc \in [Tickers -> Draining \cup {"idle", "lock", "tickdel", "untick"}]
    /\ attempt \in [Tickers -> Nat] /\ seen \in [Tickers -> Seq(Callers)]
    /\ units \in [Tickers -> Seq(SUBSET Callers)] /\ written \in [Tickers -> Nat]
    /\ times \in [Callers -> Nat] /\ counter \in [Coins -> Nat]
    /\ alive \in [Coins -> BOOLEAN] /\ date \in [Coins -> Nat]
    /\ day \in Nat /\ dated \in [Callers -> Nat] /\ top \subseteq Coins
    /\ released \in [Coins -> SUBSET Callers]
    /\ broken \in BOOLEAN /\ rewrote \in BOOLEAN /\ faults \in Nat
    /\ holder \in [LockKeys -> Tickers \cup {Free}] /\ overruns \in Nat

\* Unless a push, a write or the delete of a tick failed or a process died, every
\* entry a drain has read is in the table when the drain ends, whatever the order
\* of deletion and write and however many batches there are.  Of what a tick
\* deletes without having read it, the code promises nothing.
TakenAreWritten ==
    \A t \in Tickers :
        pc[t] \in {"late", "unlock"} /\ ~broken => \A e \in ToSet(seen[t]) : times[e] > 0

\* No log is in the table twice, and no notification is counted twice, as long
\* as no process dies and no retry after a deadlock writes a batch again that
\* was committed: neither a later tick nor another process reads an entry again,
\* also when the drain's own delete fails and the ticker's has to make up for it.
WrittenOnce == ~broken /\ ~rewrote => \A e \in Callers : times[e] <= 1

\* The counter of a live row is the number of notifications about the coin that
\* reached the table since the row was last released, through the merging of a
\* drain's notifications and the upsert's CASE
\* (slack_notification_repository.go:137-148, 187).
CountersAreExact ==
    kind = "slack" /\ ~broken /\ ~rewrote =>
        \A c \in Coins : alive[c] =>
            counter[c] = Cardinality(Waiting(c))

\* A coin all of whose waiting notifications are of the current day is released,
\* unless midnight comes first, also if its row is an old one that was released
\* on another day (the upsert has to give it its new date, 189), and although a
\* tick takes only the rows with the highest counters (211-215): released rows
\* make way, once the others are not notified about any more.
TodaysAreReleased ==
    \A c \in Coins :
        alive[c] /\ Waiting(c) # {} /\ (\A e \in Waiting(c) : dated[e] = day)
            ~> ~alive[c] \/ \E e \in Waiting(c) : dated[e] # day
=============================================================================
