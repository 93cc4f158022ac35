----------------------------- MODULE RedisLock -----------------------------
(***************************************************************************)
(* The lock of shared/redis.go: a Redis key set with SETNX and a time to   *)
(* live.  The key holds the word "locked" whoever set it, and is deleted by*)
(* whoever releases it.  holder remembers who set it; no code reads that.  *)
(***************************************************************************)
EXTENDS Naturals

CONSTANTS Free,         \* the key is not there
          MaxOverruns   \* bound on the locks that expire while they are used

VARIABLES holder,       \* [lock key]: who set it, or Free
          overruns

lockVars == <<holder, overruns>>

ASSUME OverrunAssumption == MaxOverruns \in Nat

InitLocks(Keys) == holder = [l \in Keys |-> Free] /\ overruns = 0

AcquireLock(l, w) ==
    /\ holder[l] = Free
    /\ holder' = [holder EXCEPT ![l] = w]
    /\ UNCHANGED overruns

ReleaseLock(l) ==
    /\ holder' = [holder EXCEPT ![l] = Free]
    /\ UNCHANGED overruns

\* The time to live runs out: after its holder has died or given up, or while
\* it is still at work.
ExpireLock(l, inUse) ==
    /\ holder[l] # Free
    /\ holder' = [holder EXCEPT ![l] = Free]
    /\ \/ ~inUse /\ UNCHANGED overruns
       \/ inUse /\ overruns < MaxOverruns /\ overruns' = overruns + 1
=============================================================================
