--------------------------- MODULE CoinsThrottler ---------------------------
(***************************************************************************)
(* The throttle of coins (shared/coins_throttler.go) and its early release *)
(* (ProcessTopNotifications).  A coin that no source has a price for is    *)
(* throttled for a minute; the third time in half an hour for longer, and  *)
(* a notification is saved.  Each step below is one command of Redis or    *)
(* one query, of one request among several.                                *)
(***************************************************************************)
EXTENDS Naturals

CONSTANTS
    Requests,
    Coins,
    Refused,    \* coins of RefuseChainIdMap
    Off,        \* not throttled; no coin in hand
    MaxCount,   \* CoinsMaxThrottleCount
    MaxFaults   \* bound on the errors of a behaviour

ASSUME ThrottleAssumption ==
    /\ Refused \subseteq Coins /\ Off \notin Coins
    /\ MaxCount \in Nat \ {0} /\ MaxFaults \in Nat

VARIABLES
    throttle,  \* [coin]: the time to live its key was set with, or Off
    count,     \* [coin]: the failures counted; 0 without a key
    lasting,   \* the coins whose count has no time to live
    alert,     \* [coin]: whether its alerted key is there, and with a time to live
    stage,     \* [request]: where it is in CoinsThrottle
    coin,      \* the coin it is throttling
    reached,   \* the count that it was answered
    notified,  \* the coins that SaveLog was called for
    faults

redisVars == <<throttle, count, lasting, alert>>
callVars  == <<stage, coin, reached>>
throttleVars == <<redisVars, callVars, notified, faults>>

Durations == {"1m", "3m", "30m", "24h"}
Alerts == {"none", "lasting", "expires"}
Stages == {"out", "incr", "expire", "decide", "alert", "alertttl", "clear"}

Fault == faults < MaxFaults /\ faults' = faults + 1

InitThrottle ==
    /\ throttle = [c \in Coins |-> Off] /\ count = [c \in Coins |-> 0]
    /\ lasting = {} /\ alert = [c \in Coins |-> "none"]
    /\ notified = {} /\ faults = 0
    /\ stage = [r \in Requests |-> "out"]
    /\ coin = [r \in Requests |-> Off] /\ reached = [r \in Requests |-> 0]

IsCoinsThrottled(c) == c \in Refused \/ throttle[c] # Off

\* What the notification queue (module TaskQueue) is given: not the refused coins.
SaveLog(C) == notified' = notified \cup (C \ Refused)

-----------------------------------------------------------------------------
(* Planted bugs.  Each operator below is a wrong variant of the definition *)
(* of the same parameters it is paired with in PROJECT.json; no action uses *)
(* them.                                                                   *)

\* The time to live is set with the second failure.
FirstLasts(n) == n = 2

-----------------------------------------------------------------------------
(* CoinsThrottle.                                                          *)

CoinsThrottle(r, c) ==
    /\ stage' = [stage EXCEPT ![r] = "incr"] /\ coin' = [coin EXCEPT ![r] = c]
    /\ UNCHANGED <<redisVars, reached, notified, faults>>

\* The source has answered 429.
ThrottleBusy(c) ==
    /\ throttle' = [throttle EXCEPT ![c] = "3m"]
    /\ UNCHANGED <<count, lasting, alert, callVars, notified, faults>>

IsFirst(n) == n = 1

Incr(r) ==
    LET c == coin[r] IN
    /\ stage[r] = "incr"
    /\ count' = [count EXCEPT ![c] = @ + 1]
    /\ reached' = [reached EXCEPT ![r] = count[c] + 1]
    /\ lasting' = IF count[c] = 0 THEN lasting \cup {c} ELSE lasting
    /\ stage' = [stage EXCEPT ![r] = IF IsFirst(count[c] + 1) THEN "expire" ELSE "decide"]
    /\ UNCHANGED <<throttle, alert, coin, notified, faults>>

Expire(r) ==
    /\ stage[r] = "expire"
    /\ lasting' = lasting \ {coin[r]}
    /\ stage' = [stage EXCEPT ![r] = "decide"]
    /\ UNCHANGED <<throttle, count, alert, coin, reached, notified, faults>>

ThrottleShort(r) ==
    /\ stage[r] = "decide" /\ reached[r] < MaxCount
    /\ throttle' = [throttle EXCEPT ![coin[r]] = "1m"]
    /\ stage' = [stage EXCEPT ![r] = "out"]
    /\ UNCHANGED <<count, lasting, alert, coin, reached, notified, faults>>

\* A minute if a historical price of the coin is remembered, a day for a coin
\* that is not in the table.
ThrottleLong(r, remembered, exists) ==
    /\ stage[r] = "decide" /\ reached[r] >= MaxCount
    /\ throttle' = [throttle EXCEPT ![coin[r]] =
          IF remembered THEN "1m" ELSE IF exists THEN "30m" ELSE "24h"]
    /\ stage' = [stage EXCEPT ![r] = "alert"]
    /\ UNCHANGED <<count, lasting, alert, coin, reached, notified, faults>>

\* The alerted key is counted; nobody reads it.
Alert(r) ==
    LET first == alert[coin[r]] = "none" IN
    /\ stage[r] = "alert"
    /\ alert' = [alert EXCEPT ![coin[r]] = IF first THEN "lasting" ELSE @]
    /\ stage' = [stage EXCEPT ![r] = IF first THEN "alertttl" ELSE "clear"]
    /\ UNCHANGED <<throttle, count, lasting, coin, reached, notified, faults>>

ExpireAlert(r) ==
    /\ stage[r] = "alertttl"
    /\ alert' = [alert EXCEPT ![coin[r]] = "expires"]
    /\ stage' = [stage EXCEPT ![r] = "clear"]
    /\ UNCHANGED <<throttle, count, lasting, coin, reached, notified, faults>>

\* CoinsThrottle returns true, and its caller saves a notification.
ClearCount(r) ==
    /\ stage[r] = "clear"
    /\ count' = [count EXCEPT ![coin[r]] = 0]
    /\ lasting' = lasting \ {coin[r]}
    /\ SaveLog({coin[r]})
    /\ stage' = [stage EXCEPT ![r] = "out"]
    /\ UNCHANGED <<throttle, alert, coin, reached, faults>>

\* Redis, or the query whether the coin exists, fails: the call returns, or goes
\* on without the command.  It returns true although the count is not deleted.
ThrottleFails(r) ==
    /\ Fault
    /\ \/ /\ stage[r] \in {"incr", "decide"}
          /\ stage' = [stage EXCEPT ![r] = "out"] /\ UNCHANGED notified
       \/ /\ stage[r] = "expire"
          /\ stage' = [stage EXCEPT ![r] = "decide"] /\ UNCHANGED notified
       \/ /\ stage[r] \in {"alert", "alertttl"}
          /\ stage' = [stage EXCEPT ![r] = "clear"] /\ UNCHANGED notified
       \/ /\ stage[r] = "clear"
          /\ stage' = [stage EXCEPT ![r] = "out"] /\ SaveLog({coin[r]})
    /\ UNCHANGED <<redisVars, coin, reached>>

-----------------------------------------------------------------------------
(* The keys leave Redis: by their time to live, or for a coin that has been *)
(* notified about (ProcessTopNotifications), which deletes the count, too.  *)

ThrottleEnds(c) ==
    /\ throttle[c] # Off
    /\ throttle' = [throttle EXCEPT ![c] = Off]
    /\ UNCHANGED <<count, lasting, alert, callVars, notified, faults>>

CountEnds(c) ==
    /\ count[c] > 0 /\ c \notin lasting
    /\ count' = [count EXCEPT ![c] = 0]
    /\ UNCHANGED <<throttle, lasting, alert, callVars, notified, faults>>

AlertEnds(c) ==
    /\ alert[c] = "expires"
    /\ alert' = [alert EXCEPT ![c] = "none"]
    /\ UNCHANGED <<throttle, count, lasting, callVars, notified, faults>>

Release(c) ==
    /\ c \in notified
    /\ throttle' = [throttle EXCEPT ![c] = Off]
    /\ count' = [count EXCEPT ![c] = 0]
    /\ lasting' = lasting \ {c}
    /\ notified' = notified \ {c}
    /\ UNCHANGED <<alert, callVars, faults>>

-----------------------------------------------------------------------------
ThrottleTypes ==
    /\ throttle \in [Coins -> Durations \cup {Off}]
    /\ count \in [Coins -> Nat] /\ lasting \subseteq Coins
    /\ alert \in [Coins -> Alerts]
    /\ stage \in [Requests -> Stages] /\ coin \in [Requests -> Coins \cup {Off}]
    /\ reached \in [Requests -> Nat] /\ notified \subseteq Coins \ Refused
    /\ faults \in Nat

\* A count without a time to live, which would add up failures of different days,
\* is only there until the request that created the key has set one, however
\* counts, expiries and deletions of other requests interleave with it (97-107,
\* 144); and so is an alerted key (136-141).  Unless Redis fails in between.
CountsExpire ==
    faults = 0 => \A c \in Coins :
        /\ c \in lasting => \E r \in Requests : stage[r] = "expire" /\ coin[r] = c
        /\ alert[c] = "lasting" => \E r \in Requests : stage[r] = "alertttl" /\ coin[r] = c
=============================================================================
