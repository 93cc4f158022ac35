------------------------ MODULE PriceSources_proofs ------------------------
(***************************************************************************)
(* Proofs about PriceSources and CoinsThrottler for any number of requests *)
(* and coins, any associations and rows, and any prohibited sources.       *)
(***************************************************************************)
EXTENDS PriceSources, SequenceTheorems, TLAPS

-----------------------------------------------------------------------------
(* The plan of a batch: three designated queries, then the default ones.   *)

PlanShape ==
    /\ Defaults \in Seq(Sources) /\ Len(Defaults) \in {3, 5}
    /\ Finished = 4 + Len(Defaults) /\ Len(Plan) = 3 + Len(Defaults)
    /\ Plan[1] = [kind |-> "designated", source |-> "coingecko"]
    /\ Plan[2] = [kind |-> "designated", source |-> "geckoterminal"]
    /\ Plan[3] = [kind |-> "designated", source |-> "defillama"]
    /\ \A i \in 1..Len(Defaults) :
          Plan[3 + i] = [kind |-> "default", source |-> Defaults[i]]

LEMMA DefaultsAre == mode \in Modes => PlanShape
<1> SUFFICES ASSUME mode \in Modes
             PROVE  PlanShape
  OBVIOUS
<1> DEFINE query(kind, s) == [kind |-> kind, source |-> s]
           first == <<query("designated", "coingecko"), query("designated", "geckoterminal"),
                      query("designated", "defillama")>>
           rest == [i \in DOMAIN Defaults |-> query("default", Defaults[i])]
           Queries == [kind : {"designated", "default"}, source : Sources]
<1>1. Defaults \in Seq(Sources) /\ Len(Defaults) \in {3, 5}
  <2>1. CASE mode = "current"
    <3>1. Defaults = <<"coingecko", "defillama", "geckoterminal", "coinGeckoOnChain",
                       "dodoexRoute">>
      BY <2>1 DEF Defaults
    <3> QED BY <3>1, SMT DEF Sources
  <2>2. CASE mode # "current"
    <3>1. Defaults = <<"coingecko", "defillama", "geckoterminal">>
      BY <2>2 DEF Defaults
    <3> QED BY <3>1, SMT DEF Sources
  <2> QED BY <2>1, <2>2
<1>2. Plan = first \o rest
  BY DEF Plan
<1>3. first \in Seq(Queries) /\ Len(first) = 3
  BY SMT DEF Sources
<1>4. rest \in Seq(Queries) /\ Len(rest) = Len(Defaults)
  <2>1. DOMAIN Defaults = 1..Len(Defaults) /\ Len(Defaults) \in Nat
    BY <1>1, SMT
  <2>2. \A i \in 1..Len(Defaults) : query("default", Defaults[i]) \in Queries
    BY <1>1, SMT
  <2>3. rest \in [1..Len(Defaults) -> Queries]
    BY <2>1, <2>2, SMT
  <2> HIDE DEF rest, Queries
  <2> QED BY <2>1, <2>3, SeqDef, SMT
<1>5. /\ Len(first \o rest) = Len(first) + Len(rest)
      /\ \A i \in 1..Len(first) + Len(rest) :
            (first \o rest)[i] = IF i <= Len(first) THEN first[i] ELSE rest[i - Len(first)]
  BY <1>3, <1>4, ConcatProperties
<1>6. Len(Plan) = 3 + Len(Defaults) /\ Finished = 4 + Len(Defaults)
  BY <1>1, <1>2, <1>3, <1>4, <1>5, SMT DEF Finished
<1>7. Plan[1] = first[1] /\ Plan[2] = first[2] /\ Plan[3] = first[3]
  BY <1>1, <1>2, <1>3, <1>4, <1>5, SMT
<1>8. \A i \in 1..Len(Defaults) : Plan[3 + i] = rest[i]
  BY <1>1, <1>2, <1>3, <1>4, <1>5, SMT
<1>9. \A i \in 1..Len(Defaults) : rest[i] = query("default", Defaults[i])
  BY <1>1, SMT
<1> HIDE DEF rest
<1>10. \A i \in 1..Len(Defaults) :
          Plan[3 + i] = [kind |-> "default", source |-> Defaults[i]]
  BY <1>8, <1>9
<1>11. /\ Plan[1] = [kind |-> "designated", source |-> "coingecko"]
       /\ Plan[2] = [kind |-> "designated", source |-> "geckoterminal"]
       /\ Plan[3] = [kind |-> "designated", source |-> "defillama"]
  BY <1>7, SMT
<1> QED BY <1>1, <1>6, <1>10, <1>11 DEF PlanShape

\* A query is a default one, of a source of its own, or the only designated one of
\* its source.
LEMMA PlanIs ==
    ASSUME mode \in Modes
    PROVE  /\ Len(Plan) \in {6, 8} /\ Finished = Len(Plan) + 1
           /\ \A i \in 1..Len(Plan) :
                 /\ Plan[i].source \in Sources
                 /\ Plan[i].kind = IF i <= 3 THEN "designated" ELSE "default"
           /\ \A i, k \in 1..3 : Plan[i].source = Plan[k].source => i = k
           /\ \A i \in DOMAIN Defaults : \E k \in 4..Len(Plan) : Plan[k].source = Defaults[i]
<1>0. PlanShape
  BY DefaultsAre
<1>a. Len(Defaults) \in {3, 5} /\ Finished = 4 + Len(Defaults) /\ Len(Plan) = 3 + Len(Defaults)
  BY <1>0, Zenon DEF PlanShape
<1>1. Len(Plan) \in {6, 8} /\ Finished = Len(Plan) + 1
  <2> DEFINE d == Len(Defaults)
             p == Len(Plan)
  <2>1. d \in {3, 5} /\ Finished = 4 + d /\ p = 3 + d
    BY <1>a
  <2> HIDE DEF d, p
  <2>2. p \in {6, 8} /\ Finished = p + 1
    BY <2>1, SMT
  <2> QED BY <2>2 DEF p
<1> USE <1>0 DEF PlanShape
<1>2. ASSUME NEW i \in 1..Len(Plan)
      PROVE  /\ Plan[i].source \in Sources
             /\ Plan[i].kind = IF i <= 3 THEN "designated" ELSE "default"
  <2>1. CASE i <= 3
    <3>1. i = 1 \/ i = 2 \/ i = 3
      BY <1>1, <2>1, SMT
    <3> QED BY <2>1, <3>1, SMT DEF Sources
  <2>2. CASE i > 3
    <3>1. i - 3 \in 1..Len(Defaults) /\ 3 + (i - 3) = i
      BY <1>1, <2>2, SMT
    <3>2. Plan[3 + (i - 3)] = [kind |-> "default", source |-> Defaults[i - 3]]
      BY <3>1, Zenon
    <3>3. Defaults[i - 3] \in Sources
      BY <3>1, SMT
    <3> QED BY <2>2, <3>2, <3>3, SMT
  <2> QED BY <1>1, <2>1, <2>2, SMT
<1>3. \A i, k \in 1..3 : Plan[i].source = Plan[k].source => i = k
  <2>1. \A i \in 1..3 : i = 1 \/ i = 2 \/ i = 3
    BY SMT
  <2>2. Plan[1].source = "coingecko" /\ Plan[2].source = "geckoterminal"
        /\ Plan[3].source = "defillama"
    BY SMT
  <2> QED BY <2>1, <2>2, SMT
<1>4. ASSUME NEW i \in DOMAIN Defaults
      PROVE  \E k \in 4..Len(Plan) : Plan[k].source = Defaults[i]
  <2>1. i \in 1..Len(Defaults) /\ 3 + i \in 4..Len(Plan)
    BY SMT
  <2>2. Plan[3 + i] = [kind |-> "default", source |-> Defaults[i]]
    BY <2>1, Zenon
  <2>3. Plan[3 + i].source = Defaults[i]
    BY <2>2
  <2> QED BY <2>1, <2>3
<1> QED BY <1>1, <1>2, <1>3, <1>4

LEMMA FinishedIs == mode \in Modes => Finished \in {7, 9}
<1> SUFFICES ASSUME mode \in Modes
             PROVE  Finished \in {7, 9}
  OBVIOUS
<1> DEFINE p == Len(Plan)
<1>1. p \in {6, 8} /\ Finished = p + 1
  BY PlanIs
<1> HIDE DEF p
<1> QED BY <1>1, SMT

-----------------------------------------------------------------------------
(* The invariant.                                                          *)

\* A request that throttles a coin has one; an unfinished count is in hand.
ThrottleInv ==
    /\ ThrottleTypes /\ CountsExpire
    /\ \A r \in Requests : stage[r] # "out" => coin[r] \in Coins

\* A single request has its coin, the end of an association, while it asks the
\* sources, and ends with its price.
SinglesFit ==
    mode = "single" => \A r \in Requests :
        /\ todo[r] = {}
        /\ step[r] = 0 => stage[r] = "out"
        /\ step[r] \in 1..Finished => coin[r] \in Coins /\ ReturnOf[coin[r]] = coin[r]
        /\ step[r] <= Finished => \A c \in Coins : ~Priced(r, c)

\* Prices are of the coin at the end of the association; none is there at first.
Own ==
    \A r \in Requests : \A c \in Coins :
        Priced(r, c) => step[r] # 0 /\ result[r][c].of = ReturnOf[c]

\* A coin that has a price is in no set that is still to be queried.
FoundLeave ==
    mode # "single" => \A r \in Requests : \A c \in Asks[r] :
        Alone(r, c) /\ Priced(r, c) =>
            /\ \A s \in Sources : c \notin left[r][s]
            /\ \A i \in 1..3 : step[r] <= i => c \notin DesignatedSet(r, Plan[i].source)

\* A coin without a price stays in its sets, and was asked for where these have been
\* queried.
OthersStay ==
    mode # "single" /\ faults = 0 => \A r \in Requests : \A c \in Asks[r] :
        step[r] # 0 /\ result[r][c] = NoEntry =>
            /\ \A s \in Sources : c \in DefaultSet(r, s) => c \in left[r][s]
            /\ \A i \in 4..Len(Plan) : i < step[r] /\ c \in DefaultSet(r, Plan[i].source) =>
                  Plan[i].source \in Prohibited \cup asked[r][c]

RequestTypes ==
    /\ mode \in Modes /\ exclude \in BOOLEAN /\ row \in [Returned -> Rows]
    /\ step \in [Requests -> 0..(Finished + 1)]
    /\ left \in [Requests -> [Sources -> SUBSET Coins]]
    /\ \A r \in Requests : \A s \in Sources : left[r][s] \subseteq Asks[r]
    /\ result \in [Requests -> [Coins -> Entries]]
    /\ asked \in [Requests -> [Coins -> SUBSET Sources]]
    /\ todo \in [Requests -> SUBSET Coins]

RequestInv == RequestTypes /\ Own /\ FoundLeave /\ OthersStay
IInv == ThrottleInv /\ SinglesFit /\ RequestInv

\* What the constants are.
LEMMA Facts ==
    /\ \A r \in Requests : Asks[r] \subseteq Coins
    /\ \A c \in Coins : ReturnOf[c] \in Coins /\ ReturnOf[ReturnOf[c]] = ReturnOf[c]
    /\ Off \notin Coins /\ MaxFaults \in Nat
BY SourceAssumption, ThrottleAssumption, SMT

LEMMA DefaultSets ==
    ASSUME NEW r \in Requests, NEW s \in Sources
    PROVE  DefaultSet(r, s) \subseteq Asks[r] /\ DefaultSet(r, s) \in SUBSET Coins
BY Facts, SMT DEF DefaultSet, Sources

\* What does not change in a behaviour.
LEMMA Fixed ==
    ASSUME UNCHANGED <<mode, exclude, row>>
    PROVE  /\ mode' = mode /\ exclude' = exclude /\ row' = row
           /\ Plan' = Plan /\ Defaults' = Defaults /\ Finished' = Finished
           /\ \A r, s : DefaultSet(r, s)' = DefaultSet(r, s)
           /\ \A r, s : DesignatedSet(r, s)' = DesignatedSet(r, s)
<1>1. mode' = mode /\ exclude' = exclude /\ row' = row
  OBVIOUS
<1>2. Defaults' = Defaults
  BY <1>1 DEF Defaults
<1>3. Plan' = Plan /\ Finished' = Finished
  BY <1>2 DEF Plan, Finished
<1>4. \A r, s : DefaultSet(r, s)' = DefaultSet(r, s)
  BY <1>1 DEF DefaultSet
<1>5. \A r, s : DesignatedSet(r, s)' = DesignatedSet(r, s)
  BY <1>1 DEF DesignatedSet, Designated
<1> QED BY <1>1, <1>2, <1>3, <1>4, <1>5

-----------------------------------------------------------------------------
(* The throttle.                                                           *)

\* A request begins to throttle a coin.
LEMMA CoinsThrottleKeeps ==
    ASSUME ThrottleInv, NEW r \in Requests, NEW c \in Coins, stage[r] = "out",
           CoinsThrottle(r, c)
    PROVE  ThrottleInv'
<1> USE DEF ThrottleInv
<1>1. /\ stage' = [stage EXCEPT ![r] = "incr"] /\ coin' = [coin EXCEPT ![r] = c]
      /\ throttle' = throttle /\ count' = count /\ lasting' = lasting /\ alert' = alert
      /\ reached' = reached /\ notified' = notified /\ faults' = faults
  BY DEF CoinsThrottle, redisVars
<1>2. ThrottleTypes'
  BY <1>1, SMT DEF ThrottleTypes, Stages
<1>3. CountsExpire'
  BY <1>1, SMT DEF CountsExpire, ThrottleTypes
<1>4. \A q \in Requests : stage'[q] # "out" => coin'[q] \in Coins
  BY <1>1, SMT DEF ThrottleTypes
<1> QED BY <1>2, <1>3, <1>4

\* A request that does not throttle takes a coin, or notes some.
LEMMA TakesCoinKeeps ==
    ASSUME ThrottleInv, NEW r \in Requests, NEW c \in Coins, stage[r] = "out",
           coin' = coin \/ coin' = [coin EXCEPT ![r] = c],
           NEW C \in SUBSET Coins, notified' = notified \/ notified' = notified \cup (C \ Refused),
           UNCHANGED <<redisVars, stage, reached>>, faults' \in {faults, faults + 1}
    PROVE  ThrottleInv'
<1> USE DEF ThrottleInv
<1>1. /\ throttle' = throttle /\ count' = count /\ lasting' = lasting /\ alert' = alert
      /\ stage' = stage /\ reached' = reached
  BY DEF redisVars
<1>2. faults \in Nat /\ faults' \in Nat /\ (faults' = 0 => faults = 0)
  BY SMT DEF ThrottleTypes
<1>3. ThrottleTypes'
  BY <1>1, <1>2, SMT DEF ThrottleTypes
<1>4. CountsExpire'
  BY <1>1, <1>2, SMT DEF CountsExpire, ThrottleTypes
<1>5. \A q \in Requests : stage'[q] # "out" => coin'[q] \in Coins
  BY <1>1, SMT DEF ThrottleTypes
<1> QED BY <1>3, <1>4, <1>5

\* Nothing of the throttle changes but what is noted, and errors.
LEMMA NotesKeep ==
    ASSUME ThrottleInv, UNCHANGED <<redisVars, callVars>>, faults' \in {faults, faults + 1},
           NEW C \in SUBSET Coins, notified' = notified \/ notified' = notified \cup (C \ Refused)
    PROVE  ThrottleInv'
<1> USE DEF ThrottleInv
<1>1. /\ throttle' = throttle /\ count' = count /\ lasting' = lasting /\ stage' = stage
      /\ alert' = alert /\ reached' = reached /\ coin' = coin
  BY DEF redisVars, callVars
<1>2. faults \in Nat /\ faults' \in Nat /\ (faults' = 0 => faults = 0)
  BY SMT DEF ThrottleTypes
<1>3. ThrottleTypes'
  BY <1>1, <1>2, SMT DEF ThrottleTypes
<1>4. CountsExpire'
  BY <1>1, <1>2, SMT DEF CountsExpire
<1> QED BY <1>1, <1>3, <1>4

\* The call in hand goes on.
LEMMA ThrottleKeeps ==
    ASSUME ThrottleInv, NEW r \in Requests,
           \/ Incr(r) \/ Expire(r) \/ ThrottleShort(r) \/ Alert(r) \/ ExpireAlert(r)
           \/ ClearCount(r) \/ ThrottleFails(r)
           \/ \E remembered, exists \in BOOLEAN : ThrottleLong(r, remembered, exists)
    PROVE  ThrottleInv' /\ coin' = coin /\ faults' \in {faults, faults + 1}
           /\ stage[r] # "out" /\ \A q \in Requests : q # r => stage'[q] = stage[q]
<1> USE DEF ThrottleInv
<1>1. CASE Incr(r)
  <2>1. /\ stage[r] = "incr" /\ coin[r] \in Coins /\ count[coin[r]] \in Nat
        /\ count' = [count EXCEPT ![coin[r]] = count[coin[r]] + 1]
        /\ reached' = [reached EXCEPT ![r] = count[coin[r]] + 1]
        /\ lasting' = IF count[coin[r]] = 0 THEN lasting \cup {coin[r]} ELSE lasting
        /\ stage' = [stage EXCEPT ![r] = IF count[coin[r]] + 1 = 1 THEN "expire" ELSE "decide"]
        /\ throttle' = throttle /\ alert' = alert /\ coin' = coin /\ notified' = notified /\ faults' = faults
    BY <1>1, SMT DEF Incr, IsFirst, ThrottleTypes
  <2>2. stage'[r] \in {"expire", "decide"} /\ stage' \in [Requests -> Stages]
        /\ (count[coin[r]] = 0 => stage'[r] = "expire")
    BY <2>1, SMT DEF ThrottleTypes, Stages
  <2>3. ThrottleTypes'
    BY <2>1, <2>2, SMT DEF ThrottleTypes
  <2>4. CountsExpire'
    BY <2>1, <2>2, SMT DEF CountsExpire, ThrottleTypes
  <2> QED BY <2>1, <2>3, <2>4, SMT DEF ThrottleTypes
<1>2. CASE Expire(r)
  <2>1. /\ stage[r] = "expire" /\ lasting' = lasting \ {coin[r]}
        /\ stage' = [stage EXCEPT ![r] = "decide"] /\ throttle' = throttle /\ count' = count
        /\ alert' = alert /\ coin' = coin /\ reached' = reached /\ notified' = notified /\ faults' = faults
    BY <1>2 DEF Expire
  <2>2. ThrottleTypes'
    BY <2>1, SMT DEF ThrottleTypes, Stages
  <2>3. CountsExpire'
    BY <2>1, SMT DEF CountsExpire, ThrottleTypes
  <2> QED BY <2>1, <2>2, <2>3, SMT DEF ThrottleTypes
<1>3. CASE ThrottleShort(r)
  <2>1. /\ stage[r] = "decide" /\ coin[r] \in Coins
        /\ throttle' = [throttle EXCEPT ![coin[r]] = "1m"]
        /\ stage' = [stage EXCEPT ![r] = "out"] /\ lasting' = lasting /\ count' = count
        /\ alert' = alert /\ coin' = coin /\ reached' = reached /\ notified' = notified /\ faults' = faults
    BY <1>3, SMT DEF ThrottleShort
  <2>2. ThrottleTypes'
    BY <2>1, SMT DEF ThrottleTypes, Stages, Durations
  <2>3. CountsExpire'
    BY <2>1, SMT DEF CountsExpire, ThrottleTypes
  <2> QED BY <2>1, <2>2, <2>3, SMT DEF ThrottleTypes
<1>4. CASE ClearCount(r)
  <2>1. /\ stage[r] = "clear" /\ coin[r] \in Coins
        /\ count' = [count EXCEPT ![coin[r]] = 0] /\ lasting' = lasting \ {coin[r]}
        /\ notified' = notified \cup ({coin[r]} \ Refused)
        /\ stage' = [stage EXCEPT ![r] = "out"] /\ throttle' = throttle
        /\ alert' = alert /\ coin' = coin /\ reached' = reached /\ faults' = faults
    BY <1>4, SMT DEF ClearCount, SaveLog
  <2>2. ThrottleTypes'
    BY <2>1, SMT DEF ThrottleTypes, Stages
  <2>3. CountsExpire'
    BY <2>1, SMT DEF CountsExpire, ThrottleTypes
  <2> QED BY <2>1, <2>2, <2>3, SMT DEF ThrottleTypes
<1>5. CASE ThrottleFails(r)
  <2>1. PICK t \in {"decide", "clear", "out"} : stage' = [stage EXCEPT ![r] = t]
    BY <1>5 DEF ThrottleFails
  <2>2. /\ stage[r] \in Stages \ {"out"} /\ faults' = faults + 1 /\ faults \in Nat
        /\ throttle' = throttle /\ count' = count /\ lasting' = lasting /\ alert' = alert
        /\ coin' = coin /\ reached' = reached
    BY <1>5, SMT DEF ThrottleFails, Fault, redisVars, ThrottleTypes, Stages
  <2>3. notified' = notified \/ notified' = notified \cup ({coin[r]} \ Refused)
    BY <1>5 DEF ThrottleFails, SaveLog
  <2>4. coin[r] \in Coins
    BY <2>2, SMT
  <2>5. notified' \subseteq Coins \ Refused
    BY <2>3, <2>4 DEF ThrottleTypes
  <2>6. ThrottleTypes'
    BY <2>1, <2>2, <2>5, SMT DEF ThrottleTypes, Stages
  <2>7. CountsExpire'
    BY <2>2, SMT DEF CountsExpire
  <2> QED BY <2>1, <2>2, <2>6, <2>7, SMT DEF ThrottleTypes
<1>6. ASSUME NEW remembered \in BOOLEAN, NEW exists \in BOOLEAN,
             ThrottleLong(r, remembered, exists)
      PROVE  ThrottleInv' /\ coin' = coin /\ faults' \in {faults, faults + 1}
             /\ stage[r] # "out" /\ \A q \in Requests : q # r => stage'[q] = stage[q]
  <2>1. PICK d \in Durations : throttle' = [throttle EXCEPT ![coin[r]] = d]
    <3> DEFINE u == IF remembered THEN "1m" ELSE IF exists THEN "30m" ELSE "24h"
    <3>1. u \in Durations
      BY DEF Durations
    <3>2. throttle' = [throttle EXCEPT ![coin[r]] = u]
      BY <1>6 DEF ThrottleLong
    <3> HIDE DEF u
    <3> QED BY <3>1, <3>2, Zenon
  <2>2. /\ stage[r] = "decide" /\ coin[r] \in Coins
        /\ stage' = [stage EXCEPT ![r] = "alert"] /\ lasting' = lasting /\ count' = count
        /\ alert' = alert /\ coin' = coin /\ reached' = reached /\ notified' = notified /\ faults' = faults
    BY <1>6, SMT DEF ThrottleLong
  <2>3. ThrottleTypes'
    BY <2>1, <2>2, SMT DEF ThrottleTypes, Stages
  <2>4. CountsExpire'
    BY <2>2, SMT DEF CountsExpire, ThrottleTypes
  <2> QED BY <2>2, <2>3, <2>4, SMT DEF ThrottleTypes
<1>7. CASE Alert(r)
  <2>1. /\ stage[r] = "alert" /\ coin[r] \in Coins
        /\ throttle' = throttle /\ count' = count /\ lasting' = lasting
        /\ coin' = coin /\ reached' = reached /\ notified' = notified /\ faults' = faults
    BY <1>7, SMT DEF Alert
  <2>2. CASE alert[coin[r]] = "none"
    <3>1. /\ alert' = [alert EXCEPT ![coin[r]] = "lasting"]
          /\ stage' = [stage EXCEPT ![r] = "alertttl"]
      BY <1>7, <2>2 DEF Alert
    <3>2. ThrottleTypes'
      BY <2>1, <3>1, SMT DEF ThrottleTypes, Stages, Alerts
    <3>3. CountsExpire'
      BY <2>1, <3>1, SMT DEF CountsExpire, ThrottleTypes
    <3> QED BY <2>1, <3>1, <3>2, <3>3, SMT DEF ThrottleTypes
  <2>3. CASE alert[coin[r]] # "none"
    <3>1. alert' = alert /\ stage' = [stage EXCEPT ![r] = "clear"]
      <4>1. alert' = [alert EXCEPT ![coin[r]] = alert[coin[r]]]
            /\ stage' = [stage EXCEPT ![r] = "clear"]
        BY <1>7, <2>3 DEF Alert
      <4> QED BY <2>1, <4>1, SMT DEF ThrottleTypes
    <3>2. ThrottleTypes'
      BY <2>1, <3>1, SMT DEF ThrottleTypes, Stages
    <3>3. CountsExpire'
      BY <2>1, <3>1, SMT DEF CountsExpire, ThrottleTypes
    <3> QED BY <2>1, <3>1, <3>2, <3>3, SMT DEF ThrottleTypes
  <2> QED BY <2>2, <2>3
<1>8. CASE ExpireAlert(r)
  <2>1. /\ stage[r] = "alertttl" /\ coin[r] \in Coins
        /\ alert' = [alert EXCEPT ![coin[r]] = "expires"]
        /\ stage' = [stage EXCEPT ![r] = "clear"]
        /\ throttle' = throttle /\ count' = count /\ lasting' = lasting
        /\ coin' = coin /\ reached' = reached /\ notified' = notified /\ faults' = faults
    BY <1>8, SMT DEF ExpireAlert
  <2>2. ThrottleTypes'
    BY <2>1, SMT DEF ThrottleTypes, Stages, Alerts
  <2>3. CountsExpire'
    BY <2>1, SMT DEF CountsExpire, ThrottleTypes
  <2> QED BY <2>1, <2>2, <2>3, SMT DEF ThrottleTypes
<1> QED BY <1>1, <1>2, <1>3, <1>4, <1>5, <1>6, <1>7, <1>8

\* Keys leave Redis.
LEMMA KeysKeep ==
    ASSUME ThrottleInv, NEW c \in Coins, 
           ThrottleEnds(c) \/ CountEnds(c) \/ AlertEnds(c) \/ Release(c)
    PROVE  ThrottleInv' /\ UNCHANGED callVars /\ faults' = faults
<1> USE DEF ThrottleInv
<1>1. /\ UNCHANGED callVars /\ faults' = faults
      /\ throttle' = throttle \/ throttle' = [throttle EXCEPT ![c] = Off]
      /\ count' = count \/ count' = [count EXCEPT ![c] = 0]
      /\ lasting' = lasting \/ lasting' = lasting \ {c}
      /\ alert' = alert \/ alert' = [alert EXCEPT ![c] = "none"]
      /\ notified' = notified \/ notified' = notified \ {c}
  BY DEF ThrottleEnds, CountEnds, AlertEnds, Release
<1>2. stage' = stage /\ coin' = coin /\ reached' = reached
  BY <1>1 DEF callVars
<1>3. throttle' \in [Coins -> Durations \cup {Off}] /\ count' \in [Coins -> Nat]
      /\ lasting' \subseteq lasting /\ notified' \subseteq notified
      /\ alert' \in [Coins -> Alerts]
      /\ \A d \in Coins : alert'[d] = "lasting" => alert[d] = "lasting"
  BY <1>1, SMT DEF ThrottleTypes, Alerts
<1>4. ThrottleTypes'
  BY <1>1, <1>2, <1>3, SMT DEF ThrottleTypes
<1>5. CountsExpire'
  BY <1>1, <1>2, <1>3, SMT DEF CountsExpire
<1> QED BY <1>1, <1>2, <1>4, <1>5

\* The coin is throttled at once.
LEMMA ThrottleBusyKeeps ==
    ASSUME ThrottleInv, NEW c \in Coins, ThrottleBusy(c)
    PROVE  ThrottleInv'
<1> USE DEF ThrottleInv
<1>1. /\ throttle' = [throttle EXCEPT ![c] = "3m"] /\ count' = count /\ lasting' = lasting
      /\ alert' = alert /\ stage' = stage /\ coin' = coin /\ reached' = reached
      /\ notified' = notified /\ faults' = faults
  BY DEF ThrottleBusy, callVars
<1>2. ThrottleTypes'
  BY <1>1, SMT DEF ThrottleTypes, Durations
<1>3. CountsExpire'
  BY <1>1 DEF CountsExpire
<1> QED BY <1>1, <1>2, <1>3

-----------------------------------------------------------------------------
(* The requests.                                                           *)

\* A step that leaves the requests alone.
LEMMA RequestFrame ==
    ASSUME RequestInv, UNCHANGED <<mode, exclude, row, requestVars>>, faults \in Nat,
           faults' \in {faults, faults + 1}
    PROVE  RequestInv'
<1> USE DEF RequestInv
<1>1. /\ mode' = mode /\ exclude' = exclude /\ row' = row /\ Plan' = Plan
      /\ Finished' = Finished
      /\ \A r, s : DefaultSet(r, s)' = DefaultSet(r, s)
      /\ \A r, s : DesignatedSet(r, s)' = DesignatedSet(r, s)
  BY Fixed
<1>2. step' = step /\ left' = left /\ result' = result /\ asked' = asked /\ todo' = todo
  BY DEF requestVars
<1>3. RequestTypes'
  BY <1>1, <1>2 DEF RequestTypes
<1>4. Own'
  BY <1>2 DEF Own, Priced
<1>5. FoundLeave'
  BY <1>1, <1>2 DEF FoundLeave, Priced
<1>6. faults' = 0 => faults = 0
  BY SMT
<1>7. OthersStay'
  BY <1>1, <1>2, <1>6 DEF OthersStay
<1> QED BY <1>3, <1>4, <1>5, <1>7

\* It leaves single requests alone, too.
LEMMA SinglesFrame ==
    ASSUME SinglesFit, UNCHANGED <<mode, exclude, row, requestVars, coin>>,
           \A r \in Requests : stage[r] = "out" => stage'[r] = "out"
    PROVE  SinglesFit'
<1>1. mode' = mode /\ Finished' = Finished
  BY Fixed
<1>2. step' = step /\ result' = result /\ todo' = todo /\ coin' = coin
  BY DEF requestVars
<1> QED BY <1>1, <1>2 DEF SinglesFit, Priced

\* The invariant holds at the start.
LEMMA Initially == Init => IInv
<1> SUFFICES ASSUME Init
             PROVE  IInv
  OBVIOUS
<1> USE DEF Init, InitThrottle
<1>1. ThrottleInv
  <2>1. MaxFaults \in Nat
    BY Facts
  <2> QED BY SMT DEF ThrottleInv, ThrottleTypes, CountsExpire, Stages, Alerts
<1>2. \A r \in Requests, c \in Coins : ~Priced(r, c)
  BY DEF Priced, NoEntry
<1>3. RequestTypes
  <2>1. Finished \in Nat
    BY PlanIs, SMT
  <2>2. NoEntry \in Entries
    BY DEF Entries
  <2>3. mode \in Modes /\ exclude \in BOOLEAN /\ row \in [Returned -> Rows]
    <3>1. CASE mode = "current"
      BY <3>1, Zenon
    <3>2. CASE mode # "current"
      BY <3>2, Zenon
    <3> QED BY <3>1, <3>2
  <2>4. step \in [Requests -> 0..(Finished + 1)]
    BY <2>1, SMT
  <2>5. /\ left \in [Requests -> [Sources -> SUBSET Coins]]
        /\ asked \in [Requests -> [Coins -> SUBSET Sources]]
        /\ todo \in [Requests -> SUBSET Coins]
        /\ \A r \in Requests : \A s \in Sources : left[r][s] \subseteq Asks[r]
    BY SMT
  <2>6. result \in [Requests -> [Coins -> Entries]]
    BY <2>2, SMT
  <2> QED BY <2>3, <2>4, <2>5, <2>6 DEF RequestTypes
<1>4. SinglesFit
  <2>1. \A r \in Requests : todo[r] = {} /\ step[r] = 0 /\ stage[r] = "out"
    BY Zenon
  <2> HIDE DEF Init, InitThrottle
  <2>2. \A r \in Requests : step[r] \notin 1..Finished
    <3>1. 0 \notin 1..Finished
      BY SMT
    <3> QED BY <2>1, <3>1
  <2> QED BY <1>2, <2>1, <2>2 DEF SinglesFit
<1>5. \A r \in Requests : step[r] = 0
  BY Zenon
<1>6. Own /\ FoundLeave /\ OthersStay
  <2>1. \A r \in Requests : Asks[r] \subseteq Coins
    BY Facts
  <2> HIDE DEF Init, InitThrottle
  <2>2. FoundLeave
    BY <1>2, <2>1 DEF FoundLeave
  <2>3. Own /\ OthersStay
    BY <1>2, <1>5 DEF Own, OthersStay
  <2> QED BY <2>2, <2>3
<1> QED BY <1>1, <1>3, <1>4, <1>6 DEF IInv, RequestInv

\* A batch starts with the default sets.
LEMMA StartBatchKeeps ==
    ASSUME IInv, NEW r \in Requests, StartBatch(r)
    PROVE  RequestInv'
<1> USE DEF IInv, RequestInv
<1>1. /\ mode # "single" /\ step[r] = 0
      /\ mode' = mode /\ exclude' = exclude /\ row' = row
      /\ result' = result /\ asked' = asked /\ todo' = todo
      /\ \/ /\ step' = [step EXCEPT ![r] = 1] /\ faults' = faults
            /\ left' = [left EXCEPT ![r] = [s \in Sources |-> DefaultSet(r, s)]]
         \/ /\ step' = [step EXCEPT ![r] = Finished + 1] /\ faults' = faults + 1
            /\ left' = left
  BY DEF StartBatch, Fault
<1>2. /\ Plan' = Plan /\ Finished' = Finished
      /\ \A o, s : DefaultSet(o, s)' = DefaultSet(o, s)
      /\ \A o, s : DesignatedSet(o, s)' = DesignatedSet(o, s)
  BY <1>1, Fixed
<1>3. Finished \in {7, 9} /\ faults \in Nat
  <2>1. mode \in Modes /\ faults \in Nat
    BY DEF RequestTypes, ThrottleInv, ThrottleTypes
  <2> QED BY <2>1, FinishedIs
<1>4. /\ step' \in [Requests -> 0..(Finished + 1)] /\ step'[r] # 0
      /\ \A o \in Requests : o # r => step'[o] = step[o]
  <2>1. PICK k \in 1..(Finished + 1) : step' = [step EXCEPT ![r] = k]
    BY <1>1, <1>3, SMT
  <2>2. step \in [Requests -> 0..(Finished + 1)]
    BY DEF RequestTypes
  <2> QED BY <1>3, <2>1, <2>2, SMT
<1>5. /\ left' \in [Requests -> [Sources -> SUBSET Coins]]
      /\ \A o \in Requests : o # r => left'[o] = left[o]
      /\ \A s \in Sources : left'[r][s] \subseteq Asks[r]
      /\ faults' = faults => \A s \in Sources : left'[r][s] = DefaultSet(r, s)
  <2>1. left \in [Requests -> [Sources -> SUBSET Coins]]
        /\ \A s \in Sources : left[r][s] \subseteq Asks[r]
    BY DEF RequestTypes
  <2>2. CASE left' = left /\ faults' = faults + 1
    <3>1. faults' # faults
      BY <1>3, <2>2, SMT
    <3> QED BY <2>1, <2>2, <3>1
  <2>3. CASE left' = [left EXCEPT ![r] = [s \in Sources |-> DefaultSet(r, s)]]
    BY <2>1, <2>3, DefaultSets, SMT
  <2> QED BY <1>1, <2>2, <2>3
<1>6. \A c \in Coins : ~Priced(r, c)
  BY <1>1 DEF Own
<1>7. RequestTypes'
  <2>1. \A o \in Requests : \A s \in Sources : left'[o][s] \subseteq Asks[o]
    BY <1>5 DEF RequestTypes
  <2> QED BY <1>1, <1>2, <1>4, <1>5, <2>1 DEF RequestTypes
<1>8. Own'
  BY <1>1, <1>4 DEF Own, Priced
<1>9. FoundLeave'
  <2>1. Asks[r] \subseteq Coins
    BY Facts
  <2> QED BY <1>1, <1>2, <1>4, <1>5, <1>6, <2>1, SMT DEF FoundLeave, Priced
<1>10. OthersStay'
  <2>1. CASE faults' = faults
    <3>1. step'[r] = 1
      BY <1>1, <1>3, <2>1, SMT DEF RequestTypes
    <3> QED BY <1>1, <1>2, <1>4, <1>5, <2>1, <3>1, SMT DEF OthersStay
  <2>2. CASE faults' = faults + 1
    BY <1>3, <2>2, SMT DEF OthersStay
  <2> QED BY <1>1, <2>1, <2>2
<1> QED BY <1>7, <1>8, <1>9, <1>10

\* The set of a query, and those of its coins that are throttled.
QuerySet(r) ==
    LET q == Plan[step[r]] IN
    IF q.kind = "default" THEN left[r][q.source] ELSE DesignatedSet(r, q.source)
HeldOf(r) == {c \in QuerySet(r) : IsCoinsThrottled(c)}
FoundFor(r, c, found) == \E f \in found : MeantFor(r, c, f)

\* What a query that is made does.
Outcome(r, found) ==
    /\ \A f \in found : \E x \in QuerySet(r) \ HeldOf(r) : f = ReturnOf[x]
    /\ \A o \in Requests : o # r =>
          result'[o] = result[o] /\ left'[o] = left[o] /\ asked'[o] = asked[o]
    /\ \A c \in Coins :
          /\ FoundFor(r, c, found) =>
                ReturnOf[c] \in found /\ result'[r][c] = Price(Plan[step[r]].source, ReturnOf[c])
          /\ ~FoundFor(r, c, found) /\ c \in HeldOf(r) => result'[r][c] = Throttled
          /\ ~FoundFor(r, c, found) /\ c \notin HeldOf(r) => result'[r][c] = result[r][c]
    /\ \A s \in Sources : left'[r][s] = left[r][s] \ found
    /\ \A c \in Coins :
          /\ asked[r][c] \subseteq asked'[r][c]
          /\ c \in QuerySet(r) \ HeldOf(r) => Plan[step[r]].source \in asked'[r][c]
    /\ result' \in [Requests -> [Coins -> Entries]]
    /\ left' \in [Requests -> [Sources -> SUBSET Coins]]
    /\ asked' \in [Requests -> [Coins -> SUBSET Sources]]

\* The set is of coins of the request.
LEMMA QuerySetIs ==
    ASSUME IInv, NEW r \in Requests, step[r] \in 1..Len(Plan)
    PROVE  QuerySet(r) \subseteq Asks[r] /\ QuerySet(r) \subseteq Coins
           /\ Plan[step[r]].source \in Sources
<1>1. Plan[step[r]].source \in Sources
  BY PlanIs DEF IInv, RequestInv, RequestTypes
<1>2. QuerySet(r) \subseteq Asks[r]
  <2>1. \A s \in Sources : left[r][s] \subseteq Asks[r]
    BY DEF IInv, RequestInv, RequestTypes
  <2> QED BY <1>1, <2>1 DEF QuerySet, DesignatedSet
<1> QED BY <1>1, <1>2, Facts

LEMMA QueryDoes ==
    ASSUME IInv, NEW r \in Requests, Query(r)
    PROVE  /\ mode # "single" /\ step[r] \in 1..Len(Plan)
           /\ step' = [step EXCEPT ![r] = step[r] + 1]
           /\ UNCHANGED <<mode, exclude, row, todo, redisVars, callVars, faults>>
           /\ notified' = notified \/ notified' = notified \cup (HeldOf(r) \ Refused)
           /\ \/ /\ QuerySet(r) = {} \/ Plan[step[r]].source \in Prohibited
                 /\ UNCHANGED <<left, result, asked>>
              \/ \E found : Outcome(r, found)
<1> DEFINE src == Plan[step[r]].source
<1>1. /\ mode # "single" /\ step[r] \in 1..Len(Plan)
      /\ step' = [step EXCEPT ![r] = step[r] + 1]
      /\ UNCHANGED <<mode, exclude, row, todo, redisVars, callVars, faults>>
  BY DEF Query
<1>2. QuerySet(r) \subseteq Asks[r] /\ QuerySet(r) \subseteq Coins /\ src \in Sources
      /\ HeldOf(r) \subseteq Coins
  BY <1>1, QuerySetIs DEF HeldOf
<1>3. CASE QuerySet(r) = {} \/ Plan[step[r]].source \in Prohibited
  <2>1. UNCHANGED <<left, result, asked, notified>>
    BY <1>3 DEF Query, QuerySet, IsProhibited
  <2> QED BY <1>1, <1>3, <2>1
<1>4. CASE ~(QuerySet(r) = {} \/ Plan[step[r]].source \in Prohibited)
  <2>1. PICK found \in SUBSET {ReturnOf[c] : c \in QuerySet(r) \ HeldOf(r)} :
          /\ result' = [result EXCEPT ![r] = [c \in Coins |->
                IF \E f \in found : MeantFor(r, c, f)
                THEN Price(src, CHOOSE f \in found : MeantFor(r, c, f))
                ELSE IF c \in HeldOf(r) THEN Throttled ELSE result[r][c]]]
          /\ left' = [left EXCEPT ![r] = LeftOf(left[r], found)]
          /\ asked' = [asked EXCEPT ![r] = [c \in Coins |->
                IF c \in QuerySet(r) \ HeldOf(r) THEN asked[r][c] \cup {src} ELSE asked[r][c]]]
          /\ notified' = notified \cup (HeldOf(r) \ Refused)
    BY <1>4 DEF Query, QuerySet, HeldOf, IsProhibited, AskAs, SaveLog
  <2>2. \A f \in found : \E x \in QuerySet(r) \ HeldOf(r) : f = ReturnOf[x]
    BY <2>1
  <2>3. ASSUME NEW c \in Coins, NEW f \in found, MeantFor(r, c, f)
        PROVE  f = ReturnOf[c] /\ f \in Coins
    <3>1. PICK x \in Coins : f = ReturnOf[x]
      BY <1>2, <2>2
    <3>2. f \in Coins /\ ReturnOf[f] = f
      BY <3>1, Facts
    <3> QED BY <2>3, <3>2 DEF MeantFor
  <2>4. ASSUME NEW c \in Coins, FoundFor(r, c, found)
        PROVE  ReturnOf[c] \in found /\ (CHOOSE f \in found : MeantFor(r, c, f)) = ReturnOf[c]
    <3>1. PICK f \in found : MeantFor(r, c, f)
      BY <2>4 DEF FoundFor
    <3>2. f = ReturnOf[c]
      BY <2>3, <3>1
    <3>3. /\ (CHOOSE g \in found : MeantFor(r, c, g)) \in found
          /\ MeantFor(r, c, CHOOSE g \in found : MeantFor(r, c, g))
      BY <3>1, Zenon
    <3> QED BY <2>3, <3>1, <3>2, <3>3, Zenon
  <2> DEFINE new == [c \in Coins |->
                IF \E f \in found : MeantFor(r, c, f)
                THEN Price(src, CHOOSE f \in found : MeantFor(r, c, f))
                ELSE IF c \in HeldOf(r) THEN Throttled ELSE result[r][c]]
  <2>5. ASSUME NEW c \in Coins
        PROVE  /\ FoundFor(r, c, found) => new[c] = Price(src, ReturnOf[c])
               /\ ~FoundFor(r, c, found) /\ c \in HeldOf(r) => new[c] = Throttled
               /\ ~FoundFor(r, c, found) /\ c \notin HeldOf(r) => new[c] = result[r][c]
    BY <2>4, Zenon DEF FoundFor
  <2>6. result \in [Requests -> [Coins -> Entries]]
        /\ left \in [Requests -> [Sources -> SUBSET Coins]]
        /\ asked \in [Requests -> [Coins -> SUBSET Sources]]
    BY DEF IInv, RequestInv, RequestTypes
  <2>7. new \in [Coins -> Entries]
    <3>1. ASSUME NEW c \in Coins
          PROVE  new[c] \in Entries
      <4>1. ReturnOf[c] \in Coins /\ result[r][c] \in Entries
        BY <2>6, Facts, SMT
      <4>2. Price(src, ReturnOf[c]) \in Entries /\ Throttled \in Entries
        BY <1>2, <4>1 DEF Entries
      <4> HIDE DEF new
      <4> QED BY <2>5, <4>1, <4>2
    <3> QED BY <3>1
  <2>8. result' = [result EXCEPT ![r] = new]
    BY <2>1
  <2> HIDE DEF new
  <2>9. /\ result' \in [Requests -> [Coins -> Entries]] /\ result'[r] = new
        /\ \A o \in Requests : o # r => result'[o] = result[o]
    BY <2>6, <2>7, <2>8, SMT
  <2>10. /\ left' \in [Requests -> [Sources -> SUBSET Coins]]
         /\ \A s \in Sources : left'[r][s] = left[r][s] \ found
         /\ \A o \in Requests : o # r => left'[o] = left[o]
    BY <2>1, <2>6, SMT DEF LeftOf
  <2>11. /\ asked' \in [Requests -> [Coins -> SUBSET Sources]]
         /\ \A c \in Coins :
               /\ asked[r][c] \subseteq asked'[r][c]
               /\ c \in QuerySet(r) \ HeldOf(r) => src \in asked'[r][c]
         /\ \A o \in Requests : o # r => asked'[o] = asked[o]
    BY <1>2, <2>1, <2>6, SMT
  <2>12. Outcome(r, found)
    BY <2>2, <2>4, <2>5, <2>9, <2>10, <2>11, Zenon DEF Outcome
  <2> QED BY <1>1, <2>1, <2>12
<1> QED BY <1>3, <1>4

\* A coin that shares its price with no other is found only by a query for it.
LEMMA AloneIsAsked ==
    ASSUME IInv, NEW r \in Requests, step[r] \in 1..Len(Plan), NEW found, Outcome(r, found),
           NEW c \in Asks[r], Alone(r, c), FoundFor(r, c, found)
    PROVE  c \in found /\ c \in QuerySet(r)
<1>1. c \in Coins /\ QuerySet(r) \subseteq Asks[r]
  BY Facts, QuerySetIs
<1>2. c = ReturnOf[c] /\ \A d \in Asks[r] : ReturnOf[d] = ReturnOf[c] => d = c
  BY DEF Alone
<1>3. ReturnOf[c] \in found
  BY <1>1 DEF Outcome
<1>4. PICK x \in QuerySet(r) : ReturnOf[c] = ReturnOf[x]
  BY <1>3 DEF Outcome
<1> QED BY <1>1, <1>2, <1>3, <1>4

\* A query that is made answers coins of its set that are still without a price.
LEMMA QueryKeeps ==
    ASSUME IInv, NEW r \in Requests, Query(r)
    PROVE  /\ RequestInv'
           /\ \A c \in Asks[r] : Alone(r, c) /\ Priced(r, c) => result'[r][c] = result[r][c]
           /\ \A o \in Requests : o # r => result'[o] = result[o]
<1> USE DEF IInv, RequestInv
<1> DEFINE src == Plan[step[r]].source
<1>1. /\ mode # "single" /\ step[r] \in 1..Len(Plan)
      /\ step' = [step EXCEPT ![r] = step[r] + 1]
      /\ mode' = mode /\ exclude' = exclude /\ row' = row /\ todo' = todo /\ faults' = faults
  BY QueryDoes
<1>2. /\ Plan' = Plan /\ Finished' = Finished
      /\ \A o, s : DefaultSet(o, s)' = DefaultSet(o, s)
      /\ \A o, s : DesignatedSet(o, s)' = DesignatedSet(o, s)
  BY <1>1, Fixed
<1>3. mode \in Modes /\ step \in [Requests -> 0..(Finished + 1)]
  BY DEF RequestTypes
<1>4. /\ src \in Sources /\ QuerySet(r) \subseteq Asks[r]
      /\ QuerySet(r) = IF step[r] <= 3 THEN DesignatedSet(r, src) ELSE left[r][src]
  <2>1. Plan[step[r]].kind = IF step[r] <= 3 THEN "designated" ELSE "default"
    BY <1>1, <1>3, PlanIs
  <2> QED BY <1>1, <2>1, QuerySetIs DEF QuerySet
<1>5. /\ step' \in [Requests -> 0..(Finished + 1)] /\ step'[r] = step[r] + 1
      /\ \A o \in Requests : o # r => step'[o] = step[o]
  <2> DEFINE p == Len(Plan)
  <2>1. p \in {6, 8} /\ Finished = p + 1 /\ step[r] \in 1..p
    BY <1>1, <1>3, PlanIs
  <2> HIDE DEF p
  <2> QED BY <1>1, <1>3, <2>1, SMT
<1>6. Asks[r] \subseteq Coins /\ \A o \in Requests : Asks[o] \subseteq Coins
  BY Facts
<1>7. CASE /\ QuerySet(r) = {} \/ src \in Prohibited
           /\ UNCHANGED <<left, result, asked>>
  <2>1. left' = left /\ result' = result /\ asked' = asked
    BY <1>7
  <2>2. RequestTypes'
    BY <1>1, <1>2, <1>5, <2>1 DEF RequestTypes
  <2>3. Own'
    <3>1. step'[r] # 0
      BY <1>1, <1>5, SMT
    <3> QED BY <1>5, <2>1, <3>1 DEF Own, Priced
  <2>4. FoundLeave'
    <3>1. \A i \in 1..3 : step'[r] <= i => step[r] <= i
      BY <1>1, <1>5, SMT
    <3> QED BY <1>1, <1>2, <1>5, <2>1, <3>1 DEF FoundLeave, Priced
  <2>5. OthersStay'
    <3> SUFFICES ASSUME faults = 0, NEW o \in Requests, NEW c \in Asks[o],
                        step'[o] # 0, result[o][c] = NoEntry
                 PROVE  /\ \A s \in Sources : c \in DefaultSet(o, s) => c \in left[o][s]
                        /\ \A i \in 4..Len(Plan) :
                              i < step'[o] /\ c \in DefaultSet(o, Plan[i].source) =>
                                  Plan[i].source \in Prohibited \cup asked[o][c]
      BY <1>1, <1>2, <2>1 DEF OthersStay
    <3>1. step[o] # 0
      BY <1>1, <1>5, SMT
    <3>2. \A s \in Sources : c \in DefaultSet(o, s) => c \in left[o][s]
      BY <1>1, <3>1 DEF OthersStay
    <3>3. ASSUME NEW i \in 4..Len(Plan), i < step'[o], c \in DefaultSet(o, Plan[i].source)
          PROVE  Plan[i].source \in Prohibited \cup asked[o][c]
      <4>1. CASE i < step[o]
        BY <1>1, <3>1, <3>3, <4>1 DEF OthersStay
      <4>2. CASE ~(i < step[o])
        <5>1. o = r /\ i = step[r] /\ step[r] > 3
          BY <1>1, <1>3, <1>5, <3>3, <4>2, SMT
        <5>2. QuerySet(r) = left[r][src] /\ Plan[i].source = src
          BY <1>4, <5>1, SMT
        <5>3. c \in left[r][src]
          BY <1>4, <3>2, <3>3, <5>1, <5>2
        <5> QED BY <1>7, <5>2, <5>3
      <4> QED BY <4>1, <4>2
    <3> QED BY <3>2, <3>3
  <2> QED BY <2>1, <2>2, <2>3, <2>4, <2>5
<1>8. ASSUME NEW found, Outcome(r, found)
      PROVE  /\ RequestInv'
             /\ \A c \in Asks[r] : Alone(r, c) /\ Priced(r, c) => result'[r][c] = result[r][c]
             /\ \A o \in Requests : o # r => result'[o] = result[o]
  <2>1. /\ \A o \in Requests : o # r =>
               result'[o] = result[o] /\ left'[o] = left[o] /\ asked'[o] = asked[o]
        /\ \A c \in Coins :
              /\ FoundFor(r, c, found) => result'[r][c] = Price(src, ReturnOf[c])
              /\ ~FoundFor(r, c, found) /\ c \in HeldOf(r) => result'[r][c] = Throttled
              /\ ~FoundFor(r, c, found) /\ c \notin HeldOf(r) => result'[r][c] = result[r][c]
        /\ \A s \in Sources : left'[r][s] = left[r][s] \ found
        /\ \A c \in Coins :
              /\ asked[r][c] \subseteq asked'[r][c]
              /\ c \in QuerySet(r) \ HeldOf(r) => src \in asked'[r][c]
    BY <1>8 DEF Outcome
  <2>2. HeldOf(r) \subseteq QuerySet(r)
    BY DEF HeldOf
  <2>3. ASSUME NEW c \in Coins
        PROVE  /\ FoundFor(r, c, found) =>
                      Priced(r, c)' /\ result'[r][c].of = ReturnOf[c]
                      /\ result'[r][c] # NoEntry
               /\ ~FoundFor(r, c, found) /\ c \in HeldOf(r) =>
                      ~Priced(r, c)' /\ result'[r][c] # NoEntry
    <3>1. CASE FoundFor(r, c, found)
      <4>1. result'[r][c] = Price(src, ReturnOf[c])
        BY <2>1, <3>1
      <4> QED BY <3>1, <4>1, SMT DEF Priced, Price, NoEntry
    <3>2. CASE ~FoundFor(r, c, found) /\ c \in HeldOf(r)
      <4>1. result'[r][c] = Throttled
        BY <2>1, <3>2
      <4> QED BY <3>2, <4>1, SMT DEF Priced, Throttled, NoEntry
    <3> QED BY <3>1, <3>2
  <2>4. RequestTypes'
    <3>1. \A o \in Requests : \A s \in Sources : left'[o][s] \subseteq Asks[o]
      BY <2>1 DEF RequestTypes
    <3> QED BY <1>1, <1>2, <1>5, <1>8, <3>1 DEF RequestTypes, Outcome
  <2>5. Own'
    <3> SUFFICES ASSUME NEW o \in Requests, NEW c \in Coins, Priced(o, c)'
                 PROVE  step'[o] # 0 /\ result'[o][c].of = ReturnOf[c]
      BY DEF Own
    <3>1. CASE o # r
      BY <1>5, <2>1, <3>1 DEF Own, Priced
    <3>2. CASE o = r
      <4>1. step'[r] # 0
        BY <1>1, <1>5, SMT
      <4> QED BY <2>1, <2>3, <3>2, <4>1 DEF Own, Priced
    <3> QED BY <3>1, <3>2
  <2>6. ASSUME NEW c \in Asks[r], Alone(r, c), Priced(r, c)
        PROVE  result'[r][c] = result[r][c]
    <3>1. c \notin QuerySet(r)
      <4>1. /\ \A s \in Sources : c \notin left[r][s]
            /\ \A i \in 1..3 : step[r] <= i => c \notin DesignatedSet(r, Plan[i].source)
        BY <1>1, <2>6 DEF FoundLeave
      <4>2. CASE step[r] <= 3
        <5>1. step[r] \in 1..3 /\ step[r] <= step[r]
          BY <1>1, <4>2, SMT
        <5> QED BY <1>4, <4>1, <4>2, <5>1
      <4>3. CASE ~(step[r] <= 3)
        BY <1>4, <4>1, <4>3
      <4> QED BY <4>2, <4>3
    <3>2. ~FoundFor(r, c, found)
      BY <1>1, <1>8, <2>6, <3>1, AloneIsAsked
    <3> QED BY <1>6, <2>1, <2>2, <3>1, <3>2
  <2>7. FoundLeave'
    <3> SUFFICES ASSUME NEW o \in Requests, NEW c \in Asks[o], Alone(o, c), Priced(o, c)'
                 PROVE  /\ \A s \in Sources : c \notin left'[o][s]
                        /\ \A i \in 1..3 : step'[o] <= i => c \notin DesignatedSet(o, Plan[i].source)
      BY <1>2 DEF FoundLeave, Alone
    <3>1. CASE o # r
      BY <1>1, <1>5, <2>1, <3>1 DEF FoundLeave, Priced
    <3>2. CASE o = r /\ FoundFor(r, c, found)
      <4>1. c \in found /\ c \in QuerySet(r)
        BY <1>1, <1>8, <3>2, AloneIsAsked
      <4>2. \A s \in Sources : c \notin left'[r][s]
        BY <2>1, <4>1
      <4>3. ASSUME NEW i \in 1..3, step'[r] <= i
            PROVE  c \notin DesignatedSet(r, Plan[i].source)
        <5>1. step[r] <= 3 /\ step[r] \in 1..3 /\ i # step[r]
          BY <1>1, <1>5, <4>3, SMT
        <5>2. c \in DesignatedSet(r, src)
          BY <1>4, <4>1, <5>1
        <5>3. Plan[i].source # src
          BY <1>3, <5>1, PlanIs
        <5> QED BY <5>2, <5>3 DEF DesignatedSet
      <4> QED BY <3>2, <4>2, <4>3
    <3>3. CASE o = r /\ ~FoundFor(r, c, found)
      <4>1. Priced(r, c)
        BY <1>6, <2>1, <2>3, <3>3 DEF Priced
      <4>2. /\ \A s \in Sources : c \notin left[r][s]
            /\ \A i \in 1..3 : step[r] <= i => c \notin DesignatedSet(r, Plan[i].source)
        BY <1>1, <3>3, <4>1 DEF FoundLeave
      <4>3. \A i \in 1..3 : step'[r] <= i => step[r] <= i
        BY <1>1, <1>5, SMT
      <4> QED BY <2>1, <3>3, <4>2, <4>3
    <3> QED BY <3>1, <3>2, <3>3
  <2>8. OthersStay'
    <3> SUFFICES ASSUME faults = 0, NEW o \in Requests, NEW c \in Asks[o],
                        step'[o] # 0, result'[o][c] = NoEntry
                 PROVE  /\ \A s \in Sources : c \in DefaultSet(o, s) => c \in left'[o][s]
                        /\ \A i \in 4..Len(Plan) :
                              i < step'[o] /\ c \in DefaultSet(o, Plan[i].source) =>
                                  Plan[i].source \in Prohibited \cup asked'[o][c]
      BY <1>1, <1>2 DEF OthersStay
    <3>1. CASE o # r
      BY <1>1, <1>5, <2>1, <3>1 DEF OthersStay
    <3>2. CASE o = r
      <4>1. step[r] # 0 /\ c \in Coins
        BY <1>1, <1>6, <3>2, SMT
      <4>2. ~FoundFor(r, c, found) /\ c \notin HeldOf(r) /\ result[r][c] = NoEntry
        BY <2>1, <2>3, <3>2, <4>1
      <4>3. c \notin found
        BY <4>2 DEF FoundFor, MeantFor
      <4>4. \A s \in Sources : c \in DefaultSet(r, s) => c \in left[r][s]
        BY <1>1, <3>2, <4>1, <4>2 DEF OthersStay
      <4>5. ASSUME NEW i \in 4..Len(Plan), i < step'[r], c \in DefaultSet(r, Plan[i].source)
            PROVE  Plan[i].source \in Prohibited \cup asked'[r][c]
        <5>1. CASE i < step[r]
          <6>1. Plan[i].source \in Prohibited \cup asked[r][c]
            BY <1>1, <3>2, <4>1, <4>2, <4>5, <5>1 DEF OthersStay
          <6> QED BY <2>1, <4>1, <6>1
        <5>2. CASE ~(i < step[r])
          <6>1. i = step[r] /\ step[r] > 3
            BY <1>1, <1>5, <4>5, <5>2, SMT
          <6>2. QuerySet(r) = left[r][src] /\ Plan[i].source = src
            BY <1>4, <6>1, SMT
          <6>3. c \in QuerySet(r)
            BY <1>4, <4>4, <4>5, <6>2
          <6> QED BY <2>1, <4>1, <4>2, <6>2, <6>3
        <5> QED BY <5>1, <5>2
      <4> QED BY <2>1, <3>2, <4>3, <4>4, <4>5
    <3> QED BY <3>1, <3>2
  <2> QED BY <2>1, <2>4, <2>5, <2>6, <2>7, <2>8
<1> QED BY <1>7, <1>8, QueryDoes

\* A batch that is through throttles its coins without a price.
LEMMA FinishBatchKeeps ==
    ASSUME IInv, NEW r \in Requests, FinishBatch(r)
    PROVE  RequestInv' /\ result' = result /\ mode # "single"
<1> USE DEF IInv, RequestInv
<1>1. /\ mode # "single" /\ step[r] = Finished
      /\ step' = [step EXCEPT ![r] = Finished + 1]
      /\ todo' = [todo EXCEPT ![r] = {c \in Asks[r] : ~Priced(r, c)}]
      /\ mode' = mode /\ exclude' = exclude /\ row' = row
      /\ left' = left /\ result' = result /\ asked' = asked /\ faults' = faults
  BY DEF FinishBatch, throttleVars
<1>2. /\ Plan' = Plan /\ Finished' = Finished
      /\ \A o, s : DefaultSet(o, s)' = DefaultSet(o, s)
      /\ \A o, s : DesignatedSet(o, s)' = DesignatedSet(o, s)
  BY <1>1, Fixed
<1>3. Finished \in {7, 9} /\ step \in [Requests -> 0..(Finished + 1)]
      /\ Asks[r] \subseteq Coins /\ todo \in [Requests -> SUBSET Coins]
  BY FinishedIs, Facts DEF RequestTypes
<1>4. Finished = Len(Plan) + 1
  BY PlanIs DEF RequestTypes
<1>5. /\ step' \in [Requests -> 0..(Finished + 1)] /\ step'[r] = step[r] + 1
      /\ \A o \in Requests : o # r => step'[o] = step[o]
  BY <1>1, <1>3, SMT
<1>6. todo' \in [Requests -> SUBSET Coins]
  BY <1>1, <1>3, SMT
<1>7. RequestTypes'
  BY <1>1, <1>2, <1>5, <1>6 DEF RequestTypes
<1>8. Own'
  <2>1. \A o \in Requests : step[o] # 0 => step'[o] # 0
    BY <1>3, <1>5, SMT
  <2> QED BY <1>1, <2>1 DEF Own, Priced
<1>9. FoundLeave'
  <2>1. \A o \in Requests : \A i \in 1..3 : step'[o] <= i => step[o] <= i
    BY <1>1, <1>3, <1>5, SMT
  <2> QED BY <1>1, <1>2, <2>1 DEF FoundLeave, Priced
<1>10. OthersStay'
  <2>1. \A o \in Requests : step'[o] # 0 => step[o] # 0
    BY <1>1, <1>3, <1>5, SMT
  <2>2. \A o \in Requests : \A i \in 4..Len(Plan) : i < step'[o] => i < step[o]
    <3> DEFINE p == Len(Plan)
    <3>1. p \in {6, 8} /\ step[r] = p + 1
      BY <1>1, <1>4, PlanIs DEF RequestTypes
    <3> HIDE DEF p
    <3>2. \A i \in 4..p : i < step[r]
      BY <3>1, SMT
    <3> QED BY <1>5, <3>2 DEF p
  <2> QED BY <1>1, <1>2, <2>1, <2>2 DEF OthersStay
<1> QED BY <1>1, <1>7, <1>8, <1>9, <1>10

\* A batch takes the next coin to throttle.
LEMMA ThrottleNextKeeps ==
    ASSUME IInv, NEW r \in Requests, ThrottleNext(r)
    PROVE  IInv' /\ result' = result
<1> USE DEF IInv, RequestInv
<1>1. PICK c \in todo[r] : CoinsThrottle(r, c) /\ todo' = [todo EXCEPT ![r] = todo[r] \ {c}]
  BY DEF ThrottleNext
<1>2. /\ stage[r] = "out" /\ mode' = mode /\ exclude' = exclude /\ row' = row /\ step' = step
      /\ left' = left /\ result' = result /\ asked' = asked /\ faults' = faults
  BY <1>1 DEF ThrottleNext, CoinsThrottle
<1>3. /\ Plan' = Plan /\ Finished' = Finished
      /\ \A o, s : DefaultSet(o, s)' = DefaultSet(o, s)
      /\ \A o, s : DesignatedSet(o, s)' = DesignatedSet(o, s)
  BY <1>2, Fixed
<1>4. c \in Coins /\ todo' \in [Requests -> SUBSET Coins]
  BY <1>1, SMT DEF RequestTypes
<1>5. ThrottleInv'
  BY <1>1, <1>2, <1>4, CoinsThrottleKeeps
<1>6. mode # "single"
  BY <1>1 DEF SinglesFit
<1>7. SinglesFit'
  BY <1>2, <1>6 DEF SinglesFit
<1>8. RequestTypes'
  BY <1>2, <1>3, <1>4 DEF RequestTypes
<1>9. Own' /\ FoundLeave' /\ OthersStay'
  BY <1>2, <1>3 DEF Own, Priced, FoundLeave, OthersStay
<1> QED BY <1>2, <1>5, <1>7, <1>8, <1>9

-----------------------------------------------------------------------------
(* A single historical price.                                              *)

\* A function on the first numbers is a sequence.
LEMMA FunctionIsSeq ==
    ASSUME NEW S, NEW n \in Nat, NEW f \in [1..n -> S]
    PROVE  f \in Seq(S) /\ Len(f) = n
BY SeqDef, SMT

\* Its plan: the two names noted in the row, and the default sources.
LEMMA SinglePlanIs ==
    ASSUME mode = "single", NEW c
    PROVE  /\ Len(SinglePlan(c)) = 5
           /\ \A i \in 1..5 : SinglePlan(c)[i].kind = "designated" \/ SinglePlan(c)[i].source \in Sources
<1> DEFINE noted == IF c \in Known THEN <<row[c].src, row[c].last>> ELSE <<None, None>>
           query(kind, s) == [kind |-> kind, source |-> s]
           first == [i \in 1..2 |-> query("designated", noted[i])]
           rest == [i \in DOMAIN Defaults |-> query("default", Defaults[i])]
           Queries == {first[i] : i \in 1..2} \cup {rest[i] : i \in 1..3}
<1>1. SinglePlan(c) = first \o rest
  BY DEF SinglePlan
<1>2. PlanShape /\ Len(Defaults) = 3
  <2>1. mode \in Modes
    BY DEF Modes
  <2>2. Defaults = <<"coingecko", "defillama", "geckoterminal">>
    BY DEF Defaults
  <2> QED BY <2>1, <2>2, DefaultsAre
<1>3. DOMAIN Defaults = 1..3 /\ \A i \in 1..3 : Defaults[i] \in Sources
  <2>1. Defaults \in Seq(Sources) /\ Len(Defaults) = 3
    BY <1>2, Zenon DEF PlanShape
  <2>2. DOMAIN Defaults = 1..Len(Defaults) /\ Defaults \in [1..Len(Defaults) -> Sources]
    BY <2>1, LenProperties, Zenon
  <2> QED BY <2>1, <2>2
<1>4. /\ \A i \in 1..2 : first[i].kind = "designated"
      /\ \A i \in 1..3 : rest[i].source \in Sources
  <2> HIDE DEF noted
  <2> QED BY <1>3, SMT
<1>5. DOMAIN first = 1..2 /\ DOMAIN rest = 1..3
      /\ first = [i \in 1..2 |-> first[i]] /\ rest = [i \in 1..3 |-> rest[i]]
  <2> HIDE DEF noted
  <2> QED BY <1>3, SMT
<1> HIDE DEF first, rest
<1>6. first \in [1..2 -> Queries] /\ rest \in [1..3 -> Queries]
  BY <1>5, SMT
<1> HIDE DEF Queries
<1>7. first \in Seq(Queries) /\ Len(first) = 2 /\ rest \in Seq(Queries) /\ Len(rest) = 3
  <2>1. 2 \in Nat /\ 3 \in Nat
    BY SMT
  <2>2. first \in Seq(Queries) /\ Len(first) = 2
    BY <1>6, <2>1, FunctionIsSeq, Zenon
  <2>3. rest \in Seq(Queries) /\ Len(rest) = 3
    BY <1>6, <2>1, FunctionIsSeq, Zenon
  <2> QED BY <2>2, <2>3
<1>8. /\ Len(first \o rest) = 5
      /\ \A i \in 1..5 : (first \o rest)[i] = IF i <= 2 THEN first[i] ELSE rest[i - 2]
  <2>1. /\ Len(first \o rest) = Len(first) + Len(rest)
        /\ \A i \in 1..(Len(first) + Len(rest)) :
              (first \o rest)[i] = IF i <= Len(first) THEN first[i] ELSE rest[i - Len(first)]
    BY <1>7, ConcatProperties
  <2> QED BY <1>7, <2>1, SMT
<1>9. ASSUME NEW i \in 1..5
      PROVE  (first \o rest)[i].kind = "designated" \/ (first \o rest)[i].source \in Sources
  <2>1. CASE i <= 2
    <3>1. i \in 1..2 /\ (first \o rest)[i] = first[i]
      BY <1>8, <2>1, SMT
    <3> QED BY <1>4, <3>1
  <2>2. CASE ~(i <= 2)
    <3>1. i - 2 \in 1..3 /\ (first \o rest)[i] = rest[i - 2]
      BY <1>8, <2>2, SMT
    <3> QED BY <1>4, <3>1
  <2> QED BY <2>1, <2>2
<1> QED BY <1>1, <1>8, <1>9

\* Whatever the name, one of the sources is asked.
LEMMA AskedForIs == \A s : AskedFor(s) \in Sources
BY SMT DEF AskedFor, Sources

\* A single request begins.
LEMMA StartSingleKeeps ==
    ASSUME IInv, NEW r \in Requests, StartSingle(r)
    PROVE  IInv' /\ \A o \in Requests, c \in Coins : Priced(o, c) => result'[o][c] = result[o][c]
<1> USE DEF IInv, RequestInv
<1>1. PICK c \in {ReturnOf[a] : a \in Asks[r]} :
         /\ coin' = [coin EXCEPT ![r] = c]
         /\ IF IsCoinsThrottled(c)
            THEN /\ step' = [step EXCEPT ![r] = Finished + 1]
                 /\ result' = [result EXCEPT ![r][c] = Throttled]
                 /\ SaveLog({c})
            ELSE /\ step' = [step EXCEPT ![r] = 1]
                 /\ UNCHANGED <<result, notified>>
  BY DEF StartSingle
<1>2. /\ mode = "single" /\ step[r] = 0 /\ mode' = mode /\ exclude' = exclude /\ row' = row
      /\ left' = left /\ asked' = asked /\ todo' = todo
      /\ UNCHANGED <<redisVars, stage, reached>> /\ faults' = faults
  BY DEF StartSingle
<1>3. Finished' = Finished /\ Finished \in {7, 9}
  BY <1>2, Fixed, FinishedIs DEF RequestTypes
<1>4. c \in Coins /\ ReturnOf[c] = c
  BY Facts
<1>5. stage[r] = "out"
  BY <1>2 DEF SinglesFit
<1>6. PICK k \in {1, Finished + 1} : step' = [step EXCEPT ![r] = k]
  BY <1>1
<1>7. \A o \in Requests : \A d \in Coins : ~Priced(r, d)
  BY <1>2 DEF Own
<1>8. /\ result' \in [Requests -> [Coins -> Entries]]
      /\ \A o \in Requests, d \in Coins :
            result'[o][d] = result[o][d] \/ (o = r /\ result'[o][d] = Throttled)
  <2>1. result \in [Requests -> [Coins -> Entries]] /\ Throttled \in Entries
    BY DEF RequestTypes, Entries
  <2>2. result' = result \/ result' = [result EXCEPT ![r][c] = Throttled]
    BY <1>1
  <2> QED BY <1>4, <2>1, <2>2, SMT
<1>9. \A o \in Requests, d \in Coins : Priced(o, d)' => Priced(o, d) /\ result'[o][d] = result[o][d]
  BY <1>8, SMT DEF Priced, Throttled
<1>10. /\ step' \in [Requests -> 0..(Finished + 1)] /\ step'[r] # 0
       /\ \A o \in Requests : o # r => step'[o] = step[o]
  BY <1>3, <1>6, SMT DEF RequestTypes
<1>11. ThrottleInv'
  <2>1. notified' = notified \/ notified' = notified \cup ({c} \ Refused)
    BY <1>1 DEF SaveLog
  <2>2. {c} \in SUBSET Coins /\ faults' \in {faults, faults + 1}
    BY <1>2, <1>4
  <2> QED BY <1>1, <1>2, <1>4, <1>5, <2>1, <2>2, TakesCoinKeeps
<1>12. SinglesFit'
  <2> SUFFICES ASSUME NEW o \in Requests
               PROVE  /\ todo[o] = {}
                      /\ step'[o] = 0 => stage[o] = "out"
                      /\ step'[o] \in 1..Finished =>
                            coin'[o] \in Coins /\ ReturnOf[coin'[o]] = coin'[o]
                      /\ step'[o] <= Finished => \A d \in Coins : ~Priced(o, d)'
    BY <1>2, <1>3 DEF SinglesFit
  <2>1. \A d \in Coins : ~Priced(r, d)'
    BY <1>7, <1>9
  <2>2. CASE o = r
    <3>1. coin'[r] = c
      BY <1>1, SMT DEF ThrottleInv, ThrottleTypes
    <3> QED BY <1>2, <1>4, <1>10, <2>1, <2>2, <3>1 DEF SinglesFit
  <2>3. CASE o # r
    <3>1. coin'[o] = coin[o] /\ step'[o] = step[o]
      BY <1>1, <1>10, <2>3, SMT DEF ThrottleInv, ThrottleTypes
    <3> QED BY <1>2, <1>9, <3>1 DEF SinglesFit
  <2> QED BY <2>2, <2>3
<1>13. RequestTypes'
  <2>1. mode' \in Modes /\ exclude' \in BOOLEAN /\ row' \in [Returned -> Rows]
    BY <1>2 DEF RequestTypes
  <2> QED BY <1>2, <1>3, <1>8, <1>10, <2>1 DEF RequestTypes
<1>14. Own'
  <2>1. \A o \in Requests : step[o] # 0 => step'[o] # 0
    BY <1>10
  <2> QED BY <1>9, <2>1 DEF Own
<1>15. FoundLeave' /\ OthersStay'
  BY <1>2 DEF FoundLeave, OthersStay
<1>16. \A o \in Requests, d \in Coins : Priced(o, d) => result'[o][d] = result[o][d]
  BY <1>7, <1>8
<1> QED BY <1>11, <1>12, <1>13, <1>14, <1>15, <1>16

\* It ends at once.
LEMMA SingleFailsKeeps ==
    ASSUME IInv, NEW r \in Requests, SingleFails(r)
    PROVE  IInv' /\ result' = result
<1> USE DEF IInv, RequestInv
<1>1. /\ mode = "single" /\ step[r] = 0 /\ step' = [step EXCEPT ![r] = Finished + 1]
      /\ mode' = mode /\ exclude' = exclude /\ row' = row
      /\ left' = left /\ result' = result /\ asked' = asked /\ todo' = todo
      /\ UNCHANGED <<redisVars, callVars, notified>> /\ faults' = faults + 1
  BY DEF SingleFails, Fault
<1>2. Finished' = Finished /\ Finished \in {7, 9}
  BY <1>1, Fixed, FinishedIs DEF RequestTypes
<1>3. stage' = stage /\ coin' = coin
  BY <1>1 DEF callVars
<1>4. /\ step' \in [Requests -> 0..(Finished + 1)] /\ step'[r] = Finished + 1
      /\ \A o \in Requests : o # r => step'[o] = step[o]
  BY <1>1, <1>2, SMT DEF RequestTypes
<1>5. step'[r] # 0 /\ ~(step'[r] <= Finished) /\ step'[r] \notin 1..Finished
  BY <1>2, <1>4, SMT
<1>6. ThrottleInv'
  <2>1. {} \in SUBSET Coins /\ faults' \in {faults, faults + 1}
    BY <1>1
  <2> QED BY <1>1, <2>1, NotesKeep
<1>7. RequestTypes'
  <2>1. mode' \in Modes /\ exclude' \in BOOLEAN /\ row' \in [Returned -> Rows]
    BY <1>1 DEF RequestTypes
  <2> QED BY <1>1, <1>2, <1>4, <2>1 DEF RequestTypes
<1>8. Own'
  BY <1>1, <1>4, <1>5 DEF Own, Priced
<1>9. FoundLeave' /\ OthersStay'
  BY <1>1 DEF FoundLeave, OthersStay
<1>10. SinglesFit'
  BY <1>1, <1>2, <1>3, <1>4, <1>5 DEF SinglesFit, Priced
<1> QED BY <1>1, <1>6, <1>7, <1>8, <1>9, <1>10

\* It asks the next source.
LEMMA AskSourceKeeps ==
    ASSUME IInv, NEW r \in Requests, AskSource(r)
    PROVE  RequestInv' /\ SinglesFit'
           /\ \A o \in Requests, c \in Coins : Priced(o, c) => result'[o][c] = result[o][c]
<1> USE DEF IInv, RequestInv
<1> DEFINE c == coin[r]
           plan == SinglePlan(c)
           q == plan[step[r]]
           from == AskedFor(q.source)
           skips == q.kind = "designated" /\ (q.source = None \/ IsProhibited(q))
<1>1. /\ mode = "single" /\ step[r] \in 1..Len(plan) /\ mode' = mode /\ exclude' = exclude
      /\ row' = row /\ left' = left /\ todo' = todo /\ stage' = stage /\ coin' = coin
      /\ faults' = faults
  BY DEF AskSource, throttleVars, callVars
<1>2. Finished' = Finished /\ Finished \in {7, 9}
  BY <1>1, Fixed, FinishedIs DEF RequestTypes
<1>3. Len(plan) = 5
  BY <1>1, SinglePlanIs
<1>4. step[r] \in 1..5 /\ step[r] # 0
  BY <1>1, <1>3, SMT
<1>5. c \in Coins /\ ReturnOf[c] = c
  <2>1. step[r] \in 1..Finished
    BY <1>2, <1>4, SMT
  <2> QED BY <1>1, <2>1 DEF SinglesFit
<1>6. from \in Sources
  BY AskedForIs
<1>7. \A d \in Coins : ~Priced(r, d)
  BY <1>1, <1>2, <1>4, SMT DEF SinglesFit
<1>8. /\ step \in [Requests -> 0..(Finished + 1)]
      /\ result \in [Requests -> [Coins -> Entries]]
      /\ asked \in [Requests -> [Coins -> SUBSET Sources]]
  BY DEF RequestTypes
<1>9. CASE result' = result
  <2>1. PICK k \in 1..Finished : step' = [step EXCEPT ![r] = k]
    <3>1. CASE skips
      <4>1. step' = [step EXCEPT ![r] = step[r] + 1]
        BY <3>1 DEF AskSource
      <4>2. step[r] + 1 \in 1..Finished
        BY <1>2, <1>4, SMT
      <4> QED BY <4>1, <4>2
    <3>2. CASE ~skips
      <4>1. from \in Sources
        BY <1>6
      <4>2. result' # [result EXCEPT ![r][c] = Price(from, c)]
        <5>1. result[r][c].kind # "price"
          BY <1>5, <1>7 DEF Priced
        <5>2. [result EXCEPT ![r][c] = Price(from, c)][r][c].kind = "price"
          BY <1>5, <1>8, SMT DEF Price
        <5> QED BY <1>9, <5>1, <5>2
      <4>3. step' = [step EXCEPT ![r] = IF step[r] = Len(plan) THEN Finished ELSE step[r] + 1]
        BY <3>2, <4>2 DEF AskSource
      <4>4. step' = [step EXCEPT ![r] = IF step[r] = 5 THEN Finished ELSE step[r] + 1]
        BY <1>3, <4>3
      <4>5. CASE step[r] = 5
        <5>1. step' = [step EXCEPT ![r] = Finished] /\ Finished \in 1..Finished
          BY <1>2, <4>4, <4>5, SMT
        <5> QED BY <5>1
      <4>6. CASE step[r] # 5
        <5>1. step' = [step EXCEPT ![r] = step[r] + 1]
          BY <4>4, <4>6
        <5>2. step[r] + 1 \in 1..Finished
          BY <1>2, <1>4, SMT
        <5> QED BY <5>1, <5>2
      <4> QED BY <4>5, <4>6
    <3> QED BY <3>1, <3>2
  <2>2. /\ step' \in [Requests -> 0..(Finished + 1)] /\ step'[r] # 0 /\ step'[r] <= Finished
        /\ \A o \in Requests : o # r => step'[o] = step[o]
    BY <1>2, <1>8, <2>1, SMT
  <2>3. asked' \in [Requests -> [Coins -> SUBSET Sources]]
    <3>1. CASE skips
      BY <1>8, <3>1 DEF AskSource
    <3>2. CASE ~skips
      <4>1. asked' = [asked EXCEPT ![r][c] = @ \cup {from}]
        BY <3>2 DEF AskSource
      <4>2. from \in Sources
        BY <1>6
      <4> HIDE DEF from
      <4> QED BY <1>5, <1>8, <4>1, <4>2, SMT
    <3> QED BY <3>1, <3>2
  <2>4. RequestTypes'
    <3>1. mode' \in Modes /\ exclude' \in BOOLEAN /\ row' \in [Returned -> Rows]
      BY <1>1 DEF RequestTypes
    <3> QED BY <1>1, <1>2, <1>9, <2>2, <2>3, <3>1 DEF RequestTypes
  <2>5. Own' /\ FoundLeave' /\ OthersStay'
    BY <1>1, <1>9, <2>2 DEF Own, Priced, FoundLeave, OthersStay
  <2>6. SinglesFit'
    BY <1>1, <1>2, <1>4, <1>7, <1>9, <2>2 DEF SinglesFit, Priced
  <2> QED BY <1>9, <2>4, <2>5, <2>6
<1>10. CASE result' # result
  <2>1. ~skips
    BY <1>10 DEF AskSource
  <2>2. /\ asked' = [asked EXCEPT ![r][c] = @ \cup {from}]
        /\ result' = [result EXCEPT ![r][c] = Price(from, c)]
        /\ step' = [step EXCEPT ![r] = Finished + 1]
    BY <1>10, <2>1 DEF AskSource
  <2>3. from \in Sources
    BY <1>6
  <2>4. /\ step' \in [Requests -> 0..(Finished + 1)] /\ step'[r] = Finished + 1
        /\ \A o \in Requests : o # r => step'[o] = step[o]
    BY <1>2, <1>8, <2>2, SMT
  <2>5. Price(from, c) \in Entries /\ Price(from, c).of = c
    BY <1>5, <2>3, SMT DEF Entries, Price
  <2> HIDE DEF from
  <2>6. /\ result' \in [Requests -> [Coins -> Entries]]
        /\ asked' \in [Requests -> [Coins -> SUBSET Sources]]
        /\ result'[r][c].of = c
        /\ \A d \in Coins : d # c => result'[r][d] = result[r][d]
        /\ \A o \in Requests : o # r => result'[o] = result[o]
    BY <1>5, <1>8, <2>2, <2>3, <2>5, SMT
  <2>7. RequestTypes'
    <3>1. mode' \in Modes /\ exclude' \in BOOLEAN /\ row' \in [Returned -> Rows]
      BY <1>1 DEF RequestTypes
    <3> QED BY <1>1, <1>2, <2>4, <2>6, <3>1 DEF RequestTypes
  <2>8. ASSUME NEW o \in Requests, NEW d \in Coins, Priced(o, d)'
        PROVE  step'[o] # 0 /\ result'[o][d].of = ReturnOf[d]
    <3>1. CASE o # r
      BY <2>4, <2>6, <2>8, <3>1 DEF Own, Priced
    <3>2. CASE o = r
      <4>1. d = c
        BY <1>7, <2>6, <2>8, <3>2 DEF Priced
      <4>2. step'[r] # 0
        BY <1>2, <2>4, SMT
      <4> QED BY <1>5, <2>6, <3>2, <4>1, <4>2
    <3> QED BY <3>1, <3>2
  <2>9. Own'
    BY <2>8 DEF Own
  <2>10. FoundLeave' /\ OthersStay'
    BY <1>1 DEF FoundLeave, OthersStay
  <2>11. SinglesFit'
    <3> SUFFICES ASSUME NEW o \in Requests
                 PROVE  /\ todo[o] = {}
                        /\ step'[o] = 0 => stage[o] = "out"
                        /\ step'[o] \in 1..Finished =>
                              coin[o] \in Coins /\ ReturnOf[coin[o]] = coin[o]
                        /\ step'[o] <= Finished => \A d \in Coins : ~Priced(o, d)'
      BY <1>1, <1>2 DEF SinglesFit
    <3>1. CASE o # r
      BY <1>1, <2>4, <2>6, <3>1 DEF SinglesFit, Priced
    <3>2. CASE o = r
      <4>1. ~(step'[r] <= Finished) /\ step'[r] # 0
        BY <1>2, <2>4, SMT
      <4> QED BY <1>1, <1>5, <3>2, <4>1 DEF SinglesFit
    <3> QED BY <3>1, <3>2
  <2>12. \A o \in Requests, d \in Coins : Priced(o, d) => result'[o][d] = result[o][d]
    BY <1>7, <2>6
  <2> QED BY <2>7, <2>9, <2>10, <2>11, <2>12
<1> QED BY <1>9, <1>10

\* It throttles its coin.
LEMMA FinishSingleKeeps ==
    ASSUME IInv, NEW r \in Requests, FinishSingle(r)
    PROVE  IInv' /\ result' = result
<1> USE DEF IInv, RequestInv
<1>1. /\ mode = "single" /\ step[r] = Finished /\ stage[r] = "out"
      /\ step' = [step EXCEPT ![r] = Finished + 1]
      /\ mode' = mode /\ exclude' = exclude /\ row' = row
      /\ left' = left /\ result' = result /\ asked' = asked /\ todo' = todo
      /\ CoinsThrottle(r, coin[r]) \/ ThrottleBusy(coin[r])
  BY DEF FinishSingle
<1>2. Finished' = Finished /\ Finished \in {7, 9}
  BY <1>1, Fixed, FinishedIs DEF RequestTypes
<1>3. step[r] # 0 /\ coin[r] \in Coins
  <2>1. step[r] \in 1..Finished /\ step[r] # 0
    BY <1>1, <1>2, SMT
  <2> QED BY <1>1, <2>1, Zenon DEF SinglesFit
<1>4. ThrottleInv'
  BY <1>1, <1>3, CoinsThrottleKeeps, ThrottleBusyKeeps
<1>5. /\ step' \in [Requests -> 0..(Finished + 1)] /\ step'[r] = Finished + 1
      /\ \A o \in Requests : o # r => step'[o] = step[o]
  BY <1>1, <1>2, SMT DEF RequestTypes
<1>6. /\ coin' = coin /\ faults' = faults
      /\ \A o \in Requests : o # r => stage'[o] = stage[o]
  <2>1. CASE CoinsThrottle(r, coin[r])
    BY <2>1, SMT DEF CoinsThrottle, ThrottleInv, ThrottleTypes
  <2>2. CASE ThrottleBusy(coin[r])
    BY <2>2 DEF ThrottleBusy, callVars
  <2> QED BY <1>1, <2>1, <2>2
<1>7. RequestTypes'
  <2>1. mode' \in Modes /\ exclude' \in BOOLEAN /\ row' \in [Returned -> Rows]
    BY <1>1 DEF RequestTypes
  <2> QED BY <1>1, <1>2, <1>5, <2>1 DEF RequestTypes
<1>8. step'[r] # 0 /\ ~(step'[r] <= Finished)
  BY <1>2, <1>5, SMT
<1>9. Own'
  BY <1>1, <1>5, <1>8 DEF Own, Priced
<1>10. FoundLeave' /\ OthersStay'
  BY <1>1 DEF FoundLeave, OthersStay
<1>11. SinglesFit'
  BY <1>1, <1>2, <1>3, <1>5, <1>6, <1>8 DEF SinglesFit, Priced
<1> QED BY <1>1, <1>4, <1>7, <1>9, <1>10, <1>11

-----------------------------------------------------------------------------
(* The theorems.                                                           *)

\* No step replaces the price of a coin that shares it with no other.
Stays ==
    \A r \in Requests : \A c \in Asks[r] :
        Alone(r, c) /\ Priced(r, c) => result'[r][c] = result[r][c]

LEMMA StepKeeps == IInv /\ [Next]_vars => IInv' /\ Stays
<1> SUFFICES ASSUME IInv, [Next]_vars
             PROVE  IInv' /\ Stays
  OBVIOUS
<1> USE DEF IInv
<1>1. \A r \in Requests : Asks[r] \subseteq Coins
  BY Facts
<1>2. ASSUME NEW r \in Requests, StartBatch(r)
      PROVE  IInv' /\ Stays
  <2>1. /\ result' = result /\ UNCHANGED <<redisVars, callVars, notified>> /\ mode # "single"
        /\ faults' \in {faults, faults + 1} /\ mode' = mode
    BY <1>2 DEF StartBatch, Fault
  <2>2. {} \in SUBSET Coins
    OBVIOUS
  <2>3. ThrottleInv'
    BY <2>1, <2>2, NotesKeep
  <2>4. SinglesFit'
    BY <2>1 DEF SinglesFit
  <2> QED BY <1>2, <2>1, <2>3, <2>4, StartBatchKeeps DEF Stays
<1>3. ASSUME NEW r \in Requests, Query(r)
      PROVE  IInv' /\ Stays
  <2>1. /\ mode # "single" /\ mode' = mode /\ UNCHANGED <<redisVars, callVars>>
        /\ faults' = faults /\ step[r] \in 1..Len(Plan)
        /\ notified' = notified \/ notified' = notified \cup (HeldOf(r) \ Refused)
    BY <1>3, QueryDoes
  <2>2. HeldOf(r) \in SUBSET Coins
    BY <2>1, QuerySetIs DEF HeldOf
  <2>3. ThrottleInv'
    BY <2>1, <2>2, NotesKeep
  <2>4. SinglesFit'
    BY <2>1 DEF SinglesFit
  <2> QED BY <1>3, <2>3, <2>4, QueryKeeps DEF Stays
<1>4. ASSUME NEW r \in Requests, FinishBatch(r)
      PROVE  IInv' /\ Stays
  <2>1. /\ result' = result /\ UNCHANGED <<redisVars, callVars, notified>> /\ mode # "single"
        /\ faults' \in {faults, faults + 1} /\ mode' = mode
    BY <1>4 DEF FinishBatch, throttleVars
  <2>2. {} \in SUBSET Coins
    OBVIOUS
  <2>3. ThrottleInv'
    BY <2>1, <2>2, NotesKeep
  <2>4. SinglesFit'
    BY <2>1 DEF SinglesFit
  <2> QED BY <1>4, <2>1, <2>3, <2>4, FinishBatchKeeps DEF Stays
<1>5. ASSUME NEW r \in Requests, ThrottleNext(r)
      PROVE  IInv' /\ Stays
  BY <1>5, ThrottleNextKeeps DEF Stays
<1>6. ASSUME NEW r \in Requests, StartSingle(r)
      PROVE  IInv' /\ Stays
  BY <1>1, <1>6, StartSingleKeeps DEF Stays
<1>0. ASSUME NEW r \in Requests, SingleFails(r)
      PROVE  IInv' /\ Stays
  BY <1>0, SingleFailsKeeps DEF Stays
<1>7. ASSUME NEW r \in Requests, AskSource(r)
      PROVE  IInv' /\ Stays
  <2>1. UNCHANGED <<redisVars, callVars, notified>> /\ faults' \in {faults, faults + 1}
    BY <1>7 DEF AskSource, throttleVars
  <2>2. {} \in SUBSET Coins
    OBVIOUS
  <2>3. ThrottleInv'
    BY <2>1, <2>2, NotesKeep
  <2> QED BY <1>1, <1>7, <2>3, AskSourceKeeps DEF Stays
<1>8. ASSUME NEW r \in Requests, FinishSingle(r)
      PROVE  IInv' /\ Stays
  BY <1>8, FinishSingleKeeps DEF Stays
<1>9. ASSUME NEW r \in Requests, Throttle(r)
       PROVE  IInv' /\ Stays
  <2>1. UNCHANGED <<mode, exclude, row, requestVars>>
    BY <1>9 DEF Throttle
  <2>2. \/ Incr(r) \/ Expire(r) \/ ThrottleShort(r) \/ Alert(r) \/ ExpireAlert(r)
        \/ ClearCount(r) \/ ThrottleFails(r)
        \/ \E remembered, exists \in BOOLEAN : ThrottleLong(r, remembered, exists)
    <3>1. CASE \E remembered \in IF mode = "current" THEN BOOLEAN ELSE {FALSE} :
                  ThrottleLong(r, remembered, mode = "current" /\ coin[r] \in Known)
      <4>1. PICK remembered \in IF mode = "current" THEN BOOLEAN ELSE {FALSE} :
                ThrottleLong(r, remembered, mode = "current" /\ coin[r] \in Known)
        BY <3>1
      <4>2. remembered \in BOOLEAN
        BY <4>1
      <4>3. (mode = "current" /\ coin[r] \in Known) \in BOOLEAN
        OBVIOUS
      <4> QED BY <4>1, <4>2, <4>3, Zenon
    <3> QED BY <1>9, <3>1 DEF Throttle
  <2>3. /\ ThrottleInv' /\ coin' = coin /\ faults' \in {faults, faults + 1}
        /\ stage[r] # "out" /\ \A q \in Requests : q # r => stage'[q] = stage[q]
    BY <2>2, ThrottleKeeps
  <2>4. faults \in Nat
    BY DEF ThrottleInv, ThrottleTypes
  <2>5. RequestInv' /\ SinglesFit'
    BY <2>1, <2>3, <2>4, RequestFrame, SinglesFrame
  <2> QED BY <2>1, <2>3, <2>5 DEF Stays, requestVars
<1>10. ASSUME NEW c \in Coins, KeysEnd(c)
       PROVE  IInv' /\ Stays
  <2>1. UNCHANGED <<mode, exclude, row, requestVars>>
    BY <1>10 DEF KeysEnd
  <2>2. ThrottleInv' /\ UNCHANGED callVars /\ faults' = faults
    BY <1>10, KeysKeep DEF KeysEnd
  <2>3. faults \in Nat /\ stage' = stage /\ coin' = coin
    BY <2>2 DEF ThrottleInv, ThrottleTypes, callVars
  <2>4. RequestInv' /\ SinglesFit'
    BY <2>1, <2>2, <2>3, RequestFrame, SinglesFrame
  <2> QED BY <2>1, <2>2, <2>4 DEF Stays, requestVars
<1>11. CASE UNCHANGED vars
  <2>1. UNCHANGED <<mode, exclude, row, requestVars>> /\ UNCHANGED <<redisVars, callVars, notified>>
        /\ faults' = faults
    BY <1>11 DEF vars, throttleVars
  <2>2. {} \in SUBSET Coins
    OBVIOUS
  <2>3. ThrottleInv'
    BY <2>1, <2>2, NotesKeep
  <2>4. faults \in Nat /\ stage' = stage /\ coin' = coin
    BY <2>1 DEF ThrottleInv, ThrottleTypes, callVars
  <2>5. RequestInv' /\ SinglesFit'
    BY <2>1, <2>4, RequestFrame, SinglesFrame
  <2> QED BY <2>1, <2>3, <2>5 DEF Stays, requestVars
<1> QED BY <1>0, <1>2, <1>3, <1>4, <1>5, <1>6, <1>7, <1>8, <1>9, <1>10, <1>11 DEF Next

LEMMA Invariance == Spec => []IInv
BY Initially, StepKeeps, PTL DEF Spec

\* Every variable keeps its type.
THEOREM TypeCorrect == Spec => []TypeOK
<1>1. IInv => TypeOK
  BY DEF IInv, ThrottleInv, RequestInv, RequestTypes, TypeOK
<1> QED BY <1>1, Invariance, PTL

\* A count of failures has a time to live, or a request that will give it one
\* (coins_throttler.go:97-107), unless Redis fails; for any number of requests that
\* throttle, release and expire the same coins.
THEOREM CountsExpireCorrect == Spec => []CountsExpire
<1>1. IInv => CountsExpire
  BY DEF IInv, ThrottleInv
<1> QED BY <1>1, Invariance, PTL

\* The price that a coin is answered is that of the coin it is associated with
\* (price_service.go:668-674, 696-706), whichever coins share it.
THEOREM PricesAreOwnCorrect == Spec => []PricesAreOwn
<1>1. IInv => PricesAreOwn
  BY Facts DEF IInv, RequestInv, Own, PricesAreOwn
<1> QED BY <1>1, Invariance, PTL

\* No source that is asked later replaces a price (price_service.go:707-712).
THEOREM FirstPriceStaysCorrect == Spec => FirstPriceStays
<1>1. IInv /\ [Next]_vars => [Stays]_vars
  BY StepKeeps
<1>2. Spec => [][Stays]_vars
  BY <1>1, Invariance, PTL DEF Spec
<1>3. FirstPriceStays <=> [][Stays]_vars
  BY PTL DEF FirstPriceStays, Stays
<1> QED BY <1>2, <1>3

\* A coin is given up only after every default source has been asked for it that may
\* be (price_service.go:732-751).
THEOREM GivenUpAfterAllCorrect == Spec => []GivenUpAfterAll
<1>1. IInv => GivenUpAfterAll
  <2> SUFFICES ASSUME IInv, faults = 0, NEW r \in Requests, mode # "single",
                      step[r] >= Finished, NEW c \in Asks[r], result[r][c] = NoEntry,
                      NEW s \in {Defaults[i] : i \in DOMAIN Defaults} \ Prohibited,
                      c \in DefaultSet(r, s)
               PROVE  s \in asked[r][c]
    BY DEF GivenUpAfterAll
  <2>1. mode \in Modes /\ step[r] \in 0..(Finished + 1)
    BY DEF IInv, RequestInv, RequestTypes
  <2>2. PICK k \in 4..Len(Plan) : Plan[k].source = s
    BY <2>1, PlanIs
  <2>3. k < step[r] /\ step[r] # 0
    <3> DEFINE p == Len(Plan)
    <3>1. p \in {6, 8} /\ Finished = p + 1 /\ k \in 4..p
      BY <2>1, PlanIs
    <3> HIDE DEF p
    <3> QED BY <2>1, <3>1, SMT
  <2> QED BY <2>2, <2>3 DEF IInv, RequestInv, OthersStay
<1> QED BY <1>1, Invariance, PTL
=============================================================================
