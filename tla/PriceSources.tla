---------------------------- MODULE PriceSources ----------------------------
(***************************************************************************)
(* How a price is looked for (price/service/price_service.go): current     *)
(* prices of several coins, historical prices of several coins, or the     *)
(* historical price of one.  The sources are asked one after the other,    *)
(* first the one that is noted in the row of the coin, then the default    *)
(* ones, each for the coins that have no price yet.  A coin that is        *)
(* associated with another one is asked for under the other's id.  Coins   *)
(* left without a price are throttled.                                     *)
(***************************************************************************)
EXTENDS CoinsThrottler, Sequences, FiniteSets

CONSTANTS
    Asks,       \* Asks[r]: the coins of request r
    Known,      \* coins with a row
    ReturnOf,   \* ReturnOf[c]: the coin that c is associated with, at the end of the
                \* chain that GetCoinsByOneID follows, or c
    Rows,       \* the sources a row may note
    Prohibited, \* sources the configuration prohibits
    None

Sources == {"coingecko", "geckoterminal", "defillama", "coinGeckoOnChain", "dodoexRoute"}
Modes == {"current", "historical", "single"}

ASSUME SourceAssumption ==
    /\ Asks \in [Requests -> SUBSET Coins] /\ Known \subseteq Coins
    /\ ReturnOf \in [Coins -> Coins] /\ \A c \in Known : ReturnOf[c] \in Known
    /\ \A c \in Coins \ Known : ReturnOf[c] = c
    /\ \A c \in Coins : ReturnOf[ReturnOf[c]] = ReturnOf[c]
    /\ Rows \subseteq [src : Sources \cup {None}, last : Sources \cup {None}]
    /\ Prohibited \subseteq Sources /\ None \notin Sources

VARIABLES
    mode,      \* what is looked for in this behaviour
    exclude,   \* excludeRoute
    row,       \* [coin]: PriceSource and LastPriceSource
    step,      \* [request]: the next query, an index of Plan(r)
    left,      \* [request]: the default sets, without the coins found
    result,    \* [request]: [coin] the price, no entry, or a nil of a throttle
    asked,     \* history: [request]: [coin] the sources it was asked of
    todo       \* [request]: the coins without a price, still to be throttled

requestVars == <<step, left, result, asked, todo>>
vars == <<mode, exclude, row, requestVars, throttleVars>>

\* The known coins whose rows are used: an associated coin is cached with the row of
\* the other one.
Returned == {ReturnOf[c] : c \in Known}

NoEntry == [kind |-> "none"]
Throttled == [kind |-> "throttled"]
Price(s, c) == [kind |-> "price", of |-> c, by |-> s]
Priced(r, c) == result[r][c].kind = "price"

\* The sources asked by default, in order.
Defaults ==
    CASE mode = "current" -> <<"coingecko", "defillama", "geckoterminal",
                               "coinGeckoOnChain", "dodoexRoute">>
      [] OTHER -> <<"coingecko", "defillama", "geckoterminal">>

\* The set of the default source s at the start: CoinGecko is asked about coins
\* with a row only.
DefaultSet(r, s) ==
    CASE s = "coingecko" -> Asks[r] \cap Known
      [] s = "dodoexRoute" -> IF exclude THEN {} ELSE Asks[r]
      [] OTHER -> Asks[r]

\* A source for each coin with a row, and the sets that are queried: nothing is
\* asked of CoinGecko on-chain for being noted.
Designated(c) ==
    LET noted == row[ReturnOf[c]] IN
    IF \/ noted.src \in {"coingecko", "geckoterminal"}
       \/ noted.src = "coinGeckoOnChain" /\ mode = "current"
    THEN noted.src ELSE noted.last
DesignatedSet(r, s) == {c \in Asks[r] \cap Known : Designated(c) = s}

\* The queries of a batch: the designated sources, then the default ones.
Plan ==
    LET query(kind, s) == [kind |-> kind, source |-> s] IN
    <<query("designated", "coingecko"), query("designated", "geckoterminal"),
      query("designated", "defillama")>>
    \o [i \in DOMAIN Defaults |-> query("default", Defaults[i])]

\* The queries of a single historical price.
SinglePlan(c) ==
    LET noted == IF c \in Known THEN <<row[c].src, row[c].last>> ELSE <<None, None>>
        query(kind, s) == [kind |-> kind, source |-> s]
    IN [i \in 1..2 |-> query("designated", noted[i])]
       \o [i \in DOMAIN Defaults |-> query("default", Defaults[i])]

Init ==
    /\ InitThrottle
    /\ mode \in Modes
    /\ exclude \in IF mode = "current" THEN BOOLEAN ELSE {TRUE}
    /\ row \in [Returned -> Rows]
    /\ step = [r \in Requests |-> 0]
    /\ left = [r \in Requests |-> [s \in Sources |-> {}]]
    /\ result = [r \in Requests |-> [c \in Coins |-> NoEntry]]
    /\ asked = [r \in Requests |-> [c \in Coins |-> {}]]
    /\ todo = [r \in Requests |-> {}]

-----------------------------------------------------------------------------
(* Planted bugs.  Each operator below is a wrong variant of the definition *)
(* of the same parameters it is paired with in PROJECT.json; no action uses *)
(* them.                                                                   *)

\* The coins found are not taken out of the set of DefiLlama.
StillLeft(sets, found) ==
    [s \in Sources |-> IF s = "defillama" THEN sets[s] ELSE sets[s] \ found]

\* Coins the source had no price for are not asked elsewhere.
LeftOfFound(sets, found) == [s \in Sources |-> {}]

\* An associated coin is asked for under its own id.
AskedAs(c) == c

-----------------------------------------------------------------------------
(* FetchAndProcessBatchPrices and GetBatchHistoricalPrice.                 *)

Finished == Len(Plan) + 1

StartBatch(r) ==
    /\ mode # "single" /\ step[r] = 0
    /\ \/ /\ step' = [step EXCEPT ![r] = 1] /\ UNCHANGED faults
          /\ left' = [left EXCEPT ![r] = [s \in Sources |-> DefaultSet(r, s)]]
       \/ /\ Fault  \* GetCoinsByID fails: no entries, and nothing is throttled
          /\ step' = [step EXCEPT ![r] = Finished + 1] /\ UNCHANGED left
    /\ UNCHANGED <<mode, exclude, row, result, asked, todo, redisVars, callVars,
                   notified>>

IsProhibited(q) == q.source \in Prohibited

AskAs(c) == ReturnOf[c]

\* The ids of the prices found leave all default sets.
LeftOf(sets, found) == [s \in Sources |-> sets[s] \ found]

\* A price is for its own coin and for the coins of the request associated with it.
MeantFor(r, c, f) == c = f \/ (c \in Asks[r] /\ ReturnOf[c] = f)

\* batchQuery and batchQueryHistorical.  A source that fails finds nothing.
Query(r) ==
    LET q == Plan[step[r]]
        set == IF q.kind = "default" THEN left[r][q.source]
               ELSE DesignatedSet(r, q.source)
        held == {c \in set : IsCoinsThrottled(c)} IN
    /\ mode # "single" /\ step[r] \in 1..Len(Plan)
    /\ step' = [step EXCEPT ![r] = @ + 1]
    /\ IF set = {} \/ IsProhibited(q) THEN UNCHANGED <<left, result, asked, notified>>
       ELSE \E found \in SUBSET {AskAs(c) : c \in set \ held} :
            /\ result' = [result EXCEPT ![r] = [c \in Coins |->
                  IF \E f \in found : MeantFor(r, c, f)
                  THEN Price(q.source, CHOOSE f \in found : MeantFor(r, c, f))
                  ELSE IF c \in held THEN Throttled ELSE result[r][c]]]
            /\ left' = [left EXCEPT ![r] = LeftOf(left[r], found)]
            /\ asked' = [asked EXCEPT ![r] = [c \in Coins |->
                  IF c \in set \ held THEN asked[r][c] \cup {q.source} ELSE asked[r][c]]]
            /\ SaveLog(held)
    /\ UNCHANGED <<mode, exclude, row, todo, redisVars, callVars, faults>>

\* The coins without a price are throttled, one after the other.  The status 429 is
\* kept in entries without a price, which are not looked at: it gets lost.
FinishBatch(r) ==
    /\ mode # "single" /\ step[r] = Finished
    /\ step' = [step EXCEPT ![r] = @ + 1]
    /\ todo' = [todo EXCEPT ![r] = {c \in Asks[r] : ~Priced(r, c)}]
    /\ UNCHANGED <<mode, exclude, row, left, result, asked, throttleVars>>

ThrottleNext(r) ==
    /\ stage[r] = "out"
    /\ \E c \in todo[r] :
          /\ CoinsThrottle(r, c)
          /\ todo' = [todo EXCEPT ![r] = @ \ {c}]
    /\ UNCHANGED <<mode, exclude, row, step, left, result, asked>>

-----------------------------------------------------------------------------
(* GetHistoricalPrice, for a coin that GetCoinsByOneID has replaced by the one *)
(* it is associated with.                                                  *)

StartSingle(r) ==
    /\ mode = "single" /\ step[r] = 0
    /\ \E c \in {ReturnOf[a] : a \in Asks[r]} :
          /\ coin' = [coin EXCEPT ![r] = c]
          /\ IF IsCoinsThrottled(c)
             THEN /\ step' = [step EXCEPT ![r] = Finished + 1]
                  /\ result' = [result EXCEPT ![r][c] = Throttled]
                  /\ SaveLog({c})
             ELSE /\ step' = [step EXCEPT ![r] = 1]
                  /\ UNCHANGED <<result, notified>>
    /\ UNCHANGED <<mode, exclude, row, left, asked, todo, redisVars, stage, reached,
                   faults>>

\* GetCoinsByOneID fails.
SingleFails(r) ==
    /\ mode = "single" /\ step[r] = 0 /\ Fault
    /\ step' = [step EXCEPT ![r] = Finished + 1]
    /\ UNCHANGED <<mode, exclude, row, left, result, asked, todo, redisVars, callVars,
                   notified>>

\* A source that has no historical prices is taken for GeckoTerminal.
AskedFor(s) == IF s \in {"coingecko", "defillama"} THEN s ELSE "geckoterminal"

\* Of the names noted in the row those are followed that are not prohibited, and by
\* default all sources are asked.
AskSource(r) ==
    LET c == coin[r]
        plan == SinglePlan(c)
        q == plan[step[r]] IN
    /\ mode = "single" /\ step[r] \in 1..Len(plan)
    /\ IF q.kind = "designated" /\ (q.source = None \/ IsProhibited(q))
       THEN step' = [step EXCEPT ![r] = @ + 1] /\ UNCHANGED <<result, asked, todo>>
       ELSE /\ asked' = [asked EXCEPT ![r][c] = @ \cup {AskedFor(q.source)}]
            /\ \/ /\ result' = [result EXCEPT ![r][c] = Price(AskedFor(q.source), c)]
                  /\ step' = [step EXCEPT ![r] = Finished + 1]
                  /\ UNCHANGED todo
               \/ /\ step' = [step EXCEPT ![r] = IF @ = Len(plan) THEN Finished ELSE @ + 1]
                  /\ UNCHANGED <<result, todo>>
    /\ UNCHANGED <<mode, exclude, row, left, throttleVars>>

\* The error of the last source may say 429.
FinishSingle(r) ==
    /\ mode = "single" /\ step[r] = Finished /\ stage[r] = "out"
    /\ step' = [step EXCEPT ![r] = @ + 1]
    /\ CoinsThrottle(r, coin[r]) \/ ThrottleBusy(coin[r])
    /\ UNCHANGED <<mode, exclude, row, left, result, asked, todo>>

-----------------------------------------------------------------------------
\* CheckCoinExists looks for the key of the throttle, which has the date at its end
\* for a historical price: no coin has such an id, and no historical price is
\* remembered under it.
Throttle(r) ==
    /\ \/ Incr(r) \/ Expire(r) \/ ThrottleShort(r) \/ Alert(r) \/ ExpireAlert(r)
       \/ ClearCount(r) \/ ThrottleFails(r)
       \/ \E remembered \in IF mode = "current" THEN BOOLEAN ELSE {FALSE} :
             ThrottleLong(r, remembered, mode = "current" /\ coin[r] \in Known)
    /\ UNCHANGED <<mode, exclude, row, requestVars>>

\* The early release deletes the keys of current and single historical prices: those
\* of a batch end in a time of day, not in a date.
KeysEnd(c) ==
    /\ \/ ThrottleEnds(c)
       \/ CountEnds(c)
       \/ AlertEnds(c)
       \/ mode # "historical" /\ Release(c)
    /\ UNCHANGED <<mode, exclude, row, requestVars>>

Next ==
    \/ \E r \in Requests :
          \/ StartBatch(r) \/ Query(r) \/ FinishBatch(r) \/ ThrottleNext(r)
          \/ StartSingle(r) \/ SingleFails(r) \/ AskSource(r) \/ FinishSingle(r) \/ Throttle(r)
    \/ \E c \in Coins : KeysEnd(c)

Spec == Init /\ [][Next]_vars

-----------------------------------------------------------------------------
Entries == {NoEntry, Throttled} \cup {Price(s, c) : s \in Sources, c \in Coins}

\* Every variable keeps its type.
TypeOK ==
    /\ ThrottleTypes
    /\ mode \in Modes /\ exclude \in BOOLEAN /\ row \in [Returned -> Rows]
    /\ step \in [Requests -> 0..(Finished + 1)]
    /\ left \in [Requests -> [Sources -> SUBSET Coins]]
    /\ result \in [Requests -> [Coins -> Entries]]
    /\ asked \in [Requests -> [Coins -> SUBSET Sources]]
    /\ todo \in [Requests -> SUBSET Coins]

\* A coin is answered the price of the coin it is associated with, or its own
\* (price_service.go:668-674, 696-706): never that of another coin of the batch.
PricesAreOwn ==
    \A r \in Requests : \A c \in Asks[r] : Priced(r, c) => result[r][c].of = ReturnOf[c]

\* No coin of the request shares c's price with it.
Alone(r, c) == \A d \in Asks[r] \cup {c} : ReturnOf[d] = ReturnOf[c] => d = c /\ c = ReturnOf[c]

\* The first price found for a coin is the one that is answered: no source that is
\* asked later replaces it (price_service.go:707-712, 1013-1015).  Coins that share a price are not
\* taken out of the sets, and a later source or throttle does replace theirs.
FirstPriceStays ==
    [][\A r \in Requests : \A c \in Asks[r] :
          Alone(r, c) /\ Priced(r, c) => result'[r][c] = result[r][c]]_vars

\* A coin that is answered no price, and is not throttled, has been asked of every
\* default source that is allowed: a batch does not give up half-way because another
\* of its coins was found, or throttled, or a source has failed.
GivenUpAfterAll ==
    faults = 0 => \A r \in Requests : mode # "single" /\ step[r] >= Finished =>
        \A c \in Asks[r] : result[r][c] = NoEntry =>
            \A s \in {Defaults[i] : i \in DOMAIN Defaults} \ Prohibited :
                c \in DefaultSet(r, s) => s \in asked[r][c]

\* Claimed by README.md:103, "data sources to be prohibited for historical price
\* queries": no query asks a prohibited source.
ProhibitedNeverAsked ==
    \A r \in Requests, c \in Coins : asked[r][c] \cap Prohibited = {}
=============================================================================
