---------------------------- MODULE DataSources ----------------------------
(***************************************************************************)
(* The services that ask for prices: CoinGecko, GeckoTerminal, CoinGecko   *)
(* on-chain, DefiLlama and the Dodoex route (price/service/*_service.go).  *)
(* A call is for the prices of some coins, now or of a day.  For each coin *)
(* it goes through the stages of its source: the current price cached for  *)
(* ten minutes or the history, the limit of GeckoTerminal, the requests,   *)
(* the row of the coin, the caches.  CoinGecko, and DefiLlama for current  *)
(* prices, ask for all the coins of a call at once.                        *)
(*                                                                         *)
(* A price is a record of the coin and the day it is for and of the call   *)
(* that has asked for it.  The history is what HistoricalQueue makes of    *)
(* it, saved and looked up in one step.  The sources and the user are      *)
(* external: every answer of theirs is possible.                           *)
(***************************************************************************)
EXTENDS Naturals, FiniteSets

CONSTANTS
    Calls,
    Plans,     \* functions that give each call its job
    Coins,
    Days, Today,
    Now,       \* no day: the current price
    None,
    Stranger,  \* a coin that DefiLlama has a price for and that no call is for
    Listed,    \* the coins CoinGecko lists
    Allowed,   \* the coins whose symbol CoinGecko on-chain is asked for
    OnLlama,   \* the coins on a chain DefiLlama knows
    Routed,    \* the coins on a chain with an address of USDT
    Limit,     \* the hits after which GeckoTerminal is not asked
    MaxFaults  \* bound on failing requests and commands

SourceNames == {"coingecko", "geckoterminal", "onchain", "defillama", "dodoex"}
\* A call for one coin need not be a batch; "fresh" calls do not look in the cache.
Jobs == [source : SourceNames, day : Days \cup {Now}, coins : SUBSET Coins,
         batch : BOOLEAN, fresh : BOOLEAN]

ASSUME SourceAssumption ==
    /\ Plans \subseteq [Calls -> Jobs]
    /\ Today \in Days /\ Now \notin Days
    /\ Stranger \notin Coins
    /\ Listed \cup Allowed \cup OnLlama \cup Routed \subseteq Coins
    /\ Limit \in Nat /\ MaxFaults \in Nat

\* The route has current prices only (dodoex_route_service.go:47, 159).
ASSUME RouteAssumption ==
    \A plan \in Plans : \A j \in Calls : plan[j].source = "dodoex" => plan[j].day = Now

ASSUME NoneAssumption ==
    /\ None \notin SourceNames
    /\ None \notin [of : Coins \cup {Stranger}, day : Days, by : Calls]

VARIABLES
    job,      \* [call]: its job
    at,       \* [call][coin]: the stage it is in
    want,     \* [call][coin]: the day asked for, or Now
    hand,     \* [call][coin]: the price found, or None
    reuse,    \* the pairs of a call and a coin that work on cached token data
    broken,   \* the calls that return an error, or nothing
    answer,   \* [call]: what it has returned: a price or None for each coin
    current,  \* [coin]: the current price cached, or None
    history,  \* [coin][day]: the price saved, or None
    rows,     \* [coin]: the price source of its row, or None
    ids,      \* the coins whose row has an id of CoinGecko
    cachedRows, \* the coins whose row is cached
    maps,     \* the lists of platforms, networks and chains that are cached
    infos,    \* the token data and pools cached, by coin
    hits,     \* the count of the limit key of the network
    lasting,  \* the limit key has no time to live
    quoted,   \* history: the pairs of a call and a coin that a source has had a price for,
              \* and that have had no error of their own since
    faults

taskVars == <<job, want, reuse, broken, answer>>
priceVars == <<current, history>>
rowVars == <<rows, ids, cachedRows>>
limitVars == <<hits, lasting>>
vars == <<taskVars, at, hand, priceVars, rowVars, limitVars, maps, infos, quoted, faults>>

Source(j) == job[j].source
IsNow(j, c) == want[j][c] = Now
Price(j, c, d) == [of |-> c, day |-> d, by |-> j]
DayOf(j, c) == IF IsNow(j, c) THEN Today ELSE want[j][c]

Goto(j, c, stage) == at' = [at EXCEPT ![j][c] = stage]
Take(j, c, price) == hand' = [hand EXCEPT ![j][c] = price]
End(j, c, price) == Goto(j, c, "done") /\ Take(j, c, price)
Fault == faults < MaxFaults /\ faults' = faults + 1

Init ==
    /\ job \in Plans
    /\ at = [j \in Calls |-> [c \in Coins |-> IF c \in job[j].coins THEN "new" ELSE "done"]]
    /\ want = [j \in Calls |-> [c \in Coins |-> job[j].day]]
    /\ hand = [j \in Calls |-> [c \in Coins |-> None]]
    /\ reuse = {} /\ broken = {}
    /\ answer = [j \in Calls |-> None]
    /\ current = [c \in Coins |-> None]
    /\ history = [c \in Coins |-> [d \in Days |-> None]]
    /\ rows = [c \in Coins |-> IF c \in Listed THEN "coingecko" ELSE None]
    /\ ids = Listed /\ cachedRows = Listed
    /\ maps = {} /\ infos = {} /\ hits = 0 /\ lasting = FALSE
    /\ quoted = {} /\ faults = 0

-----------------------------------------------------------------------------
(* Planted bugs.  Each operator below is a wrong variant of the definition *)
(* of the same parameters it is paired with in PROJECT.json; no action uses *)
(* them.                                                                   *)

\* The cache is looked at also by calls for fresh prices.
UsesCacheAlways(j) == TRUE

\* The price goes into the cache of a coin that is there already, and no further.
AfterRowReturn(j, c) ==
    CASE Source(j) = "geckoterminal" -> IF IsNow(j, c) THEN "done" ELSE "pools"
      [] OTHER -> IF IsNow(j, c) THEN "cache" ELSE "save"

\* The limit key gets its time to live with the first hit only.
NeedsExpire == hits = 1

\* An error of one coin breaks every call.
BreaksAll(j, c) == TRUE

\* The prices of the days are saved under the day asked for.
SavedDayAsked(j, c, days) ==
    [history EXCEPT ![c] = [d \in Days |->
        IF d = want[j][c] THEN Price(j, c, CHOOSE e \in days : TRUE) ELSE @[d]]]

\* The price is saved although there is no row yet.
HasRowAlways(c) == TRUE

-----------------------------------------------------------------------------
(* What the stages have in common.                                         *)

\* The error of a coin is the error of the call for CoinGecko, but for the current
\* prices its historical call asks itself for, and for the history on-chain.
BreaksCall(j, c) ==
    \/ Source(j) = "coingecko" /\ want[j][c] = job[j].day
    \/ Source(j) = "onchain" /\ ~IsNow(j, c)

\* No price.  Work on cached token data starts again with a request.
NoPrice(j, c) ==
    /\ IF <<j, c>> \in reuse THEN Goto(j, c, "fetchInfo") ELSE Goto(j, c, "done")
    /\ reuse' = reuse \ {<<j, c>>}
    /\ Take(j, c, None)
    /\ UNCHANGED <<job, want, broken, answer>>

Fails(j, c) ==
    /\ Fault
    /\ IF <<j, c>> \in reuse THEN Goto(j, c, "fetchInfo") ELSE Goto(j, c, "done")
    /\ reuse' = reuse \ {<<j, c>>}
    /\ Take(j, c, None)
    /\ broken' = IF BreaksCall(j, c) THEN broken \cup {j} ELSE broken
    /\ quoted' = quoted \ {<<j, c>>}
    /\ UNCHANGED <<job, want, answer>>

\* The first stage of each service.
First(j, c) ==
    IF Source(j) = "defillama" THEN "chains"
    ELSE IF job[j].day # Now
    THEN IF job[j].batch \/ Source(j) = "coingecko" THEN "past"
         ELSE IF Source(j) = "geckoterminal" THEN "again" ELSE "platforms"
    ELSE CASE Source(j) = "onchain" -> IF c \in Allowed THEN "platforms" ELSE "done"
           [] Source(j) = "dodoex" -> IF c \in Routed THEN "look" ELSE "done"
           [] OTHER -> "look"

Start(j) ==
    /\ \E c \in Coins : at[j][c] = "new"
    /\ at' = [at EXCEPT ![j] = [c \in Coins |-> IF c \in job[j].coins THEN First(j, c) ELSE "done"]]
    /\ UNCHANGED <<taskVars, hand, priceVars, rowVars, limitVars, maps, infos, quoted, faults>>

\* The call returns when its goroutines are through; one that is broken need not
\* take up the coins that wait for their turn.
Return(j) ==
    /\ answer[j] = None
    /\ \A c \in Coins : at[j][c] = "done" \/ (j \in broken /\ at[j][c] \in {"turn", "ready", "hold"})
    /\ answer' = [answer EXCEPT ![j] =
          [c \in Coins |-> IF j \in broken THEN None ELSE hand[j][c]]]
    /\ UNCHANGED <<job, want, reuse, broken, at, hand, priceVars, rowVars, limitVars, maps, infos,
                   quoted, faults>>

\* The platforms of CoinGecko, its networks on-chain, and the chains of DefiLlama.
AfterMap(j, c) ==
    CASE at[j][c] = "platforms" -> "networks"
      [] at[j][c] = "chains" -> IF c \in OnLlama THEN IF IsNow(j, c) THEN "look" ELSE "again"
                                ELSE "done"
      [] OTHER -> IF IsNow(j, c) THEN "look" ELSE "again"

\* A coin on a chain DefiLlama does not know ends a batch without prices.
LookInMap(j, c) ==
    /\ at[j][c] \in {"platforms", "networks", "chains"}
    /\ maps' = maps \cup {at[j][c]}
    /\ Goto(j, c, AfterMap(j, c))
    /\ broken' = IF AfterMap(j, c) = "done" /\ IsNow(j, c) THEN broken \cup {j} ELSE broken
    /\ UNCHANGED <<job, want, reuse, answer, hand, priceVars, rowVars, limitVars, infos, quoted,
                   faults>>

\* Without its list of chains DefiLlama knows none.
MapFails(j, c) ==
    /\ at[j][c] \in {"platforms", "networks", "chains"} \ maps
    /\ Fault
    /\ End(j, c, None)
    /\ broken' = IF BreaksCall(j, c) \/ (at[j][c] = "chains" /\ IsNow(j, c))
                 THEN broken \cup {j} ELSE broken
    /\ UNCHANGED <<job, want, reuse, answer, priceVars, rowVars, limitVars, maps, infos, quoted>>

-----------------------------------------------------------------------------
(* The current price.                                                      *)

\* CoinGecko asks for the price also if it is cached, and answers the cached one
\* also if the call is for a fresh one.  A history asks with the cache.
UsesCache(j) == ~job[j].fresh \/ job[j].day # Now

LookAtCurrent(j, c) ==
    /\ at[j][c] = "look"
    /\ CASE Source(j) = "coingecko" -> Goto(j, c, "ready") /\ Take(j, c, current[c])
         [] Source(j) # "coingecko" /\ current[c] # None /\ UsesCache(j) ->
              End(j, c, current[c])
         [] OTHER -> /\ Goto(j, c, CASE Source(j) = "geckoterminal" -> "limit"
                                     [] Source(j) = "defillama" -> "ready"
                                     [] OTHER -> "request")
                     /\ UNCHANGED hand
    /\ UNCHANGED <<taskVars, priceVars, rowVars, limitVars, maps, infos, quoted, faults>>

\* The count of the network is read, raised, and given a time to live.
CheckLimit(j, c) ==
    /\ at[j][c] = "limit"
    /\ IF hits > Limit THEN End(j, c, None) ELSE Goto(j, c, "count") /\ UNCHANGED hand
    /\ UNCHANGED <<taskVars, priceVars, rowVars, limitVars, maps, infos, quoted, faults>>

Count(j, c) ==
    /\ at[j][c] = "count"
    /\ hits' = hits + 1 /\ lasting' = (hits = 0 \/ lasting)
    /\ Goto(j, c, "expire")
    /\ UNCHANGED <<taskVars, hand, priceVars, rowVars, maps, infos, quoted, faults>>

SetsExpiry == hits > 0

\* The command may be lost.
Expire(j, c) ==
    /\ at[j][c] = "expire"
    /\ \/ lasting' = (IF SetsExpiry THEN FALSE ELSE lasting) /\ UNCHANGED faults
       \/ Fault /\ UNCHANGED lasting
    /\ Goto(j, c, "request")
    /\ UNCHANGED <<taskVars, hand, priceVars, rowVars, hits, maps, infos, quoted>>

AfterRequest(j, c) ==
    CASE Source(j) = "defillama" -> "row"
      [] Source(j) = "coingecko" /\ ~IsNow(j, c) -> "hold"
      [] OTHER -> "cache"

\* The price of a coin, of a day with CoinGecko and DefiLlama.  GeckoTerminal's is
\* not taken for a coin of high price and low reserve.
Request(j, c) ==
    /\ at[j][c] = "request"
    /\ \/ /\ Take(j, c, Price(j, c, DayOf(j, c))) /\ Goto(j, c, AfterRequest(j, c))
          /\ quoted' = quoted \cup {<<j, c>>}
          /\ UNCHANGED <<taskVars, faults>>
       \/ NoPrice(j, c) /\ UNCHANGED <<quoted, faults>>
       \/ Fails(j, c)
    /\ UNCHANGED <<priceVars, rowVars, limitVars, maps, infos>>

\* CoinGecko asks for the coins whose cached row has its id, DefiLlama for those whose
\* price is not cached.
Asks(j, ready) == IF Source(j) = "coingecko" THEN ready \cap cachedRows \cap ids ELSE ready

\* A batch of DefiLlama's puts a price under a key it has not asked for at index 0.
Misfiles(j) == Source(j) = "defillama" /\ job[j].day = Now /\ job[j].batch

\* The first coin of the call; the others are in no order.
FirstCoin(j) == CHOOSE c \in Coins : c \in job[j].coins

\* One request for all coins.  An error, also of the look-up of the rows, ends a call
\* to CoinGecko; DefiLlama has no prices then.  A price under a strange key becomes
\* the one of the first coin, also of one that was cached; if that has a price of its
\* own too, the later of the two stands.
RequestAll(j) ==
    LET ready == {c \in Coins : at[j][c] = "ready"}
        keeps(c) == Source(j) = "coingecko" /\ hand[j][c] # None
        takes(got, c) == c \in got /\ ~keeps(c)
        finish(got, strays) ==
            /\ at' = [at EXCEPT ![j] = [c \in Coins |->
                  IF c \in strays \/ takes(got, c) THEN AfterRequest(j, c)
                  ELSE IF c \in ready THEN "done" ELSE at[j][c]]]
            /\ hand' = [hand EXCEPT ![j] = [c \in Coins |->
                  IF c \in strays THEN Price(j, Stranger, Today)
                  ELSE IF takes(got, c) THEN Price(j, c, Today) ELSE hand[j][c]]]
    IN
    /\ ready # {} /\ j \notin broken
    /\ \A c \in Coins : at[j][c] \in {"ready", "turn", "hold", "done"}
    /\ \/ \E got \in SUBSET Asks(j, ready) : \E strays \in SUBSET {FirstCoin(j)} :
             /\ strays # {} => Misfiles(j)
             /\ finish(got, strays) /\ quoted' = quoted \cup ({j} \X got)
             /\ UNCHANGED <<broken, faults>>
       \/ /\ Fault
          /\ IF Source(j) = "coingecko" /\ job[j].day = Now
             THEN broken' = broken \cup {j} /\ UNCHANGED <<at, hand>>
             ELSE /\ UNCHANGED broken
                  /\ at' = [at EXCEPT ![j] = [c \in Coins |->
                        IF c \in ready THEN "done" ELSE at[j][c]]]
                  /\ hand' = [hand EXCEPT ![j] = [c \in Coins |->
                        IF c \in ready THEN None ELSE hand[j][c]]]
          /\ UNCHANGED quoted
    /\ UNCHANGED <<job, want, reuse, answer, priceVars, rowVars, limitVars, maps, infos>>

Cache(j, c) ==
    /\ at[j][c] = "cache"
    /\ current' = [current EXCEPT ![c] = hand[j][c]]
    /\ Goto(j, c, CASE Source(j) = "geckoterminal" -> "row"
                    [] Source(j) = "coingecko" /\ job[j].day = Now -> "hold"
                    [] OTHER -> "save")
    /\ UNCHANGED <<taskVars, hand, history, rowVars, limitVars, maps, infos, quoted, faults>>

-----------------------------------------------------------------------------
(* The row of the coin.                                                    *)

AfterRow(j, c) ==
    CASE Source(j) = "geckoterminal" -> IF IsNow(j, c) THEN "save" ELSE "pools"
      [] OTHER -> IF IsNow(j, c) THEN "cache" ELSE "save"

HasRow(c) == c \in cachedRows

\* GetCoinsByOneID, which looks in the cache only: a row that is not cached is taken
\* for none.
CheckRow(j, c) ==
    /\ at[j][c] = "row"
    /\ Goto(j, c, IF HasRow(c) THEN AfterRow(j, c) ELSE "insert")
    /\ UNCHANGED <<taskVars, hand, priceVars, rowVars, limitVars, maps, infos, quoted, faults>>

\* The row is written, over the source of one that is there, and cached.
Insert(j, c) ==
    /\ at[j][c] = "insert"
    /\ rows' = [rows EXCEPT ![c] = Source(j)]
    /\ cachedRows' = cachedRows \cup {c}
    /\ Goto(j, c, AfterRow(j, c))
    /\ UNCHANGED <<taskVars, hand, priceVars, ids, limitVars, maps, infos, quoted, faults>>

\* The look-up of the row fails, or the write.  The history of GeckoTerminal goes on
\* after a failed write; a batch of DefiLlama has its answer, but does not cache or
\* save it.
RowFails(j, c) ==
    /\ at[j][c] \in {"row", "insert"}
    /\ CASE at[j][c] = "insert" /\ Source(j) = "geckoterminal" /\ ~IsNow(j, c) ->
              Fault /\ Goto(j, c, "pools") /\ UNCHANGED <<taskVars, hand, quoted>>
         [] Source(j) = "defillama" /\ IsNow(j, c) /\ job[j].batch ->
              Fault /\ Goto(j, c, "done") /\ UNCHANGED <<taskVars, hand, quoted>>
         [] OTHER -> Fails(j, c)
    /\ UNCHANGED <<priceVars, rowVars, limitVars, maps, infos>>

-----------------------------------------------------------------------------
(* The history.                                                            *)

Save(j, c) ==
    /\ at[j][c] = "save"
    /\ history' = [history EXCEPT ![c][DayOf(j, c)] = hand[j][c]]
    /\ Goto(j, c, "done")
    /\ UNCHANGED <<taskVars, hand, current, rowVars, limitVars, maps, infos, quoted, faults>>

\* Only CoinGecko looks at the error.
SaveFails(j, c) ==
    /\ at[j][c] = "save" /\ Fault
    /\ IF Source(j) = "coingecko" THEN End(j, c, None) ELSE Goto(j, c, "done") /\ UNCHANGED hand
    /\ quoted' = IF Source(j) = "coingecko" THEN quoted \ {<<j, c>>} ELSE quoted
    /\ UNCHANGED <<taskVars, priceVars, rowVars, limitVars, maps, infos>>

\* CoinGecko saves the prices of a call at its end.  If that fails, so does the call.
SaveAll(j) ==
    LET held == {c \in Coins : at[j][c] = "hold"} IN
    /\ held # {} /\ j \notin broken
    /\ \A c \in Coins : at[j][c] \in {"hold", "done"}
    /\ at' = [at EXCEPT ![j] = [c \in Coins |-> "done"]]
    /\ \/ /\ history' = [c \in Coins |-> IF c \in held
                THEN [history[c] EXCEPT ![DayOf(j, c)] = hand[j][c]] ELSE history[c]]
          /\ UNCHANGED <<broken, faults>>
       \/ Fault /\ broken' = broken \cup {j} /\ UNCHANGED history
    /\ UNCHANGED <<job, want, reuse, answer, hand, current, rowVars, limitVars, maps, infos, quoted>>

\* Without the price of the day CoinGecko takes one coin after the other,
\* GeckoTerminal and on-chain look again, one by one.
AfterPast(j) ==
    CASE Source(j) = "coingecko" -> "turn"
      [] Source(j) = "onchain" -> "platforms"
      [] OTHER -> "again"

LookAtPast(j, c) ==
    LET found == history[c][want[j][c]] IN
    /\ at[j][c] = "past"
    /\ IF found # None THEN End(j, c, found)
       ELSE Goto(j, c, AfterPast(j)) /\ UNCHANGED hand
    /\ UNCHANGED <<taskVars, priceVars, rowVars, limitVars, maps, infos, quoted, faults>>

\* CoinGecko and GeckoTerminal ask for the current price of today.
AskNow(j, c) == want' = [want EXCEPT ![j][c] = Now] /\ Goto(j, c, "look")

LookAgain(j, c) ==
    LET found == history[c][want[j][c]] IN
    /\ at[j][c] = "again"
    /\ CASE found # None -> End(j, c, found) /\ UNCHANGED want
         [] found = None /\ Source(j) = "geckoterminal" /\ want[j][c] = Today ->
              AskNow(j, c) /\ UNCHANGED hand
         [] OTHER -> /\ Goto(j, c, CASE Source(j) = "geckoterminal" -> "info"
                                     [] Source(j) = "onchain" -> "pools"
                                     [] OTHER -> "request")
                     /\ UNCHANGED <<want, hand>>
    /\ UNCHANGED <<job, reuse, broken, answer, priceVars, rowVars, limitVars, maps, infos, quoted,
                   faults>>

TakeTurn(j, c) ==
    /\ at[j][c] = "turn" /\ j \notin broken
    /\ \A e \in Coins : at[j][e] \in {"turn", "hold", "done"}
    /\ IF c \notin cachedRows \cap ids THEN End(j, c, None) /\ UNCHANGED want
       ELSE IF want[j][c] = Today THEN AskNow(j, c) /\ UNCHANGED hand
       ELSE Goto(j, c, "request") /\ UNCHANGED <<want, hand>>
    /\ UNCHANGED <<job, reuse, broken, answer, priceVars, rowVars, limitVars, maps, infos, quoted,
                   faults>>

-----------------------------------------------------------------------------
(* Prices of days from pools: GeckoTerminal and CoinGecko on-chain.        *)

LookAtInfo(j, c) ==
    /\ at[j][c] = "info"
    /\ IF <<"token", c>> \in infos THEN Goto(j, c, "row") /\ reuse' = reuse \cup {<<j, c>>}
       ELSE Goto(j, c, "fetchInfo") /\ UNCHANGED reuse
    /\ UNCHANGED <<job, want, broken, answer, hand, priceVars, rowVars, limitVars, maps, infos,
                   quoted, faults>>

\* The token data are cached before they are looked at.
FetchInfo(j, c) ==
    /\ at[j][c] = "fetchInfo"
    /\ \/ /\ infos' = infos \cup {<<"token", c>>} /\ UNCHANGED <<faults, quoted>>
          /\ \/ Goto(j, c, "row") /\ UNCHANGED <<taskVars, hand>>
             \/ NoPrice(j, c)
       \/ Fails(j, c) /\ UNCHANGED infos
    /\ UNCHANGED <<priceVars, rowVars, limitVars, maps>>

\* The first pool of the token.
FetchPools(j, c) ==
    LET pools == <<Source(j), c>> IN
    /\ at[j][c] = "pools"
    /\ \/ /\ Goto(j, c, "ohlcv") /\ infos' = infos \cup {pools}
          /\ UNCHANGED <<taskVars, hand, faults, quoted>>
       \/ NoPrice(j, c) /\ UNCHANGED <<infos, faults, quoted>>
       \/ pools \notin infos /\ Fails(j, c) /\ UNCHANGED infos
    /\ UNCHANGED <<priceVars, rowVars, limitVars, maps>>

SavedDays(j, c, days) ==
    [history EXCEPT ![c] = [d \in Days |-> IF d \in days THEN Price(j, c, d) ELSE @[d]]]

\* The prices of all days of the pool are saved.
FetchDays(j, c) ==
    /\ at[j][c] = "ohlcv"
    /\ \/ /\ UNCHANGED faults
          /\ \E days \in SUBSET Days :
                /\ history' = IF days = {} THEN history ELSE SavedDays(j, c, days)
                /\ IF want[j][c] \in days
                   THEN /\ End(j, c, Price(j, c, want[j][c]))
                        /\ quoted' = quoted \cup {<<j, c>>} /\ UNCHANGED taskVars
                   ELSE NoPrice(j, c) /\ UNCHANGED quoted
       \/ Fails(j, c) /\ UNCHANGED history
    /\ UNCHANGED <<current, rowVars, limitVars, maps, infos>>

-----------------------------------------------------------------------------
(* SyncCoins, and what time does to the caches.                            *)

\* The list of CoinGecko is written over the rows, whatever their source.
SyncCoins ==
    /\ rows' = [c \in Coins |-> IF c \in Listed THEN "coingecko" ELSE rows[c]]
    /\ ids' = ids \cup Listed /\ cachedRows' = cachedRows \cup Listed
    /\ UNCHANGED <<taskVars, at, hand, priceVars, limitVars, maps, infos, quoted, faults>>

\* The process keeps the chains of DefiLlama.
CachesExpire ==
    /\ \/ \E c \in Coins : /\ current[c] # None /\ current' = [current EXCEPT ![c] = None]
                           /\ UNCHANGED <<cachedRows, maps, hits>>
       \/ \E c \in cachedRows : /\ cachedRows' = cachedRows \ {c}
                                /\ UNCHANGED <<current, maps, hits>>
       \/ \E m \in maps \ {"chains"} : /\ maps' = maps \ {m}
                                       /\ UNCHANGED <<current, cachedRows, hits>>
       \/ hits > 0 /\ ~lasting /\ hits' = 0 /\ UNCHANGED <<current, cachedRows, maps>>
    /\ UNCHANGED <<taskVars, at, hand, history, rows, ids, lasting, infos, quoted, faults>>

InfosExpire ==
    /\ \E i \in infos : infos' = infos \ {i}
    /\ UNCHANGED <<taskVars, at, hand, priceVars, rowVars, limitVars, maps, quoted, faults>>

NowStep(j, c) ==
    \/ LookAtCurrent(j, c) \/ CheckLimit(j, c) \/ Count(j, c) \/ Expire(j, c)
    \/ Request(j, c) \/ Cache(j, c) \/ CheckRow(j, c) \/ Insert(j, c) \/ RowFails(j, c)
    \/ Save(j, c) \/ SaveFails(j, c)
PastStep(j, c) ==
    \/ LookAtPast(j, c) \/ LookAgain(j, c) \/ TakeTurn(j, c) \/ LookAtInfo(j, c)
    \/ FetchInfo(j, c) \/ FetchPools(j, c) \/ FetchDays(j, c)

Next ==
    \/ \E j \in Calls :
          \/ Start(j) \/ RequestAll(j) \/ SaveAll(j) \/ Return(j)
          \/ \E c \in Coins : LookInMap(j, c) \/ MapFails(j, c) \/ NowStep(j, c) \/ PastStep(j, c)
    \/ SyncCoins
    \/ CachesExpire \/ InfosExpire

Spec == Init /\ [][Next]_vars

-----------------------------------------------------------------------------
IsOver(j) == answer[j] # None

\* No call is at work on c.
Quiet(c) == \A j \in Calls : at[j][c] \in {"new", "done"}

\* The price is for that coin and that day, or it is one under a strange key, which
\* goes to the first coin of a batch of DefiLlama's.
Belongs(price, c, d) ==
    /\ price.day = d
    /\ price.of # c =>
          price.of = Stranger /\ Misfiles(price.by) /\ c = FirstCoin(price.by)

\* A price that is cached, saved or answered is one a source has had for that coin,
\* and for that day: also where one request brings the prices of several coins or days
\* (coin_gecko_service.go:384-414, gecko_terminal_service.go:399-416,
\* coin_gecko_on_chain_service.go:268-291).  The exception is the price of DefiLlama's
\* under a key that is not in the map (defi_llama_service.go:396): nobody but the first
\* coin of the batch ever gets it.
PricesBelong ==
    \A c \in Coins :
        /\ current[c] # None => Belongs(current[c], c, Today)
        /\ \A d \in Days : history[c][d] # None => Belongs(history[c][d], c, d)
        /\ \A j \in Calls : IsOver(j) /\ answer[j][c] # None =>
              Belongs(answer[j][c], c, IF job[j].day = Now THEN Today ELSE job[j].day)

\* A coin whose current price is cached has a price of today in the history, however
\* the calls for it have interleaved, unless something has failed: it is cached before
\* it is saved, with the other coins of CoinGecko's call, or GeckoTerminal's row, between.
CachedAreSaved ==
    faults = 0 => \A c \in Coins : current[c] # None /\ Quiet(c) => history[c][Today] # None

\* A coin for which DefiLlama has brought a price, or GeckoTerminal a current one, has
\* a row, once the price is in the history: "if the table of coins does not have the coin, save it
\* first" (gecko_terminal_service.go:196, 313; the same at defi_llama_service.go:199,
\* 277, 407).
PricedHaveRows ==
    \A c \in Coins : \A d \in Days : LET price == history[c][d] IN
        price # None /\ \/ Source(price.by) = "defillama"
                        \/ Source(price.by) = "geckoterminal" /\ job[price.by].day \in {Now, Today}
        => rows[c] # None

\* The count of a network that is full ends: a key without a time to live takes a
\* lost EXPIRE or a call on its way to it, for each of its hits
\* (gecko_terminal_service.go:143-151).
NetworkReopens ==
    LET onTheWay == {w \in Calls \X Coins : at[w[1]][w[2]] = "expire"} IN
    lasting => hits <= faults + Cardinality(onTheWay)

\* A price that a source has had is answered: an error with one coin does not take
\* another coin's price with it, except from CoinGecko and from the history on-chain
\* (gecko_terminal_service.go:488-514, 540-588, defi_llama_service.go:391-431,
\* dodoex_route_service.go:168-196).
QuotesAreAnswered ==
    \A j \in Calls : \A c \in Coins :
        IsOver(j) /\ <<j, c>> \in quoted
            /\ (faults = 0 \/ Source(j) \in {"geckoterminal", "defillama", "dodoex"}
                           \/ (Source(j) = "onchain" /\ job[j].day = Now)) =>
            answer[j][c] # None

\* A call for fresh prices answers what it has asked for itself, but for CoinGecko,
\* which answers a cached price although it has just asked for a fresh one
\* (coin_gecko_service.go:349-356, 388-391).
FreshAreAsked ==
    \A j \in Calls : IsOver(j) /\ job[j].fresh /\ job[j].day = Now /\ Source(j) # "coingecko" =>
        \A c \in Coins : answer[j][c] # None => answer[j][c].by = j
=============================================================================
