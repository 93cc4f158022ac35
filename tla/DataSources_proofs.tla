------------------------ MODULE DataSources_proofs ------------------------
(***************************************************************************)
(* Proofs about DataSources: every step of a call, of SyncCoins and of     *)
(* time keeps the invariant IInv, from which the safety properties follow. *)
(*                                                                         *)
(* Most of IInv is about one call and one coin (Pair): the stage the coin  *)
(* is in, the day asked for and the price at hand fit each other.  The     *)
(* rest is about one call (OneCall), and about what the calls share: the   *)
(* caches and the history (StoresFit, SavedFits), the rows (RowsFit) and   *)
(* the limit of the network (HitsFit).  So a step of one coin is           *)
(* shown in its own lemma to be Legal for that coin, and LocalStep and     *)
(* PlainStep do the rest; a step of all coins of a call goes through       *)
(* WholeKept.  Whose a price is does not depend on the stages: Owned is    *)
(* an invariant of its own.                                                *)
(***************************************************************************)
EXTENDS DataSources, FiniteSetTheorems, TLAPS

-----------------------------------------------------------------------------
(* Types.                                                                  *)

Prices == [of : Coins \cup {Stranger}, day : Days, by : Calls]
Columns == Prices \cup {None}

AllStages ==
    {"new", "done", "platforms", "networks", "chains", "past", "turn", "again", "look", "ready",
     "limit", "count", "expire", "request", "cache", "hold", "row", "insert", "save", "info",
     "fetchInfo", "pools", "ohlcv"}

CallTypes ==
    /\ job \in Plans /\ at \in [Calls -> [Coins -> AllStages]]
    /\ want \in [Calls -> [Coins -> Days \cup {Now}]]
    /\ hand \in [Calls -> [Coins -> Columns]]
    /\ reuse \subseteq Calls \X Coins /\ quoted \subseteq Calls \X Coins
    /\ broken \subseteq Calls
    /\ answer \in [Calls -> [Coins -> Columns] \cup {None}]

SharedTypes ==
    /\ current \in [Coins -> Columns] /\ history \in [Coins -> [Days -> Columns]]
    /\ rows \in [Coins -> SourceNames \cup {None}] /\ ids \subseteq Coins
    /\ cachedRows \subseteq Coins

CountTypes == hits \in Nat /\ lasting \in BOOLEAN /\ faults \in Nat

TypeOK == CallTypes /\ SharedTypes /\ CountTypes

-----------------------------------------------------------------------------
(* One call and one coin.                                                  *)

\* The stages of a source for the current price, and for one of a day.
NowStages(source) ==
    CASE source = "coingecko" -> {"look", "ready", "cache", "hold", "save"}
      [] source = "geckoterminal" -> {"look", "limit", "count", "expire", "request", "cache",
                                      "row", "insert", "save"}
      [] source = "onchain" -> {"platforms", "networks", "look", "request", "cache", "save"}
      [] source = "defillama" -> {"chains", "look", "ready", "row", "insert", "cache", "save"}
      [] OTHER -> {"look", "request", "cache", "save"}

PastStages(source) ==
    CASE source = "coingecko" -> {"past", "turn", "request", "hold"}
      [] source = "geckoterminal" -> {"past", "again", "info", "fetchInfo", "row", "insert",
                                      "pools", "ohlcv"}
      [] source = "onchain" -> {"past", "platforms", "networks", "again", "pools", "ohlcv"}
      [] source = "defillama" -> {"chains", "again", "request", "row", "insert", "save"}
      [] OTHER -> {}

\* b is a job, s a stage, w the day asked for, h a price or None.
StageFits(b, s, w) ==
    s \in {"new", "done"} \cup (IF w = Now THEN NowStages(b.source) ELSE PastStages(b.source))

\* The day is that of the job, or it was today and the current price is asked for.
WantFits(b, w) ==
    \/ w = b.day
    \/ w = Now /\ b.day = Today /\ b.source \in {"coingecko", "geckoterminal"}

Meant(w) == IF w = Now THEN Today ELSE w

\* A coin has its price when it comes to be cached or saved, and on the way there.
Holds(b, s, w) ==
    \/ s \in {"cache", "hold", "save"}
    \/ s \in {"row", "insert"} /\ (w = Now \/ b.source = "defillama")

HandFits(j, c, b, s, w, h) ==
    /\ h # None => h.day = Meant(w)
    /\ Holds(b, s, w) => h # None /\ h.by = j
    /\ h # None /\ b.fresh /\ b.day = Now /\ b.source # "coingecko" => h.by = j

\* GeckoTerminal looks into pools for the days past only.
PoolFits(b, s, w) ==
    b.source = "geckoterminal" /\ w # Now
        /\ s \in {"info", "fetchInfo", "row", "insert", "pools", "ohlcv"} => w # Today

Fits(j, c, b, s, w, h) ==
    /\ StageFits(b, s, w) /\ WantFits(b, w) /\ HandFits(j, c, b, s, w, h) /\ PoolFits(b, s, w)

\* A coin that works on cached token data, and one whose price a source has had.
Reusable(b, s, w) ==
    b.source = "geckoterminal" /\ w # Now /\ s \in {"row", "insert", "pools", "ohlcv", "done"}
Quotable(b, s, w, h) == h # None /\ (s = "done" \/ Holds(b, s, w))

\* A price of DefiLlama that is on its way to the caches has its row, as has a current one
\* of GeckoTerminal.
Rowed(b, s, w) ==
    \/ b.source = "defillama" /\ s \in {"cache", "save"}
    \/ b.source = "geckoterminal" /\ w = Now /\ s = "save"

Pair(j, c) ==
    /\ Fits(j, c, job[j], at[j][c], want[j][c], hand[j][c])
    /\ <<j, c>> \in reuse => Reusable(job[j], at[j][c], want[j][c])
    /\ <<j, c>> \in quoted => Quotable(job[j], at[j][c], want[j][c], hand[j][c])
    /\ Rowed(job[j], at[j][c], want[j][c]) => rows[c] # None

Pairs == \A j \in Calls : \A c \in Coins : Pair(j, c)

-----------------------------------------------------------------------------
(* One call.                                                               *)

Began(j) == \A c \in Coins : at[j][c] # "new"
Fresh(j) ==
    \A c \in Coins : /\ at[j][c] = IF c \in job[j].coins THEN "new" ELSE "done"
                     /\ want[j][c] = job[j].day /\ hand[j][c] = None /\ <<j, c>> \notin quoted

\* DefiLlama asks for prices when every coin has its chain.
Chained(j) ==
    Source(j) = "defillama" /\ job[j].day = Now /\ (\E c \in Coins : <<j, c>> \in quoted)
        => j \notin broken /\ \A c \in Coins : at[j][c] # "chains"

BrokenFits(j) ==
    j \in broken => \/ Source(j) = "coingecko" /\ faults > 0
                    \/ Source(j) = "onchain" /\ job[j].day # Now /\ faults > 0
                    \/ Source(j) = "defillama" /\ job[j].day = Now

\* What has been answered is what was at hand, and nothing changes after that.
Answered(j) ==
    IsOver(j) =>
        /\ \A c \in Coins : \/ at[j][c] = "done"
                            \/ j \in broken /\ at[j][c] \in {"turn", "ready", "hold"}
        /\ \A c \in Coins : answer[j][c] = IF j \in broken THEN None ELSE hand[j][c]

OneCall(j) == (Began(j) \/ Fresh(j)) /\ Chained(j) /\ BrokenFits(j) /\ Answered(j)

EachCall == \A j \in Calls : OneCall(j)

-----------------------------------------------------------------------------
(* What the calls share.                                                   *)

Dated(d, price) == price # None => price.day = d

StoresFit ==
    /\ \A c \in Coins : Dated(Today, current[c])
    /\ \A c \in Coins : \A d \in Days : Dated(d, history[c][d])

RowsFit ==
    /\ \A c \in cachedRows : rows[c] # None
    /\ PricedHaveRows

\* A price that is cached is about to be saved.
Saves(b, s, w) ==
    w = Now /\ \/ s \in {"hold", "save"}
               \/ s \in {"row", "insert"} /\ b.source = "geckoterminal"

SavedFits ==
    faults = 0 => \A c \in Coins : current[c] # None =>
        \/ history[c][Today] # None
        \/ \E j \in Calls : Saves(job[j], at[j][c], want[j][c])

OnTheWay == {w \in Calls \X Coins : at[w[1]][w[2]] = "expire"}

HitsFit ==
    /\ IsFiniteSet(OnTheWay)
    /\ lasting => hits <= faults + Cardinality(OnTheWay)

IInv == TypeOK /\ Pairs /\ EachCall /\ StoresFit /\ RowsFit /\ SavedFits /\ HitsFit

-----------------------------------------------------------------------------
(* Jobs and prices.                                                        *)

LEMMA DayFacts == Today \in Days /\ Now \notin Days /\ Today # Now
BY SourceAssumption, Zenon

LEMMA JobFits ==
    ASSUME TypeOK, NEW j \in Calls
    PROVE  /\ job[j] \in Jobs
           /\ job[j].source \in SourceNames /\ job[j].day \in Days \cup {Now}
           /\ job[j].source = "dodoex" => job[j].day = Now
<1>1. job \in Plans /\ Plans \subseteq [Calls -> Jobs]
  BY SourceAssumption, Zenon DEF TypeOK, CallTypes
<1>2. job[j] \in Jobs
  BY <1>1, Zenon
<1>3. job[j].source \in SourceNames /\ job[j].day \in Days \cup {Now}
  BY <1>2, SMT DEF Jobs
<1>4. job[j].source = "dodoex" => job[j].day = Now
  BY <1>1, RouteAssumption, Zenon
<1> QED BY <1>2, <1>3, <1>4, Zenon

LEMMA PriceFits ==
    ASSUME NEW j \in Calls, NEW c \in Coins, NEW d \in Days
    PROVE  /\ Price(j, c, d) \in Prices /\ Price(j, c, d) # None
           /\ Price(j, Stranger, d) \in Prices /\ Price(j, Stranger, d) # None
           /\ Price(j, Stranger, d).day = d /\ Price(j, Stranger, d).by = j
           /\ Price(j, c, d).day = d /\ Price(j, c, d).by = j
<1>1. Price(j, c, d) \in Prices /\ Price(j, Stranger, d) \in Prices
  BY SMT DEF Price, Prices
<1>2. Price(j, c, d) # None /\ Price(j, Stranger, d) # None
  BY <1>1, NoneAssumption, Zenon DEF Prices
<1> QED BY <1>1, <1>2, SMT DEF Price

-----------------------------------------------------------------------------
(* A step of one call for one coin.                                        *)

Typed ==
    /\ at \in [Calls -> [Coins -> AllStages]]
    /\ want \in [Calls -> [Coins -> Days \cup {Now}]]
    /\ hand \in [Calls -> [Coins -> Columns]]

\* The call goes on to stage s for the coin, asks for w and holds h.
Step(j, c, s, w, h) ==
    /\ job' = job /\ Typed'
    /\ at'[j][c] = s /\ want'[j][c] = w /\ hand'[j][c] = h
    /\ \A i \in Calls : \A e \in Coins : i # j \/ e # c =>
          at'[i][e] = at[i][e] /\ want'[i][e] = want[i][e] /\ hand'[i][e] = hand[i][e]

LEMMA StepTo ==
    ASSUME TypeOK, NEW j \in Calls, NEW c \in Coins, NEW s \in AllStages, NEW w \in Days \cup {Now},
           NEW h \in Columns,
           job' = job, Goto(j, c, s),
           want' = [want EXCEPT ![j][c] = w] \/ (want' = want /\ w = want[j][c]),
           Take(j, c, h) \/ (hand' = hand /\ h = hand[j][c])
    PROVE  Step(j, c, s, w, h)
<1>1. Typed
  BY Zenon DEF TypeOK, CallTypes, Typed
<1>2. /\ at' \in [Calls -> [Coins -> AllStages]] /\ at'[j][c] = s
      /\ \A i \in Calls : \A e \in Coins : i # j \/ e # c => at'[i][e] = at[i][e]
  <2>1. at' = [at EXCEPT ![j][c] = s]
    BY Zenon DEF Goto
  <2>2. at \in [Calls -> [Coins -> AllStages]]
    BY <1>1, Zenon DEF Typed
  <2> QED BY <2>1, <2>2, SMT
<1>3. /\ want' \in [Calls -> [Coins -> Days \cup {Now}]] /\ want'[j][c] = w
      /\ \A i \in Calls : \A e \in Coins : i # j \/ e # c => want'[i][e] = want[i][e]
  <2>2. want \in [Calls -> [Coins -> Days \cup {Now}]]
    BY <1>1, Zenon DEF Typed
  <2>3. CASE want' = [want EXCEPT ![j][c] = w]
    BY <2>2, <2>3, SMT
  <2>4. CASE want' = want /\ w = want[j][c]
    BY <2>2, <2>4, Zenon
  <2> QED BY <2>3, <2>4, Zenon
<1>4. /\ hand' \in [Calls -> [Coins -> Columns]] /\ hand'[j][c] = h
      /\ \A i \in Calls : \A e \in Coins : i # j \/ e # c => hand'[i][e] = hand[i][e]
  <2>2. hand \in [Calls -> [Coins -> Columns]]
    BY <1>1, Zenon DEF Typed
  <2>3. CASE hand' = [hand EXCEPT ![j][c] = h]
    BY <2>2, <2>3, SMT
  <2>4. CASE hand' = hand /\ h = hand[j][c]
    BY <2>2, <2>4, Zenon
  <2> QED BY <2>3, <2>4, Zenon DEF Take
<1> QED BY <1>2, <1>3, <1>4, Zenon DEF Step, Typed

-----------------------------------------------------------------------------
(* What a step leaves alone.                                               *)

Unmoved(i, e) ==
    /\ at'[i][e] = at[i][e] /\ want'[i][e] = want[i][e] /\ hand'[i][e] = hand[i][e]
    /\ <<i, e>> \in reuse' => <<i, e>> \in reuse
    /\ <<i, e>> \in quoted' => <<i, e>> \in quoted

RowsStay == \A e \in Coins : rows[e] # None => rows'[e] # None

FaultsStay == faults' = faults \/ faults' = faults + 1

LEMMA PairKept ==
    ASSUME NEW i \in Calls, NEW e \in Coins, Pair(i, e), job' = job, Unmoved(i, e), RowsStay
    PROVE  Pair(i, e)'
<1>1. job'[i] = job[i]
  BY Zenon
<1>2. Fits(i, e, job'[i], at'[i][e], want'[i][e], hand'[i][e])
  BY <1>1, Zenon DEF Pair, Unmoved
<1>3. <<i, e>> \in reuse' => Reusable(job'[i], at'[i][e], want'[i][e])
  BY <1>1, Zenon DEF Pair, Unmoved
<1>4. <<i, e>> \in quoted' => Quotable(job'[i], at'[i][e], want'[i][e], hand'[i][e])
  BY <1>1, Zenon DEF Pair, Unmoved
<1>5. Rowed(job'[i], at'[i][e], want'[i][e]) => rows'[e] # None
  BY <1>1, Zenon DEF Pair, Unmoved, RowsStay
<1> QED BY <1>2, <1>3, <1>4, <1>5, Zenon DEF Pair

LEMMA CallKept ==
    ASSUME NEW i \in Calls, OneCall(i), job' = job, \A e \in Coins : Unmoved(i, e),
           answer'[i] = answer[i], i \in broken' <=> i \in broken, faults \in Nat, FaultsStay
    PROVE  OneCall(i)'
<1>1. job'[i] = job[i] /\ Source(i)' = Source(i) /\ IsOver(i)' = IsOver(i)
  BY Zenon DEF Source, IsOver
<1>2. faults > 0 => faults' > 0
  BY SMT DEF FaultsStay
<1>3. Began(i)' = Began(i)
  BY Zenon DEF Began, Unmoved
<1>4. Fresh(i) => Fresh(i)'
  BY <1>1, Zenon DEF Fresh, Unmoved
<1>5. Chained(i) => Chained(i)'
  BY <1>1, Zenon DEF Chained, Unmoved
<1>6. BrokenFits(i) => BrokenFits(i)'
  BY <1>1, <1>2, Zenon DEF BrokenFits
<1>7. Answered(i) => Answered(i)'
  BY <1>1, Zenon DEF Answered, Unmoved
<1> QED BY <1>3, <1>4, <1>5, <1>6, <1>7, Zenon DEF OneCall

\* What a step of one call for one coin does not touch.
Others(j, c) ==
    /\ \A i \in Calls : \A e \in Coins : i # j \/ e # c =>
          /\ <<i, e>> \in reuse' => <<i, e>> \in reuse
          /\ <<i, e>> \in quoted' => <<i, e>> \in quoted
    /\ reuse' \subseteq Calls \X Coins /\ quoted' \subseteq Calls \X Coins
    /\ answer' = answer

LEMMA OthersUnmoved ==
    ASSUME NEW j \in Calls, NEW c \in Coins, NEW s, NEW w, NEW h, Step(j, c, s, w, h), Others(j, c),
           NEW i \in Calls, NEW e \in Coins, i # j \/ e # c
    PROVE  Unmoved(i, e)
BY Zenon DEF Step, Others, Unmoved

\* A coin that is at work, not waiting for the others of its call.
Working(j, c) ==
    /\ at[j][c] \notin {"new", "done", "ready", "hold"}
    /\ at[j][c] = "turn" => j \notin broken

\* The new stage, day and price are in order.
Legal(j, c, s, w, h) ==
    /\ s \notin {"new", "chains"}
    /\ Fits(j, c, job[j], s, w, h)
    /\ <<j, c>> \in reuse' => Reusable(job[j], s, w)
    /\ <<j, c>> \in quoted' => Quotable(job[j], s, w, h)
    /\ Rowed(job[j], s, w) => rows'[c] # None

\* A legal step keeps what is said of each call and coin.
LEMMA PairsStep ==
    ASSUME TypeOK, Pairs, NEW j \in Calls, NEW c \in Coins, NEW s, NEW w, NEW h,
           Step(j, c, s, w, h), Others(j, c), Legal(j, c, s, w, h), RowsStay
    PROVE  Pairs'
<1>1. job' = job /\ job'[j] = job[j]
  BY Zenon DEF Step
<1>2. Pair(j, c)'
  <2>1. at'[j][c] = s /\ want'[j][c] = w /\ hand'[j][c] = h
    BY Zenon DEF Step
  <2>2. Fits(j, c, job'[j], at'[j][c], want'[j][c], hand'[j][c])
    BY <1>1, <2>1, Zenon DEF Legal
  <2>3. /\ <<j, c>> \in reuse' => Reusable(job'[j], at'[j][c], want'[j][c])
        /\ <<j, c>> \in quoted' => Quotable(job'[j], at'[j][c], want'[j][c], hand'[j][c])
        /\ Rowed(job'[j], at'[j][c], want'[j][c]) => rows'[c] # None
    BY <1>1, <2>1, Zenon DEF Legal
  <2> QED BY <2>2, <2>3, Zenon DEF Pair
<1>3. ASSUME NEW i \in Calls, NEW e \in Coins, i # j \/ e # c PROVE Pair(i, e)'
  <2>1. Unmoved(i, e)
    BY <1>3, OthersUnmoved, Zenon
  <2>2. Pair(i, e)
    BY Zenon DEF Pairs
  <2> QED BY <1>1, <2>1, <2>2, PairKept, Zenon
<1> QED BY <1>2, <1>3, Zenon DEF Pairs

\* The call breaks where it may, and a current price of DefiLlama has not been had yet.
Breaks(j, c) ==
    \/ broken' = broken
    \/ /\ broken' = broken \cup {j}
       /\ \/ Source(j) = "coingecko" /\ faults' > 0
          \/ Source(j) = "onchain" /\ job[j].day # Now /\ faults' > 0
          \/ Source(j) = "defillama" /\ job[j].day = Now /\ at[j][c] = "chains"

\* DefiLlama has current prices for all coins at once.
OneByOne(j, c) ==
    Source(j) = "defillama" /\ job[j].day = Now /\ <<j, c>> \in quoted' => <<j, c>> \in quoted

\* It keeps what is said of each call.
LEMMA CallsStep ==
    ASSUME TypeOK, EachCall, NEW j \in Calls, NEW c \in Coins, NEW s, NEW w, NEW h,
           Step(j, c, s, w, h), Others(j, c), Working(j, c), Breaks(j, c), OneByOne(j, c),
           s \notin {"new", "chains"}, FaultsStay
    PROVE  EachCall' /\ CallTypes'
<1>1. job' = job /\ answer' = answer /\ faults \in Nat /\ (faults > 0 => faults' > 0)
  BY SMT DEF Step, Others, FaultsStay, TypeOK, CountTypes
<1>2. OneCall(j)
  BY Zenon DEF EachCall
<1>3. Began(j)
  BY <1>2, Zenon DEF OneCall, Fresh, Working
<1>4. ~IsOver(j)
  BY <1>2, Zenon DEF OneCall, Answered, Working
<1>5. Source(j)' = Source(j) /\ job'[j] = job[j] /\ IsOver(j)' = IsOver(j)
  BY <1>1, Zenon DEF Source, IsOver
<1>6. at'[j][c] = s /\ \A e \in Coins : e # c => at'[j][e] = at[j][e]
  BY Zenon DEF Step
<1>7. Began(j)'
  BY <1>3, <1>6, Zenon DEF Began
<1>8. Answered(j)'
  BY <1>4, <1>5, Zenon DEF Answered
<1>9. BrokenFits(j)'
  <2>1. CASE broken' = broken
    BY <1>1, <1>2, <1>5, <2>1, Zenon DEF BrokenFits, OneCall
  <2>2. CASE broken' # broken
    BY <1>5, <2>2, Zenon DEF BrokenFits, Breaks
  <2> QED BY <2>1, <2>2, Zenon
<1>10. Chained(j)'
  <2> SUFFICES ASSUME Source(j) = "defillama", job[j].day = Now,
                      NEW e \in Coins, <<j, e>> \in quoted'
               PROVE  j \notin broken' /\ \A f \in Coins : at'[j][f] # "chains"
    BY <1>5, Zenon DEF Chained
  <2>1. <<j, e>> \in quoted
    BY Zenon DEF Others, OneByOne
  <2>2. j \notin broken /\ \A f \in Coins : at[j][f] # "chains"
    BY <1>2, <2>1, Zenon DEF OneCall, Chained
  <2>3. broken' = broken
    BY <2>2, SMT DEF Breaks
  <2> QED BY <1>6, <2>2, <2>3, Zenon
<1>11. OneCall(j)'
  BY <1>7, <1>8, <1>9, <1>10, Zenon DEF OneCall
<1>12. ASSUME NEW i \in Calls, i # j PROVE OneCall(i)'
  <2>1. \A e \in Coins : Unmoved(i, e)
    BY <1>12, OthersUnmoved, Zenon
  <2>2. OneCall(i) /\ answer'[i] = answer[i]
    BY <1>1, Zenon DEF EachCall
  <2>3. i \in broken' <=> i \in broken
    BY <1>12, Zenon DEF Breaks
  <2> QED BY <1>1, <2>1, <2>2, <2>3, CallKept, Zenon
<1>13. EachCall'
  BY <1>11, <1>12, Zenon DEF EachCall
<1>14. broken' \subseteq Calls
  BY SMT DEF Breaks, TypeOK, CallTypes
<1>15. CallTypes'
  BY <1>1, <1>14, Zenon DEF CallTypes, TypeOK, Step, Typed, Others
<1> QED BY <1>13, <1>15, Zenon

\* What is cached stays saved, or about to be.
LEMMA SavedStep ==
    ASSUME TypeOK, SavedFits, NEW j \in Calls, NEW c \in Coins, NEW s, NEW w, NEW h,
           Step(j, c, s, w, h), FaultsStay,
           \A e \in Coins : current'[e] # None =>
                current[e] # None \/ (e = c /\ Saves(job[j], s, w)),
           \A e \in Coins : history[e][Today] # None => history'[e][Today] # None,
           faults' = 0 /\ Saves(job[j], at[j][c], want[j][c]) =>
                Saves(job[j], s, w) \/ history'[c][Today] # None
    PROVE  SavedFits'
<1> SUFFICES ASSUME faults' = 0, NEW e \in Coins, current'[e] # None, history'[e][Today] = None
             PROVE  \E i \in Calls : Saves(job'[i], at'[i][e], want'[i][e])
  BY Zenon DEF SavedFits
<1>1. faults = 0
  BY SMT DEF FaultsStay, TypeOK, CountTypes
<1>2. job'[j] = job[j] /\ at'[j][c] = s /\ want'[j][c] = w /\ job' = job
  BY Zenon DEF Step
<1>3. CASE e = c /\ Saves(job[j], s, w)
  BY <1>2, <1>3, Zenon
<1>4. CASE ~(e = c /\ Saves(job[j], s, w))
  <2>1. current[e] # None /\ history[e][Today] = None
    BY <1>4, Zenon
  <2>2. PICK i \in Calls : Saves(job[i], at[i][e], want[i][e])
    BY <1>1, <2>1, Zenon DEF SavedFits
  <2>3. i # j \/ e # c
    BY <1>4, <2>2, Zenon
  <2>4. at'[i][e] = at[i][e] /\ want'[i][e] = want[i][e]
    BY <2>3, Zenon DEF Step
  <2> QED BY <1>2, <2>2, <2>4, Zenon
<1> QED BY <1>3, <1>4, Zenon

\* The hits stay covered where no coin comes to the EXPIRE or leaves it.
LEMMA HitsStep ==
    ASSUME TypeOK, HitsFit, NEW j \in Calls, NEW c \in Coins, NEW s, NEW w, NEW h,
           Step(j, c, s, w, h), FaultsStay, hits' = hits, lasting' = lasting,
           s # "expire", at[j][c] # "expire"
    PROVE  HitsFit'
<1>1. OnTheWay' = OnTheWay
  BY Zenon DEF OnTheWay, Step
<1>2. hits \in Nat /\ faults \in Nat /\ IsFiniteSet(OnTheWay)
  BY Zenon DEF TypeOK, CountTypes, HitsFit
<1>3. Cardinality(OnTheWay) \in Nat
  BY <1>2, FS_CardinalityType, Zenon
<1>4. IsFiniteSet(OnTheWay')
  BY <1>1, <1>2, Zenon
<1>5. Cardinality(OnTheWay') = Cardinality(OnTheWay)
  BY <1>1, Zenon
<1>6. lasting' => hits' <= faults' + Cardinality(OnTheWay')
  BY <1>2, <1>3, <1>5, SMT DEF HitsFit, FaultsStay
<1> QED BY <1>4, <1>6, Zenon DEF HitsFit

\* A step of a call for a coin that keeps what is said about calls and coins.
Local(j, c, s, w, h) ==
    /\ Step(j, c, s, w, h) /\ Others(j, c) /\ Working(j, c) /\ Breaks(j, c) /\ OneByOne(j, c)
    /\ Legal(j, c, s, w, h) /\ FaultsStay

LEMMA LocalStep ==
    ASSUME IInv, NEW j \in Calls, NEW c \in Coins, NEW s, NEW w, NEW h, Local(j, c, s, w, h),
           RowsStay, SharedTypes', hits' \in Nat, lasting' \in BOOLEAN,
           StoresFit', RowsFit', SavedFits', HitsFit'
    PROVE  IInv'
<1>1. Pairs'
  BY PairsStep, Zenon DEF IInv, Local
<1>2. s \notin {"new", "chains"}
  BY Zenon DEF Local, Legal
<1>3. EachCall' /\ CallTypes'
  BY <1>2, CallsStep, Zenon DEF IInv, Local
<1>4. faults' \in Nat
  BY SMT DEF Local, FaultsStay, IInv, TypeOK, CountTypes
<1> QED BY <1>1, <1>3, <1>4, Zenon DEF IInv, TypeOK, CountTypes

\* The caches, the table, the history and the limit are left alone.
Shared == UNCHANGED <<current, history, rows, ids, cachedRows, hits, lasting>>

LEMMA SharedStay ==
    ASSUME IInv, Shared, job' = job
    PROVE  /\ RowsStay /\ SharedTypes' /\ hits' \in Nat /\ lasting' \in BOOLEAN
           /\ StoresFit' /\ RowsFit'
<1>1. RowsStay
  BY Zenon DEF Shared, RowsStay
<1>2. SharedTypes' /\ hits' \in Nat /\ lasting' \in BOOLEAN
  BY Zenon DEF Shared, SharedTypes, IInv, TypeOK, CountTypes
<1>3. StoresFit'
  BY Zenon DEF Shared, StoresFit, Dated, IInv
<1>4. RowsFit'
  BY Zenon DEF Shared, RowsFit, PricedHaveRows, Source, IInv
<1> QED BY <1>1, <1>2, <1>3, <1>4, Zenon

\* A step that leaves what the calls share alone.
LEMMA PlainStep ==
    ASSUME IInv, NEW j \in Calls, NEW c \in Coins, NEW s, NEW w, NEW h, Local(j, c, s, w, h),
           Shared, s # "expire", at[j][c] # "expire",
           faults' = 0 /\ Saves(job[j], at[j][c], want[j][c]) => Saves(job[j], s, w)
    PROVE  IInv'
<1>1. Step(j, c, s, w, h) /\ FaultsStay /\ job' = job
  BY Zenon DEF Local, Step
<1>2. /\ RowsStay /\ SharedTypes' /\ hits' \in Nat /\ lasting' \in BOOLEAN
      /\ StoresFit' /\ RowsFit'
  BY <1>1, SharedStay, Zenon
<1>3. current' = current /\ history' = history /\ hits' = hits /\ lasting' = lasting
  BY Zenon DEF Shared
<1>4. TypeOK /\ SavedFits /\ HitsFit
  BY Zenon DEF IInv
<1>5. SavedFits'
  BY <1>1, <1>3, <1>4, SavedStep, Zenon
<1>6. HitsFit'
  BY <1>1, <1>3, <1>4, HitsStep, Zenon
<1> QED BY <1>2, <1>5, <1>6, LocalStep, Zenon

\* What the invariant says of a call and a coin.
LEMMA PairFacts ==
    ASSUME IInv, NEW j \in Calls, NEW c \in Coins
    PROVE  /\ TypeOK
           /\ job[j].source \in SourceNames /\ job[j].day \in Days \cup {Now}
           /\ Source(j) = job[j].source
           /\ job[j].source = "dodoex" => job[j].day = Now
           /\ at[j][c] \in AllStages /\ want[j][c] \in Days \cup {Now} /\ hand[j][c] \in Columns
           /\ Fits(j, c, job[j], at[j][c], want[j][c], hand[j][c])
           /\ <<j, c>> \in reuse => Reusable(job[j], at[j][c], want[j][c])
           /\ <<j, c>> \in quoted => Quotable(job[j], at[j][c], want[j][c], hand[j][c])
           /\ Rowed(job[j], at[j][c], want[j][c]) => rows[c] # None
<1>1. TypeOK /\ Pair(j, c)
  BY Zenon DEF IInv, Pairs
<1>2. at[j][c] \in AllStages /\ want[j][c] \in Days \cup {Now} /\ hand[j][c] \in Columns
  BY <1>1, Zenon DEF TypeOK, CallTypes
<1> QED BY <1>1, <1>2, JobFits, Zenon DEF Pair, Source

LEMMA OthersHold ==
    ASSUME TypeOK, NEW j \in Calls, NEW c \in Coins, answer' = answer,
           reuse' = reuse \/ reuse' = reuse \cup {<<j, c>>} \/ reuse' = reuse \ {<<j, c>>},
           quoted' = quoted \/ quoted' = quoted \cup {<<j, c>>} \/ quoted' = quoted \ {<<j, c>>}
    PROVE  Others(j, c)
<1>1. reuse \subseteq Calls \X Coins /\ quoted \subseteq Calls \X Coins
  BY Zenon DEF TypeOK, CallTypes
<1>2. reuse' \subseteq Calls \X Coins /\ quoted' \subseteq Calls \X Coins
  BY <1>1, SMT
<1>3. ASSUME NEW i \in Calls, NEW e \in Coins, i # j \/ e # c
      PROVE  /\ <<i, e>> \in reuse' => <<i, e>> \in reuse
             /\ <<i, e>> \in quoted' => <<i, e>> \in quoted
  BY <1>3, SMT
<1> QED BY <1>2, <1>3, Zenon DEF Others

\* A step that neither breaks the call nor is about a price had from a source.
LEMMA CalmStep ==
    ASSUME TypeOK, NEW j \in Calls, NEW c \in Coins, answer' = answer, broken' = broken,
           reuse' = reuse \/ reuse' = reuse \cup {<<j, c>>} \/ reuse' = reuse \ {<<j, c>>},
           quoted' = quoted \/ quoted' = quoted \ {<<j, c>>}
    PROVE  Others(j, c) /\ Breaks(j, c) /\ OneByOne(j, c)
<1>1. Others(j, c)
  BY OthersHold, Zenon
<1> QED BY <1>1, SMT DEF Breaks, OneByOne

-----------------------------------------------------------------------------
(* The steps for the current price.                                        *)

LEMMA StageFacts ==
    ASSUME NEW b, b.source \in SourceNames, NEW s, NEW w, StageFits(b, s, w)
    PROVE  /\ s \in {"look", "ready", "limit", "count", "expire", "cache"} => w = Now
           /\ s \in {"limit", "count", "expire"} => b.source = "geckoterminal"
           /\ s = "ready" => b.source \in {"coingecko", "defillama"}
           /\ s = "hold" => b.source = "coingecko"
           /\ s = "turn" => b.source = "coingecko" /\ w # Now
           /\ s \in {"past", "again", "info", "fetchInfo", "pools", "ohlcv"} => w # Now
           /\ s = "chains" => b.source = "defillama"
           /\ s \in {"platforms", "networks"} => b.source = "onchain"
           /\ s \in {"info", "fetchInfo"} => b.source = "geckoterminal"
           /\ s \in {"pools", "ohlcv"} => b.source \in {"geckoterminal", "onchain"}
           /\ s \in {"row", "insert"} => b.source \in {"geckoterminal", "defillama"}
           /\ s = "save" /\ b.source = "geckoterminal" => w = Now
           /\ s = "past" => b.source \in {"coingecko", "geckoterminal", "onchain"}
           /\ s = "again" => b.source \in {"geckoterminal", "onchain", "defillama"}
BY SMT DEF StageFits, NowStages, PastStages, SourceNames

\* A step of that kind that leaves what the calls share alone.
LEMMA CalmTo ==
    ASSUME IInv, NEW j \in Calls, NEW c \in Coins, NEW s \in AllStages, NEW w \in Days \cup {Now},
           NEW h \in Columns, Goto(j, c, s),
           want' = [want EXCEPT ![j][c] = w] \/ (want' = want /\ w = want[j][c]),
           Take(j, c, h) \/ (hand' = hand /\ h = hand[j][c]),
           job' = job, answer' = answer, broken' = broken,
           reuse' = reuse \/ reuse' = reuse \cup {<<j, c>>} \/ reuse' = reuse \ {<<j, c>>},
           quoted' = quoted \/ quoted' = quoted \ {<<j, c>>},
           Shared, FaultsStay, Working(j, c), Legal(j, c, s, w, h),
           s # "expire", at[j][c] # "expire",
           faults' = 0 /\ Saves(job[j], at[j][c], want[j][c]) => Saves(job[j], s, w)
    PROVE  IInv'
<1>1. TypeOK
  BY Zenon DEF IInv
<1>2. Step(j, c, s, w, h)
  BY <1>1, StepTo, Zenon
<1>3. Others(j, c) /\ Breaks(j, c) /\ OneByOne(j, c)
  BY <1>1, CalmStep, Zenon
<1>4. Local(j, c, s, w, h)
  BY <1>2, <1>3, Zenon DEF Local
<1> QED BY <1>4, PlainStep, Zenon

LEMMA LookAtCurrentStep ==
    ASSUME IInv, NEW j \in Calls, NEW c \in Coins, LookAtCurrent(j, c)
    PROVE  IInv'
<1> DEFINE b == job[j]
           w == want[j][c]
<1>1. /\ TypeOK /\ b.source \in SourceNames /\ Source(j) = b.source
      /\ w \in Days \cup {Now} /\ hand[j][c] \in Columns
      /\ Fits(j, c, b, "look", w, hand[j][c])
      /\ <<j, c>> \in reuse => Reusable(b, "look", w)
      /\ <<j, c>> \in quoted => Quotable(b, "look", w, hand[j][c])
  BY PairFacts, Zenon DEF LookAtCurrent
<1>2. w = Now
  BY <1>1, StageFacts, SMT DEF Fits
<1>3. current[c] \in Columns /\ (current[c] # None => current[c].day = Today)
  BY <1>1, Zenon DEF IInv, StoresFit, Dated, TypeOK, SharedTypes
<1>4. <<j, c>> \notin reuse /\ <<j, c>> \notin quoted
  BY <1>1, SMT DEF Reusable, Quotable, Holds
<1>5. /\ job' = job /\ answer' = answer /\ broken' = broken /\ reuse' = reuse /\ quoted' = quoted
      /\ want' = want /\ faults' = faults /\ Shared /\ at[j][c] = "look"
  BY Zenon DEF LookAtCurrent, taskVars, priceVars, rowVars, limitVars, Shared
<1>6. FaultsStay /\ Working(j, c)
  BY <1>5, Zenon DEF FaultsStay, Working
<1>7. ~Saves(b, at[j][c], w)
  BY <1>5, Zenon DEF Saves
<1>8. ASSUME NEW s \in AllStages, s \notin {"new", "chains", "expire"}, NEW h \in Columns,
             Goto(j, c, s),
             Take(j, c, h) \/ (hand' = hand /\ h = hand[j][c]),
             Fits(j, c, b, s, w, h), ~Rowed(b, s, w)
      PROVE  IInv'
  <2>1. Legal(j, c, s, w, h)
    BY <1>4, <1>5, <1>8, Zenon DEF Legal
  <2> QED BY <1>1, <1>5, <1>6, <1>7, <1>8, <2>1, CalmTo, Zenon
<1>9. CASE b.source = "coingecko"
  <2>1. Goto(j, c, "ready") /\ Take(j, c, current[c])
    BY <1>1, <1>9, SMT DEF LookAtCurrent
  <2>2. Fits(j, c, b, "ready", w, current[c]) /\ ~Rowed(b, "ready", w)
    BY <1>1, <1>2, <1>3, <1>9, SMT
    DEF Fits, StageFits, NowStages, WantFits, HandFits, Holds, PoolFits, Meant, Rowed
  <2> QED BY <1>3, <1>8, <2>1, <2>2, Zenon DEF AllStages
<1>10. CASE b.source # "coingecko" /\ current[c] # None /\ UsesCache(j)
  <2>1. Goto(j, c, "done") /\ Take(j, c, current[c])
    BY <1>1, <1>10, SMT DEF LookAtCurrent, End
  <2>2. Fits(j, c, b, "done", w, current[c]) /\ ~Rowed(b, "done", w)
    BY <1>1, <1>2, <1>3, <1>10, SMT
    DEF Fits, StageFits, NowStages, WantFits, HandFits, Holds, PoolFits, Meant, Rowed, UsesCache
  <2> QED BY <1>3, <1>8, <2>1, <2>2, Zenon DEF AllStages
<1>11. CASE b.source # "coingecko" /\ ~(current[c] # None /\ UsesCache(j))
  <2>1. PICK s \in {"limit", "ready", "request"} :
            /\ Goto(j, c, s) /\ hand' = hand
            /\ s = CASE b.source = "geckoterminal" -> "limit"
                     [] b.source = "defillama" -> "ready"
                     [] OTHER -> "request"
    BY <1>1, <1>11, SMT DEF LookAtCurrent
  <2>2. Fits(j, c, b, s, w, hand[j][c]) /\ ~Rowed(b, s, w)
    BY <1>1, <1>2, <1>11, <2>1, SMT
    DEF Fits, StageFits, NowStages, WantFits, HandFits, Holds, PoolFits, Meant, Rowed
  <2> QED BY <1>1, <1>8, <2>1, <2>2, Zenon DEF AllStages
<1> QED BY <1>9, <1>10, <1>11, Zenon

\* A coin without a price goes on to a request for its token data, or is done.
LEMMA EmptyLegal ==
    ASSUME IInv, NEW j \in Calls, NEW c \in Coins, Working(j, c), <<j, c>> \notin reuse',
           <<j, c>> \notin quoted', NEW s,
           s = IF <<j, c>> \in reuse THEN "fetchInfo" ELSE "done"
    PROVE  /\ Legal(j, c, s, want[j][c], None)
           /\ s \in AllStages /\ s \notin {"new", "chains", "expire"}
<1> DEFINE b == job[j]
           w == want[j][c]
<1>1. /\ b.source \in SourceNames /\ w \in Days \cup {Now}
      /\ Fits(j, c, b, at[j][c], w, hand[j][c])
      /\ <<j, c>> \in reuse => Reusable(b, at[j][c], w)
  BY PairFacts, Zenon
<1>2. CASE <<j, c>> \in reuse
  <2>1. Fits(j, c, b, "fetchInfo", w, None) /\ ~Rowed(b, "fetchInfo", w)
    BY <1>1, <1>2, SMT
    DEF Fits, StageFits, PastStages, WantFits, HandFits, Holds, PoolFits, Rowed, Reusable, Working
  <2> QED BY <1>2, <2>1, SMT DEF Legal, AllStages
<1>3. CASE <<j, c>> \notin reuse
  <2>1. Fits(j, c, b, "done", w, None) /\ ~Rowed(b, "done", w)
    BY <1>1, <1>3, SMT DEF Fits, StageFits, HandFits, Holds, PoolFits, Rowed
  <2> QED BY <1>3, <2>1, SMT DEF Legal, AllStages
<1> QED BY <1>2, <1>3, Zenon

\* No price is found: the coin is done, or asks for token data of its own.
LEMMA NoPriceStep ==
    ASSUME IInv, NEW j \in Calls, NEW c \in Coins, NoPrice(j, c), quoted' = quoted, faults' = faults,
           at[j][c] \in {"request", "fetchInfo", "pools", "ohlcv"}
    PROVE  \E s \in AllStages \ {"new", "chains", "expire"} : Local(j, c, s, want[j][c], None)
<1> DEFINE s == IF <<j, c>> \in reuse THEN "fetchInfo" ELSE "done"
<1>1. /\ TypeOK /\ job[j].source \in SourceNames
      /\ want[j][c] \in Days \cup {Now}
      /\ <<j, c>> \in quoted => Quotable(job[j], at[j][c], want[j][c], hand[j][c])
  BY PairFacts, Zenon
<1>2. Working(j, c)
  BY SMT DEF Working
<1>3. <<j, c>> \notin quoted
  BY <1>1, SMT DEF Quotable, Holds
<1>4. /\ Goto(j, c, s) /\ Take(j, c, None) /\ reuse' = reuse \ {<<j, c>>}
      /\ job' = job /\ want' = want /\ broken' = broken /\ answer' = answer
  BY Zenon DEF NoPrice
<1>5. /\ Legal(j, c, s, want[j][c], None)
      /\ s \in AllStages /\ s \notin {"new", "chains", "expire"}
  <2>1. <<j, c>> \notin reuse' /\ <<j, c>> \notin quoted'
    BY <1>3, <1>4, SMT
  <2> QED BY <1>2, <2>1, EmptyLegal, Zenon
<1>6. None \in Columns
  BY Zenon DEF Columns
<1>7. Step(j, c, s, want[j][c], None)
  BY <1>1, <1>4, <1>5, <1>6, StepTo, Zenon
<1>8. Others(j, c) /\ Breaks(j, c) /\ OneByOne(j, c)
  BY <1>1, <1>4, CalmStep, Zenon
<1>9. FaultsStay
  BY Zenon DEF FaultsStay
<1>10. Local(j, c, s, want[j][c], None)
  BY <1>2, <1>5, <1>7, <1>8, <1>9, Zenon DEF Local
<1> HIDE DEF s
<1> QED BY <1>5, <1>10, Zenon

LEMMA FaultFacts == ASSUME TypeOK, Fault PROVE FaultsStay /\ faults' > 0 /\ faults' # 0
BY SMT DEF Fault, FaultsStay, TypeOK, CountTypes

\* An error: likewise, and it may break the call.
LEMMA FailsStep ==
    ASSUME IInv, NEW j \in Calls, NEW c \in Coins, Fails(j, c), Shared, Working(j, c),
           at[j][c] \notin {"expire", "chains"}
    PROVE  IInv'
<1> DEFINE s == IF <<j, c>> \in reuse THEN "fetchInfo" ELSE "done"
<1>1. /\ TypeOK /\ job[j].source \in SourceNames /\ Source(j) = job[j].source
      /\ want[j][c] \in Days \cup {Now}
      /\ Fits(j, c, job[j], at[j][c], want[j][c], hand[j][c])
  BY PairFacts, Zenon
<1>2. /\ Goto(j, c, s) /\ Take(j, c, None) /\ reuse' = reuse \ {<<j, c>>}
      /\ quoted' = quoted \ {<<j, c>>} /\ Fault
      /\ job' = job /\ want' = want /\ answer' = answer
      /\ broken' = IF BreaksCall(j, c) THEN broken \cup {j} ELSE broken
  BY Zenon DEF Fails
<1>3. FaultsStay /\ faults' > 0 /\ faults' # 0
  BY <1>1, <1>2, FaultFacts, Zenon
<1>4. /\ Legal(j, c, s, want[j][c], None)
      /\ s \in AllStages /\ s \notin {"new", "chains", "expire"}
  <2>1. <<j, c>> \notin reuse' /\ <<j, c>> \notin quoted'
    BY <1>2, SMT
  <2> QED BY <2>1, EmptyLegal, Zenon
<1>5. None \in Columns
  BY Zenon DEF Columns
<1>6. Step(j, c, s, want[j][c], None)
  BY <1>1, <1>2, <1>4, <1>5, StepTo, Zenon
<1>7. Others(j, c)
  BY <1>1, <1>2, OthersHold, Zenon
<1>8. OneByOne(j, c)
  BY <1>2, SMT DEF OneByOne
<1>9. Breaks(j, c)
  <2>1. CASE BreaksCall(j, c)
    <3>1. \/ Source(j) = "coingecko"
          \/ Source(j) = "onchain" /\ job[j].day # Now
      BY <1>1, <2>1, SMT DEF BreaksCall, IsNow, Fits, WantFits
    <3> QED BY <1>2, <1>3, <2>1, <3>1, Zenon DEF Breaks
  <2>2. CASE ~BreaksCall(j, c)
    BY <1>2, <2>2, Zenon DEF Breaks
  <2> QED BY <2>1, <2>2, Zenon
<1>10. Local(j, c, s, want[j][c], None)
  BY <1>3, <1>4, <1>6, <1>7, <1>8, <1>9, Zenon DEF Local
<1>11. s # "expire" /\ at[j][c] # "expire"
  BY <1>4, SMT
<1> HIDE DEF s
<1> QED BY <1>3, <1>10, <1>11, PlainStep, Zenon

\* GeckoTerminal's limit is looked at.
LEMMA CheckLimitStep ==
    ASSUME IInv, NEW j \in Calls, NEW c \in Coins, CheckLimit(j, c)
    PROVE  IInv'
<1> DEFINE b == job[j]
           w == want[j][c]
<1>1. /\ TypeOK /\ b.source \in SourceNames
      /\ w \in Days \cup {Now} /\ hand[j][c] \in Columns
      /\ Fits(j, c, b, "limit", w, hand[j][c])
      /\ <<j, c>> \in reuse => Reusable(b, "limit", w)
      /\ <<j, c>> \in quoted => Quotable(b, "limit", w, hand[j][c])
  BY PairFacts, Zenon DEF CheckLimit
<1>2. w = Now /\ b.source = "geckoterminal"
  BY <1>1, StageFacts, SMT DEF Fits
<1>3. <<j, c>> \notin reuse /\ <<j, c>> \notin quoted
  BY <1>1, SMT DEF Reusable, Quotable, Holds
<1>4. /\ job' = job /\ answer' = answer /\ broken' = broken /\ reuse' = reuse /\ quoted' = quoted
      /\ want' = want /\ faults' = faults /\ Shared /\ at[j][c] = "limit"
  BY Zenon DEF CheckLimit, taskVars, priceVars, rowVars, limitVars, Shared
<1>5. FaultsStay /\ Working(j, c) /\ ~Saves(b, at[j][c], w)
  BY <1>4, SMT DEF FaultsStay, Working, Saves
<1>6. ASSUME NEW s \in {"done", "count"}, NEW h \in Columns, Goto(j, c, s),
             Take(j, c, h) \/ (hand' = hand /\ h = hand[j][c]), h = None \/ h = hand[j][c]
      PROVE  IInv'
  <2>1. Fits(j, c, b, s, w, h) /\ ~Rowed(b, s, w)
    BY <1>1, <1>2, <1>6, SMT
    DEF Fits, StageFits, NowStages, WantFits, HandFits, Holds, PoolFits, Meant, Rowed
  <2>2. s \in AllStages /\ s \notin {"new", "chains", "expire"} /\ s # "expire"
    BY SMT DEF AllStages
  <2>3. Legal(j, c, s, w, h)
    BY <1>3, <1>4, <2>1, <2>2, Zenon DEF Legal
  <2> QED BY <1>1, <1>4, <1>5, <1>6, <2>2, <2>3, CalmTo, Zenon
<1>7. CASE hits > Limit
  <2>1. Goto(j, c, "done") /\ Take(j, c, None)
    BY <1>7, Zenon DEF CheckLimit, End
  <2>2. None \in Columns
    BY Zenon DEF Columns
  <2> QED BY <1>6, <2>1, <2>2, Zenon
<1>8. CASE ~(hits > Limit)
  <2>1. Goto(j, c, "count") /\ hand' = hand
    BY <1>8, Zenon DEF CheckLimit
  <2> QED BY <1>1, <1>6, <2>1, Zenon
<1> QED BY <1>7, <1>8, Zenon

\* A step within the same price, which leaves the caches and the table alone.
LEMMA CountLocal ==
    ASSUME IInv, NEW j \in Calls, NEW c \in Coins, NEW s \in {"expire", "request"},
           at[j][c] \in {"count", "expire"}, Goto(j, c, s), hand' = hand,
           UNCHANGED <<taskVars, priceVars, rowVars, quoted>>, FaultsStay
    PROVE  /\ Local(j, c, s, want[j][c], hand[j][c]) /\ SavedFits'
           /\ RowsStay /\ SharedTypes' /\ StoresFit' /\ RowsFit'
<1> DEFINE b == job[j]
           w == want[j][c]
<1>1. /\ TypeOK /\ b.source \in SourceNames
      /\ w \in Days \cup {Now} /\ hand[j][c] \in Columns
      /\ Fits(j, c, b, at[j][c], w, hand[j][c])
      /\ <<j, c>> \in reuse => Reusable(b, at[j][c], w)
      /\ <<j, c>> \in quoted => Quotable(b, at[j][c], w, hand[j][c])
  BY PairFacts, Zenon
<1>2. w = Now /\ b.source = "geckoterminal"
  <2>1. StageFits(b, at[j][c], w)
    BY <1>1, Zenon DEF Fits
  <2> QED BY <1>1, <2>1, StageFacts, SMT
<1>3. <<j, c>> \notin reuse /\ <<j, c>> \notin quoted
  BY <1>1, SMT DEF Reusable, Quotable, Holds
<1>4. /\ job' = job /\ answer' = answer /\ broken' = broken /\ reuse' = reuse /\ quoted' = quoted
      /\ want' = want /\ current' = current /\ history' = history
      /\ rows' = rows /\ ids' = ids /\ cachedRows' = cachedRows
  BY Zenon DEF taskVars, priceVars, rowVars
<1>5. Working(j, c) /\ ~Saves(b, at[j][c], w)
  BY SMT DEF Working, Saves
<1>6. Fits(j, c, b, s, w, hand[j][c]) /\ ~Rowed(b, s, w)
  BY <1>1, <1>2, SMT
  DEF Fits, StageFits, NowStages, WantFits, HandFits, Holds, PoolFits, Meant, Rowed
<1>7. s \in AllStages /\ s \notin {"new", "chains"}
  BY SMT DEF AllStages
<1>8. Legal(j, c, s, w, hand[j][c])
  BY <1>3, <1>4, <1>6, <1>7, Zenon DEF Legal
<1>9. Step(j, c, s, w, hand[j][c])
  BY <1>1, <1>4, <1>7, StepTo, Zenon
<1>10. Others(j, c) /\ Breaks(j, c) /\ OneByOne(j, c)
  BY <1>1, <1>4, CalmStep, Zenon
<1>11. Local(j, c, s, w, hand[j][c])
  BY <1>5, <1>8, <1>9, <1>10, Zenon DEF Local
<1>12. SavedFits /\ StoresFit /\ RowsFit /\ SharedTypes
  BY Zenon DEF IInv, TypeOK
<1>13. SavedFits'
  BY <1>1, <1>4, <1>5, <1>9, <1>12, SavedStep, Zenon
<1>14. RowsStay /\ SharedTypes' /\ StoresFit' /\ RowsFit'
  BY <1>4, <1>12, Zenon
  DEF RowsStay, SharedTypes, StoresFit, Dated, RowsFit, PricedHaveRows, Source
<1> QED BY <1>11, <1>13, <1>14, Zenon

\* The hit is counted: the coin is one more on its way to the EXPIRE.
LEMMA CountStep ==
    ASSUME IInv, NEW j \in Calls, NEW c \in Coins, Count(j, c)
    PROVE  IInv'
<1>1. /\ at[j][c] = "count" /\ Goto(j, c, "expire") /\ hand' = hand
      /\ UNCHANGED <<taskVars, priceVars, rowVars, quoted>> /\ faults' = faults
      /\ hits' = hits + 1 /\ lasting' = (hits = 0 \/ lasting)
  BY Zenon DEF Count
<1>2. at[j][c] \in {"count", "expire"} /\ FaultsStay
  BY <1>1, Zenon DEF FaultsStay
<1>3. /\ Local(j, c, "expire", want[j][c], hand[j][c]) /\ SavedFits'
      /\ RowsStay /\ SharedTypes' /\ StoresFit' /\ RowsFit'
  BY <1>1, <1>2, CountLocal, Zenon
<1>4. hits \in Nat /\ lasting \in BOOLEAN /\ faults \in Nat /\ HitsFit
  BY Zenon DEF IInv, TypeOK, CountTypes
<1>5. hits' \in Nat /\ lasting' \in BOOLEAN
  BY <1>1, <1>4, SMT
<1>6. <<j, c>> \notin OnTheWay /\ OnTheWay' = OnTheWay \cup {<<j, c>>}
  <2>1. <<j, c>> \notin OnTheWay
    BY <1>1, SMT DEF OnTheWay
  <2>2. /\ at'[j][c] = "expire"
        /\ \A i \in Calls : \A e \in Coins : i # j \/ e # c => at'[i][e] = at[i][e]
    BY <1>3, Zenon DEF Local, Step
  <2> QED BY <2>1, <2>2, SMT DEF OnTheWay
<1>7. IsFiniteSet(OnTheWay) /\ Cardinality(OnTheWay) \in Nat
  BY <1>4, FS_CardinalityType, Zenon DEF HitsFit
<1>8. IsFiniteSet(OnTheWay') /\ Cardinality(OnTheWay') = Cardinality(OnTheWay) + 1
  BY <1>6, <1>7, FS_AddElement, Zenon
<1>9. hits' <= faults' + Cardinality(OnTheWay') \/ ~lasting'
  BY <1>1, <1>4, <1>7, <1>8, SMT DEF HitsFit
<1>10. HitsFit'
  BY <1>8, <1>9, Zenon DEF HitsFit
<1> QED BY <1>3, <1>5, <1>10, LocalStep, Zenon

\* The key gets its time to live, or a fault is counted for the coin that leaves.
LEMMA ExpireStep ==
    ASSUME IInv, NEW j \in Calls, NEW c \in Coins, Expire(j, c)
    PROVE  IInv'
<1>1. /\ at[j][c] = "expire" /\ Goto(j, c, "request") /\ hand' = hand
      /\ UNCHANGED <<taskVars, priceVars, rowVars, quoted>> /\ hits' = hits
      /\ \/ lasting' = (IF SetsExpiry THEN FALSE ELSE lasting) /\ faults' = faults
         \/ Fault /\ lasting' = lasting
  BY Zenon DEF Expire
<1>2. at[j][c] \in {"count", "expire"} /\ FaultsStay
  BY <1>1, Zenon DEF FaultsStay, Fault
<1>3. /\ Local(j, c, "request", want[j][c], hand[j][c]) /\ SavedFits'
      /\ RowsStay /\ SharedTypes' /\ StoresFit' /\ RowsFit'
  BY <1>1, <1>2, CountLocal, Zenon
<1>4. hits \in Nat /\ lasting \in BOOLEAN /\ faults \in Nat /\ HitsFit
  BY Zenon DEF IInv, TypeOK, CountTypes
<1>5. hits' \in Nat /\ lasting' \in BOOLEAN
  BY <1>1, <1>4, Zenon
<1>6. <<j, c>> \in OnTheWay /\ OnTheWay' = OnTheWay \ {<<j, c>>}
  <2>1. <<j, c>> \in OnTheWay
    BY <1>1, SMT DEF OnTheWay
  <2>2. /\ at'[j][c] = "request"
        /\ \A i \in Calls : \A e \in Coins : i # j \/ e # c => at'[i][e] = at[i][e]
    BY <1>3, Zenon DEF Local, Step
  <2> QED BY <2>1, <2>2, SMT DEF OnTheWay
<1>7. IsFiniteSet(OnTheWay) /\ Cardinality(OnTheWay) \in Nat
  BY <1>4, FS_CardinalityType, Zenon DEF HitsFit
<1>8. IsFiniteSet(OnTheWay') /\ Cardinality(OnTheWay') = Cardinality(OnTheWay) - 1
  BY <1>6, <1>7, FS_RemoveElement, Zenon
<1>9. hits' <= faults' + Cardinality(OnTheWay') \/ ~lasting'
  <2>1. CASE Fault /\ lasting' = lasting
    BY <1>1, <1>4, <1>7, <1>8, <2>1, SMT DEF HitsFit, Fault
  <2>2. CASE lasting' = (IF SetsExpiry THEN FALSE ELSE lasting) /\ faults' = faults
    <3>1. Cardinality(OnTheWay') \in Nat
      BY <1>8, FS_CardinalityType, Zenon
    <3> QED BY <1>1, <1>4, <2>2, <3>1, SMT DEF SetsExpiry
  <2> QED BY <1>1, <2>1, <2>2, Zenon
<1>10. HitsFit'
  BY <1>8, <1>9, Zenon DEF HitsFit
<1> QED BY <1>3, <1>5, <1>10, LocalStep, Zenon

\* The price of a coin is had from its source, or none, or an error.
LEMMA RequestStep ==
    ASSUME IInv, NEW j \in Calls, NEW c \in Coins, Request(j, c)
    PROVE  IInv'
<1> DEFINE b == job[j]
           w == want[j][c]
           s == AfterRequest(j, c)
           h == Price(j, c, DayOf(j, c))
<1>1. /\ TypeOK /\ b.source \in SourceNames /\ b.day \in Days \cup {Now} /\ Source(j) = b.source
      /\ w \in Days \cup {Now}
      /\ Fits(j, c, b, "request", w, hand[j][c])
      /\ <<j, c>> \in reuse => Reusable(b, "request", w)
  BY PairFacts, Zenon DEF Request
<1>2. Shared /\ at[j][c] = "request"
  BY Zenon DEF Request, priceVars, rowVars, limitVars, Shared
<1>3. Working(j, c) /\ ~Saves(b, at[j][c], w)
  BY <1>2, SMT DEF Working, Saves
<1>4. CASE /\ Take(j, c, h) /\ Goto(j, c, s)
           /\ quoted' = quoted \cup {<<j, c>>}
           /\ UNCHANGED <<taskVars, faults>>
  <2>1. /\ job' = job /\ answer' = answer /\ broken' = broken /\ reuse' = reuse
        /\ want' = want /\ FaultsStay
    BY <1>4, Zenon DEF taskVars, FaultsStay
  <2>2. DayOf(j, c) = Meant(w) /\ Meant(w) \in Days
    BY <1>1, DayFacts, SMT DEF DayOf, IsNow, Meant
  <2>3. h \in Columns /\ h # None /\ h.day = Meant(w) /\ h.by = j
    <3>1. PICK d \in Days : d = Meant(w)
      BY <2>2, Zenon
    <3>2. h = Price(j, c, d)
      BY <2>2, <3>1, Zenon
    <3>3. /\ Price(j, c, d) \in Prices /\ Price(j, c, d) # None
          /\ Price(j, c, d).day = d
          /\ Price(j, c, d).by = j
      BY PriceFits, SMT
    <3> HIDE DEF h
    <3> QED BY <3>1, <3>2, <3>3, SMT DEF Columns
  <2> HIDE DEF h
  <2>4. /\ s \in {"row", "hold", "cache"}
        /\ s = "row" => b.source = "defillama" /\ w # Now
        /\ s = "hold" => b.source = "coingecko" /\ w # Now
        /\ s = "cache" => w = Now /\ b.source # "defillama" /\ b.source # "coingecko"
    BY <1>1, SMT
    DEF AfterRequest, IsNow, Fits, StageFits, NowStages, PastStages, SourceNames
  <2> HIDE DEF s
  <2>5. Fits(j, c, b, s, w, h) /\ ~Rowed(b, s, w) /\ Quotable(b, s, w, h)
    BY <1>1, <2>3, <2>4, SMT
    DEF Fits, StageFits, NowStages, PastStages, HandFits, Holds, PoolFits, Rowed, Quotable,
        SourceNames
  <2>6. s \in AllStages /\ s \notin {"new", "chains"} /\ s # "expire"
    BY <2>4, SMT DEF AllStages
  <2>7. <<j, c>> \notin reuse
    BY <1>1, SMT DEF Reusable
  <2>8. Legal(j, c, s, w, h)
    BY <2>1, <2>5, <2>6, <2>7, Zenon DEF Legal
  <2>9. Step(j, c, s, w, h)
    BY <1>1, <1>4, <2>1, <2>3, <2>6, StepTo, Zenon
  <2>10. Others(j, c)
    BY <1>1, <1>4, <2>1, OthersHold, Zenon
  <2>11. OneByOne(j, c)
    <3>1. ~(Source(j) = "defillama" /\ job[j].day = Now)
      BY <1>1, SMT DEF Fits, StageFits, NowStages, PastStages, WantFits
    <3> QED BY <3>1, Zenon DEF OneByOne
  <2>12. Local(j, c, s, w, h)
    BY <1>3, <2>1, <2>8, <2>9, <2>10, <2>11, Zenon DEF Local, Breaks
  <2> QED BY <1>2, <1>3, <2>6, <2>12, PlainStep, Zenon
<1>5. CASE NoPrice(j, c) /\ UNCHANGED <<quoted, faults>>
  <2>1. PICK e \in AllStages \ {"new", "chains", "expire"} : Local(j, c, e, w, None)
    <3>1. at[j][c] \in {"request", "fetchInfo", "pools", "ohlcv"}
      BY <1>2, SMT
    <3>2. NoPrice(j, c) /\ quoted' = quoted /\ faults' = faults
      BY <1>5, Zenon
    <3> QED BY <3>1, <3>2, NoPriceStep, Zenon
  <2>2. e # "expire" /\ at[j][c] # "expire"
    BY <1>2, SMT
  <2> QED BY <1>2, <1>3, <2>1, <2>2, PlainStep, Zenon
<1>6. CASE Fails(j, c)
  <2>1. at[j][c] \notin {"expire", "chains"}
    BY <1>2, SMT
  <2> QED BY <1>2, <1>3, <1>6, <2>1, FailsStep, Zenon
<1> QED BY <1>4, <1>5, <1>6, Zenon DEF Request

\* The price is cached: the coin goes on to save it.
LEMMA CacheStep ==
    ASSUME IInv, NEW j \in Calls, NEW c \in Coins, Cache(j, c)
    PROVE  IInv'
<1> DEFINE b == job[j]
           w == want[j][c]
           h == hand[j][c]
<1>1. /\ TypeOK /\ b.source \in SourceNames /\ Source(j) = b.source
      /\ w \in Days \cup {Now} /\ h \in Columns
      /\ Fits(j, c, b, "cache", w, h)
      /\ <<j, c>> \in reuse => Reusable(b, "cache", w)
      /\ <<j, c>> \in quoted => Quotable(b, "cache", w, h)
      /\ Rowed(b, "cache", w) => rows[c] # None
  BY PairFacts, Zenon DEF Cache
<1>2. /\ at[j][c] = "cache" /\ current' = [current EXCEPT ![c] = h]
      /\ history' = history /\ rows' = rows /\ ids' = ids /\ cachedRows' = cachedRows
      /\ hits' = hits /\ lasting' = lasting /\ hand' = hand /\ quoted' = quoted /\ faults' = faults
      /\ job' = job /\ want' = want /\ reuse' = reuse /\ broken' = broken /\ answer' = answer
  BY Zenon DEF Cache, taskVars, rowVars, limitVars
<1>3. PICK s \in {"row", "hold", "save"} :
          /\ Goto(j, c, s)
          /\ s = CASE b.source = "geckoterminal" -> "row"
                   [] b.source = "coingecko" /\ job[j].day = Now -> "hold"
                   [] OTHER -> "save"
  BY <1>1, SMT DEF Cache
<1>4. w = Now /\ h # None /\ h.day = Today
  BY <1>1, SMT DEF Fits, StageFits, PastStages, HandFits, Holds, Meant
<1>5. Fits(j, c, b, s, w, h) /\ Saves(b, s, w)
  BY <1>1, <1>3, <1>4, SMT
  DEF Fits, StageFits, NowStages, WantFits, HandFits, Holds, PoolFits, Saves, SourceNames
<1>6. Rowed(b, s, w) => rows'[c] # None
  BY <1>1, <1>2, <1>3, SMT DEF Rowed
<1>7. <<j, c>> \notin reuse /\ (<<j, c>> \in quoted => Quotable(b, s, w, h))
  BY <1>1, <1>3, <1>4, SMT DEF Reusable, Quotable, Holds
<1>8. s \in AllStages /\ s \notin {"new", "chains"} /\ s # "expire" /\ at[j][c] # "expire"
  BY <1>2, SMT DEF AllStages
<1>9. Legal(j, c, s, w, h)
  BY <1>2, <1>5, <1>6, <1>7, <1>8, Zenon DEF Legal
<1>10. Step(j, c, s, w, h)
  BY <1>1, <1>2, <1>3, <1>8, StepTo, Zenon
<1>11. Working(j, c) /\ FaultsStay
  BY <1>2, SMT DEF Working, FaultsStay
<1>12. Others(j, c) /\ Breaks(j, c) /\ OneByOne(j, c)
  BY <1>1, <1>2, CalmStep, Zenon
<1>13. Local(j, c, s, w, h)
  BY <1>9, <1>10, <1>11, <1>12, Zenon DEF Local
<1>14. /\ current' \in [Coins -> Columns] /\ current'[c] = h
       /\ \A e \in Coins : e # c => current'[e] = current[e]
  BY <1>1, <1>2, SMT DEF TypeOK, SharedTypes
<1>15. SavedFits /\ StoresFit /\ RowsFit /\ HitsFit
  BY Zenon DEF IInv
<1>16. SavedFits'
  <2>1. \A e \in Coins : current'[e] # None => current[e] # None \/ (e = c /\ Saves(b, s, w))
    BY <1>5, <1>14, Zenon
  <2> QED BY <1>1, <1>2, <1>5, <1>10, <1>11, <1>15, <2>1, SavedStep, Zenon
<1>17. HitsFit'
  BY <1>1, <1>2, <1>8, <1>10, <1>11, <1>15, HitsStep, Zenon
<1>18. StoresFit'
  BY <1>2, <1>4, <1>14, <1>15, Zenon DEF StoresFit, Dated
<1>19. RowsFit' /\ RowsStay
  BY <1>2, <1>15, Zenon DEF RowsFit, PricedHaveRows, Source, RowsStay
<1>20. SharedTypes' /\ hits' \in Nat /\ lasting' \in BOOLEAN
  BY <1>1, <1>2, <1>14, Zenon DEF TypeOK, SharedTypes, CountTypes
<1> QED BY <1>13, <1>16, <1>17, <1>18, <1>19, <1>20, LocalStep, Zenon

-----------------------------------------------------------------------------
(* The row of the coin.                                                    *)

LEMMA CheckRowStep ==
    ASSUME IInv, NEW j \in Calls, NEW c \in Coins, CheckRow(j, c)
    PROVE  IInv'
<1> DEFINE b == job[j]
           w == want[j][c]
           h == hand[j][c]
           s == IF HasRow(c) THEN AfterRow(j, c) ELSE "insert"
<1>1. /\ TypeOK /\ b.source \in SourceNames /\ Source(j) = b.source
      /\ w \in Days \cup {Now} /\ h \in Columns
      /\ Fits(j, c, b, "row", w, h)
      /\ <<j, c>> \in reuse => Reusable(b, "row", w)
      /\ <<j, c>> \in quoted => Quotable(b, "row", w, h)
  BY PairFacts, Zenon DEF CheckRow
<1>2. /\ at[j][c] = "row" /\ Goto(j, c, s) /\ hand' = hand /\ quoted' = quoted /\ faults' = faults
      /\ job' = job /\ want' = want /\ reuse' = reuse /\ broken' = broken /\ answer' = answer
      /\ Shared
  BY Zenon DEF CheckRow, taskVars, priceVars, rowVars, limitVars, Shared
<1>3. b.source \in {"geckoterminal", "defillama"}
  BY <1>1, StageFacts, SMT DEF Fits
<1>4. /\ s \in {"insert", "save", "pools", "cache"}
      /\ s # "insert" =>
            /\ c \in cachedRows
            /\ s = IF b.source = "geckoterminal" THEN IF w = Now THEN "save" ELSE "pools"
                   ELSE IF w = Now THEN "cache" ELSE "save"
  BY <1>1, <1>3, SMT DEF AfterRow, IsNow, HasRow
<1> HIDE DEF s
<1>5. Fits(j, c, b, s, w, h)
  BY <1>1, <1>3, <1>4, SMT
  DEF Fits, StageFits, NowStages, PastStages, WantFits, HandFits, Holds, PoolFits
<1>6. /\ Saves(b, "row", w) => Saves(b, s, w)
      /\ Reusable(b, "row", w) => Reusable(b, s, w)
      /\ Quotable(b, "row", w, h) => Quotable(b, s, w, h)
  BY <1>3, <1>4, SMT DEF Saves, Reusable, Quotable, Holds
<1>7. Rowed(b, s, w) => rows'[c] # None
  <2>1. s = "insert" => ~Rowed(b, s, w)
    BY SMT DEF Rowed
  <2>2. rows' = rows /\ (c \in cachedRows => rows[c] # None)
    BY <1>2, Zenon DEF Shared, IInv, RowsFit
  <2> QED BY <1>4, <2>1, <2>2, Zenon
<1>8. s \in AllStages /\ s \notin {"new", "chains"} /\ s # "expire" /\ at[j][c] # "expire"
  BY <1>2, <1>4, SMT DEF AllStages
<1>9. Legal(j, c, s, w, h)
  BY <1>1, <1>2, <1>5, <1>6, <1>7, <1>8, Zenon DEF Legal
<1>10. Working(j, c) /\ FaultsStay
  BY <1>2, SMT DEF Working, FaultsStay
<1> QED BY <1>1, <1>2, <1>6, <1>8, <1>9, <1>10, CalmTo, Zenon

LEMMA InsertStep ==
    ASSUME IInv, NEW j \in Calls, NEW c \in Coins, Insert(j, c)
    PROVE  IInv'
<1> DEFINE b == job[j]
           w == want[j][c]
           h == hand[j][c]
           s == AfterRow(j, c)
<1>1. /\ TypeOK /\ b.source \in SourceNames /\ Source(j) = b.source
      /\ w \in Days \cup {Now} /\ h \in Columns
      /\ Fits(j, c, b, "insert", w, h)
      /\ <<j, c>> \in reuse => Reusable(b, "insert", w)
      /\ <<j, c>> \in quoted => Quotable(b, "insert", w, h)
  BY PairFacts, Zenon DEF Insert
<1>2. /\ at[j][c] = "insert" /\ Goto(j, c, s) /\ hand' = hand /\ quoted' = quoted /\ faults' = faults
      /\ job' = job /\ want' = want /\ reuse' = reuse /\ broken' = broken /\ answer' = answer
      /\ current' = current /\ history' = history /\ ids' = ids /\ hits' = hits /\ lasting' = lasting
      /\ rows' = [rows EXCEPT ![c] = b.source] /\ cachedRows' = cachedRows \cup {c}
  BY <1>1, Zenon DEF Insert, taskVars, priceVars, rowVars, limitVars
<1>3. b.source \in {"geckoterminal", "defillama"}
  BY <1>1, StageFacts, SMT DEF Fits
<1>4. s = IF b.source = "geckoterminal" THEN IF w = Now THEN "save" ELSE "pools"
          ELSE IF w = Now THEN "cache" ELSE "save"
  BY <1>1, <1>3, SMT DEF AfterRow, IsNow
<1> HIDE DEF s
<1>5. Fits(j, c, b, s, w, h)
  BY <1>1, <1>3, <1>4, SMT
  DEF Fits, StageFits, NowStages, PastStages, WantFits, HandFits, Holds, PoolFits
<1>6. /\ Saves(b, "insert", w) => Saves(b, s, w)
      /\ Reusable(b, "insert", w) => Reusable(b, s, w)
      /\ Quotable(b, "insert", w, h) => Quotable(b, s, w, h)
  BY <1>3, <1>4, SMT DEF Saves, Reusable, Quotable, Holds
<1>7. b.source # None /\ b.source \in SourceNames \cup {None}
  BY <1>1, NoneAssumption, Zenon
<1>8. /\ rows' \in [Coins -> SourceNames \cup {None}] /\ rows'[c] # None
      /\ \A e \in Coins : e # c => rows'[e] = rows[e]
      /\ cachedRows' \subseteq Coins
  BY <1>1, <1>2, <1>7, SMT DEF TypeOK, SharedTypes
<1>9. s \in AllStages /\ s \notin {"new", "chains"} /\ s # "expire" /\ at[j][c] # "expire"
  BY <1>2, <1>4, SMT DEF AllStages
<1>10. Legal(j, c, s, w, h)
  BY <1>1, <1>2, <1>5, <1>6, <1>8, <1>9, Zenon DEF Legal
<1>11. Step(j, c, s, w, h)
  BY <1>1, <1>2, <1>9, StepTo, Zenon
<1>12. Working(j, c) /\ FaultsStay
  BY <1>2, SMT DEF Working, FaultsStay
<1>13. Others(j, c) /\ Breaks(j, c) /\ OneByOne(j, c)
  BY <1>1, <1>2, CalmStep, Zenon
<1>14. Local(j, c, s, w, h)
  BY <1>10, <1>11, <1>12, <1>13, Zenon DEF Local
<1>15. SavedFits /\ StoresFit /\ RowsFit /\ HitsFit
  BY Zenon DEF IInv
<1>16. SavedFits'
  <2>1. Saves(b, at[j][c], w) => Saves(b, s, w)
    BY <1>2, <1>6, Zenon
  <2> QED BY <1>1, <1>2, <1>11, <1>12, <1>15, <2>1, SavedStep, Zenon
<1>17. HitsFit'
  BY <1>1, <1>2, <1>9, <1>11, <1>12, <1>15, HitsStep, Zenon
<1>18. StoresFit'
  BY <1>2, <1>15, Zenon DEF StoresFit, Dated
<1>19. RowsStay
  BY <1>8, Zenon DEF RowsStay
<1>20. RowsFit'
  <2>1. \A e \in cachedRows' : rows'[e] # None
    <3> SUFFICES ASSUME NEW e \in cachedRows' PROVE rows'[e] # None
      OBVIOUS
    <3>1. e = c \/ e \in cachedRows
      BY <1>2, SMT
    <3>2. e \in Coins
      BY <1>8, Zenon
    <3> QED BY <1>8, <1>15, <3>1, <3>2, Zenon DEF RowsFit
  <2>2. PricedHaveRows'
    BY <1>2, <1>15, <1>19, Zenon DEF RowsFit, PricedHaveRows, Source, RowsStay
  <2> QED BY <2>1, <2>2, Zenon DEF RowsFit
<1>21. SharedTypes' /\ hits' \in Nat /\ lasting' \in BOOLEAN
  BY <1>1, <1>2, <1>8, Zenon DEF TypeOK, SharedTypes, CountTypes
<1> QED BY <1>14, <1>16, <1>17, <1>18, <1>19, <1>20, <1>21, LocalStep, Zenon

LEMMA RowFailsStep ==
    ASSUME IInv, NEW j \in Calls, NEW c \in Coins, RowFails(j, c)
    PROVE  IInv'
<1> DEFINE b == job[j]
           w == want[j][c]
           h == hand[j][c]
           r == at[j][c]
<1>1. /\ TypeOK /\ b.source \in SourceNames /\ Source(j) = b.source
      /\ w \in Days \cup {Now} /\ h \in Columns
      /\ Fits(j, c, b, r, w, h)
      /\ <<j, c>> \in reuse => Reusable(b, r, w)
      /\ <<j, c>> \in quoted => Quotable(b, r, w, h)
  BY PairFacts, Zenon DEF RowFails
<1>2. Shared /\ r \in {"row", "insert"}
  BY Zenon DEF RowFails, priceVars, rowVars, limitVars, Shared
<1>3. Working(j, c) /\ at[j][c] # "expire" /\ at[j][c] \notin {"expire", "chains"}
  BY <1>2, SMT DEF Working
<1>4. ASSUME NEW s \in AllStages, s \notin {"new", "chains"}, s # "expire", Fault, Goto(j, c, s),
             UNCHANGED <<taskVars, hand, quoted>>, Fits(j, c, b, s, w, h), ~Rowed(b, s, w),
             Reusable(b, r, w) => Reusable(b, s, w),
             Quotable(b, r, w, h) => Quotable(b, s, w, h)
      PROVE  IInv'
  <2>1. /\ job' = job /\ want' = want /\ reuse' = reuse /\ broken' = broken /\ answer' = answer
        /\ hand' = hand /\ quoted' = quoted
    BY <1>4, Zenon DEF taskVars
  <2>2. FaultsStay /\ faults' # 0
    BY <1>1, <1>4, FaultFacts, Zenon
  <2>3. Legal(j, c, s, w, h)
    BY <1>1, <1>4, <2>1, Zenon DEF Legal
  <2> QED BY <1>1, <1>2, <1>3, <1>4, <2>1, <2>2, <2>3, CalmTo, Zenon
<1>5. CASE r = "insert" /\ b.source = "geckoterminal" /\ w # Now
  <2>1. Fault /\ Goto(j, c, "pools") /\ UNCHANGED <<taskVars, hand, quoted>>
    BY <1>1, <1>5, SMT DEF RowFails, IsNow
  <2>2. Fits(j, c, b, "pools", w, h) /\ ~Rowed(b, "pools", w)
    BY <1>1, <1>5, SMT
    DEF Fits, StageFits, PastStages, WantFits, HandFits, Holds, PoolFits, Rowed
  <2>3. /\ Reusable(b, r, w) => Reusable(b, "pools", w)
        /\ Quotable(b, r, w, h) => Quotable(b, "pools", w, h)
    BY <1>2, <1>5, SMT DEF Reusable, Quotable, Holds
  <2>4. "pools" \in AllStages /\ "pools" \notin {"new", "chains"} /\ "pools" # "expire"
    BY SMT DEF AllStages
  <2> QED BY <1>4, <2>1, <2>2, <2>3, <2>4, Zenon
<1>6. CASE b.source = "defillama" /\ w = Now /\ b.batch
  <2>1. Fault /\ Goto(j, c, "done") /\ UNCHANGED <<taskVars, hand, quoted>>
    BY <1>1, <1>6, SMT DEF RowFails, IsNow
  <2>2. Fits(j, c, b, "done", w, h) /\ ~Rowed(b, "done", w)
    BY <1>1, <1>6, SMT DEF Fits, StageFits, HandFits, Holds, PoolFits, Rowed
  <2>3. /\ Reusable(b, r, w) => Reusable(b, "done", w)
        /\ Quotable(b, r, w, h) => Quotable(b, "done", w, h)
    BY <1>2, <1>6, SMT DEF Reusable, Quotable, Holds
  <2>4. "done" \in AllStages /\ "done" \notin {"new", "chains"} /\ "done" # "expire"
    BY SMT DEF AllStages
  <2> QED BY <1>4, <2>1, <2>2, <2>3, <2>4, Zenon
<1>7. CASE /\ ~(r = "insert" /\ b.source = "geckoterminal" /\ w # Now)
           /\ ~(b.source = "defillama" /\ w = Now /\ b.batch)
  <2>1. Fails(j, c)
    BY <1>1, <1>7, Zenon DEF RowFails, IsNow
  <2> QED BY <1>2, <1>3, <2>1, FailsStep, Zenon
<1> QED BY <1>5, <1>6, <1>7, Zenon

\* The job of a price that has a row for its coin.
NeedsRow(b) ==
    \/ b.source = "defillama"
    \/ b.source = "geckoterminal" /\ b.day \in {Now, Today}

\* Prices are saved for coins with a row, where the source needs one.
LEMMA PricedRows ==
    ASSUME PricedHaveRows, job' = job, RowsStay,
           \A e \in Coins : \A f \in Days :
              \/ history'[e][f] = history[e][f]
              \/ NeedsRow(job[history'[e][f].by]) => rows'[e] # None
    PROVE  PricedHaveRows'
<1>1. ASSUME NEW e \in Coins, NEW f \in Days, history'[e][f] # None,
             NeedsRow(job'[history'[e][f].by])
      PROVE  rows'[e] # None
  <2>1. CASE history'[e][f] = history[e][f]
    <3>1. history[e][f] # None /\ NeedsRow(job[history[e][f].by])
      BY <1>1, <2>1, Zenon
    <3>2. rows[e] # None
      BY <3>1, Zenon DEF PricedHaveRows, NeedsRow, Source
    <3> QED BY <3>2, Zenon DEF RowsStay
  <2>2. CASE history'[e][f] # history[e][f]
    <3>1. NeedsRow(job[history'[e][f].by])
      BY <1>1, Zenon
    <3> QED BY <2>2, <3>1, Zenon
  <2> QED BY <2>1, <2>2, Zenon
<1>2. \A e \in Coins : \A f \in Days :
          history'[e][f] # None /\ NeedsRow(job'[history'[e][f].by]) => rows'[e] # None
  BY <1>1, Zenon
<1> QED BY <1>2, Zenon DEF PricedHaveRows, NeedsRow, Source

\* The price is saved under the day it is for, by a call whose coin has its row.
LEMMA SaveStep ==
    ASSUME IInv, NEW j \in Calls, NEW c \in Coins, Save(j, c)
    PROVE  IInv'
<1> DEFINE b == job[j]
           w == want[j][c]
           h == hand[j][c]
<1>1. /\ TypeOK /\ b.source \in SourceNames /\ Source(j) = b.source
      /\ w \in Days \cup {Now} /\ h \in Columns
      /\ Fits(j, c, b, "save", w, h)
      /\ <<j, c>> \in reuse => Reusable(b, "save", w)
      /\ <<j, c>> \in quoted => Quotable(b, "save", w, h)
      /\ Rowed(b, "save", w) => rows[c] # None
  BY PairFacts, Zenon DEF Save
<1>2. /\ at[j][c] = "save" /\ Goto(j, c, "done")
      /\ history' = [history EXCEPT ![c][DayOf(j, c)] = h]
      /\ current' = current /\ rows' = rows /\ ids' = ids /\ cachedRows' = cachedRows
      /\ hits' = hits /\ lasting' = lasting /\ hand' = hand /\ quoted' = quoted /\ faults' = faults
      /\ job' = job /\ want' = want /\ reuse' = reuse /\ broken' = broken /\ answer' = answer
  BY Zenon DEF Save, taskVars, rowVars, limitVars
<1>3. PICK d \in Days : d = DayOf(j, c) /\ d = Meant(w)
  BY <1>1, DayFacts, SMT DEF DayOf, IsNow, Meant
<1>4. h # None /\ h.day = d /\ h.by = j
  BY <1>1, <1>3, SMT DEF Fits, HandFits, Holds
<1>5. Fits(j, c, b, "done", w, h) /\ ~Rowed(b, "done", w)
  BY <1>1, SMT DEF Fits, StageFits, HandFits, Holds, PoolFits, Rowed
<1>6. <<j, c>> \notin reuse /\ Quotable(b, "done", w, h)
  BY <1>1, <1>4, SMT DEF Reusable, Quotable
<1>7. /\ "done" \in AllStages /\ "done" \notin {"new", "chains"} /\ "done" # "expire"
      /\ at[j][c] # "expire"
  BY <1>2, SMT DEF AllStages
<1>8. Legal(j, c, "done", w, h)
  BY <1>2, <1>5, <1>6, <1>7, Zenon DEF Legal
<1>9. Step(j, c, "done", w, h)
  BY <1>1, <1>2, <1>7, StepTo, Zenon
<1>10. Working(j, c) /\ FaultsStay
  BY <1>2, SMT DEF Working, FaultsStay
<1>11. Others(j, c) /\ Breaks(j, c) /\ OneByOne(j, c)
  BY <1>1, <1>2, CalmStep, Zenon
<1>12. Local(j, c, "done", w, h)
  BY <1>8, <1>9, <1>10, <1>11, Zenon DEF Local
<1>13. SavedFits /\ StoresFit /\ RowsFit /\ HitsFit
  BY Zenon DEF IInv
<1>14. /\ history' \in [Coins -> [Days -> Columns]] /\ history'[c][d] = h
       /\ \A e \in Coins : \A f \in Days : e # c \/ f # d => history'[e][f] = history[e][f]
  BY <1>1, <1>2, <1>3, SMT DEF TypeOK, SharedTypes
<1>15. SavedFits'
  <2>1. \A e \in Coins : history[e][Today] # None => history'[e][Today] # None
    BY <1>4, <1>14, DayFacts, Zenon
  <2>2. Saves(b, at[j][c], w) => history'[c][Today] # None
    <3>1. Saves(b, at[j][c], w) => w = Now
      BY SMT DEF Saves
    <3> QED BY <1>3, <1>4, <1>14, <3>1, Zenon DEF Meant
  <2> QED BY <1>1, <1>2, <1>9, <1>10, <1>13, <2>1, <2>2, SavedStep, Zenon
<1>16. HitsFit'
  BY <1>1, <1>2, <1>7, <1>9, <1>10, <1>13, HitsStep, Zenon
<1>17. StoresFit'
  <2>1. ASSUME NEW e \in Coins, NEW f \in Days PROVE Dated(f, history'[e][f])
    <3>1. CASE e = c /\ f = d
      BY <1>4, <1>14, <3>1, Zenon DEF Dated
    <3>2. CASE e # c \/ f # d
      BY <1>13, <1>14, <3>2, Zenon DEF StoresFit
    <3> QED BY <3>1, <3>2, Zenon
  <2>2. \A e \in Coins : Dated(Today, current'[e])
    BY <1>2, <1>13, Zenon DEF StoresFit
  <2> QED BY <2>1, <2>2, Zenon DEF StoresFit
<1>18. RowsStay
  BY <1>2, Zenon DEF RowsStay
<1>19. RowsFit'
  <2>1. NeedsRow(b) => rows[c] # None
    <3>1. b.source = "geckoterminal" => w = Now
      BY <1>1, StageFacts, SMT DEF Fits
    <3> QED BY <1>1, <3>1, SMT DEF Rowed, NeedsRow
  <2>2. \A e \in Coins : \A f \in Days :
            \/ history'[e][f] = history[e][f]
            \/ NeedsRow(job[history'[e][f].by]) => rows'[e] # None
    <3> SUFFICES ASSUME NEW e \in Coins, NEW f \in Days, history'[e][f] # history[e][f],
                        NeedsRow(job[history'[e][f].by])
                 PROVE  rows'[e] # None
      BY Zenon
    <3>1. e = c /\ f = d
      BY <1>14, Zenon
    <3>2. history'[e][f].by = j
      BY <1>4, <1>14, <3>1, Zenon
    <3>3. rows[c] # None
      BY <2>1, <3>2, Zenon
    <3> QED BY <1>18, <3>1, <3>3, Zenon DEF RowsStay
  <2>3. PricedHaveRows'
    BY <1>2, <1>13, <1>18, <2>2, PricedRows, Zenon DEF RowsFit
  <2> QED BY <1>2, <1>13, <2>3, Zenon DEF RowsFit
<1>20. SharedTypes' /\ hits' \in Nat /\ lasting' \in BOOLEAN
  BY <1>1, <1>2, <1>14, Zenon DEF TypeOK, SharedTypes, CountTypes
<1> QED BY <1>12, <1>15, <1>16, <1>17, <1>18, <1>19, <1>20, LocalStep, Zenon

LEMMA SaveFailsStep ==
    ASSUME IInv, NEW j \in Calls, NEW c \in Coins, SaveFails(j, c)
    PROVE  IInv'
<1> DEFINE b == job[j]
           w == want[j][c]
<1>1. /\ TypeOK /\ b.source \in SourceNames /\ Source(j) = b.source
      /\ w \in Days \cup {Now} /\ hand[j][c] \in Columns
      /\ Fits(j, c, b, "save", w, hand[j][c])
      /\ <<j, c>> \in reuse => Reusable(b, "save", w)
      /\ <<j, c>> \in quoted => Quotable(b, "save", w, hand[j][c])
  BY PairFacts, Zenon DEF SaveFails
<1>2. /\ Shared /\ at[j][c] = "save" /\ Fault
      /\ job' = job /\ want' = want /\ reuse' = reuse /\ broken' = broken /\ answer' = answer
  BY Zenon DEF SaveFails, taskVars, priceVars, rowVars, limitVars, Shared
<1>3. Working(j, c) /\ at[j][c] # "expire" /\ <<j, c>> \notin reuse
  BY <1>1, <1>2, SMT DEF Working, Reusable
<1>4. FaultsStay /\ faults' # 0
  BY <1>1, <1>2, FaultFacts, Zenon
<1>5. PICK h \in Columns :
          /\ Goto(j, c, "done") /\ (Take(j, c, h) \/ (hand' = hand /\ h = hand[j][c]))
          /\ \/ h = None /\ quoted' = quoted \ {<<j, c>>}
             \/ h = hand[j][c] /\ quoted' = quoted
  <2>1. CASE Source(j) = "coingecko"
    <3>1. Goto(j, c, "done") /\ Take(j, c, None) /\ quoted' = quoted \ {<<j, c>>}
      BY <2>1, Zenon DEF SaveFails, End
    <3>2. None \in Columns
      BY Zenon DEF Columns
    <3> QED BY <3>1, <3>2, Zenon
  <2>2. CASE Source(j) # "coingecko"
    <3>1. Goto(j, c, "done") /\ hand' = hand /\ quoted' = quoted
      BY <2>2, Zenon DEF SaveFails
    <3> QED BY <1>1, <3>1, Zenon
  <2> QED BY <2>1, <2>2, Zenon
<1>6. Fits(j, c, b, "done", w, h) /\ ~Rowed(b, "done", w)
  BY <1>1, <1>5, SMT DEF Fits, StageFits, HandFits, Holds, PoolFits, Rowed
<1>7. <<j, c>> \in quoted' => Quotable(b, "done", w, h)
  BY <1>1, <1>5, SMT DEF Quotable
<1>8. "done" \in AllStages /\ "done" \notin {"new", "chains"} /\ "done" # "expire"
  BY SMT DEF AllStages
<1>9. Legal(j, c, "done", w, h)
  BY <1>2, <1>3, <1>6, <1>7, <1>8, Zenon DEF Legal
<1>10. quoted' = quoted \/ quoted' = quoted \ {<<j, c>>}
  BY <1>5, Zenon
<1> QED BY <1>1, <1>2, <1>3, <1>4, <1>5, <1>8, <1>9, <1>10, CalmTo, Zenon

\* What is found in the history.
LEMMA FoundFits ==
    ASSUME IInv, NEW c \in Coins, NEW d \in Days
    PROVE  /\ history[c][d] \in Columns
           /\ history[c][d] # None => history[c][d].day = d
BY Zenon DEF IInv, StoresFit, Dated, TypeOK, SharedTypes

\* A coin that looks for the price of a day is not working on anything yet.
LEMMA PastFacts ==
    ASSUME IInv, NEW j \in Calls, NEW c \in Coins,
           at[j][c] \in {"past", "again", "turn", "info", "fetchInfo"}
    PROVE  /\ TypeOK /\ job[j].source \in SourceNames /\ Source(j) = job[j].source
           /\ want[j][c] \in Days /\ want[j][c] # Now /\ want[j][c] = job[j].day
           /\ hand[j][c] \in Columns
           /\ Fits(j, c, job[j], at[j][c], want[j][c], hand[j][c])
           /\ <<j, c>> \notin reuse /\ <<j, c>> \notin quoted
           /\ ~Saves(job[j], at[j][c], want[j][c]) /\ at[j][c] # "expire"
<1>1. /\ TypeOK /\ job[j].source \in SourceNames /\ Source(j) = job[j].source
      /\ want[j][c] \in Days \cup {Now} /\ hand[j][c] \in Columns
      /\ Fits(j, c, job[j], at[j][c], want[j][c], hand[j][c])
      /\ <<j, c>> \in reuse => Reusable(job[j], at[j][c], want[j][c])
      /\ <<j, c>> \in quoted => Quotable(job[j], at[j][c], want[j][c], hand[j][c])
  BY PairFacts, Zenon
<1>2. want[j][c] # Now
  <2>1. StageFits(job[j], at[j][c], want[j][c])
    BY <1>1, Zenon DEF Fits
  <2> QED BY <1>1, <2>1, StageFacts, SMT
<1>3. want[j][c] = job[j].day
  BY <1>1, <1>2, Zenon DEF Fits, WantFits
<1>4. want[j][c] \in Days
  BY <1>1, <1>2, SMT
<1>5. <<j, c>> \notin reuse /\ <<j, c>> \notin quoted
  BY <1>1, SMT DEF Reusable, Quotable, Holds
<1>6. ~Saves(job[j], at[j][c], want[j][c]) /\ at[j][c] # "expire"
  BY SMT DEF Saves
<1> QED BY <1>1, <1>2, <1>3, <1>4, <1>5, <1>6, Zenon

-----------------------------------------------------------------------------
(* Prices of days.                                                         *)

LEMMA LookAtPastStep ==
    ASSUME IInv, NEW j \in Calls, NEW c \in Coins, LookAtPast(j, c)
    PROVE  IInv'
<1> DEFINE b == job[j]
           w == want[j][c]
<1>1. /\ at[j][c] = "past" /\ Shared
      /\ job' = job /\ answer' = answer /\ broken' = broken /\ reuse' = reuse /\ quoted' = quoted
      /\ want' = want /\ faults' = faults
  BY Zenon DEF LookAtPast, taskVars, priceVars, rowVars, limitVars, Shared
<1>2. /\ TypeOK /\ b.source \in SourceNames /\ Source(j) = b.source
      /\ w \in Days /\ w # Now /\ w = b.day /\ hand[j][c] \in Columns
      /\ Fits(j, c, b, "past", w, hand[j][c])
      /\ <<j, c>> \notin reuse /\ <<j, c>> \notin quoted
      /\ ~Saves(b, at[j][c], w) /\ at[j][c] # "expire"
  <2>1. at[j][c] \in {"past", "again", "turn", "info", "fetchInfo"}
    BY <1>1, SMT
  <2> QED BY <1>1, <2>1, PastFacts, Zenon
<1>3. Working(j, c) /\ FaultsStay
  BY <1>1, SMT DEF Working, FaultsStay
<1>4. ASSUME NEW s \in {"done", "turn", "platforms", "again"}, NEW h \in Columns, Goto(j, c, s),
             Take(j, c, h) \/ (hand' = hand /\ h = hand[j][c]), Fits(j, c, b, s, w, h)
      PROVE  IInv'
  <2>1. s \in AllStages /\ s \notin {"new", "chains"} /\ s # "expire" /\ ~Rowed(b, s, w)
    BY SMT DEF AllStages, Rowed
  <2>2. Legal(j, c, s, w, h)
    BY <1>1, <1>2, <1>4, <2>1, Zenon DEF Legal
  <2>3. w \in Days \cup {Now}
    BY <1>2, Zenon
  <2> QED BY <1>1, <1>2, <1>3, <1>4, <2>1, <2>2, <2>3, CalmTo, Zenon
<1>5. CASE history[c][w] # None
  <2>1. Goto(j, c, "done") /\ Take(j, c, history[c][w])
    BY <1>5, Zenon DEF LookAtPast, End
  <2>2. PICK h \in Columns : h = history[c][w] /\ (h # None => h.day = w)
    BY <1>2, FoundFits, Zenon
  <2>3. Fits(j, c, b, "done", w, h)
    BY <1>2, <2>2, SMT DEF Fits, StageFits, HandFits, Holds, PoolFits, Meant
  <2> QED BY <1>4, <2>1, <2>2, <2>3, Zenon
<1>6. CASE history[c][w] = None
  <2>1. PICK s \in {"turn", "platforms", "again"} :
            /\ Goto(j, c, s) /\ hand' = hand
            /\ s = CASE b.source = "coingecko" -> "turn" [] b.source = "onchain" -> "platforms"
                     [] OTHER -> "again"
    BY <1>2, <1>6, SMT DEF LookAtPast, AfterPast
  <2>2. Fits(j, c, b, s, w, hand[j][c])
    BY <1>2, <2>1, SMT
    DEF Fits, StageFits, PastStages, WantFits, HandFits, Holds, PoolFits, SourceNames
  <2> QED BY <1>2, <1>4, <2>1, <2>2, Zenon
<1> QED BY <1>5, <1>6, Zenon

LEMMA LookAgainStep ==
    ASSUME IInv, NEW j \in Calls, NEW c \in Coins, LookAgain(j, c)
    PROVE  IInv'
<1> DEFINE b == job[j]
           w == want[j][c]
<1>1. /\ at[j][c] = "again" /\ Shared
      /\ job' = job /\ answer' = answer /\ broken' = broken /\ reuse' = reuse /\ quoted' = quoted
      /\ faults' = faults
  BY Zenon DEF LookAgain, priceVars, rowVars, limitVars, Shared
<1>2. /\ TypeOK /\ b.source \in SourceNames /\ Source(j) = b.source
      /\ w \in Days /\ w # Now /\ w = b.day /\ hand[j][c] \in Columns
      /\ Fits(j, c, b, "again", w, hand[j][c])
      /\ <<j, c>> \notin reuse /\ <<j, c>> \notin quoted
      /\ ~Saves(b, at[j][c], w) /\ at[j][c] # "expire"
  <2>1. at[j][c] \in {"past", "again", "turn", "info", "fetchInfo"}
    BY <1>1, SMT
  <2> QED BY <1>1, <2>1, PastFacts, Zenon
<1>3. Working(j, c) /\ FaultsStay
  BY <1>1, SMT DEF Working, FaultsStay
<1>4. ASSUME NEW s \in {"done", "look", "info", "pools", "request"}, NEW h \in Columns,
             Goto(j, c, s),
             NEW v \in Days \cup {Now},
             want' = [want EXCEPT ![j][c] = v] \/ (want' = want /\ v = want[j][c]),
             Take(j, c, h) \/ (hand' = hand /\ h = hand[j][c]), Fits(j, c, b, s, v, h)
      PROVE  IInv'
  <2>1. s \in AllStages /\ s \notin {"new", "chains"} /\ s # "expire" /\ ~Rowed(b, s, v)
    BY SMT DEF AllStages, Rowed
  <2>2. Legal(j, c, s, v, h)
    BY <1>1, <1>2, <1>4, <2>1, Zenon DEF Legal
  <2> QED BY <1>1, <1>2, <1>3, <1>4, <2>1, <2>2, CalmTo, Zenon
<1>5. w \in Days \cup {Now} /\ Now \in Days \cup {Now}
  BY <1>2, Zenon
<1>6. CASE history[c][w] # None
  <2>1. Goto(j, c, "done") /\ Take(j, c, history[c][w]) /\ want' = want
    BY <1>6, SMT DEF LookAgain, End
  <2>2. PICK h \in Columns : h = history[c][w] /\ (h # None => h.day = w)
    BY <1>2, FoundFits, Zenon
  <2>3. Fits(j, c, b, "done", w, h)
    BY <1>2, <2>2, SMT DEF Fits, StageFits, HandFits, Holds, PoolFits, Meant
  <2> QED BY <1>4, <1>5, <2>1, <2>2, <2>3, Zenon
<1>7. CASE history[c][w] = None /\ b.source = "geckoterminal" /\ w = Today
  <2>1. Goto(j, c, "look") /\ want' = [want EXCEPT ![j][c] = Now] /\ hand' = hand
    BY <1>2, <1>7, SMT DEF LookAgain, AskNow
  <2>2. Fits(j, c, b, "look", Now, hand[j][c])
    BY <1>2, <1>7, SMT DEF Fits, StageFits, NowStages, WantFits, HandFits, Holds, PoolFits, Meant
  <2> QED BY <1>2, <1>4, <1>5, <2>1, <2>2, Zenon
<1>8. CASE history[c][w] = None /\ ~(b.source = "geckoterminal" /\ w = Today)
  <2>1. PICK s \in {"info", "pools", "request"} :
            /\ Goto(j, c, s) /\ hand' = hand /\ want' = want
            /\ s = CASE b.source = "geckoterminal" -> "info" [] b.source = "onchain" -> "pools"
                     [] OTHER -> "request"
    BY <1>2, <1>8, SMT DEF LookAgain
  <2>2. Fits(j, c, b, s, w, hand[j][c])
    BY <1>2, <1>8, <2>1, SMT
    DEF Fits, StageFits, PastStages, WantFits, HandFits, Holds, PoolFits, SourceNames
  <2> QED BY <1>2, <1>4, <1>5, <2>1, <2>2, Zenon
<1> QED BY <1>6, <1>7, <1>8, Zenon

LEMMA TakeTurnStep ==
    ASSUME IInv, NEW j \in Calls, NEW c \in Coins, TakeTurn(j, c)
    PROVE  IInv'
<1> DEFINE b == job[j]
           w == want[j][c]
<1>1. /\ at[j][c] = "turn" /\ j \notin broken /\ Shared
      /\ job' = job /\ answer' = answer /\ broken' = broken /\ reuse' = reuse /\ quoted' = quoted
      /\ faults' = faults
  BY Zenon DEF TakeTurn, priceVars, rowVars, limitVars, Shared
<1>2. /\ TypeOK /\ b.source \in SourceNames /\ Source(j) = b.source
      /\ w \in Days /\ w # Now /\ w = b.day /\ hand[j][c] \in Columns
      /\ Fits(j, c, b, "turn", w, hand[j][c])
      /\ <<j, c>> \notin reuse /\ <<j, c>> \notin quoted
      /\ ~Saves(b, at[j][c], w) /\ at[j][c] # "expire"
  <2>1. at[j][c] \in {"past", "again", "turn", "info", "fetchInfo"}
    BY <1>1, SMT
  <2> QED BY <1>1, <2>1, PastFacts, Zenon
<1>3. Working(j, c) /\ FaultsStay
  BY <1>1, SMT DEF Working, FaultsStay
<1>4. b.source = "coingecko"
  BY <1>2, StageFacts, SMT DEF Fits
<1>5. ASSUME NEW s \in {"done", "look", "request"}, NEW h \in Columns, Goto(j, c, s),
             NEW v \in Days \cup {Now},
             want' = [want EXCEPT ![j][c] = v] \/ (want' = want /\ v = want[j][c]),
             Take(j, c, h) \/ (hand' = hand /\ h = hand[j][c]), Fits(j, c, b, s, v, h)
      PROVE  IInv'
  <2>1. s \in AllStages /\ s \notin {"new", "chains"} /\ s # "expire" /\ ~Rowed(b, s, v)
    BY SMT DEF AllStages, Rowed
  <2>2. Legal(j, c, s, v, h)
    BY <1>1, <1>2, <1>5, <2>1, Zenon DEF Legal
  <2> QED BY <1>1, <1>2, <1>3, <1>5, <2>1, <2>2, CalmTo, Zenon
<1>6. w \in Days \cup {Now} /\ Now \in Days \cup {Now} /\ None \in Columns
  BY <1>2, Zenon DEF Columns
<1>7. CASE c \notin cachedRows \cap ids
  <2>1. Goto(j, c, "done") /\ Take(j, c, None) /\ want' = want
    BY <1>7, Zenon DEF TakeTurn, End
  <2>2. Fits(j, c, b, "done", w, None)
    BY <1>2, SMT DEF Fits, StageFits, HandFits, Holds, PoolFits
  <2> QED BY <1>5, <1>6, <2>1, <2>2, Zenon
<1>8. CASE c \in cachedRows \cap ids /\ w = Today
  <2>1. Goto(j, c, "look") /\ want' = [want EXCEPT ![j][c] = Now] /\ hand' = hand
    BY <1>8, Zenon DEF TakeTurn, AskNow
  <2>2. Fits(j, c, b, "look", Now, hand[j][c])
    BY <1>2, <1>4, <1>8, SMT
    DEF Fits, StageFits, NowStages, WantFits, HandFits, Holds, PoolFits, Meant
  <2> QED BY <1>2, <1>5, <1>6, <2>1, <2>2, Zenon
<1>9. CASE c \in cachedRows \cap ids /\ w # Today
  <2>1. Goto(j, c, "request") /\ hand' = hand /\ want' = want
    BY <1>9, Zenon DEF TakeTurn
  <2>2. Fits(j, c, b, "request", w, hand[j][c])
    BY <1>2, <1>4, SMT DEF Fits, StageFits, PastStages, HandFits, Holds, PoolFits
  <2> QED BY <1>2, <1>5, <1>6, <2>1, <2>2, Zenon
<1> QED BY <1>7, <1>8, <1>9, Zenon

LEMMA LookAtInfoStep ==
    ASSUME IInv, NEW j \in Calls, NEW c \in Coins, LookAtInfo(j, c)
    PROVE  IInv'
<1> DEFINE b == job[j]
           w == want[j][c]
           h == hand[j][c]
<1>1. /\ at[j][c] = "info" /\ Shared
      /\ job' = job /\ answer' = answer /\ broken' = broken /\ quoted' = quoted
      /\ want' = want /\ hand' = hand /\ faults' = faults
  BY Zenon DEF LookAtInfo, priceVars, rowVars, limitVars, Shared
<1>2. /\ TypeOK /\ b.source \in SourceNames
      /\ w \in Days /\ w # Now /\ w = b.day /\ h \in Columns
      /\ Fits(j, c, b, "info", w, h)
      /\ <<j, c>> \notin reuse /\ <<j, c>> \notin quoted
      /\ ~Saves(b, at[j][c], w) /\ at[j][c] # "expire"
  <2>1. at[j][c] \in {"past", "again", "turn", "info", "fetchInfo"}
    BY <1>1, SMT
  <2> QED BY <1>1, <2>1, PastFacts, Zenon
<1>3. Working(j, c) /\ FaultsStay
  BY <1>1, SMT DEF Working, FaultsStay
<1>4. b.source = "geckoterminal"
  BY <1>2, StageFacts, SMT DEF Fits
<1>5. PICK s \in {"row", "fetchInfo"} :
          /\ Goto(j, c, s)
          /\ \/ s = "row" /\ reuse' = reuse \cup {<<j, c>>}
             \/ s = "fetchInfo" /\ reuse' = reuse
  BY SMT DEF LookAtInfo
<1>6. Fits(j, c, b, s, w, h) /\ ~Rowed(b, s, w)
  BY <1>2, <1>4, <1>5, SMT
  DEF Fits, StageFits, PastStages, WantFits, HandFits, Holds, PoolFits, Rowed
<1>7. <<j, c>> \in reuse' => Reusable(b, s, w)
  <2>1. s = "row" => Reusable(b, s, w)
    BY <1>2, <1>4, SMT DEF Reusable
  <2> QED BY <1>2, <1>5, <2>1, Zenon
<1>8. s \in AllStages /\ s \notin {"new", "chains"} /\ s # "expire"
  BY SMT DEF AllStages
<1>9. Legal(j, c, s, w, h)
  BY <1>1, <1>2, <1>6, <1>7, <1>8, Zenon DEF Legal
<1>10. w \in Days \cup {Now} /\ (reuse' = reuse \/ reuse' = reuse \cup {<<j, c>>})
  BY <1>2, <1>5, Zenon
<1> QED BY <1>1, <1>2, <1>3, <1>5, <1>8, <1>9, <1>10, CalmTo, Zenon

LEMMA FetchInfoStep ==
    ASSUME IInv, NEW j \in Calls, NEW c \in Coins, FetchInfo(j, c)
    PROVE  IInv'
<1> DEFINE b == job[j]
           w == want[j][c]
           h == hand[j][c]
<1>1. at[j][c] = "fetchInfo" /\ Shared
  BY Zenon DEF FetchInfo, priceVars, rowVars, limitVars, Shared
<1>2. /\ TypeOK /\ b.source \in SourceNames
      /\ w \in Days /\ w # Now /\ w = b.day /\ h \in Columns
      /\ Fits(j, c, b, "fetchInfo", w, h)
      /\ <<j, c>> \notin reuse /\ <<j, c>> \notin quoted
      /\ ~Saves(b, at[j][c], w) /\ at[j][c] # "expire"
  <2>1. at[j][c] \in {"past", "again", "turn", "info", "fetchInfo"}
    BY <1>1, SMT
  <2> QED BY <1>1, <2>1, PastFacts, Zenon
<1>3. Working(j, c)
  BY <1>1, SMT DEF Working
<1>4. b.source = "geckoterminal"
  BY <1>2, StageFacts, SMT DEF Fits
<1>5. CASE Goto(j, c, "row") /\ UNCHANGED <<taskVars, hand, faults, quoted>>
  <2>1. /\ job' = job /\ answer' = answer /\ broken' = broken /\ quoted' = quoted
        /\ want' = want /\ hand' = hand /\ reuse' = reuse /\ FaultsStay
    BY <1>5, Zenon DEF taskVars, FaultsStay
  <2>2. Fits(j, c, b, "row", w, h) /\ ~Rowed(b, "row", w)
    BY <1>2, <1>4, SMT
    DEF Fits, StageFits, PastStages, WantFits, HandFits, Holds, PoolFits, Rowed
  <2>3. "row" \in AllStages /\ "row" \notin {"new", "chains"} /\ "row" # "expire"
    BY SMT DEF AllStages
  <2>4. Legal(j, c, "row", w, h)
    BY <1>2, <2>1, <2>2, <2>3, Zenon DEF Legal
  <2>5. w \in Days \cup {Now}
    BY <1>2, Zenon
  <2> QED BY <1>1, <1>2, <1>3, <1>5, <2>1, <2>3, <2>4, <2>5, CalmTo, Zenon
<1>6. CASE NoPrice(j, c) /\ quoted' = quoted /\ faults' = faults
  <2>1. at[j][c] \in {"request", "fetchInfo", "pools", "ohlcv"}
    BY <1>1, SMT
  <2>2. PICK e \in AllStages \ {"new", "chains", "expire"} : Local(j, c, e, w, None)
    BY <1>6, <2>1, NoPriceStep, Zenon
  <2>3. e # "expire"
    BY SMT
  <2> QED BY <1>1, <1>2, <2>2, <2>3, PlainStep, Zenon
<1>7. CASE Fails(j, c)
  <2>1. at[j][c] \notin {"expire", "chains"}
    BY <1>1, SMT
  <2> QED BY <1>1, <1>3, <1>7, <2>1, FailsStep, Zenon
<1> QED BY <1>5, <1>6, <1>7, Zenon DEF FetchInfo

\* A coin that works with a pool.
LEMMA PoolFacts ==
    ASSUME IInv, NEW j \in Calls, NEW c \in Coins, at[j][c] \in {"pools", "ohlcv"}
    PROVE  /\ TypeOK /\ job[j].source \in {"geckoterminal", "onchain"} /\ Source(j) = job[j].source
           /\ want[j][c] \in Days /\ want[j][c] # Now /\ want[j][c] = job[j].day
           /\ job[j].source = "geckoterminal" => want[j][c] # Today
           /\ hand[j][c] \in Columns
           /\ Fits(j, c, job[j], at[j][c], want[j][c], hand[j][c])
           /\ <<j, c>> \in reuse => Reusable(job[j], at[j][c], want[j][c])
           /\ <<j, c>> \notin quoted
           /\ ~Saves(job[j], at[j][c], want[j][c]) /\ at[j][c] # "expire"
           /\ Working(j, c)
<1>1. /\ TypeOK /\ job[j].source \in SourceNames /\ Source(j) = job[j].source
      /\ want[j][c] \in Days \cup {Now} /\ hand[j][c] \in Columns
      /\ Fits(j, c, job[j], at[j][c], want[j][c], hand[j][c])
      /\ <<j, c>> \in reuse => Reusable(job[j], at[j][c], want[j][c])
      /\ <<j, c>> \in quoted => Quotable(job[j], at[j][c], want[j][c], hand[j][c])
  BY PairFacts, Zenon
<1>2. want[j][c] # Now /\ job[j].source \in {"geckoterminal", "onchain"}
  <2>1. StageFits(job[j], at[j][c], want[j][c])
    BY <1>1, Zenon DEF Fits
  <2> QED BY <1>1, <2>1, StageFacts, SMT
<1>3. want[j][c] = job[j].day
  BY <1>1, <1>2, Zenon DEF Fits, WantFits
<1>4. want[j][c] \in Days
  BY <1>1, <1>2, SMT
<1>5. job[j].source = "geckoterminal" => want[j][c] # Today
  BY <1>1, <1>2, SMT DEF Fits, PoolFits
<1>6. <<j, c>> \notin quoted
  BY <1>1, SMT DEF Quotable, Holds
<1>7. ~Saves(job[j], at[j][c], want[j][c]) /\ at[j][c] # "expire" /\ Working(j, c)
  BY SMT DEF Saves, Working
<1> QED BY <1>1, <1>2, <1>3, <1>4, <1>5, <1>6, <1>7, Zenon

\* The pool of the coin is found in the cache or had from the source.
LEMMA FetchPoolsStep ==
    ASSUME IInv, NEW j \in Calls, NEW c \in Coins, FetchPools(j, c)
    PROVE  IInv'
<1> DEFINE b == job[j]
           w == want[j][c]
           h == hand[j][c]
<1>1. at[j][c] = "pools" /\ Shared
  BY Zenon DEF FetchPools, priceVars, rowVars, limitVars, Shared
<1>2. /\ TypeOK /\ b.source \in {"geckoterminal", "onchain"}
      /\ w \in Days /\ w # Now /\ h \in Columns
      /\ b.source = "geckoterminal" => w # Today
      /\ Fits(j, c, b, "pools", w, h)
      /\ <<j, c>> \in reuse => Reusable(b, "pools", w)
      /\ <<j, c>> \notin quoted
      /\ ~Saves(b, at[j][c], w) /\ at[j][c] # "expire" /\ Working(j, c)
  <2>1. at[j][c] \in {"pools", "ohlcv"}
    BY <1>1, SMT
  <2> QED BY <1>1, <2>1, PoolFacts, Zenon
<1>3. CASE Goto(j, c, "ohlcv") /\ UNCHANGED <<taskVars, hand, faults, quoted>>
  <2>1. /\ job' = job /\ answer' = answer /\ broken' = broken /\ quoted' = quoted
        /\ want' = want /\ hand' = hand /\ reuse' = reuse /\ FaultsStay
    BY <1>3, Zenon DEF taskVars, FaultsStay
  <2>2. Fits(j, c, b, "ohlcv", w, h) /\ ~Rowed(b, "ohlcv", w)
    BY <1>2, SMT
    DEF Fits, StageFits, PastStages, WantFits, HandFits, Holds, PoolFits, Rowed
  <2>3. Reusable(b, "pools", w) => Reusable(b, "ohlcv", w)
    BY SMT DEF Reusable
  <2>4. "ohlcv" \in AllStages /\ "ohlcv" \notin {"new", "chains"} /\ "ohlcv" # "expire"
    BY SMT DEF AllStages
  <2>5. Legal(j, c, "ohlcv", w, h)
    BY <1>2, <2>1, <2>2, <2>3, <2>4, Zenon DEF Legal
  <2>6. w \in Days \cup {Now}
    BY <1>2, Zenon
  <2> QED BY <1>1, <1>2, <1>3, <2>1, <2>4, <2>5, <2>6, CalmTo, Zenon
<1>4. CASE NoPrice(j, c) /\ quoted' = quoted /\ faults' = faults
  <2>1. at[j][c] \in {"request", "fetchInfo", "pools", "ohlcv"}
    BY <1>1, SMT
  <2>2. PICK e \in AllStages \ {"new", "chains", "expire"} : Local(j, c, e, w, None)
    BY <1>4, <2>1, NoPriceStep, Zenon
  <2>3. e # "expire"
    BY SMT
  <2> QED BY <1>1, <1>2, <2>2, <2>3, PlainStep, Zenon
<1>5. CASE Fails(j, c)
  <2>1. at[j][c] \notin {"expire", "chains"}
    BY <1>1, SMT
  <2> QED BY <1>1, <1>2, <1>5, <2>1, FailsStep, Zenon
<1> QED BY <1>3, <1>4, <1>5, Zenon DEF FetchPools

-----------------------------------------------------------------------------
(* The lists of platforms, networks and chains.                            *)

\* DefiLlama breaks a call for current prices before it has had any.
LEMMA LookInMapStep ==
    ASSUME IInv, NEW j \in Calls, NEW c \in Coins, LookInMap(j, c)
    PROVE  IInv'
<1> DEFINE b == job[j]
           w == want[j][c]
           h == hand[j][c]
           s == AfterMap(j, c)
<1>1. /\ at[j][c] \in {"platforms", "networks", "chains"} /\ Shared /\ Goto(j, c, s)
      /\ job' = job /\ answer' = answer /\ reuse' = reuse /\ quoted' = quoted
      /\ want' = want /\ hand' = hand /\ faults' = faults
      /\ broken' = IF s = "done" /\ w = Now THEN broken \cup {j} ELSE broken
  BY Zenon DEF LookInMap, IsNow, priceVars, rowVars, limitVars, Shared
<1>2. /\ TypeOK /\ b.source \in SourceNames /\ Source(j) = b.source
      /\ w \in Days \cup {Now} /\ h \in Columns
      /\ Fits(j, c, b, at[j][c], w, h)
      /\ <<j, c>> \in reuse => Reusable(b, at[j][c], w)
      /\ <<j, c>> \in quoted => Quotable(b, at[j][c], w, h)
  BY PairFacts, Zenon
<1>3. <<j, c>> \notin reuse /\ <<j, c>> \notin quoted
  BY <1>1, <1>2, SMT DEF Reusable, Quotable, Holds
<1>4. /\ Working(j, c) /\ FaultsStay /\ at[j][c] # "expire" /\ ~Saves(b, at[j][c], w)
  BY <1>1, SMT DEF Working, FaultsStay, Saves
<1>5. /\ at[j][c] = "chains" => b.source = "defillama"
      /\ at[j][c] # "chains" => b.source = "onchain"
  <2>1. StageFits(b, at[j][c], w)
    BY <1>2, Zenon DEF Fits
  <2> QED BY <1>1, <1>2, <2>1, StageFacts, SMT
<1>6. /\ s \in {"networks", "look", "again", "done"}
      /\ s = "networks" => at[j][c] = "platforms"
      /\ s = "look" => w = Now
      /\ s = "again" => w # Now
      /\ s = "done" => at[j][c] = "chains"
  BY <1>1, SMT DEF AfterMap, IsNow
<1> HIDE DEF s
<1>7. Fits(j, c, b, s, w, h) /\ ~Rowed(b, s, w)
  BY <1>1, <1>2, <1>5, <1>6, SMT
  DEF Fits, StageFits, NowStages, PastStages, WantFits, HandFits, Holds, PoolFits, Rowed
<1>8. s \in AllStages /\ s \notin {"new", "chains"} /\ s # "expire"
  BY <1>6, SMT DEF AllStages
<1>9. Legal(j, c, s, w, h)
  BY <1>1, <1>3, <1>7, <1>8, Zenon DEF Legal
<1>10. Step(j, c, s, w, h)
  BY <1>1, <1>2, <1>8, StepTo, Zenon
<1>11. Others(j, c) /\ OneByOne(j, c)
  <2>1. Others(j, c)
    BY <1>1, <1>2, OthersHold, Zenon
  <2> QED BY <1>1, <2>1, Zenon DEF OneByOne
<1>12. Breaks(j, c)
  <2>1. CASE s = "done" /\ w = Now
    <3>1. Source(j) = "defillama" /\ job[j].day = Now
      BY <1>2, <1>5, <1>6, <2>1, SMT DEF Fits, WantFits
    <3> QED BY <1>1, <1>6, <2>1, <3>1, Zenon DEF Breaks
  <2>2. CASE ~(s = "done" /\ w = Now)
    BY <1>1, <2>2, Zenon DEF Breaks
  <2> QED BY <2>1, <2>2, Zenon
<1>13. Local(j, c, s, w, h)
  BY <1>4, <1>9, <1>10, <1>11, <1>12, Zenon DEF Local
<1> QED BY <1>1, <1>4, <1>8, <1>13, PlainStep, Zenon

LEMMA MapFailsStep ==
    ASSUME IInv, NEW j \in Calls, NEW c \in Coins, MapFails(j, c)
    PROVE  IInv'
<1> DEFINE b == job[j]
           w == want[j][c]
<1>1. /\ at[j][c] \in {"platforms", "networks", "chains"} \ maps /\ Shared
      /\ Goto(j, c, "done") /\ Take(j, c, None) /\ Fault
      /\ job' = job /\ answer' = answer /\ reuse' = reuse /\ quoted' = quoted /\ want' = want
      /\ broken' = IF BreaksCall(j, c) \/ (at[j][c] = "chains" /\ w = Now)
                   THEN broken \cup {j} ELSE broken
  BY Zenon DEF MapFails, IsNow, End, priceVars, rowVars, limitVars, Shared
<1>2. /\ TypeOK /\ b.source \in SourceNames /\ Source(j) = b.source
      /\ w \in Days \cup {Now}
      /\ Fits(j, c, b, at[j][c], w, hand[j][c])
      /\ <<j, c>> \in reuse => Reusable(b, at[j][c], w)
      /\ <<j, c>> \in quoted => Quotable(b, at[j][c], w, hand[j][c])
  BY PairFacts, Zenon
<1>3. <<j, c>> \notin reuse /\ <<j, c>> \notin quoted
  BY <1>1, <1>2, SMT DEF Reusable, Quotable, Holds
<1>4. Working(j, c) /\ at[j][c] # "expire" /\ ~Saves(b, at[j][c], w)
  BY <1>1, SMT DEF Working, Saves
<1>5. FaultsStay /\ faults' > 0 /\ faults' # 0
  BY <1>1, <1>2, FaultFacts, Zenon
<1>6. Fits(j, c, b, "done", w, None) /\ ~Rowed(b, "done", w)
  BY <1>2, SMT DEF Fits, StageFits, HandFits, Holds, PoolFits, Rowed
<1>7. "done" \in AllStages /\ "done" \notin {"new", "chains"} /\ "done" # "expire"
  BY SMT DEF AllStages
<1>8. Legal(j, c, "done", w, None)
  BY <1>1, <1>3, <1>6, <1>7, Zenon DEF Legal
<1>9. Step(j, c, "done", w, None)
  <2>1. None \in Columns
    BY Zenon DEF Columns
  <2> QED BY <1>1, <1>2, <1>7, <2>1, StepTo, Zenon
<1>10. Others(j, c) /\ OneByOne(j, c)
  <2>1. Others(j, c)
    BY <1>1, <1>2, OthersHold, Zenon
  <2> QED BY <1>1, <2>1, Zenon DEF OneByOne
<1>11. Breaks(j, c)
  <2>1. CASE BreaksCall(j, c)
    <3>1. \/ Source(j) = "coingecko"
          \/ Source(j) = "onchain" /\ job[j].day # Now
      BY <1>2, <2>1, SMT DEF BreaksCall, IsNow, Fits, WantFits
    <3> QED BY <1>1, <1>5, <2>1, <3>1, Zenon DEF Breaks
  <2>2. CASE at[j][c] = "chains" /\ w = Now
    <3>1. Source(j) = "defillama" /\ job[j].day = Now
      <4>1. StageFits(b, "chains", w) /\ WantFits(b, w)
        BY <1>2, <2>2, Zenon DEF Fits
      <4> QED BY <1>2, <2>2, <4>1, StageFacts, SMT DEF WantFits
    <3> QED BY <1>1, <2>2, <3>1, Zenon DEF Breaks
  <2>3. CASE ~BreaksCall(j, c) /\ ~(at[j][c] = "chains" /\ w = Now)
    BY <1>1, <2>3, Zenon DEF Breaks
  <2> QED BY <2>1, <2>2, <2>3, Zenon
<1>12. Local(j, c, "done", w, None)
  BY <1>4, <1>5, <1>8, <1>9, <1>10, <1>11, Zenon DEF Local
<1> QED BY <1>1, <1>4, <1>5, <1>7, <1>12, PlainStep, Zenon

\* The prices of all days of a pool are saved at once.
LEMMA FetchDaysStep ==
    ASSUME IInv, NEW j \in Calls, NEW c \in Coins, FetchDays(j, c)
    PROVE  IInv'
<1> DEFINE b == job[j]
           w == want[j][c]
<1>1. /\ at[j][c] = "ohlcv" /\ current' = current /\ rows' = rows /\ ids' = ids
      /\ cachedRows' = cachedRows /\ hits' = hits /\ lasting' = lasting
  BY Zenon DEF FetchDays, rowVars, limitVars
<1>2. /\ TypeOK /\ b.source \in {"geckoterminal", "onchain"} /\ Source(j) = b.source
      /\ w \in Days /\ w # Now /\ w = b.day
      /\ b.source = "geckoterminal" => w # Today
      /\ Fits(j, c, b, "ohlcv", w, hand[j][c])
      /\ <<j, c>> \in reuse => Reusable(b, "ohlcv", w)
      /\ ~Saves(b, at[j][c], w) /\ at[j][c] # "expire" /\ Working(j, c)
  <2>1. at[j][c] \in {"pools", "ohlcv"}
    BY <1>1, SMT
  <2> QED BY <1>1, <2>1, PoolFacts, Zenon
<1>3. SavedFits /\ StoresFit /\ RowsFit /\ HitsFit
  BY Zenon DEF IInv
<1>4. ASSUME NEW days \in SUBSET Days, faults' = faults,
             history' = IF days = {} THEN history ELSE SavedDays(j, c, days),
             NEW s \in AllStages \ {"new", "chains", "expire"}, NEW h, Local(j, c, s, w, h)
      PROVE  IInv'
  <2>1. Step(j, c, s, w, h) /\ FaultsStay /\ job' = job /\ s # "expire"
    BY <1>4, SMT DEF Local, Step
  <2>2. \A d \in Days : /\ Price(j, c, d) \in Columns /\ Price(j, c, d) # None
                        /\ Price(j, c, d).day = d
                        /\ Price(j, c, d).by = j
    <3> SUFFICES ASSUME NEW d \in Days
                 PROVE  /\ Price(j, c, d) \in Columns /\ Price(j, c, d) # None
                        /\ Price(j, c, d).day = d
                        /\ Price(j, c, d).by = j
      BY Zenon
    <3>1. /\ Price(j, c, d) \in Prices /\ Price(j, c, d) # None
          /\ Price(j, c, d).day = d /\ Price(j, c, d).by = j
      BY PriceFits, SMT
    <3> QED BY <3>1, SMT DEF Columns
  <2>3. /\ history' \in [Coins -> [Days -> Columns]]
        /\ \A e \in Coins : \A f \in Days :
              \/ history'[e][f] = history[e][f]
              \/ e = c /\ history'[e][f] = Price(j, c, f)
    <3>1. history \in [Coins -> [Days -> Columns]]
      BY <1>2, Zenon DEF TypeOK, SharedTypes
    <3>2. CASE days = {}
      BY <1>4, <3>1, <3>2, Zenon
    <3>3. CASE days # {}
      <4>1. history' = [history EXCEPT ![c] =
                            [d \in Days |-> IF d \in days THEN Price(j, c, d) ELSE history[c][d]]]
        BY <1>4, <3>3, SMT DEF SavedDays
      <4> QED BY <2>2, <3>1, <4>1, SMT
    <3> QED BY <3>2, <3>3, Zenon
  <2>4. SavedFits'
    <3>1. \A e \in Coins : history[e][Today] # None => history'[e][Today] # None
      BY <2>2, <2>3, DayFacts, Zenon
    <3> QED BY <1>1, <1>2, <1>3, <2>1, <3>1, SavedStep, Zenon
  <2>5. HitsFit'
    BY <1>1, <1>2, <1>3, <2>1, HitsStep, Zenon
  <2>6. StoresFit'
    <3>1. ASSUME NEW e \in Coins, NEW f \in Days PROVE Dated(f, history'[e][f])
      <4>1. CASE history'[e][f] = history[e][f]
        BY <1>3, <4>1, Zenon DEF StoresFit
      <4>2. CASE e = c /\ history'[e][f] = Price(j, c, f)
        BY <2>2, <4>2, SMT DEF Dated
      <4> QED BY <2>3, <4>1, <4>2, Zenon
    <3> QED BY <1>1, <1>3, <3>1, Zenon DEF StoresFit
  <2>7. RowsStay
    BY <1>1, Zenon DEF RowsStay
  <2>8. RowsFit'
    <3>1. ~NeedsRow(b)
      BY <1>2, SMT DEF NeedsRow
    <3>2. \A e \in Coins : \A f \in Days :
              \/ history'[e][f] = history[e][f]
              \/ NeedsRow(job[history'[e][f].by]) => rows'[e] # None
      <4> SUFFICES ASSUME NEW e \in Coins, NEW f \in Days, history'[e][f] # history[e][f]
                   PROVE  ~NeedsRow(job[history'[e][f].by])
        BY Zenon
      <4>1. history'[e][f] = Price(j, c, f) /\ Price(j, c, f).by = j
        BY <2>2, <2>3, Zenon
      <4>2. history'[e][f].by = j
        BY <4>1, Zenon
      <4> QED BY <3>1, <4>2, Zenon
    <3>3. PricedHaveRows'
      BY <1>3, <2>1, <2>7, <3>2, PricedRows, Zenon DEF RowsFit
    <3> QED BY <1>1, <1>3, <3>3, Zenon DEF RowsFit
  <2>9. SharedTypes' /\ hits' \in Nat /\ lasting' \in BOOLEAN
    BY <1>1, <1>2, <2>3, Zenon DEF TypeOK, SharedTypes, CountTypes
  <2> QED BY <1>4, <2>4, <2>5, <2>6, <2>7, <2>8, <2>9, LocalStep, Zenon
<1>5. ASSUME NEW days \in SUBSET Days, faults' = faults,
             history' = IF days = {} THEN history ELSE SavedDays(j, c, days),
             End(j, c, Price(j, c, w)), quoted' = quoted \cup {<<j, c>>}, UNCHANGED taskVars
      PROVE  IInv'
  <2>1. /\ job' = job /\ answer' = answer /\ broken' = broken /\ reuse' = reuse
        /\ want' = want /\ FaultsStay
    BY <1>5, Zenon DEF taskVars, FaultsStay
  <2>2. PICK h \in Columns : /\ h = Price(j, c, w) /\ h # None
                             /\ h.day = w /\ h.by = j
    <3>1. PICK d \in Days : d = w
      BY <1>2, Zenon
    <3>2. /\ Price(j, c, d) \in Prices /\ Price(j, c, d) # None
          /\ Price(j, c, d).day = d /\ Price(j, c, d).by = j
      BY PriceFits, SMT
    <3>3. Price(j, c, d) \in Columns
      BY <3>2, SMT DEF Columns
    <3> QED BY <3>1, <3>2, <3>3, Zenon
  <2>3. Fits(j, c, b, "done", w, h) /\ ~Rowed(b, "done", w)
    BY <1>2, <2>2, SMT DEF Fits, StageFits, HandFits, Holds, PoolFits, Rowed, Meant
  <2>4. /\ Quotable(b, "done", w, h)
        /\ Reusable(b, "ohlcv", w) => Reusable(b, "done", w)
    BY <2>2, SMT DEF Quotable, Reusable
  <2>5. "done" \in AllStages /\ "done" \notin {"new", "chains"}
        /\ "done" \in AllStages \ {"new", "chains", "expire"}
    BY SMT DEF AllStages
  <2>6. Legal(j, c, "done", w, h)
    BY <1>2, <2>1, <2>3, <2>4, <2>5, Zenon DEF Legal
  <2>7. Step(j, c, "done", w, h)
    <3>1. Goto(j, c, "done") /\ Take(j, c, h) /\ w \in Days \cup {Now}
      BY <1>2, <1>5, <2>2, Zenon DEF End
    <3> QED BY <1>2, <2>1, <2>5, <3>1, StepTo, Zenon
  <2>8. Others(j, c)
    BY <1>2, <1>5, <2>1, OthersHold, Zenon
  <2>9. OneByOne(j, c) /\ Breaks(j, c)
    <3>1. Source(j) # "defillama"
      BY <1>2, SMT
    <3> QED BY <2>1, <3>1, Zenon DEF OneByOne, Breaks
  <2>10. Local(j, c, "done", w, h)
    BY <1>2, <2>1, <2>6, <2>7, <2>8, <2>9, Zenon DEF Local
  <2> QED BY <1>4, <1>5, <2>5, <2>10, Zenon
<1>6. ASSUME NEW days \in SUBSET Days, faults' = faults,
             history' = IF days = {} THEN history ELSE SavedDays(j, c, days),
             NoPrice(j, c), quoted' = quoted
      PROVE  IInv'
  <2>1. at[j][c] \in {"request", "fetchInfo", "pools", "ohlcv"}
    BY <1>1, SMT
  <2>2. PICK e \in AllStages \ {"new", "chains", "expire"} : Local(j, c, e, w, None)
    BY <1>6, <2>1, NoPriceStep, Zenon
  <2> QED BY <1>4, <1>6, <2>2, Zenon
<1>7. CASE Fails(j, c) /\ history' = history
  <2>1. at[j][c] \notin {"expire", "chains"}
    BY <1>1, SMT
  <2>2. Shared
    BY <1>1, <1>7, Zenon DEF Shared
  <2> QED BY <1>2, <1>7, <2>1, <2>2, FailsStep, Zenon
<1>8. CASE /\ faults' = faults
           /\ \E days \in SUBSET Days :
                 /\ history' = IF days = {} THEN history ELSE SavedDays(j, c, days)
                 /\ IF want[j][c] \in days
                    THEN /\ End(j, c, Price(j, c, want[j][c]))
                         /\ quoted' = quoted \cup {<<j, c>>} /\ UNCHANGED taskVars
                    ELSE NoPrice(j, c) /\ UNCHANGED quoted
  <2>1. PICK days \in SUBSET Days :
            /\ history' = IF days = {} THEN history ELSE SavedDays(j, c, days)
            /\ IF want[j][c] \in days
               THEN /\ End(j, c, Price(j, c, want[j][c]))
                    /\ quoted' = quoted \cup {<<j, c>>} /\ UNCHANGED taskVars
               ELSE NoPrice(j, c) /\ quoted' = quoted
    BY <1>8, Zenon
  <2>2. CASE want[j][c] \in days
    BY <1>5, <1>8, <2>1, <2>2, Zenon
  <2>3. CASE want[j][c] \notin days
    BY <1>6, <1>8, <2>1, <2>3, Zenon
  <2> QED BY <2>2, <2>3, Zenon
<1> QED BY <1>7, <1>8, Zenon DEF FetchDays

-----------------------------------------------------------------------------
(* Steps of a call for all its coins.                                      *)

\* The other calls go on as they were.
Apart(j) ==
    /\ job' = job /\ FaultsStay
    /\ \A i \in Calls : i # j =>
          /\ \A e \in Coins : Unmoved(i, e)
          /\ answer'[i] = answer[i]
          /\ i \in broken' <=> i \in broken

LEMMA WholeKept ==
    ASSUME TypeOK, Pairs, EachCall, NEW j \in Calls, Apart(j), RowsStay,
           \A e \in Coins : Pair(j, e)', OneCall(j)'
    PROVE  Pairs' /\ EachCall'
<1>1. job' = job /\ FaultsStay /\ faults \in Nat
  BY Zenon DEF Apart, TypeOK, CountTypes
<1>2. ASSUME NEW i \in Calls, i # j PROVE OneCall(i)' /\ \A e \in Coins : Pair(i, e)'
  <2>1. /\ \A e \in Coins : Unmoved(i, e)
        /\ answer'[i] = answer[i] /\ (i \in broken' <=> i \in broken)
    BY <1>2, Zenon DEF Apart
  <2>2. OneCall(i) /\ \A e \in Coins : Pair(i, e)
    BY Zenon DEF EachCall, Pairs
  <2>3. OneCall(i)'
    BY <1>1, <2>1, <2>2, CallKept, Zenon
  <2>4. \A e \in Coins : Pair(i, e)'
    BY <1>1, <2>1, <2>2, PairKept, Zenon
  <2> QED BY <2>3, <2>4, Zenon
<1> QED BY <1>2, Zenon DEF Pairs, EachCall

\* What is cached stays saved, or about to be, in a step of all coins of a call.
LEMMA SavedWhole ==
    ASSUME TypeOK, SavedFits, NEW j \in Calls, Apart(j),
           \A e \in Coins : current'[e] # None => current[e] # None,
           \A e \in Coins : history[e][Today] # None => history'[e][Today] # None,
           \A e \in Coins : faults' = 0 /\ Saves(job[j], at[j][e], want[j][e]) =>
                Saves(job[j], at'[j][e], want'[j][e]) \/ history'[e][Today] # None
    PROVE  SavedFits'
<1> SUFFICES ASSUME faults' = 0, NEW e \in Coins, current'[e] # None, history'[e][Today] = None
             PROVE  \E i \in Calls : Saves(job'[i], at'[i][e], want'[i][e])
  BY Zenon DEF SavedFits
<1>1. faults = 0
  BY SMT DEF Apart, FaultsStay, TypeOK, CountTypes
<1>2. current[e] # None /\ history[e][Today] = None
  BY Zenon
<1>3. PICK i \in Calls : Saves(job[i], at[i][e], want[i][e])
  BY <1>1, <1>2, Zenon DEF SavedFits
<1>4. job' = job
  BY Zenon DEF Apart
<1>5. CASE i = j
  BY <1>3, <1>4, <1>5, Zenon
<1>6. CASE i # j
  BY <1>3, <1>4, <1>6, Zenon DEF Apart, Unmoved
<1> QED BY <1>5, <1>6, Zenon

LEMMA HitsWhole ==
    ASSUME TypeOK, HitsFit, NEW j \in Calls, Apart(j), hits' = hits, lasting' = lasting,
           \A e \in Coins : at[j][e] = "expire" <=> at'[j][e] = "expire"
    PROVE  HitsFit'
<1>1. OnTheWay' = OnTheWay
  <2>1. \A i \in Calls : \A e \in Coins : at[i][e] = "expire" <=> at'[i][e] = "expire"
    <3> SUFFICES ASSUME NEW i \in Calls, NEW e \in Coins
                 PROVE  at[i][e] = "expire" <=> at'[i][e] = "expire"
      BY Zenon
    <3>1. CASE i = j
      BY <3>1, Zenon
    <3>2. CASE i # j
      BY <3>2, Zenon DEF Apart, Unmoved
    <3> QED BY <3>1, <3>2, Zenon
  <2> QED BY <2>1, SMT DEF OnTheWay
<1>2. hits \in Nat /\ faults \in Nat /\ IsFiniteSet(OnTheWay)
  BY Zenon DEF TypeOK, CountTypes, HitsFit
<1>3. Cardinality(OnTheWay) \in Nat
  BY <1>2, FS_CardinalityType, Zenon
<1>4. IsFiniteSet(OnTheWay')
  BY <1>1, <1>2, Zenon
<1>5. Cardinality(OnTheWay') = Cardinality(OnTheWay)
  BY <1>1, Zenon
<1>6. FaultsStay
  BY Zenon DEF Apart
<1>7. lasting' => hits' <= faults' + Cardinality(OnTheWay')
  BY <1>2, <1>3, <1>5, <1>6, SMT DEF HitsFit, FaultsStay
<1> QED BY <1>4, <1>7, Zenon DEF HitsFit

LEMMA FirstFits ==
    ASSUME IInv, NEW j \in Calls, NEW c \in Coins
    PROVE  /\ First(j, c) \in {"chains", "past", "again", "platforms", "look", "done"}
           /\ Fits(j, c, job[j], First(j, c), job[j].day, None)
<1> DEFINE b == job[j]
<1>1. /\ b.source \in SourceNames /\ b.day \in Days \cup {Now} /\ Source(j) = b.source
      /\ b.source = "dodoex" => b.day = Now
  BY PairFacts, Zenon
<1>2. /\ First(j, c) \in {"chains", "past", "again", "platforms", "look", "done"}
      /\ StageFits(b, First(j, c), b.day)
  BY <1>1, SMT DEF First, StageFits, NowStages, PastStages, SourceNames
<1>3. WantFits(b, b.day)
  BY Zenon DEF WantFits
<1>4. HandFits(j, c, b, First(j, c), b.day, None)
  BY <1>2, SMT DEF HandFits, Holds
<1>5. PoolFits(b, First(j, c), b.day)
  BY <1>2, SMT DEF PoolFits
<1> QED BY <1>2, <1>3, <1>4, <1>5, Zenon DEF Fits

\* A fresh call takes its coins to their first stages.
LEMMA StartStep ==
    ASSUME IInv, NEW j \in Calls, Start(j)
    PROVE  IInv'
<1> DEFINE b == job[j]
           s(e) == IF e \in b.coins THEN First(j, e) ELSE "done"
<1>1. /\ Shared /\ job' = job /\ want' = want /\ hand' = hand /\ reuse' = reuse /\ quoted' = quoted
      /\ broken' = broken /\ answer' = answer /\ faults' = faults
      /\ at' = [at EXCEPT ![j] = [c \in Coins |-> s(c)]]
      /\ \E c \in Coins : at[j][c] = "new"
  BY Zenon DEF Start, taskVars, priceVars, rowVars, limitVars, Shared
<1>2. TypeOK /\ OneCall(j) /\ Pairs /\ EachCall /\ SavedFits /\ HitsFit
  BY Zenon DEF IInv, EachCall
<1>3. Fresh(j) /\ ~IsOver(j)
  <2>1. Fresh(j)
    BY <1>1, <1>2, Zenon DEF OneCall, Began
  <2>2. PICK c \in Coins : at[j][c] = "new"
    BY <1>1, Zenon
  <2>3. ~(at[j][c] = "done" \/ at[j][c] \in {"turn", "ready", "hold"})
    BY <2>2, SMT
  <2>4. ~IsOver(j)
    BY <1>2, <2>3, Zenon DEF OneCall, Answered
  <2> QED BY <2>1, <2>4, Zenon
<1>4. ASSUME NEW e \in Coins
      PROVE  /\ s(e) \in AllStages /\ s(e) \notin {"new", "expire"}
             /\ Fits(j, e, b, s(e), b.day, None) /\ ~Rowed(b, s(e), b.day)
             /\ <<j, e>> \in reuse => Reusable(b, s(e), b.day)
             /\ <<j, e>> \notin quoted /\ want[j][e] = b.day /\ hand[j][e] = None
             /\ at[j][e] \in {"new", "done"}
  <2>1. /\ at[j][e] = IF e \in b.coins THEN "new" ELSE "done"
        /\ want[j][e] = b.day /\ hand[j][e] = None /\ <<j, e>> \notin quoted
    BY <1>3, Zenon DEF Fresh
  <2>2. /\ <<j, e>> \in reuse => Reusable(b, at[j][e], want[j][e])
        /\ Fits(j, e, b, at[j][e], want[j][e], hand[j][e])
    BY PairFacts, Zenon
  <2>3. CASE e \in b.coins
    <3>1. /\ First(j, e) \in {"chains", "past", "again", "platforms", "look", "done"}
          /\ Fits(j, e, b, First(j, e), b.day, None)
      BY FirstFits, Zenon
    <3>2. s(e) = First(j, e)
      BY <2>3, Zenon
    <3> HIDE DEF s
    <3>3. s(e) \in AllStages /\ s(e) \notin {"new", "expire"} /\ ~Rowed(b, s(e), b.day)
      BY <3>1, <3>2, SMT DEF AllStages, Rowed
    <3>4. <<j, e>> \notin reuse
      BY <2>1, <2>2, <2>3, SMT DEF Reusable
    <3> QED BY <2>1, <2>3, <3>1, <3>2, <3>3, <3>4, SMT
  <2>4. CASE e \notin b.coins
    <3>1. s(e) = "done" /\ at[j][e] = "done"
      BY <2>1, <2>4, Zenon
    <3> HIDE DEF s
    <3>2. s(e) \in AllStages /\ s(e) \notin {"new", "expire"} /\ ~Rowed(b, s(e), b.day)
      BY <3>1, SMT DEF AllStages, Rowed
    <3> QED BY <2>1, <2>2, <3>1, <3>2, SMT
  <2> QED BY <2>3, <2>4, Zenon
<1>5. /\ at' \in [Calls -> [Coins -> AllStages]]
      /\ \A e \in Coins : at'[j][e] = s(e)
      /\ \A i \in Calls : i # j => at'[i] = at[i]
  <2>1. [c \in Coins |-> s(c)] \in [Coins -> AllStages]
    BY <1>4, Zenon
  <2>2. PICK f \in [Coins -> AllStages] : f = [c \in Coins |-> s(c)]
    BY <2>1, Zenon
  <2>3. \A e \in Coins : f[e] = s(e)
    BY <2>2, Zenon
  <2> HIDE DEF s
  <2>4. at' = [at EXCEPT ![j] = f]
    BY <1>1, <2>2, Zenon
  <2>5. at \in [Calls -> [Coins -> AllStages]]
    BY <1>2, Zenon DEF TypeOK, CallTypes
  <2>6. at' \in [Calls -> [Coins -> AllStages]] /\ at'[j] = f /\ \A i \in Calls : i # j => at'[i] = at[i]
    BY <2>4, <2>5, SMT
  <2> QED BY <2>3, <2>6, Zenon
<1> HIDE DEF s
<1>6. Apart(j) /\ RowsStay
  BY <1>1, <1>5, Zenon DEF Apart, Unmoved, FaultsStay, RowsStay, Shared
<1>7. ASSUME NEW e \in Coins PROVE Pair(j, e)'
  <2>1. /\ job'[j] = b /\ at'[j][e] = s(e) /\ want'[j][e] = b.day /\ hand'[j][e] = None
        /\ reuse' = reuse /\ quoted' = quoted
    BY <1>1, <1>4, <1>5, Zenon
  <2>2. Fits(j, e, job'[j], at'[j][e], want'[j][e], hand'[j][e])
    BY <1>4, <2>1, Zenon
  <2>3. /\ <<j, e>> \in reuse' => Reusable(job'[j], at'[j][e], want'[j][e])
        /\ <<j, e>> \notin quoted'
        /\ ~Rowed(job'[j], at'[j][e], want'[j][e])
    BY <1>4, <2>1, Zenon
  <2> QED BY <2>2, <2>3, Zenon DEF Pair
<1>8. \A e \in Coins : at'[j][e] # "new" /\ at'[j][e] # "expire" /\ at[j][e] # "expire"
  <2> SUFFICES ASSUME NEW e \in Coins
               PROVE  at'[j][e] # "new" /\ at'[j][e] # "expire" /\ at[j][e] # "expire"
    BY Zenon
  <2>1. at'[j][e] \notin {"new", "expire"} /\ at[j][e] \in {"new", "done"}
    BY <1>4, <1>5, Zenon
  <2> QED BY <2>1, SMT
<1>9. OneCall(j)'
  <2>1. Began(j)'
    <3>1. \A e \in Coins : at'[j][e] # "new"
      BY <1>8, Zenon
    <3> QED BY <3>1, Zenon DEF Began
  <2>2. Chained(j)'
    BY <1>1, <1>4, Zenon DEF Chained
  <2>3. BrokenFits(j)'
    BY <1>1, <1>2, Zenon DEF OneCall, BrokenFits, Source
  <2>4. Answered(j)'
    BY <1>1, <1>3, Zenon DEF Answered, IsOver
  <2> QED BY <2>1, <2>2, <2>3, <2>4, Zenon DEF OneCall
<1>10. Pairs' /\ EachCall'
  BY <1>2, <1>6, <1>7, <1>9, WholeKept, Zenon
<1>11. SavedFits'
  <2>1. \A e \in Coins : ~Saves(job[j], at[j][e], want[j][e])
    <3> SUFFICES ASSUME NEW e \in Coins PROVE ~Saves(job[j], at[j][e], want[j][e])
      BY Zenon
    <3>1. at[j][e] \in {"new", "done"}
      BY <1>4, Zenon
    <3> QED BY <3>1, SMT DEF Saves
  <2>2. current' = current /\ history' = history
    BY <1>1, Zenon DEF Shared
  <2> QED BY <1>2, <1>6, <2>1, <2>2, SavedWhole, Zenon
<1>12. HitsFit'
  <2>1. \A e \in Coins : at[j][e] = "expire" <=> at'[j][e] = "expire"
    BY <1>8, Zenon
  <2>2. hits' = hits /\ lasting' = lasting
    BY <1>1, Zenon DEF Shared
  <2> QED BY <1>2, <1>6, <2>1, <2>2, HitsWhole, Zenon
<1>13. /\ RowsStay /\ SharedTypes' /\ hits' \in Nat /\ lasting' \in BOOLEAN
       /\ StoresFit' /\ RowsFit'
  BY <1>1, SharedStay, Zenon
<1>14. TypeOK'
  BY <1>1, <1>2, <1>5, <1>13, Zenon DEF TypeOK, CallTypes, CountTypes
<1> QED BY <1>10, <1>11, <1>12, <1>13, <1>14, Zenon DEF IInv

\* The answer is what is at hand.
LEMMA ReturnStep ==
    ASSUME IInv, NEW j \in Calls, Return(j)
    PROVE  IInv'
<1> DEFINE reply == [c \in Coins |-> IF j \in broken THEN None ELSE hand[j][c]]
<1>1. /\ Shared /\ job' = job /\ want' = want /\ hand' = hand /\ reuse' = reuse /\ quoted' = quoted
      /\ broken' = broken /\ at' = at /\ faults' = faults
      /\ answer' = [answer EXCEPT ![j] = reply]
      /\ \A c \in Coins : \/ at[j][c] = "done"
                          \/ j \in broken /\ at[j][c] \in {"turn", "ready", "hold"}
  BY Zenon DEF Return, priceVars, rowVars, limitVars, Shared
<1>2. TypeOK /\ OneCall(j) /\ Pairs /\ EachCall /\ SavedFits /\ HitsFit
  BY Zenon DEF IInv, EachCall
<1>3. /\ answer' \in [Calls -> [Coins -> Columns] \cup {None}]
      /\ \A c \in Coins : answer'[j][c] = IF j \in broken THEN None ELSE hand[j][c]
      /\ \A i \in Calls : i # j => answer'[i] = answer[i]
  <2>1. reply \in [Coins -> Columns]
    <3>1. hand[j] \in [Coins -> Columns] /\ None \in Columns
      BY <1>2, Zenon DEF TypeOK, CallTypes, Columns
    <3> QED BY <3>1, Zenon
  <2>2. PICK q \in [Coins -> Columns] : q = reply
    BY <2>1, Zenon
  <2>3. \A c \in Coins : q[c] = IF j \in broken THEN None ELSE hand[j][c]
    BY <2>2, Zenon
  <2>4. answer' = [answer EXCEPT ![j] = q]
    BY <1>1, <2>2, Zenon
  <2>5. answer \in [Calls -> [Coins -> Columns] \cup {None}]
    BY <1>2, Zenon DEF TypeOK, CallTypes
  <2> HIDE DEF reply
  <2>6. answer' \in [Calls -> [Coins -> Columns] \cup {None}] /\ answer'[j] = q
        /\ \A i \in Calls : i # j => answer'[i] = answer[i]
    BY <2>4, <2>5, Zenon
  <2> QED BY <2>3, <2>6, Zenon
<1>4. Apart(j) /\ RowsStay
  BY <1>1, <1>3, Zenon DEF Apart, Unmoved, FaultsStay, RowsStay, Shared
<1>5. ASSUME NEW e \in Coins PROVE Pair(j, e)'
  <2>1. Pair(j, e) /\ Unmoved(j, e)
    BY <1>1, <1>2, Zenon DEF Pairs, Unmoved
  <2> QED BY <1>1, <1>4, <2>1, PairKept, Zenon
<1>6. OneCall(j)'
  <2>1. Began(j) => Began(j)'
    BY <1>1, Zenon DEF Began
  <2>2. Fresh(j) => Fresh(j)'
    BY <1>1, Zenon DEF Fresh
  <2>3. Chained(j)' /\ BrokenFits(j)'
    BY <1>1, <1>2, Zenon DEF OneCall, Chained, BrokenFits, Source
  <2>4. Answered(j)'
    BY <1>1, <1>3, Zenon DEF Answered
  <2> QED BY <1>2, <2>1, <2>2, <2>3, <2>4, Zenon DEF OneCall
<1>7. Pairs' /\ EachCall'
  BY <1>2, <1>4, <1>5, <1>6, WholeKept, Zenon
<1>8. SavedFits' /\ HitsFit'
  <2>1. current' = current /\ history' = history /\ hits' = hits /\ lasting' = lasting
    BY <1>1, Zenon DEF Shared
  <2>2. SavedFits'
    BY <1>1, <1>2, <1>4, <2>1, SavedWhole, Zenon
  <2>3. HitsFit'
    BY <1>1, <1>2, <1>4, <2>1, HitsWhole, Zenon
  <2> QED BY <2>2, <2>3, Zenon
<1>9. /\ SharedTypes' /\ hits' \in Nat /\ lasting' \in BOOLEAN /\ StoresFit' /\ RowsFit'
  BY <1>1, SharedStay, Zenon
<1>10. TypeOK'
  BY <1>1, <1>2, <1>3, <1>9, Zenon DEF TypeOK, CallTypes, CountTypes
<1> QED BY <1>7, <1>8, <1>9, <1>10, Zenon DEF IInv

\* The prices held by a call of CoinGecko are saved, or the call fails.
LEMMA SaveAllStep ==
    ASSUME IInv, NEW j \in Calls, SaveAll(j)
    PROVE  IInv'
<1> DEFINE b == job[j]
           held == {c \in Coins : at[j][c] = "hold"}
<1>1. /\ job' = job /\ want' = want /\ hand' = hand /\ reuse' = reuse /\ quoted' = quoted
      /\ answer' = answer /\ current' = current /\ rows' = rows /\ ids' = ids
      /\ cachedRows' = cachedRows /\ hits' = hits /\ lasting' = lasting
      /\ at' = [at EXCEPT ![j] = [c \in Coins |-> "done"]]
      /\ j \notin broken /\ \A c \in Coins : at[j][c] \in {"hold", "done"}
      /\ \E c \in Coins : at[j][c] = "hold"
  BY Zenon DEF SaveAll, rowVars, limitVars
<1>2. TypeOK /\ OneCall(j) /\ Pairs /\ EachCall /\ SavedFits /\ HitsFit /\ StoresFit /\ RowsFit
  BY Zenon DEF IInv, EachCall
<1>3. /\ at' \in [Calls -> [Coins -> AllStages]]
      /\ \A e \in Coins : at'[j][e] = "done"
      /\ \A i \in Calls : i # j => at'[i] = at[i]
  <2>1. at \in [Calls -> [Coins -> AllStages]] /\ "done" \in AllStages
    BY <1>2, SMT DEF TypeOK, CallTypes, AllStages
  <2> QED BY <1>1, <2>1, SMT
<1>4. Source(j) = "coingecko"
  <2>1. PICK c \in Coins : at[j][c] = "hold"
    BY <1>1, Zenon
  <2>2. b.source \in SourceNames /\ StageFits(b, "hold", want[j][c]) /\ Source(j) = b.source
    BY <2>1, PairFacts, Zenon DEF Fits
  <2> QED BY <2>2, StageFacts, Zenon
<1>5. ~IsOver(j) /\ Began(j)
  <2>1. PICK c \in Coins : at[j][c] = "hold"
    BY <1>1, Zenon
  <2>2. at[j][c] # "done" /\ \A e \in Coins : at[j][e] # "new"
    BY <1>1, <2>1, SMT
  <2> QED BY <1>1, <1>2, <2>2, Zenon DEF OneCall, Answered, Began
<1>6. /\ FaultsStay
      /\ \/ /\ history' = [c \in Coins |-> IF c \in held
                  THEN [history[c] EXCEPT ![DayOf(j, c)] = hand[j][c]] ELSE history[c]]
            /\ broken' = broken /\ faults' = faults
         \/ history' = history /\ broken' = broken \cup {j} /\ faults' > 0 /\ faults' # 0
  <2>1. CASE /\ history' = [c \in Coins |-> IF c \in held
                    THEN [history[c] EXCEPT ![DayOf(j, c)] = hand[j][c]] ELSE history[c]]
             /\ broken' = broken /\ faults' = faults
    BY <2>1, Zenon DEF FaultsStay
  <2>2. CASE Fault /\ broken' = broken \cup {j} /\ history' = history
    BY <1>2, <2>2, FaultFacts, Zenon
  <2> QED BY <2>1, <2>2, Zenon DEF SaveAll
<1>7. ASSUME NEW e \in Coins PROVE Pair(j, e)'
  <2>1. /\ b.source \in SourceNames /\ Fits(j, e, b, at[j][e], want[j][e], hand[j][e])
        /\ <<j, e>> \in reuse => Reusable(b, at[j][e], want[j][e])
        /\ <<j, e>> \in quoted => Quotable(b, at[j][e], want[j][e], hand[j][e])
        /\ at[j][e] \in {"hold", "done"}
    BY <1>1, PairFacts, Zenon
  <2>2. /\ Fits(j, e, b, "done", want[j][e], hand[j][e])
        /\ <<j, e>> \in reuse => Reusable(b, "done", want[j][e])
        /\ <<j, e>> \in quoted => Quotable(b, "done", want[j][e], hand[j][e])
        /\ ~Rowed(b, "done", want[j][e])
    <3>1. Fits(j, e, b, "done", want[j][e], hand[j][e]) /\ ~Rowed(b, "done", want[j][e])
      BY <2>1, SMT DEF Fits, StageFits, HandFits, Holds, PoolFits, Rowed
    <3>2. <<j, e>> \in reuse => Reusable(b, "done", want[j][e])
      BY <2>1, SMT DEF Reusable
    <3>3. <<j, e>> \in quoted => Quotable(b, "done", want[j][e], hand[j][e])
      BY <2>1, SMT DEF Quotable
    <3> QED BY <3>1, <3>2, <3>3, Zenon
  <2>3. /\ job'[j] = b /\ at'[j][e] = "done" /\ want'[j][e] = want[j][e] /\ hand'[j][e] = hand[j][e]
        /\ reuse' = reuse /\ quoted' = quoted
    BY <1>1, <1>3, Zenon
  <2> QED BY <2>2, <2>3, Zenon DEF Pair
<1>8. OneCall(j)'
  <2>1. Began(j)'
    BY <1>3, SMT DEF Began
  <2>2. Chained(j)'
    BY <1>1, <1>4, SMT DEF Chained, Source
  <2>3. BrokenFits(j)'
    BY <1>1, <1>4, <1>6, Zenon DEF BrokenFits, Source
  <2>4. Answered(j)'
    BY <1>1, <1>5, Zenon DEF Answered, IsOver
  <2> QED BY <2>1, <2>2, <2>3, <2>4, Zenon DEF OneCall
<1>9. Apart(j) /\ RowsStay
  <2>1. \A i \in Calls : i # j => (i \in broken' <=> i \in broken)
    BY <1>6, SMT
  <2> QED BY <1>1, <1>3, <1>6, <2>1, Zenon DEF Apart, Unmoved, RowsStay
<1>10. Pairs' /\ EachCall'
  BY <1>2, <1>7, <1>8, <1>9, WholeKept, Zenon
<1>11. HitsFit'
  <2>1. \A e \in Coins : at[j][e] = "expire" <=> at'[j][e] = "expire"
    BY <1>1, <1>3, SMT
  <2> QED BY <1>1, <1>2, <1>9, <2>1, HitsWhole, Zenon
<1>12. broken' \subseteq Calls /\ history \in [Coins -> [Days -> Columns]]
  BY <1>2, <1>6, SMT DEF TypeOK, CallTypes, SharedTypes
<1>13. \A e \in Coins : DayOf(j, e) = Meant(want[j][e]) /\ Meant(want[j][e]) \in Days
  <2> SUFFICES ASSUME NEW e \in Coins
               PROVE  DayOf(j, e) = Meant(want[j][e]) /\ Meant(want[j][e]) \in Days
    BY Zenon
  <2>1. want[j][e] \in Days \cup {Now}
    BY PairFacts, Zenon
  <2> QED BY <2>1, DayFacts, SMT DEF DayOf, IsNow, Meant
<1>14. CASE history' = history /\ broken' = broken \cup {j} /\ faults' > 0 /\ faults' # 0
  <2>1. SavedFits'
    BY <1>14, Zenon DEF SavedFits
  <2>2. StoresFit' /\ RowsFit'
    BY <1>1, <1>2, <1>14, Zenon
    DEF StoresFit, Dated, RowsFit, PricedHaveRows, Source
  <2>3. TypeOK'
    BY <1>1, <1>2, <1>3, <1>6, <1>12, <1>14, SMT
    DEF TypeOK, CallTypes, SharedTypes, CountTypes, FaultsStay
  <2> QED BY <1>10, <1>11, <2>1, <2>2, <2>3, Zenon DEF IInv
<1>15. CASE /\ history' = [c \in Coins |-> IF c \in held
                  THEN [history[c] EXCEPT ![DayOf(j, c)] = hand[j][c]] ELSE history[c]]
            /\ broken' = broken /\ faults' = faults
  <2>1. \A e \in Coins : at[j][e] = "hold" =>
            /\ hand[j][e] \in Columns /\ hand[j][e] # None
            /\ hand[j][e].day = DayOf(j, e) /\ hand[j][e].by = j
    <3> SUFFICES ASSUME NEW e \in Coins, at[j][e] = "hold"
                 PROVE  /\ hand[j][e] \in Columns /\ hand[j][e] # None
                        /\ hand[j][e].day = DayOf(j, e) /\ hand[j][e].by = j
      BY Zenon
    <3>1. hand[j][e] \in Columns /\ HandFits(j, e, b, "hold", want[j][e], hand[j][e])
      BY PairFacts, Zenon DEF Fits
    <3> QED BY <1>13, <3>1, SMT DEF HandFits, Holds
  <2>2. /\ history' \in [Coins -> [Days -> Columns]]
        /\ \A e \in Coins : \A f \in Days :
              history'[e][f] = IF at[j][e] = "hold" /\ f = DayOf(j, e) THEN hand[j][e]
                               ELSE history[e][f]
    <3>1. ASSUME NEW e \in Coins
          PROVE  /\ history'[e] \in [Days -> Columns]
                 /\ \A f \in Days : history'[e][f] = IF at[j][e] = "hold" /\ f = DayOf(j, e)
                                                    THEN hand[j][e] ELSE history[e][f]
      <4>1. history[e] \in [Days -> Columns] /\ DayOf(j, e) \in Days
        BY <1>12, <1>13, Zenon
      <4>2. history'[e] = IF at[j][e] = "hold"
                THEN [history[e] EXCEPT ![DayOf(j, e)] = hand[j][e]] ELSE history[e]
        BY <1>15, Zenon
      <4>3. CASE at[j][e] = "hold"
        <5>1. history'[e] = [history[e] EXCEPT ![DayOf(j, e)] = hand[j][e]]
          BY <4>2, <4>3, Zenon
        <5> QED BY <2>1, <4>1, <4>3, <5>1, SMT
      <4>4. CASE at[j][e] # "hold"
        BY <4>1, <4>2, <4>4, Zenon
      <4> QED BY <4>3, <4>4, Zenon
    <3>2. history' = [e \in Coins |-> history'[e]]
      BY <1>15, Zenon
    <3> QED BY <3>1, <3>2, Zenon
  <2>3. SavedFits'
    <3>1. ASSUME NEW e \in Coins, history[e][Today] # None PROVE history'[e][Today] # None
      <4>1. CASE at[j][e] = "hold" /\ Today = DayOf(j, e)
        BY <2>1, <2>2, <4>1, DayFacts, Zenon
      <4>2. CASE ~(at[j][e] = "hold" /\ Today = DayOf(j, e))
        BY <2>2, <3>1, <4>2, DayFacts, Zenon
      <4> QED BY <4>1, <4>2, Zenon
    <3>2. ASSUME NEW e \in Coins, Saves(job[j], at[j][e], want[j][e])
          PROVE  history'[e][Today] # None
      <4>1. want[j][e] = Now /\ at[j][e] # "done"
        BY <3>2, SMT DEF Saves
      <4>2. at[j][e] = "hold"
        BY <1>1, <4>1, SMT
      <4>3. DayOf(j, e) = Today
        BY <4>1, Zenon DEF DayOf, IsNow
      <4> QED BY <2>1, <2>2, <4>2, <4>3, DayFacts, Zenon
    <3> QED BY <1>1, <1>2, <1>9, <3>1, <3>2, SavedWhole, Zenon
  <2>4. StoresFit'
    <3>1. ASSUME NEW e \in Coins, NEW f \in Days PROVE Dated(f, history'[e][f])
      <4>1. CASE at[j][e] = "hold" /\ f = DayOf(j, e)
        BY <2>1, <2>2, <4>1, Zenon DEF Dated
      <4>2. CASE ~(at[j][e] = "hold" /\ f = DayOf(j, e))
        BY <1>2, <2>2, <4>2, Zenon DEF StoresFit
      <4> QED BY <4>1, <4>2, Zenon
    <3> QED BY <1>1, <1>2, <3>1, Zenon DEF StoresFit
  <2>5. RowsFit'
    <3>1. ~NeedsRow(b)
      BY <1>4, SMT DEF NeedsRow, Source
    <3>2. \A e \in Coins : \A f \in Days :
              \/ history'[e][f] = history[e][f]
              \/ NeedsRow(job[history'[e][f].by]) => rows'[e] # None
      <4> SUFFICES ASSUME NEW e \in Coins, NEW f \in Days, history'[e][f] # history[e][f]
                   PROVE  ~NeedsRow(job[history'[e][f].by])
        BY Zenon
      <4>1. history'[e][f] = hand[j][e] /\ hand[j][e].by = j
        BY <2>1, <2>2, Zenon
      <4>2. history'[e][f].by = j
        BY <4>1, Zenon
      <4> QED BY <3>1, <4>2, Zenon
    <3>3. PricedHaveRows'
      BY <1>1, <1>2, <1>9, <3>2, PricedRows, Zenon DEF RowsFit
    <3> QED BY <1>1, <1>2, <3>3, Zenon DEF RowsFit
  <2>6. TypeOK'
    BY <1>1, <1>2, <1>3, <1>12, <1>15, <2>2, Zenon
    DEF TypeOK, CallTypes, SharedTypes, CountTypes
  <2> QED BY <1>10, <1>11, <2>3, <2>4, <2>5, <2>6, Zenon DEF IInv
<1> QED BY <1>6, <1>14, <1>15, Zenon

\* A request for the coins of a call that wait for it: the others stay where they are.
LEMMA RequestedStep ==
    ASSUME IInv, NEW j \in Calls, NEW c \in Coins, at[j][c] = "ready", j \notin broken,
           \A e \in Coins : at[j][e] \in {"ready", "turn", "hold", "done"},
           Shared, Apart(j), CallTypes', want' = want, answer' = answer,
           \A e \in Coins : Pair(j, e)',
           \A e \in Coins : \/ at'[j][e] = at[j][e]
                            \/ at[j][e] \in {"ready", "done"} /\ at'[j][e] \notin {"new", "chains", "expire"},
           \/ broken' = broken
           \/ broken' = broken \cup {j} /\ Source(j) = "coingecko" /\ faults' > 0
    PROVE  IInv'
<1>1. TypeOK /\ OneCall(j) /\ Pairs /\ EachCall /\ SavedFits /\ HitsFit
  BY Zenon DEF IInv, EachCall
<1>2. job' = job /\ FaultsStay
  BY Zenon DEF Apart
<1>3. ~IsOver(j)
  <2>1. ~(at[j][c] = "done" \/ (j \in broken /\ at[j][c] \in {"turn", "ready", "hold"}))
    BY SMT
  <2> QED BY <1>1, <2>1, Zenon DEF OneCall, Answered
<1>4. \A e \in Coins : /\ at'[j][e] # "new" /\ at'[j][e] # "chains"
                       /\ at'[j][e] # "expire" /\ at[j][e] # "expire"
  <2> SUFFICES ASSUME NEW e \in Coins
               PROVE  /\ at'[j][e] # "new" /\ at'[j][e] # "chains"
                      /\ at'[j][e] # "expire" /\ at[j][e] # "expire"
    BY Zenon
  <2>1. at[j][e] \in {"ready", "turn", "hold", "done"}
    BY Zenon
  <2>2. \/ at'[j][e] = at[j][e]
        \/ at[j][e] \in {"ready", "done"} /\ at'[j][e] \notin {"new", "chains", "expire"}
    BY Zenon
  <2> QED BY <2>1, <2>2, SMT
<1>5. OneCall(j)'
  <2>1. Began(j)'
    BY <1>4, Zenon DEF Began
  <2>2. Chained(j)'
    <3> SUFFICES ASSUME Source(j) = "defillama" PROVE j \notin broken'
      BY <1>2, <1>4, Zenon DEF Chained, Source
    <3>1. Source(j) # "coingecko"
      BY SMT
    <3> QED BY <3>1, Zenon
  <2>3. BrokenFits(j)'
    BY <1>2, Zenon DEF BrokenFits, Source
  <2>4. Answered(j)'
    BY <1>3, Zenon DEF Answered, IsOver
  <2> QED BY <2>1, <2>2, <2>3, <2>4, Zenon DEF OneCall
<1>6. /\ RowsStay /\ SharedTypes' /\ hits' \in Nat /\ lasting' \in BOOLEAN
      /\ StoresFit' /\ RowsFit'
  BY <1>2, SharedStay, Zenon
<1>7. Pairs' /\ EachCall'
  BY <1>1, <1>5, <1>6, WholeKept, Zenon
<1>8. SavedFits'
  <2>1. \A e \in Coins : Saves(job[j], at[j][e], want[j][e]) =>
            Saves(job[j], at'[j][e], want'[j][e])
    <3> SUFFICES ASSUME NEW e \in Coins, Saves(job[j], at[j][e], want[j][e])
                 PROVE  Saves(job[j], at'[j][e], want'[j][e])
      BY Zenon
    <3>1. at[j][e] \notin {"ready", "done"}
      BY SMT DEF Saves
    <3> QED BY <3>1, Zenon
  <2>2. current' = current /\ history' = history
    BY Zenon DEF Shared
  <2> QED BY <1>1, <2>1, <2>2, SavedWhole, Zenon
<1>9. HitsFit'
  <2>1. \A e \in Coins : at[j][e] = "expire" <=> at'[j][e] = "expire"
    BY <1>4, Zenon
  <2>2. hits' = hits /\ lasting' = lasting
    BY Zenon DEF Shared
  <2> QED BY <1>1, <2>1, <2>2, HitsWhole, Zenon
<1>10. faults' \in Nat
  BY <1>1, <1>2, SMT DEF FaultsStay, TypeOK, CountTypes
<1> QED BY <1>6, <1>7, <1>8, <1>9, <1>10, Zenon DEF IInv, TypeOK, CountTypes

\* A coin that waits for the request gets a price, or none.
LEMMA ReadyPair ==
    ASSUME IInv, NEW j \in Calls, NEW e \in Coins, at[j][e] = "ready", job' = job, want' = want,
           reuse' = reuse, RowsStay,
           \/ /\ at'[j][e] = AfterRequest(j, e) /\ hand'[j][e] = Price(j, e, Today)
           \/ /\ at'[j][e] = "done" /\ hand'[j][e] = hand[j][e]
              /\ <<j, e>> \in quoted' => hand[j][e] # None
           \/ /\ at'[j][e] = "done" /\ hand'[j][e] = None /\ <<j, e>> \notin quoted'
           \/ /\ at'[j][e] = "ready" /\ hand'[j][e] = hand[j][e] /\ quoted' = quoted
    PROVE  Pair(j, e)' /\ at'[j][e] \notin {"new", "chains", "expire"}
<1> DEFINE b == job[j]
           w == want[j][e]
           h == hand[j][e]
<1>1. /\ b.source \in SourceNames /\ Source(j) = b.source /\ Fits(j, e, b, "ready", w, h)
      /\ <<j, e>> \in reuse => Reusable(b, "ready", w)
      /\ <<j, e>> \in quoted => Quotable(b, "ready", w, h)
      /\ w \in Days \cup {Now} /\ h \in Columns
  BY PairFacts, Zenon
<1>2. w = Now /\ b.source \in {"coingecko", "defillama"}
  BY <1>1, StageFacts, SMT DEF Fits
<1>3. <<j, e>> \notin reuse' /\ <<j, e>> \notin quoted
  BY <1>1, SMT DEF Reusable, Quotable, Holds
<1>4. job'[j] = b /\ want'[j][e] = w
  BY Zenon
<1>5. ASSUME at'[j][e] = AfterRequest(j, e), hand'[j][e] = Price(j, e, Today)
      PROVE  Pair(j, e)' /\ at'[j][e] \notin {"new", "chains", "expire"}
  <2>1. PICK p \in Prices :
            /\ p = Price(j, e, Today)
            /\ p # None /\ p.day = Today /\ p.by = j
    <3>1. PICK d \in Days : d = Today
      BY DayFacts, Zenon
    <3>2. /\ Price(j, e, d) \in Prices /\ Price(j, e, d) # None
          /\ Price(j, e, d).day = d /\ Price(j, e, d).by = j
      BY PriceFits, SMT
    <3> QED BY <3>1, <3>2, Zenon
  <2>2. p # None /\ p.day = Today /\ p.by = j
    BY <2>1, Zenon
  <2>3. PICK s \in {"row", "cache"} : s = IF b.source = "defillama" THEN "row" ELSE "cache"
    BY Zenon
  <2>4. AfterRequest(j, e) = s
    BY <1>1, <1>2, <2>3, SMT DEF AfterRequest, IsNow
  <2>5. Fits(j, e, b, s, w, p)
    <3>1. StageFits(b, s, w)
      BY <1>2, <2>3, SMT DEF StageFits, NowStages
    <3>2. HandFits(j, e, b, s, w, p)
      BY <1>2, <2>2, Zenon DEF HandFits, Meant
    <3>3. WantFits(b, w) /\ PoolFits(b, s, w)
      BY <1>1, <1>2, Zenon DEF Fits, PoolFits
    <3> QED BY <3>1, <3>2, <3>3, Zenon DEF Fits
  <2>6. Quotable(b, s, w, p) /\ ~Rowed(b, s, w)
    BY <1>2, <2>2, <2>3, SMT DEF Quotable, Holds, Rowed
  <2>7. at'[j][e] = s /\ hand'[j][e] = p
    BY <1>5, <2>1, <2>4, Zenon
  <2>8. Fits(j, e, job'[j], at'[j][e], want'[j][e], hand'[j][e])
    BY <1>4, <2>5, <2>7, Zenon
  <2>9. Quotable(job'[j], at'[j][e], want'[j][e], hand'[j][e]) /\ ~Rowed(job'[j], at'[j][e], want'[j][e])
    BY <1>4, <2>6, <2>7, Zenon
  <2>10. s \notin {"new", "chains", "expire"}
    BY <2>3, SMT
  <2> QED BY <1>3, <2>7, <2>8, <2>9, <2>10, Zenon DEF Pair
<1>6. ASSUME NEW g \in Columns, at'[j][e] = "done", hand'[j][e] = g, g = h \/ g = None,
             <<j, e>> \in quoted' => g # None
      PROVE  Pair(j, e)' /\ at'[j][e] \notin {"new", "chains", "expire"}
  <2>1. Fits(j, e, b, "done", w, g) /\ ~Rowed(b, "done", w)
    BY <1>1, <1>6, SMT DEF Fits, StageFits, HandFits, Holds, PoolFits, Rowed
  <2>2. g # None => Quotable(b, "done", w, g)
    BY Zenon DEF Quotable
  <2>3. Fits(j, e, job'[j], at'[j][e], want'[j][e], hand'[j][e])
    BY <1>4, <1>6, <2>1, Zenon
  <2>4. /\ <<j, e>> \in quoted' => Quotable(job'[j], at'[j][e], want'[j][e], hand'[j][e])
        /\ ~Rowed(job'[j], at'[j][e], want'[j][e])
    BY <1>4, <1>6, <2>1, <2>2, Zenon
  <2>5. "done" \notin {"new", "chains", "expire"}
    BY SMT
  <2> QED BY <1>3, <1>6, <2>3, <2>4, <2>5, Zenon DEF Pair
<1>7. ASSUME at'[j][e] = "ready", hand'[j][e] = h, quoted' = quoted
      PROVE  Pair(j, e)' /\ at'[j][e] \notin {"new", "chains", "expire"}
  <2>1. Pair(j, e) /\ Unmoved(j, e)
    BY <1>7, Zenon DEF IInv, Pairs, Unmoved
  <2>2. "ready" \notin {"new", "chains", "expire"}
    BY SMT
  <2> QED BY <1>7, <2>1, <2>2, PairKept, Zenon
<1>8. None \in Columns
  BY Zenon DEF Columns
<1> QED BY <1>1, <1>5, <1>6, <1>7, <1>8, Zenon

\* The first coin of a batch gets a price that is not its own.
LEMMA StrayPair ==
    ASSUME IInv, NEW j \in Calls, NEW e \in Coins, Misfiles(j), at[j][e] \in {"ready", "done"},
           job' = job, want' = want, reuse' = reuse,
           at'[j][e] = "row", hand'[j][e] = Price(j, Stranger, Today)
    PROVE  Pair(j, e)' /\ at'[j][e] \notin {"new", "chains", "expire"}
<1> DEFINE b == job[j]
           w == want[j][e]
<1>1. /\ b.source = "defillama" /\ b.day = Now /\ WantFits(b, w)
      /\ <<j, e>> \in reuse => Reusable(b, at[j][e], w)
  BY PairFacts, Zenon DEF Misfiles, Fits
<1>2. w = Now /\ <<j, e>> \notin reuse'
  BY <1>1, SMT DEF WantFits, Reusable
<1>3. PICK p \in Prices :
          p = Price(j, Stranger, Today) /\ p # None /\ p.day = Today /\ p.by = j
  <2>1. PICK d \in Days : d = Today
    BY DayFacts, Zenon
  <2>2. /\ Price(j, Stranger, d) \in Prices /\ Price(j, Stranger, d) # None
        /\ Price(j, Stranger, d).day = d /\ Price(j, Stranger, d).by = j
    BY PriceFits, SMT
  <2> QED BY <2>1, <2>2, Zenon
<1>4. Fits(j, e, b, "row", w, p)
  <2>1. StageFits(b, "row", w)
    BY <1>1, <1>2, SMT DEF StageFits, NowStages
  <2>2. HandFits(j, e, b, "row", w, p)
    BY <1>2, <1>3, Zenon DEF HandFits, Meant
  <2>3. PoolFits(b, "row", w)
    BY <1>2, Zenon DEF PoolFits
  <2> QED BY <1>1, <2>1, <2>2, <2>3, Zenon DEF Fits
<1>5. Quotable(b, "row", w, p) /\ ~Rowed(b, "row", w)
  BY <1>2, <1>3, SMT DEF Quotable, Holds, Rowed
<1>6. job'[j] = b /\ want'[j][e] = w /\ hand'[j][e] = p
  BY <1>3, Zenon
<1>7. /\ Fits(j, e, job'[j], at'[j][e], want'[j][e], hand'[j][e])
      /\ Quotable(job'[j], at'[j][e], want'[j][e], hand'[j][e])
      /\ ~Rowed(job'[j], at'[j][e], want'[j][e])
  BY <1>4, <1>5, <1>6, Zenon
<1>8. "row" \notin {"new", "chains", "expire"}
  BY SMT
<1> QED BY <1>2, <1>7, <1>8, Zenon DEF Pair

\* New stages and prices for the coins of one call.
LEMMA WholeTypes ==
    ASSUME TypeOK, NEW j \in Calls, NEW s \in [Coins -> AllStages], NEW h \in [Coins -> Columns],
           at' = [at EXCEPT ![j] = s], hand' = [hand EXCEPT ![j] = h]
    PROVE  /\ at' \in [Calls -> [Coins -> AllStages]] /\ hand' \in [Calls -> [Coins -> Columns]]
           /\ at'[j] = s /\ hand'[j] = h
           /\ \A i \in Calls : i # j => at'[i] = at[i] /\ hand'[i] = hand[i]
<1>1. at \in [Calls -> [Coins -> AllStages]] /\ hand \in [Calls -> [Coins -> Columns]]
  BY Zenon DEF TypeOK, CallTypes
<1>2. /\ at' \in [Calls -> [Coins -> AllStages]] /\ at'[j] = s
      /\ \A i \in Calls : i # j => at'[i] = at[i]
  BY <1>1, SMT
<1>3. /\ hand' \in [Calls -> [Coins -> Columns]] /\ hand'[j] = h
      /\ \A i \in Calls : i # j => hand'[i] = hand[i]
  BY <1>1, SMT
<1> QED BY <1>2, <1>3, Zenon

LEMMA RequestAllStep ==
    ASSUME IInv, NEW j \in Calls, RequestAll(j)
    PROVE  IInv'
<1> DEFINE ready == {c \in Coins : at[j][c] = "ready"}
           keeps(c) == Source(j) = "coingecko" /\ hand[j][c] # None
           takes(got, c) == c \in got /\ ~keeps(c)
           Moves(e, s, h) ==
                \/ /\ s = at[j][e] /\ h = hand[j][e]
                   /\ <<j, e>> \in quoted' => <<j, e>> \in quoted
                \/ /\ at[j][e] = "ready"
                   /\ s = AfterRequest(j, e) /\ h = Price(j, e, Today)
                \/ /\ at[j][e] = "ready"
                   /\ s = "done" /\ h = hand[j][e]
                   /\ <<j, e>> \in quoted' => hand[j][e] # None
                \/ /\ at[j][e] = "ready"
                   /\ s = "done" /\ h = None /\ <<j, e>> \notin quoted'
                \/ /\ at[j][e] \in {"ready", "done"} /\ Misfiles(j)
                   /\ s = "row" /\ h = Price(j, Stranger, Today)
<1>1. /\ Shared /\ job' = job /\ want' = want /\ reuse' = reuse /\ answer' = answer
      /\ j \notin broken /\ ready # {}
      /\ \A c \in Coins : at[j][c] \in {"ready", "turn", "hold", "done"}
  BY Zenon DEF RequestAll, priceVars, rowVars, limitVars, Shared
<1>2. PICK c \in Coins : at[j][c] = "ready"
  BY <1>1, Zenon
<1>3. TypeOK /\ Pairs
  BY Zenon DEF IInv
<1>4. RowsStay
  BY <1>1, Zenon DEF RowsStay, Shared
<1>5. /\ at \in [Calls -> [Coins -> AllStages]] /\ hand \in [Calls -> [Coins -> Columns]]
      /\ at[j] \in [Coins -> AllStages] /\ hand[j] \in [Coins -> Columns]
      /\ quoted \subseteq Calls \X Coins /\ broken \subseteq Calls /\ None \in Columns
      /\ "done" \in AllStages
  BY <1>3, SMT DEF TypeOK, CallTypes, Columns, AllStages
\* What is left to show when the stages and prices are known.
<1>6. ASSUME NEW s \in [Coins -> AllStages], NEW h \in [Coins -> Columns],
             at' = [at EXCEPT ![j] = s], hand' = [hand EXCEPT ![j] = h],
             quoted' \subseteq Calls \X Coins,
             \A i \in Calls : \A e \in Coins : i # j /\ <<i, e>> \in quoted' => <<i, e>> \in quoted,
             FaultsStay,
             \/ broken' = broken
             \/ broken' = broken \cup {j} /\ Source(j) = "coingecko" /\ faults' > 0,
             \A e \in Coins : Moves(e, s[e], h[e])
      PROVE  IInv'
  <2>1. /\ at' \in [Calls -> [Coins -> AllStages]] /\ hand' \in [Calls -> [Coins -> Columns]]
        /\ at'[j] = s /\ hand'[j] = h
        /\ \A i \in Calls : i # j => at'[i] = at[i] /\ hand'[i] = hand[i]
    BY <1>3, <1>6, WholeTypes, Zenon
  <2>2. broken' \subseteq Calls
    BY <1>5, <1>6, SMT
  <2>3. CallTypes'
    BY <1>1, <1>3, <1>6, <2>1, <2>2, Zenon DEF CallTypes, TypeOK
  <2>4. Apart(j)
    <3>1. \A i \in Calls : i # j => (i \in broken' <=> i \in broken)
      BY <1>6, SMT
    <3> QED BY <1>1, <1>6, <2>1, <3>1, Zenon DEF Apart, Unmoved
  <2>5. ASSUME NEW e \in Coins
        PROVE  /\ Pair(j, e)'
               /\ \/ at'[j][e] = at[j][e]
                  \/ at[j][e] \in {"ready", "done"} /\ at'[j][e] \notin {"new", "chains", "expire"}
    <3>1. at'[j][e] = s[e] /\ hand'[j][e] = h[e]
      BY <2>1, Zenon
    <3>2. CASE /\ s[e] = at[j][e] /\ h[e] = hand[j][e]
               /\ <<j, e>> \in quoted' => <<j, e>> \in quoted
      <4>1. Unmoved(j, e) /\ Pair(j, e)
        BY <1>1, <1>3, <3>1, <3>2, Zenon DEF Unmoved, Pairs
      <4> QED BY <1>1, <1>4, <3>1, <3>2, <4>1, PairKept, Zenon
    <3>3. CASE /\ at[j][e] = "ready"
               /\ s[e] = AfterRequest(j, e) /\ h[e] = Price(j, e, Today)
      <4>1. at'[j][e] = AfterRequest(j, e) /\ hand'[j][e] = Price(j, e, Today)
        BY <3>1, <3>3, Zenon
      <4> QED BY <1>1, <1>4, <3>3, <4>1, ReadyPair, Zenon
    <3>4. CASE /\ at[j][e] = "ready"
               /\ s[e] = "done" /\ h[e] = hand[j][e]
               /\ <<j, e>> \in quoted' => hand[j][e] # None
      BY <1>1, <1>4, <3>1, <3>4, ReadyPair, SMT
    <3>5. CASE /\ at[j][e] = "ready"
               /\ s[e] = "done" /\ h[e] = None /\ <<j, e>> \notin quoted'
      BY <1>1, <1>4, <3>1, <3>5, ReadyPair, SMT
    <3>6. CASE /\ at[j][e] \in {"ready", "done"} /\ Misfiles(j)
               /\ s[e] = "row" /\ h[e] = Price(j, Stranger, Today)
      <4>1. at'[j][e] = "row" /\ hand'[j][e] = Price(j, Stranger, Today)
        BY <3>1, <3>6, Zenon
      <4> QED BY <1>1, <3>6, <4>1, StrayPair, Zenon
    <3> QED BY <1>6, <3>2, <3>3, <3>4, <3>5, <3>6, Zenon
  <2> QED BY <1>1, <1>2, <1>6, <2>3, <2>4, <2>5, RequestedStep, Zenon
<1>7. ASSUME NEW got \in SUBSET Asks(j, ready), NEW strays \in SUBSET {FirstCoin(j)},
             strays # {} => Misfiles(j),
             at' = [at EXCEPT ![j] = [e \in Coins |->
                  IF e \in strays \/ takes(got, e) THEN AfterRequest(j, e)
                  ELSE IF e \in ready THEN "done" ELSE at[j][e]]],
             hand' = [hand EXCEPT ![j] = [e \in Coins |->
                  IF e \in strays THEN Price(j, Stranger, Today)
                  ELSE IF takes(got, e) THEN Price(j, e, Today) ELSE hand[j][e]]],
             quoted' = quoted \cup ({j} \X got), broken' = broken, faults' = faults
      PROVE  IInv'
  <2>1. got \subseteq ready /\ got \subseteq Coins
    BY SMT DEF Asks
  <2>2. \A e \in Coins : AfterRequest(j, e) \in AllStages
    BY SMT DEF AfterRequest, AllStages
  <2>3. \A e \in Coins :
            Price(j, e, Today) \in Columns /\ Price(j, Stranger, Today) \in Columns
    <3> SUFFICES ASSUME NEW e \in Coins
                 PROVE  Price(j, e, Today) \in Columns /\ Price(j, Stranger, Today) \in Columns
      BY Zenon
    <3>1. Price(j, e, Today) \in Prices /\ Price(j, Stranger, Today) \in Prices
      BY PriceFits, DayFacts, SMT
    <3> QED BY <3>1, Zenon DEF Columns
  <2>4. PICK s \in [Coins -> AllStages] :
            /\ s = [e \in Coins |-> IF e \in strays \/ takes(got, e) THEN AfterRequest(j, e)
                    ELSE IF e \in ready THEN "done" ELSE at[j][e]]
            /\ \A e \in Coins : s[e] = IF e \in strays \/ takes(got, e) THEN AfterRequest(j, e)
                    ELSE IF e \in ready THEN "done" ELSE at[j][e]
    <3> DEFINE f(e) == IF e \in strays \/ takes(got, e) THEN AfterRequest(j, e)
                       ELSE IF e \in ready THEN "done" ELSE at[j][e]
    <3>1. \A e \in Coins : f(e) \in AllStages
      BY <1>5, <2>2, Zenon
    <3>2. [e \in Coins |-> f(e)] \in [Coins -> AllStages]
      BY <3>1, Zenon
    <3>3. \A e \in Coins : [d \in Coins |-> f(d)][e] = f(e)
      BY Zenon
    <3> QED BY <3>2, <3>3, Zenon
  <2>5. PICK h \in [Coins -> Columns] :
            /\ h = [e \in Coins |-> IF e \in strays THEN Price(j, Stranger, Today)
                    ELSE IF takes(got, e) THEN Price(j, e, Today) ELSE hand[j][e]]
            /\ \A e \in Coins : h[e] = IF e \in strays THEN Price(j, Stranger, Today)
                    ELSE IF takes(got, e) THEN Price(j, e, Today) ELSE hand[j][e]
    <3> DEFINE f(e) == IF e \in strays THEN Price(j, Stranger, Today)
                       ELSE IF takes(got, e) THEN Price(j, e, Today) ELSE hand[j][e]
    <3>1. \A e \in Coins : f(e) \in Columns
      BY <1>5, <2>3, Zenon
    <3>2. [e \in Coins |-> f(e)] \in [Coins -> Columns]
      BY <3>1, Zenon
    <3>3. \A e \in Coins : [d \in Coins |-> f(d)][e] = f(e)
      BY Zenon
    <3> QED BY <3>2, <3>3, Zenon
  <2>6. at' = [at EXCEPT ![j] = s] /\ hand' = [hand EXCEPT ![j] = h]
    BY <1>7, <2>4, <2>5, Zenon
  <2>7. /\ quoted' \subseteq Calls \X Coins
        /\ \A i \in Calls : \A e \in Coins : i # j /\ <<i, e>> \in quoted' => <<i, e>> \in quoted
        /\ \A e \in Coins : <<j, e>> \in quoted' => <<j, e>> \in quoted \/ e \in got
    BY <1>5, <1>7, <2>1, SMT
  <2>8. ASSUME NEW e \in Coins
        PROVE  Moves(e, s[e], h[e])
    <3>1. CASE e \notin ready /\ e \notin strays
      BY <2>1, <2>4, <2>5, <2>7, <3>1, Zenon
    <3>2. CASE e \in ready /\ takes(got, e) /\ e \notin strays
      BY <2>4, <2>5, <3>2, Zenon
    <3>3. CASE e \in ready /\ e \in got /\ keeps(e) /\ e \notin strays
      BY <2>4, <2>5, <3>3, Zenon
    <3>4. CASE e \in ready /\ e \notin got /\ e \notin strays
      <4>1. <<j, e>> \in quoted => Quotable(job[j], at[j][e], want[j][e], hand[j][e])
        BY PairFacts, Zenon
      <4> QED BY <2>4, <2>5, <2>7, <3>4, <4>1, Zenon DEF Quotable
    <3>5. CASE e \in strays
      <4>1. Misfiles(j) /\ job[j].source \in SourceNames /\ StageFits(job[j], at[j][e], want[j][e])
            /\ at[j][e] \in {"ready", "turn", "hold", "done"}
        BY <1>1, <1>7, <3>5, PairFacts, Zenon DEF Fits
      <4>2. job[j].source = "defillama"
        BY <4>1, Zenon DEF Misfiles, Source
      <4>3. at[j][e] \in {"ready", "done"}
        BY <4>1, <4>2, StageFacts, SMT
      <4>4. AfterRequest(j, e) = "row"
        BY <4>2, SMT DEF AfterRequest, Source
      <4> QED BY <2>4, <2>5, <3>5, <4>1, <4>3, <4>4, Zenon
    <3> QED BY <3>1, <3>2, <3>3, <3>4, <3>5, Zenon
  <2>9. FaultsStay
    BY <1>7, Zenon DEF FaultsStay
  <2> HIDE DEF Moves
  <2> QED BY <1>6, <1>7, <2>6, <2>7, <2>8, <2>9, Zenon
<1>8. CASE Fault /\ quoted' = quoted /\ broken' = broken \cup {j} /\ at' = at /\ hand' = hand
           /\ Source(j) = "coingecko"
  <2>1. faults' > 0 /\ FaultsStay
    BY <1>3, <1>8, FaultFacts, Zenon
  <2>2. at' = [at EXCEPT ![j] = at[j]] /\ hand' = [hand EXCEPT ![j] = hand[j]]
    BY <1>5, <1>8, SMT
  <2> QED BY <1>5, <1>6, <1>8, <2>1, <2>2, Zenon
<1>9. CASE /\ Fault /\ quoted' = quoted /\ broken' = broken
           /\ at' = [at EXCEPT ![j] = [e \in Coins |-> IF e \in ready THEN "done" ELSE at[j][e]]]
           /\ hand' = [hand EXCEPT ![j] = [e \in Coins |-> IF e \in ready THEN None ELSE hand[j][e]]]
  <2>1. FaultsStay
    BY <1>3, <1>9, FaultFacts, Zenon
  <2>2. PICK s \in [Coins -> AllStages] :
            /\ s = [e \in Coins |-> IF e \in ready THEN "done" ELSE at[j][e]]
            /\ \A e \in Coins : s[e] = IF e \in ready THEN "done" ELSE at[j][e]
    <3> DEFINE f(e) == IF e \in ready THEN "done" ELSE at[j][e]
    <3>1. \A e \in Coins : f(e) \in AllStages
      BY <1>5, Zenon
    <3>2. [e \in Coins |-> f(e)] \in [Coins -> AllStages]
      BY <3>1, Zenon
    <3>3. \A e \in Coins : [d \in Coins |-> f(d)][e] = f(e)
      BY Zenon
    <3> QED BY <3>2, <3>3, Zenon
  <2>3. PICK h \in [Coins -> Columns] :
            /\ h = [e \in Coins |-> IF e \in ready THEN None ELSE hand[j][e]]
            /\ \A e \in Coins : h[e] = IF e \in ready THEN None ELSE hand[j][e]
    <3> DEFINE f(e) == IF e \in ready THEN None ELSE hand[j][e]
    <3>1. \A e \in Coins : f(e) \in Columns
      BY <1>5, Zenon
    <3>2. [e \in Coins |-> f(e)] \in [Coins -> Columns]
      BY <3>1, Zenon
    <3>3. \A e \in Coins : [d \in Coins |-> f(d)][e] = f(e)
      BY Zenon
    <3> QED BY <3>2, <3>3, Zenon
  <2>4. at' = [at EXCEPT ![j] = s] /\ hand' = [hand EXCEPT ![j] = h]
    BY <1>9, <2>2, <2>3, Zenon
  <2>5. ASSUME NEW e \in Coins
        PROVE  Moves(e, s[e], h[e])
    <3>1. CASE e \in ready
      <4>1. <<j, e>> \in quoted => Quotable(job[j], at[j][e], want[j][e], hand[j][e])
        BY PairFacts, Zenon
      <4>2. at[j][e] = "ready"
        BY <3>1, Zenon
      <4>3. <<j, e>> \notin quoted
        BY <4>1, <4>2, SMT DEF Quotable, Holds
      <4> QED BY <1>9, <2>2, <2>3, <3>1, <4>2, <4>3, Zenon
    <3>2. CASE e \notin ready
      BY <1>9, <2>2, <2>3, <3>2, Zenon
    <3> QED BY <3>1, <3>2, Zenon
  <2>6. /\ quoted' \subseteq Calls \X Coins
        /\ \A i \in Calls : \A e \in Coins : i # j /\ <<i, e>> \in quoted' => <<i, e>> \in quoted
    BY <1>5, <1>9, Zenon
  <2> HIDE DEF Moves
  <2> QED BY <1>6, <1>9, <2>1, <2>4, <2>5, <2>6, Zenon
<1>10. \/ \E got \in SUBSET Asks(j, ready) : \E strays \in SUBSET {FirstCoin(j)} :
             /\ strays # {} => Misfiles(j)
             /\ at' = [at EXCEPT ![j] = [e \in Coins |->
                  IF e \in strays \/ takes(got, e) THEN AfterRequest(j, e)
                  ELSE IF e \in ready THEN "done" ELSE at[j][e]]]
             /\ hand' = [hand EXCEPT ![j] = [e \in Coins |->
                  IF e \in strays THEN Price(j, Stranger, Today)
                  ELSE IF takes(got, e) THEN Price(j, e, Today) ELSE hand[j][e]]]
             /\ quoted' = quoted \cup ({j} \X got) /\ broken' = broken /\ faults' = faults
       \/ /\ Fault /\ quoted' = quoted /\ broken' = broken \cup {j} /\ at' = at /\ hand' = hand
          /\ Source(j) = "coingecko"
       \/ /\ Fault /\ quoted' = quoted /\ broken' = broken
          /\ at' = [at EXCEPT ![j] = [e \in Coins |-> IF e \in ready THEN "done" ELSE at[j][e]]]
          /\ hand' = [hand EXCEPT ![j] = [e \in Coins |-> IF e \in ready THEN None ELSE hand[j][e]]]
  BY Zenon DEF RequestAll
<1> QED BY <1>7, <1>8, <1>9, <1>10, Zenon

-----------------------------------------------------------------------------
(* Steps of no call.                                                       *)

LEMMA CallsStay ==
    ASSUME IInv, UNCHANGED <<taskVars, at, hand, quoted, faults>>, RowsStay
    PROVE  /\ Pairs' /\ EachCall' /\ CallTypes' /\ faults' \in Nat
           /\ job' = job /\ OnTheWay' = OnTheWay
<1>1. /\ job' = job /\ want' = want /\ reuse' = reuse /\ broken' = broken /\ answer' = answer
      /\ at' = at /\ hand' = hand /\ quoted' = quoted /\ faults' = faults
  BY Zenon DEF taskVars
<1>2. TypeOK /\ faults \in Nat /\ FaultsStay
  BY <1>1, Zenon DEF IInv, TypeOK, CountTypes, FaultsStay
<1>3. ASSUME NEW i \in Calls PROVE OneCall(i)' /\ \A e \in Coins : Pair(i, e)'
  <2>1. OneCall(i) /\ \A e \in Coins : Pair(i, e)
    BY Zenon DEF IInv, EachCall, Pairs
  <2>2. \A e \in Coins : Unmoved(i, e)
    BY <1>1, Zenon DEF Unmoved
  <2>3. OneCall(i)'
    BY <1>1, <1>2, <2>1, <2>2, CallKept, Zenon
  <2>4. \A e \in Coins : Pair(i, e)'
    BY <1>1, <2>1, <2>2, PairKept, Zenon
  <2> QED BY <2>3, <2>4, Zenon
<1>4. CallTypes'
  BY <1>1, <1>2, Zenon DEF CallTypes, TypeOK
<1>5. OnTheWay' = OnTheWay
  BY <1>1, Zenon DEF OnTheWay
<1> QED BY <1>1, <1>2, <1>3, <1>4, <1>5, Zenon DEF Pairs, EachCall

\* CoinGecko's list gives more coins a row, and takes none.
LEMMA SyncCoinsStep ==
    ASSUME IInv, SyncCoins
    PROVE  IInv'
<1>1. /\ UNCHANGED <<taskVars, at, hand, quoted, faults>>
      /\ current' = current /\ history' = history /\ hits' = hits /\ lasting' = lasting
      /\ rows' = [c \in Coins |-> IF c \in Listed THEN "coingecko" ELSE rows[c]]
      /\ ids' = ids \cup Listed /\ cachedRows' = cachedRows \cup Listed
  BY Zenon DEF SyncCoins, priceVars, limitVars
<1>2. "coingecko" \in SourceNames /\ "coingecko" # None /\ Listed \subseteq Coins
  <2>1. "coingecko" \in SourceNames
    BY SMT DEF SourceNames
  <2>2. Listed \subseteq Coins
    BY SourceAssumption, Zenon
  <2> QED BY <2>1, <2>2, NoneAssumption, Zenon
<1>3. \A c \in Coins : rows'[c] = IF c \in Listed THEN "coingecko" ELSE rows[c]
  BY <1>1, Zenon
<1>4. RowsStay
  BY <1>2, <1>3, Zenon DEF RowsStay
<1>5. /\ Pairs' /\ EachCall' /\ CallTypes' /\ faults' \in Nat
      /\ job' = job /\ OnTheWay' = OnTheWay
  BY <1>1, <1>4, CallsStay, Zenon
<1>6. SharedTypes'
  <2>1. SharedTypes
    BY Zenon DEF IInv, TypeOK
  <2>2. rows' \in [Coins -> SourceNames \cup {None}]
    BY <1>1, <1>2, <2>1, Zenon DEF SharedTypes
  <2>3. ids' \subseteq Coins /\ cachedRows' \subseteq Coins
    BY <1>1, <1>2, <2>1, SMT DEF SharedTypes
  <2> QED BY <1>1, <2>1, <2>2, <2>3, Zenon DEF SharedTypes
<1>7. StoresFit'
  BY <1>1, Zenon DEF IInv, StoresFit, Dated
<1>8. RowsFit'
  <2>1. RowsFit /\ SharedTypes
    BY Zenon DEF IInv, TypeOK
  <2>2. \A c \in cachedRows' : rows'[c] # None
    <3> SUFFICES ASSUME NEW c \in cachedRows' PROVE rows'[c] # None
      BY Zenon
    <3>1. c \in cachedRows \/ c \in Listed
      BY <1>1, Zenon
    <3>2. c \in Coins
      BY <1>2, <2>1, <3>1, SMT DEF SharedTypes
    <3> QED BY <1>2, <1>3, <2>1, <3>1, <3>2, Zenon DEF RowsFit
  <2>3. PricedHaveRows'
    BY <1>1, <1>4, <1>5, <2>1, Zenon DEF RowsFit, PricedHaveRows, RowsStay, Source
  <2> QED BY <2>2, <2>3, Zenon DEF RowsFit
<1>9. SavedFits'
  BY <1>1, Zenon DEF IInv, SavedFits, taskVars
<1>10. HitsFit'
  BY <1>1, <1>5, Zenon DEF IInv, HitsFit
<1>11. CountTypes'
  BY <1>1, <1>5, Zenon DEF IInv, TypeOK, CountTypes
<1> QED BY <1>5, <1>6, <1>7, <1>8, <1>9, <1>10, <1>11, Zenon DEF IInv, TypeOK

\* What expires takes nothing that the invariant promises.
LEMMA CachesExpireStep ==
    ASSUME IInv, CachesExpire
    PROVE  IInv'
<1>1. /\ UNCHANGED <<taskVars, at, hand, quoted, faults>>
      /\ history' = history /\ rows' = rows /\ ids' = ids /\ lasting' = lasting
  BY Zenon DEF CachesExpire
<1>2. SharedTypes /\ StoresFit /\ RowsFit /\ SavedFits /\ HitsFit /\ CountTypes
  BY Zenon DEF IInv, TypeOK
<1>3. /\ current' \in [Coins -> Columns]
      /\ \A c \in Coins : current'[c] = current[c] \/ current'[c] = None
  <2>1. CASE current' = current
    BY <1>2, <2>1, Zenon DEF SharedTypes
  <2>2. CASE \E c \in Coins : current' = [current EXCEPT ![c] = None]
    BY <1>2, <2>2, SMT DEF SharedTypes, Columns
  <2> QED BY <2>1, <2>2, Zenon DEF CachesExpire
<1>4. cachedRows' \subseteq cachedRows
  BY SMT DEF CachesExpire
<1>5. hits' \in Nat /\ (hits' = hits \/ (hits' = 0 /\ ~lasting))
  <2>1. hits' = hits \/ (hits' = 0 /\ ~lasting)
    BY Zenon DEF CachesExpire
  <2> QED BY <1>2, <2>1, SMT DEF CountTypes
<1>6. RowsStay
  BY <1>1, Zenon DEF RowsStay
<1>7. /\ Pairs' /\ EachCall' /\ CallTypes' /\ faults' \in Nat
      /\ job' = job /\ OnTheWay' = OnTheWay
  BY <1>1, <1>6, CallsStay, Zenon
<1>8. SharedTypes' /\ CountTypes'
  BY <1>1, <1>2, <1>3, <1>4, <1>5, <1>7, SMT DEF SharedTypes, CountTypes
<1>9. StoresFit'
  BY <1>1, <1>2, <1>3, Zenon DEF StoresFit, Dated
<1>10. RowsFit'
  <2>1. \A c \in cachedRows' : rows'[c] # None
    BY <1>1, <1>2, <1>4, Zenon DEF RowsFit
  <2>2. PricedHaveRows'
    BY <1>1, <1>2, <1>7, Zenon DEF RowsFit, PricedHaveRows, Source
  <2> QED BY <2>1, <2>2, Zenon DEF RowsFit
<1>11. SavedFits'
  <2>1. job' = job /\ at' = at /\ want' = want /\ faults' = faults
    BY <1>1, Zenon DEF taskVars
  <2> QED BY <1>1, <1>2, <1>3, <2>1, Zenon DEF SavedFits
<1>12. HitsFit'
  <2>1. faults' = faults
    BY <1>1, Zenon
  <2> QED BY <1>1, <1>2, <1>5, <1>7, <2>1, Zenon DEF HitsFit
<1> QED BY <1>7, <1>8, <1>9, <1>10, <1>11, <1>12, Zenon DEF IInv, TypeOK

LEMMA SharedStillStep ==
    ASSUME IInv, UNCHANGED <<taskVars, at, hand, quoted, faults>>, Shared
    PROVE  IInv'
<1>1. /\ RowsStay /\ job' = job
      /\ current' = current /\ history' = history /\ hits' = hits /\ lasting' = lasting
  BY Zenon DEF RowsStay, Shared, taskVars
<1>2. /\ Pairs' /\ EachCall' /\ CallTypes' /\ faults' \in Nat
      /\ OnTheWay' = OnTheWay
  BY <1>1, CallsStay, Zenon
<1>3. /\ SharedTypes' /\ hits' \in Nat /\ lasting' \in BOOLEAN /\ StoresFit' /\ RowsFit'
  BY <1>1, SharedStay, Zenon
<1>4. SavedFits'
  BY <1>1, Zenon DEF IInv, SavedFits, taskVars
<1>5. HitsFit'
  BY <1>1, <1>2, Zenon DEF IInv, HitsFit
<1> QED BY <1>2, <1>3, <1>4, <1>5, Zenon DEF IInv, TypeOK, CountTypes

-----------------------------------------------------------------------------
(* The theorems.                                                           *)

\* The invariant holds at the start, and each step keeps it.
LEMMA InitFits == Init => IInv
<1> SUFFICES ASSUME Init PROVE IInv
  BY Zenon
<1>1. \A j \in Calls : job[j] \in Jobs
  BY SourceAssumption, Zenon DEF Init
<1>2. ASSUME NEW j \in Calls, NEW c \in Coins
      PROVE  /\ job[j].day \in Days \cup {Now} /\ at[j][c] \in {"new", "done"}
             /\ at[j][c] = (IF c \in job[j].coins THEN "new" ELSE "done")
             /\ want[j][c] = job[j].day /\ hand[j][c] = None /\ <<j, c>> \notin quoted
  <2>1. job[j].day \in Days \cup {Now}
    BY <1>1, SMT DEF Jobs
  <2>2. /\ at[j][c] = (IF c \in job[j].coins THEN "new" ELSE "done")
        /\ want[j][c] = job[j].day /\ hand[j][c] = None /\ <<j, c>> \notin quoted
    BY Zenon DEF Init
  <2> QED BY <2>1, <2>2, SMT
<1>3. TypeOK
  <2>1. CallTypes
    <3>1. at = [j \in Calls |-> at[j]] /\ \A j \in Calls : at[j] = [c \in Coins |-> at[j][c]]
      BY Zenon DEF Init
    <3>2. \A j \in Calls : \A c \in Coins : at[j][c] \in AllStages
      <4> SUFFICES ASSUME NEW j \in Calls, NEW c \in Coins PROVE at[j][c] \in AllStages
        BY Zenon
      <4>1. at[j][c] \in {"new", "done"}
        BY <1>2, Zenon
      <4> QED BY <4>1, SMT DEF AllStages
    <3>3. at \in [Calls -> [Coins -> AllStages]]
      BY <3>1, <3>2, SMT
    <3>4. want \in [Calls -> [Coins -> Days \cup {Now}]]
      <4>1. want = [j \in Calls |-> want[j]] /\ \A j \in Calls : want[j] = [c \in Coins |-> want[j][c]]
        BY Zenon DEF Init
      <4>2. \A j \in Calls : \A c \in Coins : want[j][c] \in Days \cup {Now}
        BY <1>2, Zenon
      <4> QED BY <4>1, <4>2, SMT
    <3>5. hand \in [Calls -> [Coins -> Columns]] /\ answer \in [Calls -> [Coins -> Columns] \cup {None}]
      BY SMT DEF Init, Columns
    <3>6. /\ job \in Plans /\ reuse \subseteq Calls \X Coins /\ quoted \subseteq Calls \X Coins
          /\ broken \subseteq Calls
      BY SMT DEF Init
    <3> QED BY <3>3, <3>4, <3>5, <3>6, Zenon DEF CallTypes
  <2>2. SharedTypes
    <3>1. "coingecko" \in SourceNames
      BY SMT DEF SourceNames
    <3>2. Listed \subseteq Coins
      BY SourceAssumption, Zenon
    <3>3. current \in [Coins -> Columns] /\ history \in [Coins -> [Days -> Columns]]
      BY SMT DEF Init, Columns
    <3> QED BY <3>1, <3>2, <3>3, Zenon DEF SharedTypes, Init
  <2>3. CountTypes
    <3>1. hits = 0 /\ lasting = FALSE /\ faults = 0
      BY Zenon DEF Init
    <3>2. hits \in Nat /\ faults \in Nat
      BY <3>1, SMT
    <3> QED BY <3>1, <3>2, Zenon DEF CountTypes
  <2> QED BY <2>1, <2>2, <2>3, Zenon DEF TypeOK
<1>4. Pairs
  <2> SUFFICES ASSUME NEW j \in Calls, NEW c \in Coins PROVE Pair(j, c)
    BY Zenon DEF Pairs
  <2> DEFINE b == job[j]
  <2>1. at[j][c] \in {"new", "done"} /\ want[j][c] = b.day /\ hand[j][c] = None
    BY <1>2, Zenon
  <2>2. /\ Fits(j, c, b, at[j][c], want[j][c], hand[j][c])
        /\ ~Rowed(b, at[j][c], want[j][c])
    <3>1. StageFits(b, at[j][c], want[j][c]) /\ WantFits(b, want[j][c])
      BY <2>1, Zenon DEF StageFits, WantFits
    <3>2. HandFits(j, c, b, at[j][c], want[j][c], hand[j][c])
      BY <2>1, SMT DEF HandFits, Holds
    <3>3. PoolFits(b, at[j][c], want[j][c]) /\ ~Rowed(b, at[j][c], want[j][c])
      BY <2>1, SMT DEF PoolFits, Rowed
    <3> QED BY <3>1, <3>2, <3>3, Zenon DEF Fits
  <2>3. <<j, c>> \notin reuse /\ <<j, c>> \notin quoted
    BY Zenon DEF Init
  <2> QED BY <2>1, <2>2, <2>3, Zenon DEF Pair
<1>5. EachCall
  <2> SUFFICES ASSUME NEW j \in Calls PROVE OneCall(j)
    BY Zenon DEF EachCall
  <2>1. Fresh(j)
    BY <1>2, Zenon DEF Fresh
  <2>2. Chained(j) /\ BrokenFits(j) /\ Answered(j)
    BY Zenon DEF Chained, BrokenFits, Answered, IsOver, Init
  <2> QED BY <2>1, <2>2, Zenon DEF OneCall
<1>6. StoresFit
  BY Zenon DEF StoresFit, Dated, Init
<1>7. RowsFit
  <2>1. \A c \in cachedRows : rows[c] # None
    <3>1. "coingecko" # None
      BY NoneAssumption, SMT DEF SourceNames
    <3> QED BY <3>1, SourceAssumption, SMT DEF Init
  <2>2. PricedHaveRows
    BY Zenon DEF PricedHaveRows, Init
  <2> QED BY <2>1, <2>2, Zenon DEF RowsFit
<1>8. SavedFits
  BY Zenon DEF SavedFits, Init
<1>9. HitsFit
  <2>1. OnTheWay = {}
    <3> SUFFICES ASSUME NEW j \in Calls, NEW c \in Coins PROVE at[j][c] # "expire"
      BY SMT DEF OnTheWay
    <3>1. at[j][c] \in {"new", "done"}
      BY <1>2, Zenon
    <3> QED BY <3>1, SMT
  <2>2. IsFiniteSet(OnTheWay)
    BY <2>1, FS_EmptySet, Zenon
  <2> QED BY <2>2, Zenon DEF HitsFit, Init
<1> QED BY <1>3, <1>4, <1>5, <1>6, <1>7, <1>8, <1>9, Zenon DEF IInv

LEMMA NextFits == IInv /\ [Next]_vars => IInv'
<1> SUFFICES ASSUME IInv, [Next]_vars PROVE IInv'
  BY Zenon
<1>1. ASSUME NEW j \in Calls, Start(j) PROVE IInv'
  BY <1>1, StartStep, Zenon
<1>2. ASSUME NEW j \in Calls, RequestAll(j) PROVE IInv'
  BY <1>2, RequestAllStep, Zenon
<1>3. ASSUME NEW j \in Calls, SaveAll(j) PROVE IInv'
  BY <1>3, SaveAllStep, Zenon
<1>4. ASSUME NEW j \in Calls, Return(j) PROVE IInv'
  BY <1>4, ReturnStep, Zenon
<1>5. ASSUME NEW j \in Calls, NEW c \in Coins, LookInMap(j, c) \/ MapFails(j, c) PROVE IInv'
  BY <1>5, LookInMapStep, MapFailsStep, Zenon
<1>6. ASSUME NEW j \in Calls, NEW c \in Coins, NowStep(j, c) PROVE IInv'
  <2>1. CASE LookAtCurrent(j, c) BY <2>1, LookAtCurrentStep, Zenon
  <2>2. CASE CheckLimit(j, c) BY <2>2, CheckLimitStep, Zenon
  <2>3. CASE Count(j, c) BY <2>3, CountStep, Zenon
  <2>4. CASE Expire(j, c) BY <2>4, ExpireStep, Zenon
  <2>5. CASE Request(j, c) BY <2>5, RequestStep, Zenon
  <2>6. CASE Cache(j, c) BY <2>6, CacheStep, Zenon
  <2>7. CASE CheckRow(j, c) BY <2>7, CheckRowStep, Zenon
  <2>8. CASE Insert(j, c) BY <2>8, InsertStep, Zenon
  <2>9. CASE RowFails(j, c) BY <2>9, RowFailsStep, Zenon
  <2>10. CASE Save(j, c) BY <2>10, SaveStep, Zenon
  <2>11. CASE SaveFails(j, c) BY <2>11, SaveFailsStep, Zenon
  <2> QED BY <1>6, <2>1, <2>2, <2>3, <2>4, <2>5, <2>6, <2>7, <2>8, <2>9, <2>10, <2>11, Zenon
           DEF NowStep
<1>7. ASSUME NEW j \in Calls, NEW c \in Coins, PastStep(j, c) PROVE IInv'
  <2>1. CASE LookAtPast(j, c) BY <2>1, LookAtPastStep, Zenon
  <2>2. CASE LookAgain(j, c) BY <2>2, LookAgainStep, Zenon
  <2>3. CASE TakeTurn(j, c) BY <2>3, TakeTurnStep, Zenon
  <2>4. CASE LookAtInfo(j, c) BY <2>4, LookAtInfoStep, Zenon
  <2>5. CASE FetchInfo(j, c) BY <2>5, FetchInfoStep, Zenon
  <2>6. CASE FetchPools(j, c) BY <2>6, FetchPoolsStep, Zenon
  <2>7. CASE FetchDays(j, c) BY <2>7, FetchDaysStep, Zenon
  <2> QED BY <1>7, <2>1, <2>2, <2>3, <2>4, <2>5, <2>6, <2>7, Zenon DEF PastStep
<1>8. CASE SyncCoins
  BY <1>8, SyncCoinsStep, Zenon
<1>9. CASE CachesExpire
  BY <1>9, CachesExpireStep, Zenon
<1>10. CASE InfosExpire \/ UNCHANGED vars
  <2>1. UNCHANGED <<taskVars, at, hand, quoted, faults>> /\ Shared
    BY <1>10, Zenon DEF InfosExpire, vars, priceVars, rowVars, limitVars, Shared
  <2> QED BY <2>1, SharedStillStep, Zenon
<1> QED BY <1>1, <1>2, <1>3, <1>4, <1>5, <1>6, <1>7, <1>8, <1>9, <1>10, Zenon DEF Next

\* The invariant that the theorems below rest on.
THEOREM Invariance == Spec => []IInv
BY InitFits, NextFits, PTL DEF Spec

\* The stages, the days asked for and the prices of the calls, the caches, the history, the
\* rows and the counts have their types.
THEOREM TypeCorrect == Spec => []TypeOK
<1>1. IInv => TypeOK
  BY Zenon DEF IInv
<1> QED BY <1>1, Invariance, PTL

-----------------------------------------------------------------------------
(* Whose price it is: an invariant of its own.  A price goes from hand to  *)
(* the caches, the history and the answer, and back to other hands, of     *)
(* the same coin.                                                          *)

Own(jobs, c, price) ==
    price # None /\ price.of # c =>
        /\ price.of = Stranger
        /\ jobs[price.by].source = "defillama" /\ jobs[price.by].day = Now /\ jobs[price.by].batch
        /\ c = CHOOSE e \in Coins : e \in jobs[price.by].coins

HandsOwned == \A j \in Calls : \A c \in Coins : Own(job, c, hand[j][c])
StoresOwned == \A c \in Coins : /\ Own(job, c, current[c])
                                /\ \A d \in Days : Own(job, c, history[c][d])
AnswersOwned == \A j \in Calls : IsOver(j) => \A c \in Coins : Own(job, c, answer[j][c])
Owned == HandsOwned /\ StoresOwned /\ AnswersOwned

LEMMA OwnFacts ==
    ASSUME NEW c \in Coins
    PROVE  /\ Own(job, c, None)
           /\ \A j \in Calls : \A d : Own(job, c, Price(j, c, d))
           /\ \A j \in Calls : \A d :
                 Misfiles(j) /\ c = FirstCoin(j) => Own(job, c, Price(j, Stranger, d))
<1>1. Own(job, c, None)
  BY Zenon DEF Own
<1>2. ASSUME NEW j \in Calls, NEW d PROVE Own(job, c, Price(j, c, d))
  <2>1. Price(j, c, d).of = c
    BY SMT DEF Price
  <2> QED BY <2>1, Zenon DEF Own
<1>3. ASSUME NEW j \in Calls, NEW d, Misfiles(j), c = FirstCoin(j)
      PROVE  Own(job, c, Price(j, Stranger, d))
  <2>1. Price(j, Stranger, d).of = Stranger /\ Price(j, Stranger, d).by = j
    BY SMT DEF Price
  <2> QED BY <1>3, <2>1, Zenon DEF Own, Misfiles, FirstCoin, Source
<1> QED BY <1>1, <1>2, <1>3, Zenon

\* What the caches, the history and the answers are to have after a step.
StoresGo ==
    \A c \in Coins : /\ current'[c] = current[c] \/ Own(job, c, current'[c])
                     /\ \A d \in Days :
                           history'[c][d] = history[c][d] \/ Own(job, c, history'[c][d])
HandsGo ==
    \A j \in Calls : \A c \in Coins : hand'[j][c] = hand[j][c] \/ Own(job, c, hand'[j][c])

LEMMA OwnedStep ==
    ASSUME Owned, job' = job, HandsGo, StoresGo,
           \A j \in Calls : \/ answer'[j] = answer[j]
                            \/ \A c \in Coins : Own(job, c, answer'[j][c])
    PROVE  Owned'
<1>1. HandsOwned'
  BY Zenon DEF Owned, HandsOwned, HandsGo
<1>2. StoresOwned'
  BY Zenon DEF Owned, StoresOwned, StoresGo
<1>3. AnswersOwned'
  BY Zenon DEF Owned, AnswersOwned, IsOver
<1> QED BY <1>1, <1>2, <1>3, Zenon DEF Owned

LEMMA TakeOwned ==
    ASSUME TypeOK, NEW j \in Calls, NEW c \in Coins, NEW h, Own(job, c, h), Take(j, c, h)
    PROVE  HandsGo
<1>1. hand \in [Calls -> [Coins -> Columns]] /\ hand' = [hand EXCEPT ![j][c] = h]
  BY Zenon DEF TypeOK, CallTypes, Take
<1>2. /\ hand'[j][c] = h
      /\ \A i \in Calls : \A e \in Coins : i # j \/ e # c => hand'[i][e] = hand[i][e]
  BY <1>1, SMT
<1> QED BY <1>2, Zenon DEF HandsGo

\* A step that gives a coin at most a price of its own, and leaves the caches and the history
\* alone.
LEMMA TakeStep ==
    ASSUME TypeOK, Owned, job' = job, answer' = answer, UNCHANGED priceVars,
           \/ hand' = hand
           \/ \E j \in Calls : \E c \in Coins : \E h : Own(job, c, h) /\ Take(j, c, h)
    PROVE  Owned'
<1>1. StoresGo
  BY Zenon DEF StoresGo, priceVars
<1>2. HandsGo
  BY TakeOwned, Zenon DEF HandsGo
<1> QED BY <1>1, <1>2, OwnedStep, Zenon

LEMMA NowOwned ==
    ASSUME TypeOK, Owned, NEW j \in Calls, NEW c \in Coins, NowStep(j, c)
    PROVE  Owned'
<1>1. /\ Own(job, c, None) /\ Own(job, c, current[c]) /\ Own(job, c, hand[j][c])
      /\ \A d : Own(job, c, Price(j, c, d))
  BY OwnFacts, Zenon DEF Owned, StoresOwned, HandsOwned
<1>2. CASE LookAtCurrent(j, c)
  <2>1. hand' = hand \/ Take(j, c, current[c])
    BY <1>2, SMT DEF LookAtCurrent, End
  <2> QED BY <1>1, <1>2, <2>1, TakeStep, Zenon DEF LookAtCurrent, taskVars
<1>3. CASE CheckLimit(j, c)
  <2>1. hand' = hand \/ Take(j, c, None)
    BY <1>3, Zenon DEF CheckLimit, End
  <2> QED BY <1>1, <1>3, <2>1, TakeStep, Zenon DEF CheckLimit, taskVars
<1>4. CASE Count(j, c) \/ Expire(j, c) \/ CheckRow(j, c) \/ Insert(j, c)
  BY <1>4, TakeStep, Zenon DEF Count, Expire, CheckRow, Insert, taskVars
<1>5. CASE Request(j, c)
  <2>1. \/ Take(j, c, Price(j, c, DayOf(j, c))) /\ UNCHANGED taskVars
        \/ Take(j, c, None) /\ job' = job /\ answer' = answer
    BY <1>5, Zenon DEF Request, NoPrice, Fails
  <2> QED BY <1>1, <1>5, <2>1, TakeStep, Zenon DEF Request, taskVars
<1>6. CASE RowFails(j, c)
  <2>1. \/ UNCHANGED <<taskVars, hand, quoted>>
        \/ Take(j, c, None) /\ job' = job /\ answer' = answer
    BY <1>6, Zenon DEF RowFails, Fails
  <2> QED BY <1>1, <1>6, <2>1, TakeStep, Zenon DEF RowFails, taskVars
<1>7. CASE SaveFails(j, c)
  <2>1. hand' = hand \/ Take(j, c, None)
    BY <1>7, Zenon DEF SaveFails, End
  <2> QED BY <1>1, <1>7, <2>1, TakeStep, Zenon DEF SaveFails, taskVars
<1>8. CASE Cache(j, c)
  <2>1. current' = [current EXCEPT ![c] = hand[j][c]] /\ current \in [Coins -> Columns]
    BY <1>8, Zenon DEF Cache, TypeOK, SharedTypes
  <2>2. \A e \in Coins : current'[e] = current[e] \/ (e = c /\ current'[e] = hand[j][c])
    BY <2>1, SMT
  <2>3. StoresGo
    BY <1>1, <1>8, <2>2, Zenon DEF StoresGo, Cache
  <2>4. HandsGo
    BY <1>8, Zenon DEF HandsGo, Cache
  <2> QED BY <1>8, <2>3, <2>4, OwnedStep, Zenon DEF Cache, taskVars
<1>9. CASE Save(j, c)
  <2>1. /\ history' = [history EXCEPT ![c][DayOf(j, c)] = hand[j][c]]
        /\ history \in [Coins -> [Days -> Columns]]
    BY <1>9, Zenon DEF Save, TypeOK, SharedTypes
  <2>2. \A e \in Coins : \A d \in Days :
            history'[e][d] = history[e][d] \/ (e = c /\ history'[e][d] = hand[j][c])
    BY <2>1, SMT
  <2>3. StoresGo
    BY <1>1, <1>9, <2>2, Zenon DEF StoresGo, Save
  <2>4. HandsGo
    BY <1>9, Zenon DEF HandsGo, Save
  <2> QED BY <1>9, <2>3, <2>4, OwnedStep, Zenon DEF Save, taskVars
<1> QED BY <1>2, <1>3, <1>4, <1>5, <1>6, <1>7, <1>8, <1>9, Zenon DEF NowStep

LEMMA PastOwned ==
    ASSUME TypeOK, Owned, NEW j \in Calls, NEW c \in Coins, want[j][c] \in Days \/ at[j][c] # "past",
           want[j][c] \in Days \/ at[j][c] # "again", PastStep(j, c)
    PROVE  Owned'
<1>1. /\ Own(job, c, None) /\ \A d : Own(job, c, Price(j, c, d))
      /\ \A d \in Days : Own(job, c, history[c][d])
  BY OwnFacts, Zenon DEF Owned, StoresOwned
<1>2. CASE LookAtPast(j, c)
  <2>1. want[j][c] \in Days
    BY <1>2, Zenon DEF LookAtPast
  <2>2. hand' = hand \/ Take(j, c, history[c][want[j][c]])
    BY <1>2, Zenon DEF LookAtPast, End
  <2> QED BY <1>1, <1>2, <2>1, <2>2, TakeStep, Zenon DEF LookAtPast, taskVars
<1>3. CASE LookAgain(j, c)
  <2>1. want[j][c] \in Days
    BY <1>3, Zenon DEF LookAgain
  <2>2. hand' = hand \/ Take(j, c, history[c][want[j][c]])
    BY <1>3, SMT DEF LookAgain, End
  <2> QED BY <1>1, <1>3, <2>1, <2>2, TakeStep, Zenon DEF LookAgain
<1>4. CASE TakeTurn(j, c)
  <2>1. hand' = hand \/ Take(j, c, None)
    BY <1>4, Zenon DEF TakeTurn, End
  <2> QED BY <1>1, <1>4, <2>1, TakeStep, Zenon DEF TakeTurn
<1>5. CASE LookAtInfo(j, c)
  BY <1>5, TakeStep, Zenon DEF LookAtInfo
<1>6. CASE FetchInfo(j, c) \/ FetchPools(j, c)
  <2>1. \/ UNCHANGED <<taskVars, hand>>
        \/ Take(j, c, None) /\ job' = job /\ answer' = answer
    BY <1>6, Zenon DEF FetchInfo, FetchPools, NoPrice, Fails
  <2> QED BY <1>1, <1>6, <2>1, TakeStep, Zenon DEF FetchInfo, FetchPools, taskVars
<1>7. CASE FetchDays(j, c)
  <2>1. /\ job' = job /\ answer' = answer /\ current' = current
        /\ \E h : Own(job, c, h) /\ Take(j, c, h)
    BY <1>1, <1>7, Zenon DEF FetchDays, NoPrice, Fails, End, taskVars
  <2>2. history' = history \/ \E days \in SUBSET Days : history' = SavedDays(j, c, days)
    BY <1>7, Zenon DEF FetchDays
  <2>3. StoresGo
    <3>1. ASSUME NEW days \in SUBSET Days, history' = SavedDays(j, c, days),
                 NEW e \in Coins, NEW d \in Days
          PROVE  history'[e][d] = history[e][d] \/ Own(job, e, history'[e][d])
      <4>1. history \in [Coins -> [Days -> Columns]]
        BY Zenon DEF TypeOK, SharedTypes
      <4>2. history'[e][d] = history[e][d] \/ (e = c /\ history'[e][d] = Price(j, c, d))
        BY <3>1, <4>1, SMT DEF SavedDays
      <4> QED BY <1>1, <4>2, Zenon
    <3> QED BY <2>1, <2>2, <3>1, Zenon DEF StoresGo
  <2>4. HandsGo
    BY <2>1, TakeOwned, Zenon
  <2> QED BY <2>1, <2>3, <2>4, OwnedStep, Zenon
<1> QED BY <1>2, <1>3, <1>4, <1>5, <1>6, <1>7, Zenon DEF PastStep

\* One request: each coin keeps what it has, gets its own price, none, or the stray one.
LEMMA RequestAllOwned ==
    ASSUME TypeOK, Owned, NEW j \in Calls, RequestAll(j)
    PROVE  Owned'
<1>1. /\ job' = job /\ answer' = answer /\ current' = current /\ history' = history
      /\ hand \in [Calls -> [Coins -> Columns]]
  BY Zenon DEF RequestAll, priceVars, TypeOK, CallTypes
<1>2. ASSUME NEW g, hand' = [hand EXCEPT ![j] = g],
             \A c \in Coins : g[c] = hand[j][c] \/ Own(job, c, g[c])
      PROVE  HandsGo
  <2>1. hand'[j] = g /\ \A i \in Calls : i # j => hand'[i] = hand[i]
    BY <1>1, <1>2, SMT
  <2> QED BY <1>2, <2>1, Zenon DEF HandsGo
<1>3. HandsGo
  <2> DEFINE ready == {c \in Coins : at[j][c] = "ready"}
             kept == Source(j) = "coingecko"
  <2>1. CASE hand' = hand
    BY <2>1, Zenon DEF HandsGo
  <2>2. ASSUME NEW R,
               hand' = [hand EXCEPT ![j] = [c \in Coins |->
                    IF c \in R THEN None ELSE hand[j][c]]]
        PROVE  HandsGo
    <3> DEFINE f(c) == IF c \in R THEN None ELSE hand[j][c]
    <3>1. \A c \in Coins : f(c) = hand[j][c] \/ Own(job, c, f(c))
      BY OwnFacts, Zenon
    <3> DEFINE g == [c \in Coins |-> f(c)]
    <3>2. hand' = [hand EXCEPT ![j] = g]
      BY <2>2, Zenon
    <3>3. \A c \in Coins : g[c] = f(c)
      BY Zenon
    <3> HIDE DEF f, g
    <3> QED BY <1>2, <3>1, <3>2, <3>3, Zenon
  <2>3. ASSUME NEW got \in SUBSET Asks(j, ready), NEW strays \in SUBSET {FirstCoin(j)},
               strays # {} => Misfiles(j),
               hand' = [hand EXCEPT ![j] = [c \in Coins |->
                    IF c \in strays THEN Price(j, Stranger, Today)
                    ELSE IF c \in got /\ ~(kept /\ hand[j][c] # None) THEN Price(j, c, Today)
                    ELSE hand[j][c]]]
        PROVE  HandsGo
    <3> DEFINE f(c) == IF c \in strays THEN Price(j, Stranger, Today)
                       ELSE IF c \in got /\ ~(kept /\ hand[j][c] # None) THEN Price(j, c, Today)
                       ELSE hand[j][c]
    <3>1. ASSUME NEW c \in Coins PROVE f(c) = hand[j][c] \/ Own(job, c, f(c))
      <4>1. CASE c \in strays
        <5>1. c = FirstCoin(j) /\ Misfiles(j)
          BY <2>3, <4>1, Zenon
        <5>2. Own(job, c, Price(j, Stranger, Today))
          BY <5>1, OwnFacts, Zenon
        <5> QED BY <4>1, <5>2, Zenon
      <4>2. CASE c \notin strays
        <5>1. Own(job, c, Price(j, c, Today))
          BY OwnFacts, Zenon
        <5> QED BY <4>2, <5>1, Zenon
      <4> QED BY <4>1, <4>2, Zenon
    <3> DEFINE g == [c \in Coins |-> f(c)]
    <3>2. hand' = [hand EXCEPT ![j] = g]
      BY <2>3, Zenon
    <3>3. \A c \in Coins : g[c] = f(c)
      BY Zenon
    <3> HIDE DEF f, g
    <3> QED BY <1>2, <3>1, <3>2, <3>3, Zenon
  <2>4. \/ hand' = hand
        \/ hand' = [hand EXCEPT ![j] = [c \in Coins |-> IF c \in ready THEN None ELSE hand[j][c]]]
        \/ \E got \in SUBSET Asks(j, ready) : \E strays \in SUBSET {FirstCoin(j)} :
              /\ strays # {} => Misfiles(j)
              /\ hand' = [hand EXCEPT ![j] = [c \in Coins |->
                    IF c \in strays THEN Price(j, Stranger, Today)
                    ELSE IF c \in got /\ ~(kept /\ hand[j][c] # None) THEN Price(j, c, Today)
                    ELSE hand[j][c]]]
    BY Zenon DEF RequestAll
  <2>5. CASE hand' = [hand EXCEPT ![j] = [c \in Coins |-> IF c \in ready THEN None ELSE hand[j][c]]]
    <3> HIDE DEF ready
    <3> QED BY <2>2, <2>5, Zenon
  <2> QED BY <2>1, <2>3, <2>4, <2>5, Zenon
<1>4. StoresGo
  BY <1>1, Zenon DEF StoresGo
<1> QED BY <1>1, <1>3, <1>4, OwnedStep, Zenon

LEMMA OwnedKept == IInv /\ Owned /\ [Next]_vars => Owned'
<1> SUFFICES ASSUME IInv, Owned, [Next]_vars PROVE Owned'
  BY Zenon
<1>1. TypeOK
  BY Zenon DEF IInv
<1>2. ASSUME NEW j \in Calls, Start(j) PROVE Owned'
  BY <1>1, <1>2, TakeStep, Zenon DEF Start, taskVars
<1>3. ASSUME NEW j \in Calls, RequestAll(j) PROVE Owned'
  BY <1>1, <1>3, RequestAllOwned, Zenon
<1>4. ASSUME NEW j \in Calls, SaveAll(j) PROVE Owned'
  <2>1. /\ job' = job /\ answer' = answer /\ current' = current /\ hand' = hand
        /\ history \in [Coins -> [Days -> Columns]]
    BY <1>1, <1>4, Zenon DEF SaveAll, TypeOK, SharedTypes
  <2>2. \A c \in Coins : \A d \in Days :
            history'[c][d] = history[c][d] \/ history'[c][d] = hand[j][c]
    <3> DEFINE held == {c \in Coins : at[j][c] = "hold"}
    <3>1. \/ history' = history
          \/ history' = [c \in Coins |-> IF c \in held
                THEN [history[c] EXCEPT ![DayOf(j, c)] = hand[j][c]] ELSE history[c]]
      BY <1>4, Zenon DEF SaveAll
    <3> HIDE DEF held
    <3> QED BY <2>1, <3>1, SMT
  <2>3. StoresGo
    BY <2>1, <2>2, Zenon DEF StoresGo, Owned, HandsOwned
  <2>4. HandsGo
    BY <2>1, Zenon DEF HandsGo
  <2> QED BY <2>1, <2>3, <2>4, OwnedStep, Zenon
<1>5. ASSUME NEW j \in Calls, Return(j) PROVE Owned'
  <2>1. /\ job' = job /\ hand' = hand /\ UNCHANGED priceVars
        /\ answer' = [answer EXCEPT ![j] =
              [c \in Coins |-> IF j \in broken THEN None ELSE hand[j][c]]]
        /\ answer \in [Calls -> [Coins -> Columns] \cup {None}]
    BY <1>1, <1>5, Zenon DEF Return, TypeOK, CallTypes
  <2>2. /\ \A i \in Calls : i # j => answer'[i] = answer[i]
        /\ answer'[j] = [c \in Coins |-> IF j \in broken THEN None ELSE hand[j][c]]
    BY <2>1, SMT
  <2>3. \A c \in Coins : Own(job, c, answer'[j][c])
    <3> SUFFICES ASSUME NEW c \in Coins PROVE Own(job, c, answer'[j][c])
      BY Zenon
    <3>1. Own(job, c, None) /\ Own(job, c, hand[j][c])
      BY OwnFacts, Zenon DEF Owned, HandsOwned
    <3>2. answer'[j][c] = IF j \in broken THEN None ELSE hand[j][c]
      BY <2>2, Zenon
    <3> QED BY <3>1, <3>2, Zenon
  <2>4. HandsGo /\ StoresGo
    BY <2>1, Zenon DEF HandsGo, StoresGo, priceVars
  <2> QED BY <2>1, <2>2, <2>3, <2>4, OwnedStep, Zenon
<1>6. ASSUME NEW j \in Calls, NEW c \in Coins, LookInMap(j, c) \/ MapFails(j, c) PROVE Owned'
  <2>1. hand' = hand \/ Take(j, c, None)
    BY <1>6, Zenon DEF LookInMap, MapFails, End
  <2>2. Own(job, c, None)
    BY OwnFacts, Zenon
  <2> QED BY <1>1, <1>6, <2>1, <2>2, TakeStep, Zenon DEF LookInMap, MapFails
<1>7. ASSUME NEW j \in Calls, NEW c \in Coins, NowStep(j, c) PROVE Owned'
  BY <1>1, <1>7, NowOwned, Zenon
<1>8. ASSUME NEW j \in Calls, NEW c \in Coins, PastStep(j, c) PROVE Owned'
  <2>1. at[j][c] = "past" \/ at[j][c] = "again" => want[j][c] \in Days
    <3>1. /\ job[j].source \in SourceNames /\ want[j][c] \in Days \cup {Now}
          /\ StageFits(job[j], at[j][c], want[j][c])
      BY PairFacts, Zenon DEF Fits
    <3> QED BY <3>1, StageFacts, SMT
  <2> QED BY <1>1, <1>8, <2>1, PastOwned, Zenon
<1>9. CASE SyncCoins
  BY <1>1, <1>9, TakeStep, Zenon DEF SyncCoins, taskVars
<1>10. CASE CachesExpire
  <2>1. /\ job' = job /\ answer' = answer /\ hand' = hand /\ history' = history
        /\ current \in [Coins -> Columns]
    BY <1>1, <1>10, Zenon DEF CachesExpire, taskVars, TypeOK, SharedTypes
  <2>2. current' = current \/ \E c \in Coins : current' = [current EXCEPT ![c] = None]
    BY <1>10, Zenon DEF CachesExpire
  <2>3. \A c \in Coins : current'[c] = current[c] \/ current'[c] = None
    BY <2>1, <2>2, SMT
  <2>4. HandsGo /\ StoresGo
    BY <2>1, <2>3, OwnFacts, Zenon DEF HandsGo, StoresGo
  <2> QED BY <2>1, <2>4, OwnedStep, Zenon
<1>11. CASE InfosExpire \/ UNCHANGED vars
  BY <1>1, <1>11, TakeStep, Zenon DEF InfosExpire, vars, taskVars, priceVars
<1> QED BY <1>2, <1>3, <1>4, <1>5, <1>6, <1>7, <1>8, <1>9, <1>10, <1>11, Zenon DEF Next

LEMMA OwnedAlways == Spec => []Owned
<1>1. Init => Owned
  <2> SUFFICES ASSUME Init PROVE Owned
    BY Zenon
  <2>1. \A j \in Calls : \A c \in Coins : hand[j][c] = None
    BY SMT DEF Init
  <2>2. \A c \in Coins : current[c] = None /\ \A d \in Days : history[c][d] = None
    BY SMT DEF Init
  <2>3. \A j \in Calls : ~IsOver(j)
    BY SMT DEF Init, IsOver
  <2>4. \A c \in Coins : Own(job, c, None)
    BY OwnFacts, Zenon
  <2> QED BY <2>1, <2>2, <2>3, <2>4, Zenon DEF Owned, HandsOwned, StoresOwned, AnswersOwned
<1> QED BY <1>1, OwnedKept, Invariance, PTL DEF Spec

\* A price that is cached, saved or answered is one that a source has had for that coin and
\* for that day, whatever the calls that share the caches and the history do meanwhile; only
\* the first coin of a batch of DefiLlama's may have one that is nobody's.
THEOREM PricesBelongCorrect == Spec => []PricesBelong
<1>1. ASSUME IInv, Owned PROVE PricesBelong
  <2>1. ASSUME NEW c \in Coins, NEW d, NEW price, price # None, price.day = d, Own(job, c, price)
        PROVE  Belongs(price, c, d)
    BY <2>1, Zenon DEF Belongs, Own, Misfiles, FirstCoin, Source
  <2>2. ASSUME NEW c \in Coins
        PROVE  /\ current[c] # None => Belongs(current[c], c, Today)
               /\ \A d \in Days : history[c][d] # None => Belongs(history[c][d], c, d)
    <3>1. /\ Own(job, c, current[c]) /\ \A d \in Days : Own(job, c, history[c][d])
          /\ current[c] # None => current[c].day = Today
          /\ \A d \in Days : history[c][d] # None => history[c][d].day = d
      BY <1>1, Zenon DEF IInv, StoresFit, Dated, Owned, StoresOwned
    <3> QED BY <2>1, <3>1, Zenon
  <2>3. ASSUME NEW c \in Coins, NEW j \in Calls, IsOver(j), answer[j][c] # None
        PROVE  Belongs(answer[j][c], c, IF job[j].day = Now THEN Today ELSE job[j].day)
    <3>1. answer[j][c] = IF j \in broken THEN None ELSE hand[j][c]
      BY <1>1, <2>3, Zenon DEF IInv, EachCall, OneCall, Answered
    <3>2. answer[j][c] = hand[j][c] /\ hand[j][c] # None
      BY <2>3, <3>1, Zenon
    <3>3. Fits(j, c, job[j], at[j][c], want[j][c], hand[j][c])
      BY <1>1, PairFacts, Zenon
    <3>4. hand[j][c].day = Meant(want[j][c])
      BY <3>2, <3>3, Zenon DEF Fits, HandFits
    <3>5. Meant(want[j][c]) = IF job[j].day = Now THEN Today ELSE job[j].day
      BY <3>3, DayFacts, SMT DEF Fits, WantFits, Meant
    <3>6. Own(job, c, answer[j][c])
      BY <1>1, <2>3, Zenon DEF Owned, AnswersOwned
    <3> QED BY <2>1, <3>2, <3>4, <3>5, <3>6, Zenon
  <2> QED BY <2>2, <2>3, Zenon DEF PricesBelong
<1> QED BY <1>1, Invariance, OwnedAlways, PTL

\* Without a fault, a coin whose current price is cached has a price of today in the history
\* once no call is at work on it.
THEOREM CachedAreSavedCorrect == Spec => []CachedAreSaved
<1>1. ASSUME IInv PROVE CachedAreSaved
  <2> SUFFICES ASSUME faults = 0, NEW c \in Coins, current[c] # None, Quiet(c)
               PROVE  history[c][Today] # None
    BY Zenon DEF CachedAreSaved
  <2>1. ASSUME NEW j \in Calls PROVE ~Saves(job[j], at[j][c], want[j][c])
    <3>1. at[j][c] \in {"new", "done"}
      BY Zenon DEF Quiet
    <3> QED BY <3>1, SMT DEF Saves
  <2> QED BY <1>1, <2>1, Zenon DEF IInv, SavedFits
<1> QED BY <1>1, Invariance, PTL

\* A coin with a price of DefiLlama in the history, or with one that GeckoTerminal was asked
\* for as the current one or that of today, has a row.
THEOREM PricedHaveRowsCorrect == Spec => []PricedHaveRows
<1>1. IInv => PricedHaveRows
  BY Zenon DEF IInv, RowsFit
<1> QED BY <1>1, Invariance, PTL

\* While the limit key of the network has no time to live, its count is at most the faults
\* and the calls on their way to the EXPIRE.
THEOREM NetworkReopensCorrect == Spec => []NetworkReopens
<1>1. IInv => NetworkReopens
  BY Zenon DEF IInv, HitsFit, OnTheWay, NetworkReopens
<1> QED BY <1>1, Invariance, PTL

\* A price that a source has had is answered, unless the call is one that the errors of
\* others can break and something has failed.
THEOREM QuotesAreAnsweredCorrect == Spec => []QuotesAreAnswered
<1>1. ASSUME IInv PROVE QuotesAreAnswered
  <2> SUFFICES ASSUME NEW j \in Calls, NEW c \in Coins, IsOver(j), <<j, c>> \in quoted,
                      \/ faults = 0 \/ Source(j) \in {"geckoterminal", "defillama", "dodoex"}
                      \/ Source(j) = "onchain" /\ job[j].day = Now
               PROVE  answer[j][c] # None
    BY Zenon DEF QuotesAreAnswered
  <2>1. OneCall(j) /\ faults \in Nat
    BY <1>1, Zenon DEF IInv, EachCall, TypeOK, CountTypes
  <2>2. hand[j][c] # None
    BY <1>1, PairFacts, Zenon DEF Quotable
  <2>3. j \notin broken
    <3> SUFFICES ASSUME j \in broken PROVE FALSE
      BY Zenon
    <3>1. BrokenFits(j) /\ Chained(j)
      BY <2>1, Zenon DEF OneCall
    <3>2. ~(Source(j) = "defillama" /\ job[j].day = Now)
      BY <3>1, Zenon DEF Chained
    <3>3. faults > 0 /\ (Source(j) = "coingecko" \/ (Source(j) = "onchain" /\ job[j].day # Now))
      BY <3>1, <3>2, Zenon DEF BrokenFits
    <3> QED BY <2>1, <3>3, SMT
  <2>4. answer[j][c] = hand[j][c]
    BY <2>1, <2>3, Zenon DEF OneCall, Answered
  <2> QED BY <2>2, <2>4, Zenon
<1> QED BY <1>1, Invariance, PTL

\* A call for fresh prices answers none that another call has cached, but for CoinGecko.
THEOREM FreshAreAskedCorrect == Spec => []FreshAreAsked
<1>1. ASSUME IInv PROVE FreshAreAsked
  <2> SUFFICES ASSUME NEW j \in Calls, IsOver(j), job[j].fresh, job[j].day = Now,
                      Source(j) # "coingecko", NEW c \in Coins, answer[j][c] # None
               PROVE  answer[j][c].by = j
    BY Zenon DEF FreshAreAsked
  <2>1. answer[j][c] = hand[j][c]
    <3>1. answer[j][c] = IF j \in broken THEN None ELSE hand[j][c]
      BY <1>1, Zenon DEF IInv, EachCall, OneCall, Answered
    <3> QED BY <3>1, Zenon
  <2>2. HandFits(j, c, job[j], at[j][c], want[j][c], hand[j][c])
    BY <1>1, PairFacts, Zenon DEF Fits
  <2>3. hand[j][c].by = j
    BY <2>1, <2>2, Zenon DEF HandFits, Source
  <2> QED BY <2>1, <2>3, Zenon
<1> QED BY <1>1, Invariance, PTL
=============================================================================
