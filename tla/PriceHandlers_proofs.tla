------------------------ MODULE PriceHandlers_proofs ------------------------
(***************************************************************************)
(* Proofs about PriceHandlers and AppTokens for any number of requests,    *)
(* connections, tokens and calls, any rates and any length of a second.    *)
(***************************************************************************)
EXTENDS PriceHandlers, SequenceTheorems, FiniteSetTheorems, TLAPS

-----------------------------------------------------------------------------
(* The tokens and their counts.                                            *)

\* The stage that an actor is at fits its task and its token.
StagesFit ==
    /\ \A w \in Actors : at[w] \in {"row", "fill"} => TokenOf[w] \in Tokens
    /\ \A a \in Admins :
          /\ at[a] \in {"clear", "recount", "save", "set", "restart"} => Task[a].op # "get"
          /\ at[a] = "set" => Task[a].op # "delete" /\ Task[a].rate \in granted[TokenOf[a]]

\* Rows, cached rates and rates in hand are ones the token has been granted.
Grants ==
    /\ granted[Anonymous] = {DefaultRate}
    /\ \A t \in Tokens :
          /\ granted[t] \subseteq Rates
          /\ rows[t] \in Seq(granted[t])
          /\ cached[t] \in granted[t] \cup {None}
    /\ \A w \in Actors : at[w] \in {"fill", "limit"} => rate[w] \in granted[TokenOf[w]]

\* n is a rate, rounded up, or less.
Within(n, limit) == Scale * n < limit + Scale

\* A count is of the requests of the last second, at least, and within a rate.
Counts ==
    /\ \A t \in Keys : \E limit \in granted[t] \cup {1} : Within(used[t], limit)
    /\ \A r \in Requests :
          since[r] # 0 /\ TokenOf[r] \notin reset => since[r] + ttl[TokenOf[r]] > Second
    /\ \A t \in Keys \ reset :
          IsFiniteSet(LetInFor(t)) /\ Cardinality(LetInFor(t)) <= used[t]

TokenInv == TokenTypes /\ at \in [Actors -> Stages] /\ StagesFit /\ Grants /\ Counts

\* The fields of a task.
LEMMA TaskFields ==
    \A a \in Admins : /\ Task[a].op \in {"add", "update", "insert", "get", "delete"}
                      /\ Task[a].op \notin {"get", "delete"} => Task[a].rate \in Rates
<1> SUFFICES ASSUME NEW a \in Admins
             PROVE  /\ Task[a].op \in {"add", "update", "insert", "get", "delete"}
                    /\ Task[a].op \notin {"get", "delete"} => Task[a].rate \in Rates
  OBVIOUS
<1>1. Task[a] \in [op : {"add", "update", "insert"}, rate : Rates]
                  \cup [op : {"get", "delete"}]
  BY TokenAssumption, Zenon
<1> QED BY <1>1, SMT

\* Counts within a rate: none, one, fewer, and one more than a count below it.
LEMMA WithinZero == \A limit \in Nat : Within(0, limit)
BY TokenAssumption, SMT DEF Within

LEMMA WithinOne == Within(1, 1)
BY TokenAssumption, SMT DEF Within

LEMMA WithinLess ==
    ASSUME NEW m \in Nat, NEW n \in Nat, m <= n, NEW limit \in Nat, Within(n, limit)
    PROVE  Within(m, limit)
<1>1. Scale \in Nat
  BY TokenAssumption, Zenon
<1>2. Scale * m <= Scale * n /\ Scale * m \in Nat /\ Scale * n \in Nat
  BY <1>1, SMT
<1> QED BY <1>1, <1>2, SMT DEF Within

LEMMA WithinNext ==
    ASSUME NEW n \in Nat, NEW limit \in Nat, Scale * n < limit
    PROVE  Within(n + 1, limit)
<1>1. Scale \in Nat
  BY TokenAssumption, Zenon
<1>2. Scale * (n + 1) = Scale * n + Scale /\ Scale * n \in Nat
  BY <1>1, SMT
<1> QED BY <1>1, <1>2, SMT DEF Within

\* The rates are numbers.
LEMMA RatesAreNumbers == TokenTypes => \A t \in Keys : granted[t] \cup {1} \subseteq Nat
<1>1. Rates \subseteq Nat /\ DefaultRate \in Nat
  BY TokenAssumption, Zenon
<1>2. TokenTypes => \A t \in Keys : granted[t] \subseteq Rates \cup {DefaultRate}
  BY SMT DEF TokenTypes
<1>3. 1 \in Nat
  BY SMT
<1> QED BY <1>1, <1>2, <1>3, Zenon

\* All actors have a key, all admins a token.
LEMMA TokenKeys ==
    /\ \A w \in Actors : TokenOf[w] \in Keys
    /\ \A a \in Admins : a \in Actors /\ a \notin Requests /\ TokenOf[a] \in Tokens
    /\ \A r \in Requests : r \in Actors
    /\ Tokens \subseteq Keys /\ Anonymous \in Keys /\ Anonymous \notin Tokens
BY TokenAssumption, SMT DEF Actors, Keys

\* A sequence of one.
LEMMA OneIsSeq == \A S : \A x \in S : <<x>> \in Seq(S)
BY SMT

\* The first invariant holds at the start.
LEMMA TokenInit == Init => TokenInv
<1> SUFFICES ASSUME InitTokens
             PROVE  TokenInv
  BY DEF Init
<1> USE DEF InitTokens
<1>0. \A t \in Tokens : InitRates[t] \in Rates /\ t \in Keys /\ t # Anonymous
  BY TokenAssumption, TokenKeys, SMT
<1>1. at \in [Actors -> Stages] /\ \A w \in Actors : at[w] \in {"new", "over"}
  BY SMT DEF Stages
<1>2. rows \in [Tokens -> Seq(Rates)] /\ \A t \in Tokens : rows[t] = <<InitRates[t]>>
  BY <1>0, SMT
<1>3. granted \in [Keys -> SUBSET (Rates \cup {DefaultRate})]
  BY <1>0, TokenAssumption, SMT DEF Keys
<1>4. TokenTypes
  BY <1>1, <1>2, <1>3, TokenAssumption, SMT DEF TokenTypes
<1>5. StagesFit
  BY <1>1, TokenKeys, SMT DEF StagesFit
<1>6. Grants
  <2>1. \A t \in Tokens : granted[t] = {InitRates[t]} /\ granted[Anonymous] = {DefaultRate}
    BY <1>0, TokenKeys, SMT
  <2>2. granted[Anonymous] = {DefaultRate}
    BY TokenKeys, SMT
  <2>3. \A t \in Tokens : rows[t] \in Seq(granted[t])
    BY <1>2, <2>1, OneIsSeq, Zenon
  <2>4. \A t \in Tokens : cached[t] = None /\ granted[t] \subseteq Rates
    BY <1>0, <2>1, SMT
  <2>5. \A w \in Actors : at[w] \notin {"fill", "limit"}
    BY <1>1, SMT
  <2> HIDE DEF InitTokens
  <2> QED BY <2>2, <2>3, <2>4, <2>5, Zenon DEF Grants
<1>7. Counts
  <2>1. \A t \in Keys : LetInFor(t) = {}
    BY SMT DEF LetInFor
  <2>2. \A t \in Keys : used[t] = 0
    BY SMT
  <2>3. \A r \in Requests : since[r] = 0
    BY SMT
  <2> HIDE DEF InitTokens
  <2>4. IsFiniteSet({}) /\ Cardinality({}) = 0
    BY FS_EmptySet, Zenon
  <2>5. \A t \in Keys : IsFiniteSet(LetInFor(t)) /\ Cardinality(LetInFor(t)) <= used[t]
    BY <2>1, <2>2, <2>4, SMT
  <2>6. Within(0, 1)
    BY WithinZero, Zenon
  <2>7. \A t \in Keys : \E limit \in granted[t] \cup {1} : Within(used[t], limit)
    BY <2>2, <2>6, Zenon
  <2> QED BY <2>3, <2>5, <2>7, SMT DEF Counts
<1> QED BY <1>1, <1>4, <1>5, <1>6, <1>7 DEF TokenInv

\* Counts only depend on the keys, and survive new grants.
LEMMA CountsFrame ==
    ASSUME Counts, UNCHANGED limitVars, \A t \in Keys : granted[t] \subseteq granted'[t]
    PROVE  Counts'
<1>1. \A t : LetInFor(t)' = LetInFor(t)
  BY SMT DEF LetInFor, limitVars
<1>2. used' = used /\ ttl' = ttl /\ since' = since /\ reset' = reset
  BY SMT DEF limitVars
<1>3. \A t \in Keys : \E limit \in granted'[t] \cup {1} : Within(used'[t], limit)
  BY <1>2, SMT DEF Counts
<1>4. \A r \in Requests :
        since'[r] # 0 /\ TokenOf[r] \notin reset' => since'[r] + ttl'[TokenOf[r]] > Second
  BY <1>2, SMT DEF Counts
<1>5. \A t \in Keys \ reset' :
        IsFiniteSet(LetInFor(t)') /\ Cardinality(LetInFor(t)') <= used'[t]
  BY <1>1, <1>2, SMT DEF Counts
<1> QED BY <1>3, <1>4, <1>5, Zenon DEF Counts

\* An actor goes on, and nothing but errors changes with it.
Moves ==
    /\ UNCHANGED <<storeVars, limitVars, rate>> /\ errors' \in {errors, errors + 1}
    /\ \/ at' = at
       \/ \E w \in Actors, s \in Stages \ {"row", "fill", "limit", "set", "recount", "restart"} :
             /\ w \in Admins /\ s \in {"clear", "save"} => Task[w].op # "get"
             /\ at' = [at EXCEPT ![w] = s]

\* A move to a stage.
LEMMA MovesTo ==
    ASSUME NEW w \in Actors, NEW s \in Stages \ {"row", "fill", "limit", "set", "recount", "restart"},
           w \in Admins /\ s \in {"clear", "save"} => Task[w].op # "get",
           at' = [at EXCEPT ![w] = s],
           UNCHANGED <<storeVars, limitVars, rate>>, errors' \in {errors, errors + 1}
    PROVE  Moves
BY Zenon DEF Moves

LEMMA MovesKeep == TokenInv /\ Moves => TokenInv'
<1> SUFFICES ASSUME TokenInv, Moves
             PROVE  TokenInv'
  OBVIOUS
<1>1. /\ rows' = rows /\ cached' = cached /\ granted' = granted /\ used' = used
      /\ ttl' = ttl /\ since' = since /\ reset' = reset /\ rate' = rate
      /\ behind' = behind /\ outdated' = outdated
      /\ errors' \in {errors, errors + 1}
  BY Zenon DEF Moves, storeVars, cacheVars, limitVars
<1>2. /\ at' \in [Actors -> Stages]
      /\ \A w \in Actors : \/ at'[w] = at[w]
                           \/ /\ at'[w] \notin {"row", "fill", "limit", "set", "recount", "restart"}
                              /\ w \in Admins /\ at'[w] \in {"clear", "save"} => Task[w].op # "get"
  <2>1. CASE at' = at
    BY <2>1, SMT DEF TokenInv
  <2>2. CASE \E w \in Actors, s \in Stages \ {"row", "fill", "limit", "set", "recount", "restart"} :
                 /\ w \in Admins /\ s \in {"clear", "save"} => Task[w].op # "get"
                 /\ at' = [at EXCEPT ![w] = s]
    BY <2>2, SMT DEF TokenInv
  <2> QED BY <2>1, <2>2 DEF Moves
<1>3. TokenTypes'
  <2>1. errors' \in Nat
    BY <1>1, SMT DEF TokenInv, TokenTypes
  <2> QED BY <1>1, <2>1 DEF TokenInv, TokenTypes
<1>4. StagesFit'
  BY <1>1, <1>2, TokenKeys, SMT DEF TokenInv, StagesFit
<1>5. Grants'
  BY <1>1, <1>2, SMT DEF TokenInv, Grants
<1>6. Counts'
  BY <1>1, CountsFrame, SMT DEF TokenInv, limitVars
<1> QED BY <1>2, <1>3, <1>4, <1>5, <1>6 DEF TokenInv

\* A look-up reads a rate that the token has been granted.
LEMMA LookInCacheKeeps ==
    ASSUME TokenInv, NEW w \in Actors, LookInCache(w)
    PROVE  TokenInv'
<1> DEFINE t == TokenOf[w]
<1>1. /\ at[w] = "look" /\ UNCHANGED <<storeVars, limitVars, errors>>
      /\ \/ t = Anonymous /\ rate' = [rate EXCEPT ![w] = DefaultRate]
            /\ at' = [at EXCEPT ![w] = "limit"]
         \/ t # Anonymous /\ cached[t] = None /\ rate' = [rate EXCEPT ![w] = None]
            /\ at' = [at EXCEPT ![w] = "row"]
         \/ t # Anonymous /\ cached[t] # None /\ rate' = [rate EXCEPT ![w] = cached[t]]
            /\ at' = [at EXCEPT ![w] = AfterGet(w)]
  BY SMT DEF LookInCache, Goto
<1>2. /\ rows' = rows /\ cached' = cached /\ granted' = granted /\ used' = used
      /\ ttl' = ttl /\ since' = since /\ reset' = reset /\ errors' = errors
      /\ behind' = behind /\ outdated' = outdated
  BY <1>1, Zenon DEF storeVars, cacheVars, limitVars
<1>3. t \in Keys /\ (t # Anonymous => t \in Tokens)
  BY TokenKeys, SMT DEF Keys
<1>4. /\ w \in Requests => AfterGet(w) = "limit"
      /\ w \notin Requests => AfterGet(w) \in {"clear", "over"}
                              /\ (AfterGet(w) = "clear" => Task[w].op # "get")
  BY SMT DEF AfterGet
<1>5. w \in Requests \/ (w \in Admins /\ t \in Tokens /\ t # Anonymous)
  BY TokenKeys, SMT DEF Actors
<1> USE DEF TokenInv
<1>6. at' \in [Actors -> Stages] /\ rate' \in [Actors -> Rates \cup {DefaultRate, None}]
  <2>1. cached[t] \in Rates \cup {None} \/ t = Anonymous
    BY <1>3, SMT DEF TokenTypes
  <2>2. PICK s \in Stages, x \in Rates \cup {DefaultRate, None} :
            at' = [at EXCEPT ![w] = s] /\ rate' = [rate EXCEPT ![w] = x]
    <3>1. AfterGet(w) \in Stages /\ "limit" \in Stages /\ "row" \in Stages
      BY <1>4, SMT DEF Stages, InMiddleware, GetStages
    <3> QED BY <1>1, <2>1, <3>1, Zenon
  <2>3. at \in [Actors -> Stages] /\ rate \in [Actors -> Rates \cup {DefaultRate, None}]
    BY DEF TokenTypes
  <2> QED BY <2>2, <2>3, SMT
<1>7. \A v \in Actors : v # w => at'[v] = at[v] /\ rate'[v] = rate[v]
  BY <1>1, SMT DEF TokenTypes
<1>8. /\ at'[w] \in {"limit", "row", "clear", "over"}
      /\ at'[w] = "row" => t \in Tokens
      /\ at'[w] = "limit" => rate'[w] \in granted[t]
      /\ at'[w] = "clear" => Task[w].op # "get"
  BY <1>1, <1>3, <1>4, <1>5, SMT DEF TokenTypes, Grants
<1>9. TokenTypes'
  BY <1>2, <1>6 DEF TokenTypes
<1>10. StagesFit'
  BY <1>2, <1>7, <1>8, TokenKeys, SMT DEF StagesFit
<1>11. Grants'
  BY <1>2, <1>7, <1>8, SMT DEF Grants
<1>12. Counts'
  BY <1>2, CountsFrame, SMT DEF limitVars
<1> QED BY <1>6, <1>9, <1>10, <1>11, <1>12

\* It takes the oldest row.
LEMMA ReadRowKeeps ==
    ASSUME TokenInv, NEW w \in Actors, ReadRow(w)
    PROVE  TokenInv'
<1> DEFINE t == TokenOf[w]
<1>1. CASE rows[t] = <<>>
  <2>1. at' = [at EXCEPT ![w] = "over"] /\ UNCHANGED <<storeVars, limitVars, rate, errors>>
    BY <1>1, SMT DEF ReadRow, Goto, storeVars, limitVars
  <2>2. "over" \in Stages \ {"row", "fill", "limit", "set", "recount", "restart"} /\ "over" \notin {"clear", "save"}
    BY SMT DEF Stages
  <2>3. Moves
    BY <2>1, <2>2, Zenon DEF Moves
  <2> QED BY <2>3, MovesKeep
<1>2. CASE rows[t] # <<>>
  <2>1. /\ at[w] = "row" /\ at' = [at EXCEPT ![w] = "fill"]
        /\ rate' = [rate EXCEPT ![w] = Head(rows[t])]
        /\ rows' = rows /\ cached' = cached /\ granted' = granted /\ used' = used
        /\ ttl' = ttl /\ since' = since /\ reset' = reset /\ errors' = errors
        /\ behind' = behind /\ outdated' = outdated
    BY <1>2, Zenon DEF ReadRow, Goto, storeVars, cacheVars, limitVars
  <2> USE DEF TokenInv
  <2>2. t \in Tokens /\ t \in Keys
    BY <2>1, TokenKeys, SMT DEF StagesFit
  <2>3. Head(rows[t]) \in granted[t] /\ granted[t] \subseteq Rates
    <3>1. rows[t] \in Seq(granted[t]) /\ granted[t] \subseteq Rates
      BY <2>2, SMT DEF Grants
    <3> QED BY <1>2, <3>1, HeadTailProperties, Zenon
  <2>4. at' \in [Actors -> Stages] /\ rate' \in [Actors -> Rates \cup {DefaultRate, None}]
    BY <2>1, <2>3, SMT DEF Stages, InMiddleware, GetStages, TokenTypes
  <2>5. \A v \in Actors : v # w => at'[v] = at[v] /\ rate'[v] = rate[v]
    BY <2>1, SMT DEF TokenTypes
  <2>6. at'[w] = "fill" /\ rate'[w] \in granted[t]
    BY <2>1, <2>3, SMT DEF TokenTypes
  <2>7. TokenTypes'
    BY <2>1, <2>4 DEF TokenTypes
  <2>8. StagesFit'
    BY <2>1, <2>2, <2>5, <2>6, SMT DEF StagesFit
  <2>9. Grants'
    BY <2>1, <2>5, <2>6, SMT DEF Grants
  <2>10. Counts'
    BY <2>1, CountsFrame, SMT DEF limitVars
  <2> QED BY <2>4, <2>7, <2>8, <2>9, <2>10
<1> QED BY <1>1, <1>2

\* It caches the rate in hand.
LEMMA FillCacheKeeps ==
    ASSUME TokenInv, NEW w \in Actors, FillCache(w)
    PROVE  TokenInv'
<1> DEFINE t == TokenOf[w]
<1>1. /\ at[w] = "fill" /\ at' = [at EXCEPT ![w] = AfterGet(w)]
      /\ cached' = [cached EXCEPT ![t] = rate[w]]
      /\ behind' \subseteq behind /\ outdated' \subseteq outdated \cup {t}
      /\ rows' = rows /\ rate' = rate /\ granted' = granted /\ used' = used
      /\ ttl' = ttl /\ since' = since /\ reset' = reset /\ errors' = errors
  BY SMT DEF FillCache, CacheToken, Goto, limitVars
<1> USE DEF TokenInv
<1>2. t \in Tokens /\ t \in Keys /\ rate[w] \in granted[t] /\ granted[t] \subseteq Rates
  BY <1>1, TokenKeys, SMT DEF StagesFit, Grants
<1>3. /\ w \in Requests => AfterGet(w) = "limit"
      /\ w \notin Requests => AfterGet(w) \in {"clear", "over"}
                              /\ (AfterGet(w) = "clear" => Task[w].op # "get")
  BY SMT DEF AfterGet
<1>4. at' \in [Actors -> Stages] /\ cached' \in [Tokens -> Rates \cup {None}]
  BY <1>1, <1>2, <1>3, SMT DEF Stages, InMiddleware, GetStages, TokenTypes
<1>5. /\ \A v \in Actors : v # w => at'[v] = at[v]
      /\ at'[w] \in {"limit", "clear", "over"}
      /\ at'[w] = "clear" => Task[w].op # "get"
  BY <1>1, <1>3, SMT
<1>6. \A s \in Tokens : cached'[s] \in granted[s] \cup {None}
  BY <1>1, <1>2, SMT DEF TokenTypes, Grants
<1>7. TokenTypes'
  <2>1. behind' \subseteq Actors /\ outdated' \subseteq Tokens
    BY <1>1, <1>2, SMT DEF TokenTypes
  <2> QED BY <1>1, <1>4, <2>1 DEF TokenTypes
<1>8. StagesFit'
  BY <1>1, <1>5, SMT DEF StagesFit
<1>9. Grants'
  BY <1>1, <1>2, <1>5, <1>6, SMT DEF Grants
<1>10. Counts'
  BY <1>1, CountsFrame, SMT DEF limitVars
<1> QED BY <1>4, <1>7, <1>8, <1>9, <1>10

\* The Lua script counts a request within the rate in hand, or as the only one.
LEMMA LetInKeeps ==
    ASSUME TokenInv, NEW r \in Requests, LetIn(r)
    PROVE  TokenInv'
<1> DEFINE t == TokenOf[r]
<1>1. /\ at[r] = "limit" /\ at' = [at EXCEPT ![r] = "serve"]
      /\ used[t] = 0 \/ Scale * used[t] < rate[r]
      /\ used' = [used EXCEPT ![t] = @ + 1] /\ ttl' = [ttl EXCEPT ![t] = Second]
      /\ since' = [since EXCEPT ![r] = 1]
      /\ rows' = rows /\ cached' = cached /\ granted' = granted
      /\ reset' = reset /\ rate' = rate /\ errors' = errors
      /\ behind' = behind /\ outdated' = outdated
  BY Zenon DEF LetIn, Allow, IsAllowed, TimeToLive, Goto, storeVars, cacheVars
<1> USE DEF TokenInv
<1>2. t \in Keys /\ r \in Actors
  BY TokenKeys, Zenon
<1>3. /\ used \in [Keys -> Nat] /\ ttl \in [Keys -> 0..Second] /\ since \in [Requests -> 0..Second]
      /\ \A k \in Keys : used[k] = 0 <=> ttl[k] = 0
      /\ Second \in Nat /\ Second >= 1
  BY TokenAssumption, SMT DEF TokenTypes
<1>4. at' \in [Actors -> Stages] /\ \A v \in Actors : v # r => at'[v] = at[v]
  BY <1>1, <1>2, SMT DEF Stages
<1>5. at'[r] = "serve"
  BY <1>1, <1>2, SMT
<1>6. TokenTypes'
  <2>1. /\ used' \in [Keys -> Nat] /\ ttl' \in [Keys -> 0..Second]
        /\ since' \in [Requests -> 0..Second]
        /\ \A k \in Keys : used'[k] = 0 <=> ttl'[k] = 0
    BY <1>1, <1>2, <1>3, SMT
  <2> QED BY <1>1, <2>1 DEF TokenTypes
<1>7. StagesFit'
  BY <1>1, <1>4, <1>5, TokenKeys, SMT DEF StagesFit
<1>8. Grants'
  BY <1>1, <1>4, <1>5, SMT DEF Grants
<1>9. Counts'
  <2>1. \A k \in Keys : \E limit \in granted[k] \cup {1} : Within(used'[k], limit)
    <3>0. used'[t] = used[t] + 1 /\ \A k \in Keys : k # t => used'[k] = used[k]
      BY <1>1, <1>2, <1>3, SMT
    <3>1. CASE used[t] = 0
      <4>1. used'[t] = 1
        BY <3>0, <3>1, SMT
      <4> QED BY <3>0, <4>1, WithinOne, Zenon DEF Counts
    <3>2. CASE Scale * used[t] < rate[r]
      <4>1. rate[r] \in granted[t]
        BY <1>1, <1>2, Zenon DEF Grants
      <4>2. rate[r] \in Nat /\ used[t] \in Nat
        BY <1>2, <1>3, <4>1, RatesAreNumbers, SMT
      <4>3. Within(used[t] + 1, rate[r])
        BY <3>2, <4>2, WithinNext, Zenon
      <4> QED BY <3>0, <4>1, <4>3, Zenon DEF Counts
    <3> QED BY <1>1, <3>1, <3>2
  <2>2. \A q \in Requests :
           since'[q] # 0 /\ TokenOf[q] \notin reset => since'[q] + ttl'[TokenOf[q]] > Second
    <3>1. \A q \in Requests : TokenOf[q] \in Keys
      BY TokenKeys, Zenon
    <3>2. \A q \in Requests : q # r => since'[q] = since[q]
      BY <1>1, <1>3, SMT
    <3>3. since'[r] = 1 /\ ttl'[t] = Second /\ \A k \in Keys : k # t => ttl'[k] = ttl[k]
      BY <1>1, <1>2, <1>3, SMT
    <3> QED BY <1>3, <3>1, <3>2, <3>3, SMT DEF Counts
  <2>3. \A k \in Keys \ reset :
           IsFiniteSet(LetInFor(k)') /\ Cardinality(LetInFor(k)') <= used'[k]
    <3> SUFFICES ASSUME NEW k \in Keys \ reset
                 PROVE  IsFiniteSet(LetInFor(k)') /\ Cardinality(LetInFor(k)') <= used'[k]
      OBVIOUS
    <3>1. IsFiniteSet(LetInFor(k)) /\ Cardinality(LetInFor(k)) <= used[k]
      BY DEF Counts
    <3>2. Cardinality(LetInFor(k)) \in Nat
      BY <3>1, FS_CardinalityType, Zenon
    <3>3. CASE k = t
      <4>1. LetInFor(k)' = LetInFor(k) \cup {r}
        BY <1>1, <1>3, <3>3, SMT DEF LetInFor
      <4>2. /\ IsFiniteSet(LetInFor(k) \cup {r})
            /\ Cardinality(LetInFor(k) \cup {r}) =
                  IF r \in LetInFor(k) THEN Cardinality(LetInFor(k)) ELSE Cardinality(LetInFor(k)) + 1
        BY <3>1, FS_AddElement, Zenon
      <4>3. used'[k] = used[k] + 1
        BY <1>1, <1>2, <1>3, <3>3, SMT
      <4> QED BY <1>3, <3>1, <3>2, <4>1, <4>2, <4>3, SMT
    <3>4. CASE k # t
      <4>1. LetInFor(k)' = LetInFor(k)
        BY <1>1, <1>3, <3>4, SMT DEF LetInFor
      <4>2. used'[k] = used[k]
        BY <1>1, <1>3, <3>4, SMT
      <4> QED BY <3>1, <4>1, <4>2
    <3> QED BY <3>3, <3>4
  <2> QED BY <1>1, <2>1, <2>2, <2>3, Zenon DEF Counts
<1> QED BY <1>4, <1>6, <1>7, <1>8, <1>9

\* The window slides: a request leaves it before its key ends.
LEMMA TickKeeps ==
    ASSUME TokenInv, Tick
    PROVE  TokenInv'
<1>1. /\ ttl' = [t \in Keys |-> IF ttl[t] > 0 THEN ttl[t] - 1 ELSE 0]
      /\ used' = [t \in Keys |-> IF ttl[t] > 1 THEN used[t] ELSE 0]
      /\ since' = [r \in Requests |-> IF since[r] \in 1..(Second - 1) THEN since[r] + 1 ELSE 0]
      /\ rows' = rows /\ cached' = cached /\ granted' = granted
      /\ reset' = reset /\ rate' = rate /\ errors' = errors /\ at' = at
      /\ behind' = behind /\ outdated' = outdated
  BY Zenon DEF Tick, storeVars, cacheVars
<1> USE DEF TokenInv
<1>2. /\ used \in [Keys -> Nat] /\ ttl \in [Keys -> 0..Second] /\ since \in [Requests -> 0..Second]
      /\ \A k \in Keys : used[k] = 0 <=> ttl[k] = 0
      /\ Second \in Nat /\ Second >= 1
  BY TokenAssumption, SMT DEF TokenTypes
<1>3. TokenTypes'
  <2>1. /\ used' \in [Keys -> Nat] /\ ttl' \in [Keys -> 0..Second]
        /\ since' \in [Requests -> 0..Second]
        /\ \A k \in Keys : used'[k] = 0 <=> ttl'[k] = 0
    BY <1>1, <1>2, SMT
  <2> QED BY <1>1, <2>1 DEF TokenTypes
<1>4. StagesFit' /\ Grants'
  BY <1>1 DEF StagesFit, Grants
<1>5. Counts'
  <2>1. \A k \in Keys : used'[k] = 0 \/ used'[k] = used[k]
    BY <1>1, SMT
  <2>2. \A k \in Keys : \E limit \in granted[k] \cup {1} : Within(used'[k], limit)
    <3>1. Within(0, 1)
      BY WithinZero, Zenon
    <3> QED BY <2>1, <3>1, Zenon DEF Counts
  <2>3. \A r \in Requests : TokenOf[r] \in Keys
    BY TokenKeys, Zenon
  <2>4. \A r \in Requests :
           since'[r] # 0 => /\ since[r] # 0 /\ since'[r] = since[r] + 1 /\ since[r] < Second
    BY <1>1, <1>2, SMT
  <2>5. \A r \in Requests :
           since'[r] # 0 /\ TokenOf[r] \notin reset => since'[r] + ttl'[TokenOf[r]] > Second
    BY <1>1, <1>2, <2>3, <2>4, SMT DEF Counts
  <2>6. \A k \in Keys \ reset :
           IsFiniteSet(LetInFor(k)') /\ Cardinality(LetInFor(k)') <= used'[k]
    <3> SUFFICES ASSUME NEW k \in Keys \ reset
                 PROVE  IsFiniteSet(LetInFor(k)') /\ Cardinality(LetInFor(k)') <= used'[k]
      OBVIOUS
    <3>1. IsFiniteSet(LetInFor(k)) /\ Cardinality(LetInFor(k)) <= used[k]
      BY DEF Counts
    <3>2. LetInFor(k)' \in SUBSET LetInFor(k)
      BY <2>4, SMT DEF LetInFor
    <3>3. IsFiniteSet(LetInFor(k)') /\ Cardinality(LetInFor(k)') <= Cardinality(LetInFor(k))
      BY <3>1, <3>2, FS_Subset, Zenon
    <3>4. Cardinality(LetInFor(k)') \in Nat /\ Cardinality(LetInFor(k)) \in Nat
      BY <3>1, <3>3, FS_CardinalityType, Zenon
    <3>5. CASE ttl[k] > 1
      <4>1. used'[k] = used[k]
        BY <1>1, <3>5, SMT
      <4> QED BY <1>2, <3>1, <3>3, <3>4, <4>1, SMT
    <3>6. CASE ~(ttl[k] > 1)
      <4>1. \A r \in Requests : TokenOf[r] = k => since'[r] = 0
        BY <1>2, <2>4, <3>6, SMT DEF Counts
      <4>2. LetInFor(k)' = {}
        BY <4>1, SMT DEF LetInFor
      <4>3. IsFiniteSet({}) /\ Cardinality({}) = 0
        BY FS_EmptySet, Zenon
      <4>4. used'[k] \in Nat
        BY <1>3 DEF TokenTypes
      <4> QED BY <4>2, <4>3, <4>4, SMT
    <3> QED BY <3>5, <3>6
  <2> QED BY <1>1, <2>2, <2>5, <2>6, Zenon DEF Counts
<1> QED BY <1>1, <1>3, <1>4, <1>5

\* The counts of tokens whose key was deleted.
LEMMA CountsReset ==
    ASSUME TokenInv, NEW t \in Tokens, used' = [used EXCEPT ![t] = 0],
           ttl' = [ttl EXCEPT ![t] = 0], reset' = reset \cup {t},
           since' = since, granted' = granted
    PROVE  Counts'
<1> USE DEF TokenInv
<1>1. /\ t \in Keys /\ \A r \in Requests : TokenOf[r] \in Keys
      /\ used \in [Keys -> Nat] /\ ttl \in [Keys -> 0..Second]
  BY TokenKeys, SMT DEF TokenTypes
<1>2. \A k \in Keys :
         (used'[k] = used[k] /\ ttl'[k] = ttl[k]) \/ (used'[k] = 0 /\ k \in reset')
  <2>1. \A k \in Keys : k # t => used'[k] = used[k] /\ ttl'[k] = ttl[k]
    BY <1>1, SMT
  <2>2. used'[t] = 0 /\ t \in reset'
    BY <1>1, SMT
  <2> QED BY <2>1, <2>2, Zenon
<1>3. \A k \in Keys : used'[k] = used[k] \/ used'[k] = 0
  BY <1>2, Zenon
<1>4. \A k \in Keys : \E limit \in granted[k] \cup {1} : Within(used'[k], limit)
  <2>1. Within(0, 1)
    BY WithinZero, Zenon
  <2> QED BY <1>3, <2>1, Zenon DEF Counts
<1>5. \A r \in Requests :
         since[r] # 0 /\ TokenOf[r] \notin reset' => since[r] + ttl'[TokenOf[r]] > Second
  BY <1>1, <1>2, SMT DEF Counts
<1>6. \A k : LetInFor(k)' = LetInFor(k)
  BY SMT DEF LetInFor
<1>7. \A k \in Keys \ reset' : k \in Keys \ reset /\ used'[k] = used[k]
  BY <1>2, SMT
<1>8. \A k \in Keys \ reset' :
         IsFiniteSet(LetInFor(k)') /\ Cardinality(LetInFor(k)') <= used'[k]
  BY <1>6, <1>7, Zenon DEF Counts
<1> QED BY <1>4, <1>5, <1>8, Zenon DEF Counts

\* What a call of an administrator goes on with.
LEMMA AfterCommandFits ==
    ASSUME NEW a \in Admins, StagesFit, at[a] \in {"clear", "recount", "set", "restart"}
    PROVE  /\ Task[a].op # "get"
           /\ AfterCommand(a) \in {"recount", "save", "restart", "over"}
<1>1. Task[a].op # "get"
  BY Zenon DEF StagesFit
<1>2. AfterCommand(a) \in {"recount", "save", "restart", "over"}
  BY SMT DEF AfterCommand
<1> QED BY <1>1, <1>2

\* A call clears the cache.
LEMMA ClearCacheKeeps ==
    ASSUME TokenInv, NEW a \in Admins, ClearCache(a)
    PROVE  TokenInv'
<1> DEFINE t == TokenOf[a]
<1>0. at[a] = "clear"
  BY Zenon DEF ClearCache
<1>1. /\ at' = [at EXCEPT ![a] = AfterCommand(a)]
      /\ cached' = [cached EXCEPT ![t] = None]
      /\ outdated' \subseteq outdated /\ behind' = behind
      /\ used' = used /\ ttl' = ttl /\ reset' = reset
      /\ rows' = rows /\ granted' = granted
      /\ since' = since /\ rate' = rate /\ errors' = errors
  BY SMT DEF ClearCache, Goto, limitVars
<1> USE DEF TokenInv
<1>2. a \in Actors /\ t \in Tokens /\ t \in Keys
  BY TokenKeys, Zenon
<1>3. /\ at' \in [Actors -> Stages] /\ at'[a] \in {"recount", "save", "restart", "over"}
      /\ \A v \in Actors : v # a => at'[v] = at[v]
      /\ Task[a].op # "get"
  BY <1>0, <1>1, <1>2, AfterCommandFits, SMT DEF Stages
<1>4. TokenTypes'
  <2>1. cached' \in [Tokens -> Rates \cup {None}]
    BY <1>1, <1>2, SMT DEF TokenTypes
  <2>2. outdated' \subseteq Tokens
    BY <1>1, SMT DEF TokenTypes
  <2> QED BY <1>1, <2>1, <2>2 DEF TokenTypes
<1>5. StagesFit'
  BY <1>1, <1>2, <1>3, SMT DEF StagesFit
<1>6. Grants'
  <2>1. \A s \in Tokens : cached'[s] \in granted[s] \cup {None}
    BY <1>1, <1>2, SMT DEF TokenTypes, Grants
  <2> QED BY <1>1, <1>3, <2>1, SMT DEF Grants
<1>7. Counts'
  BY <1>1, CountsFrame, SMT DEF limitVars
<1> QED BY <1>3, <1>4, <1>5, <1>6, <1>7

\* It deletes the key.
LEMMA ClearCountKeeps ==
    ASSUME TokenInv, NEW a \in Admins, ClearCount(a)
    PROVE  TokenInv'
<1> DEFINE t == TokenOf[a]
<1>0. at[a] \in {"recount", "restart"}
  BY Zenon DEF ClearCount
<1>1. /\ at' = [at EXCEPT ![a] = AfterCommand(a)]
      /\ used' = [used EXCEPT ![t] = 0] /\ ttl' = [ttl EXCEPT ![t] = 0]
      /\ reset' = reset \cup {t}
      /\ cached' = cached /\ outdated' = outdated /\ behind' = behind
      /\ rows' = rows /\ granted' = granted
      /\ since' = since /\ rate' = rate /\ errors' = errors
  BY Zenon DEF ClearCount, Goto, storeVars, cacheVars
<1> USE DEF TokenInv
<1>2. a \in Actors /\ t \in Tokens /\ t \in Keys
  BY TokenKeys, Zenon
<1>3. /\ at' \in [Actors -> Stages] /\ at'[a] \in {"recount", "save", "restart", "over"}
      /\ \A v \in Actors : v # a => at'[v] = at[v]
      /\ Task[a].op # "get"
  BY <1>0, <1>1, <1>2, AfterCommandFits, SMT DEF Stages
<1>4. TokenTypes'
  <2>1. used' \in [Keys -> Nat] /\ ttl' \in [Keys -> 0..Second] /\ reset' \subseteq Tokens
    BY <1>1, <1>2, TokenAssumption, SMT DEF TokenTypes
  <2>3. \A k \in Keys : used'[k] = 0 <=> ttl'[k] = 0
    BY <1>1, <1>2, SMT DEF TokenTypes
  <2> QED BY <1>1, <2>1, <2>3 DEF TokenTypes
<1>5. StagesFit'
  BY <1>1, <1>2, <1>3, SMT DEF StagesFit
<1>6. Grants'
  BY <1>1, <1>3, SMT DEF Grants
<1>7. Counts'
  BY <1>1, <1>2, CountsReset, Zenon
<1> QED BY <1>3, <1>4, <1>5, <1>6, <1>7

\* An added or updated token is cached.
LEMMA SetCacheKeeps ==
    ASSUME TokenInv, NEW a \in Admins, SetCache(a)
    PROVE  TokenInv'
<1> DEFINE t == TokenOf[a]
<1>0. at[a] = "set"
  BY Zenon DEF SetCache
<1>1. /\ at' = [at EXCEPT ![a] = AfterCommand(a)]
      /\ cached' = [cached EXCEPT ![t] = Task[a].rate]
      /\ behind' \subseteq behind /\ outdated' \subseteq outdated \cup {t}
      /\ used' = used /\ ttl' = ttl /\ reset' = reset
      /\ rows' = rows /\ granted' = granted
      /\ since' = since /\ rate' = rate /\ errors' = errors
  BY SMT DEF SetCache, CacheToken, Goto, limitVars
<1> USE DEF TokenInv
<1>2. a \in Actors /\ t \in Tokens /\ t \in Keys
  BY TokenKeys, Zenon
<1>3. /\ at' \in [Actors -> Stages] /\ at'[a] \in {"recount", "save", "restart", "over"}
      /\ \A v \in Actors : v # a => at'[v] = at[v]
      /\ Task[a].op # "get"
  BY <1>0, <1>1, <1>2, AfterCommandFits, SMT DEF Stages
<1>4. Task[a].rate \in granted[t] /\ granted[t] \subseteq Rates
  BY <1>0, <1>2, SMT DEF StagesFit, Grants
<1>5. TokenTypes'
  <2>1. behind' \subseteq Actors /\ outdated' \subseteq Tokens
    BY <1>1, <1>2, SMT DEF TokenTypes
  <2>2. cached' \in [Tokens -> Rates \cup {None}]
    BY <1>1, <1>2, <1>4, SMT DEF TokenTypes
  <2> QED BY <1>1, <2>1, <2>2 DEF TokenTypes
<1>6. StagesFit'
  BY <1>1, <1>2, <1>3, SMT DEF StagesFit
<1>7. Grants'
  <2>1. \A s \in Tokens : cached'[s] \in granted[s] \cup {None}
    BY <1>1, <1>2, <1>4, SMT DEF TokenTypes, Grants
  <2> QED BY <1>1, <1>3, <2>1, SMT DEF Grants
<1>8. Counts'
  BY <1>1, CountsFrame, SMT DEF limitVars
<1> QED BY <1>3, <1>5, <1>6, <1>7, <1>8

\* A rate that is not cached is used all the same.
LEMMA FillFailsKeeps ==
    ASSUME TokenInv, NEW w \in Actors, FillFails(w)
    PROVE  TokenInv'
<1> DEFINE t == TokenOf[w]
<1>1. /\ at[w] = "fill" /\ at' = [at EXCEPT ![w] = AfterGet(w)]
      /\ behind' \subseteq behind /\ errors' = errors + 1
      /\ cached' = cached /\ outdated' = outdated
      /\ rows' = rows /\ rate' = rate /\ granted' = granted /\ used' = used
      /\ ttl' = ttl /\ since' = since /\ reset' = reset
  BY SMT DEF FillFails, Error, Goto, limitVars
<1> USE DEF TokenInv
<1>2. rate[w] \in granted[t]
  BY <1>1, SMT DEF Grants
<1>3. /\ w \in Requests => AfterGet(w) = "limit"
      /\ w \notin Requests => AfterGet(w) \in {"clear", "over"}
                              /\ (AfterGet(w) = "clear" => Task[w].op # "get")
  BY SMT DEF AfterGet
<1>5. /\ at' \in [Actors -> Stages]
      /\ \A v \in Actors : v # w => at'[v] = at[v]
      /\ at'[w] \in {"limit", "clear", "over"}
      /\ at'[w] = "clear" => Task[w].op # "get"
  BY <1>1, <1>3, SMT DEF Stages, InMiddleware, GetStages
<1>7. TokenTypes'
  <2>1. behind' \subseteq Actors /\ errors' \in Nat
    BY <1>1, SMT DEF TokenTypes
  <2> QED BY <1>1, <2>1 DEF TokenTypes
<1>8. StagesFit'
  BY <1>1, <1>5, SMT DEF StagesFit
<1>9. Grants'
  BY <1>1, <1>2, <1>5, SMT DEF Grants
<1>10. Counts'
  BY <1>1, CountsFrame, SMT DEF limitVars
<1> QED BY <1>5, <1>7, <1>8, <1>9, <1>10

\* A command of a call that fails changes nothing but the place of its caller.
LEMMA CommandFailsKeeps ==
    ASSUME TokenInv, NEW a \in Admins, CommandFails(a)
    PROVE  TokenInv'
<1> DEFINE t == TokenOf[a]
<1>1. /\ at[a] \in {"clear", "recount", "set", "restart"}
      /\ at' = [at EXCEPT ![a] = AfterCommand(a)]
      /\ behind' \subseteq behind /\ outdated' \subseteq outdated \cup {t}
      /\ errors' = errors + 1
      /\ rows' = rows /\ cached' = cached /\ rate' = rate /\ granted' = granted
      /\ used' = used /\ ttl' = ttl /\ since' = since /\ reset' = reset
  BY SMT DEF CommandFails, Error, Goto, limitVars
<1> USE DEF TokenInv
<1>2. a \in Actors /\ t \in Tokens
  BY TokenKeys, Zenon
<1>3. /\ at' \in [Actors -> Stages] /\ at'[a] \in {"recount", "save", "restart", "over"}
      /\ \A v \in Actors : v # a => at'[v] = at[v]
      /\ Task[a].op # "get"
  BY <1>1, <1>2, AfterCommandFits, SMT DEF Stages
<1>4. TokenTypes'
  <2>1. errors' \in Nat /\ behind' \subseteq Actors /\ outdated' \subseteq Tokens
    BY <1>1, <1>2, SMT DEF TokenTypes
  <2> QED BY <1>1, <2>1 DEF TokenTypes
<1>5. StagesFit'
  BY <1>1, <1>2, <1>3, SMT DEF StagesFit
<1>6. Grants'
  BY <1>1, <1>3, SMT DEF Grants
<1>7. Counts'
  BY <1>1, CountsFrame, SMT DEF limitVars
<1> QED BY <1>3, <1>4, <1>5, <1>6, <1>7

\* What a call writes to the table it grants.
LEMMA SaveRowKeeps ==
    ASSUME TokenInv, NEW a \in Admins, SaveRow(a)
    PROVE  TokenInv'
<1> DEFINE t == TokenOf[a]
           new == granted'[t]
<1>1. /\ at[a] = "save"
      /\ at' = [at EXCEPT ![a] = IF Task[a].op = "delete" THEN "over" ELSE "set"]
      /\ rows' = [rows EXCEPT ![t] = Saved(a)]
      /\ granted' = IF Task[a].op = "delete" THEN granted
                    ELSE [granted EXCEPT ![t] = @ \cup {Task[a].rate}]
      /\ cached' = cached /\ used' = used /\ ttl' = ttl /\ reset' = reset
      /\ since' = since /\ rate' = rate /\ errors' = errors
      /\ outdated' = outdated
      /\ behind' = behind \cup {w \in Actors \ {a} : TokenOf[w] = t /\ at[w] \in {"fill", "set"}}
  BY Zenon DEF SaveRow, Goto, limitVars
<1> USE DEF TokenInv
<1>2. a \in Actors /\ t \in Tokens /\ t \in Keys /\ t # Anonymous
  BY TokenKeys, Zenon
<1>3. /\ at' \in [Actors -> Stages]
      /\ at'[a] = IF Task[a].op = "delete" THEN "over" ELSE "set"
      /\ \A v \in Actors : v # a => at'[v] = at[v]
  BY <1>1, <1>2, SMT DEF Stages
<1>4. Task[a].op # "get" /\ (Task[a].op # "delete" => Task[a].rate \in Rates)
  BY <1>1, TaskFields, SMT DEF StagesFit
<1>5. granted \in [Keys -> SUBSET (Rates \cup {DefaultRate})] /\ granted[t] \subseteq Rates
  BY <1>2, SMT DEF TokenTypes, Grants
<1>6. /\ granted' \in [Keys -> SUBSET (Rates \cup {DefaultRate})]
      /\ new \subseteq Rates /\ granted[t] \subseteq new
      /\ \A k \in Keys : k # t => granted'[k] = granted[k]
      /\ Task[a].op # "delete" => Task[a].rate \in new
  <2>1. CASE Task[a].op = "delete"
    BY <1>1, <1>5, <2>1, Zenon
  <2>2. CASE Task[a].op # "delete"
    BY <1>1, <1>2, <1>4, <1>5, <2>2, SMT
  <2> QED BY <2>1, <2>2
<1> HIDE DEF new
<1>7. Saved(a) \in Seq(new)
  <2>1. rows[t] \in Seq(granted[t])
    BY <1>2, SMT DEF Grants
  <2>2. rows[t] \in Seq(new)
    BY <1>6, <2>1, SMT
  <2>3. CASE Task[a].op = "delete"
    BY <2>3, SMT DEF Saved
  <2>4. CASE Task[a].op = "update" /\ rows[t] # <<>>
    <3>1. Saved(a) = <<Task[a].rate>> \o Tail(rows[t])
      BY <2>4, SMT DEF Saved
    <3>2. Tail(rows[t]) \in Seq(new)
      BY <2>2, <2>4, HeadTailProperties, Zenon
    <3>3. <<Task[a].rate>> \in Seq(new)
      BY <1>6, <2>4, OneIsSeq, SMT
    <3> QED BY <3>1, <3>2, <3>3, ConcatProperties, Zenon
  <2>5. CASE Task[a].op # "delete" /\ ~(Task[a].op = "update" /\ rows[t] # <<>>)
    <3>1. Saved(a) = Append(rows[t], Task[a].rate)
      BY <2>5, SMT DEF Saved
    <3>2. Task[a].rate \in new
      BY <1>6, <2>5, Zenon
    <3> QED BY <2>2, <3>1, <3>2, AppendProperties, SMT
  <2> QED BY <2>3, <2>4, <2>5
<1>8. /\ \A s \in Tokens : rows'[s] \in Seq(granted'[s])
      /\ rows' \in [Tokens -> Seq(Rates)]
  <2>1. rows \in [Tokens -> Seq(Rates)] /\ \A s \in Tokens : s \in Keys /\ rows[s] \in Seq(granted[s])
    BY TokenKeys, SMT DEF TokenTypes, Grants
  <2>2. Saved(a) \in Seq(Rates)
    BY <1>6, <1>7, SMT
  <2>3. rows'[t] = Saved(a) /\ \A s \in Tokens : s # t => rows'[s] = rows[s]
    BY <1>1, <1>2, <2>1, SMT
  <2>4. rows' \in [Tokens -> Seq(Rates)]
    BY <1>1, <1>2, <2>1, <2>2, Zenon
  <2> QED BY <1>6, <1>7, <2>1, <2>3, <2>4, Zenon DEF new
<1>9. TokenTypes'
  <2>1. behind' \subseteq Actors
    BY <1>1, SMT DEF TokenTypes
  <2> QED BY <1>1, <1>6, <1>8, <2>1 DEF TokenTypes
<1>10. StagesFit'
  <2>1. /\ \A v \in Actors : at'[v] \in {"row", "fill"} => at'[v] = at[v]
        /\ \A v \in Admins : at'[v] \in {"clear", "recount", "save", "restart"} => at'[v] = at[v]
        /\ \A v \in Admins : v # a /\ at'[v] = "set" => at'[v] = at[v]
        /\ at'[a] = "set" => Task[a].op # "delete"
    BY <1>3, TokenKeys, SMT
  <2>2. \A v \in Admins : granted[TokenOf[v]] \subseteq granted'[TokenOf[v]]
    BY <1>6, TokenKeys, SMT DEF new
  <2>3. at'[a] = "set" => Task[a].rate \in granted'[t]
    BY <1>6, <2>1 DEF new
  <2> QED BY <1>4, <2>1, <2>2, <2>3, SMT DEF StagesFit
<1>11. Grants'
  <2>1. \A k \in Keys : granted[k] \subseteq granted'[k]
    BY <1>6, SMT DEF new
  <2>2. granted'[Anonymous] = {DefaultRate}
    BY <1>2, <1>6, TokenKeys, SMT DEF Grants
  <2>3. \A s \in Tokens : granted'[s] \subseteq Rates
    BY <1>6, TokenKeys, SMT DEF new, Grants
  <2>4. \A s \in Tokens : cached'[s] \in granted'[s] \cup {None}
    BY <1>1, <2>1, TokenKeys, SMT DEF Grants
  <2>5. \A v \in Actors : at'[v] \in {"fill", "limit"} => rate'[v] \in granted'[TokenOf[v]]
    BY <1>1, <1>3, <2>1, TokenKeys, SMT DEF Grants
  <2> QED BY <1>8, <2>2, <2>3, <2>4, <2>5, Zenon DEF Grants
<1>12. Counts'
  <2>1. \A k \in Keys : granted[k] \subseteq granted'[k]
    BY <1>6, SMT DEF new
  <2> QED BY <1>1, <2>1, CountsFrame, Zenon DEF limitVars
<1> QED BY <1>3, <1>9, <1>10, <1>11, <1>12

\* A cached token may go at any time.
LEMMA ExpireTokenKeeps ==
    ASSUME TokenInv, NEW t \in Tokens, ExpireToken(t)
    PROVE  TokenInv'
<1>1. /\ cached' = [cached EXCEPT ![t] = None] /\ at' = at
      /\ outdated' = outdated \ {t} /\ behind' = behind
      /\ rows' = rows /\ granted' = granted /\ used' = used /\ ttl' = ttl
      /\ reset' = reset /\ since' = since /\ rate' = rate /\ errors' = errors
  BY Zenon DEF ExpireToken, limitVars
<1> USE DEF TokenInv
<1>2. TokenTypes'
  <2>1. cached' \in [Tokens -> Rates \cup {None}]
    BY <1>1, SMT DEF TokenTypes
  <2>2. outdated' \subseteq Tokens
    BY <1>1, SMT DEF TokenTypes
  <2> QED BY <1>1, <2>1, <2>2 DEF TokenTypes
<1>3. Grants'
  <2>1. \A s \in Tokens : cached'[s] \in granted[s] \cup {None}
    BY <1>1, SMT DEF TokenTypes, Grants
  <2> QED BY <1>1, <2>1, SMT DEF Grants
<1>4. StagesFit'
  BY <1>1 DEF StagesFit
<1>5. Counts'
  BY <1>1, CountsFrame, Zenon DEF limitVars
<1> QED BY <1>1, <1>2, <1>3, <1>4, <1>5

-----------------------------------------------------------------------------
(* The handlers.                                                           *)

HandlerTypes ==
    /\ fn \in [Requests -> FnStages]
    /\ body \in [Conns -> Bodies] /\ sent \in [Requests -> Bodies]
    /\ logged \subseteq Requests \X Bodies
    /\ late \subseteq Requests /\ up \in BOOLEAN

Active(r) == at[r] \notin {"new", "over"}

Running == {"parse", "ask", "respond", "log", "drop"}

\* A connection has one request at a time.
OneAtATime ==
    \A r, q \in Requests : ConnOf[r] = ConnOf[q] /\ Active(r) /\ Active(q) => r = q

\* A goroutine runs while its handler waits, unless that has given up.
GoroutinesFit == \A r \in Requests : fn[r] \in Running => at[r] = "wait" \/ r \in late

\* The prices in a context are of its request, or of one that has timed out.
BodiesFit ==
    \A k \in Conns, q \in Requests :
        body[k] = Answer(q) => ConnOf[q] = k /\ (q \in late \/ Active(q))

\* Prices that are not logged yet are going to be.
LogsFit ==
    late = {} => \A r \in Requests :
        Kind[r] # "list" /\ body[ConnOf[r]] = Answer(r) =>
            <<r, Answer(r)>> \in logged \/ at[r] = "log" \/ fn[r] = "log"

HandlerInv ==
    /\ HandlerTypes /\ OneAtATime /\ GoroutinesFit /\ BodiesFit /\ LogsFit
    /\ OwnAnswers /\ AnswersAreLogged

IInv == TokenInv /\ HandlerInv

\* The responses differ in kind and in request.
LEMMA ResponsesDiffer ==
    \A r, q \in Requests :
        /\ Answer(r) \in Bodies /\ Failure(r) \in Bodies /\ TimedOut(r) \in Bodies
        /\ Refusal(r) \in Bodies /\ Empty \in Bodies
        /\ Answer(r) = Answer(q) => r = q
        /\ Failure(r) # Answer(q) /\ TimedOut(r) # Answer(q)
        /\ Refusal(r) # Answer(q) /\ Empty # Answer(q)
<1> SUFFICES ASSUME NEW r \in Requests, NEW q \in Requests
             PROVE  /\ Answer(r) \in Bodies /\ Failure(r) \in Bodies /\ TimedOut(r) \in Bodies
                    /\ Refusal(r) \in Bodies /\ Empty \in Bodies
                    /\ Answer(r) = Answer(q) => r = q
                    /\ Failure(r) # Answer(q) /\ TimedOut(r) # Answer(q)
                    /\ Refusal(r) # Answer(q) /\ Empty # Answer(q)
  OBVIOUS
<1>1. {Answer(r), Failure(r), TimedOut(r), Refusal(r)} \subseteq Bodies /\ Empty \in Bodies
  BY Zenon DEF Bodies
<1>2. Answer(r) = Answer(q) => r = q
  BY SMT DEF Answer
<1>3. /\ Failure(r).is = "error" /\ TimedOut(r).is = "timeout" /\ Refusal(r).is = "refusal"
      /\ Empty.is = "empty" /\ Answer(q).is = "answer"
  BY SMT DEF Failure, TimedOut, Refusal, Empty, Answer
<1>4. Failure(r) # Answer(q) /\ TimedOut(r) # Answer(q)
  BY <1>3, SMT
<1>5. Refusal(r) # Answer(q) /\ Empty # Answer(q)
  BY <1>3, SMT
<1> QED BY <1>1, <1>2, <1>4, <1>5, Zenon

LEMMA HandlerInit == Init => HandlerInv
<1> SUFFICES ASSUME Init
             PROVE  HandlerInv
  OBVIOUS
<1>1. /\ fn = [r \in Requests |-> "none"] /\ body = [k \in Conns |-> Empty]
      /\ sent = [r \in Requests |-> Empty] /\ logged = {} /\ late = {} /\ up = TRUE
  BY DEF Init
<1>2. \A w \in Actors : at[w] \in {"new", "over"}
  BY SMT DEF Init, InitTokens
<1>3. HandlerTypes
  <2>1. Empty \in Bodies
    BY Zenon DEF Bodies
  <2> QED BY <1>1, <2>1, SMT DEF HandlerTypes, FnStages
<1>4. OneAtATime /\ GoroutinesFit
  BY <1>1, <1>2, TokenKeys, SMT DEF OneAtATime, Active, GoroutinesFit, Running
<1>5. /\ \A k \in Conns, q \in Requests : body[k] # Answer(q)
      /\ \A r, q \in Requests : sent[r] # Answer(q)
  BY <1>1, ResponsesDiffer, SMT
<1>6. \A r \in Requests : ConnOf[r] \in Conns
  BY SMT DEF Conns
<1> QED BY <1>3, <1>4, <1>5, <1>6, Zenon DEF HandlerInv, BodiesFit, LogsFit, OwnAnswers, AnswersAreLogged

\* The handler of r goes on to stage s, and may write a response without prices.
GoesOn(r, s) ==
    /\ at' = [at EXCEPT ![r] = s] /\ UNCHANGED <<fn, sent, logged, up>>
    /\ \/ body' = body
       \/ \E b \in {Failure(r), TimedOut(r), Refusal(r)} :
             body' = [body EXCEPT ![ConnOf[r]] = b]
    /\ at[r] \notin {"over", "log"}
    /\ at[r] = "new" => \A q \in Requests : ConnOf[q] = ConnOf[r] => ~Active(q)
    /\ late' \in {late, late \cup {r}} /\ (fn[r] \in Running => r \in late')

LEMMA GoesOnKeeps ==
    ASSUME IInv, NEW r \in Requests, NEW s \in Stages \ {"new", "over"}, GoesOn(r, s)
    PROVE  HandlerInv'
<1> USE DEF IInv, HandlerInv, TokenInv
<1>1. /\ at' = [at EXCEPT ![r] = s] /\ fn' = fn /\ sent' = sent /\ logged' = logged /\ up' = up
      /\ \/ body' = body
         \/ \E b \in {Failure(r), TimedOut(r), Refusal(r)} :
               body' = [body EXCEPT ![ConnOf[r]] = b]
      /\ at[r] \notin {"over", "log"}
      /\ at[r] = "new" => \A q \in Requests : ConnOf[q] = ConnOf[r] => ~Active(q)
      /\ late' \in {late, late \cup {r}} /\ (fn[r] \in Running => r \in late')
  BY DEF GoesOn
<1>2. /\ r \in Actors /\ ConnOf[r] \in Conns /\ \A q \in Requests : q \in Actors
      /\ at'[r] = s /\ \A v \in Actors : v # r => at'[v] = at[v]
  BY <1>1, TokenKeys, SMT DEF Conns
<1>3. /\ body' \in [Conns -> Bodies]
      /\ \A k \in Conns, q \in Requests : body'[k] = Answer(q) => body[k] = Answer(q)
  <2>1. CASE body' = body
    BY <2>1, Zenon DEF HandlerTypes
  <2>2. CASE \E b \in {Failure(r), TimedOut(r), Refusal(r)} :
                body' = [body EXCEPT ![ConnOf[r]] = b]
    <3>1. PICK b \in {Failure(r), TimedOut(r), Refusal(r)} :
                body' = [body EXCEPT ![ConnOf[r]] = b]
      BY <2>2
    <3>2. b \in Bodies /\ \A q \in Requests : b # Answer(q)
      BY <3>1, ResponsesDiffer, Zenon
    <3> QED BY <1>2, <3>1, <3>2, SMT DEF HandlerTypes
  <2> QED BY <1>1, <2>1, <2>2
<1>4. HandlerTypes'
  <2>1. late' \subseteq Requests
    BY <1>1, SMT DEF HandlerTypes
  <2> QED BY <1>1, <1>3, <2>1 DEF HandlerTypes
<1>5. OneAtATime'
  BY <1>1, <1>2, SMT DEF OneAtATime, Active
<1>6. GoroutinesFit'
  BY <1>1, <1>2, SMT DEF GoroutinesFit
<1>7. BodiesFit'
  BY <1>1, <1>2, <1>3, SMT DEF BodiesFit, Active
<1>8. LogsFit'
  <2>1. \A q \in Requests : ConnOf[q] \in Conns
    BY SMT DEF Conns
  <2> QED BY <1>1, <1>2, <1>3, <2>1, SMT DEF LogsFit
<1>9. OwnAnswers'
  BY <1>1, SMT DEF OwnAnswers
<1>10. AnswersAreLogged'
  BY <1>1, SMT DEF AnswersAreLogged
<1> QED BY <1>4, <1>5, <1>6, <1>7, <1>8, <1>9, <1>10

\* A call or a token moves, and no request.
LEMMA OthersKeep ==
    ASSUME IInv, UNCHANGED handlerVars, \A r \in Requests : at'[r] = at[r]
    PROVE  HandlerInv'
<1> USE DEF IInv, HandlerInv
<1>1. /\ fn' = fn /\ body' = body /\ sent' = sent /\ logged' = logged /\ late' = late
      /\ up' = up
  BY DEF handlerVars
<1>2. HandlerTypes' /\ OwnAnswers' /\ AnswersAreLogged'
  BY <1>1 DEF HandlerTypes, OwnAnswers, AnswersAreLogged
<1>3. OneAtATime'
  BY SMT DEF OneAtATime, Active
<1>4. GoroutinesFit' /\ BodiesFit' /\ LogsFit'
  BY <1>1, SMT DEF GoroutinesFit, BodiesFit, Active, LogsFit
<1> QED BY <1>2, <1>3, <1>4

\* The service answers, or fails.
LEMMA ServeKeeps ==
    ASSUME IInv, NEW r \in Requests, Serve(r), up' = up
    PROVE  HandlerInv'
<1> USE DEF IInv, HandlerInv, TokenInv
<1>1. PICK b \in {Answer(r), Failure(r)} : body' = [body EXCEPT ![ConnOf[r]] = b]
  BY Zenon DEF Serve, Write
<1>2. /\ at[r] = "serve" /\ Kind[r] \in {"single", "list"}
      /\ at' = [at EXCEPT ![r] = IF Kind[r] = "single" THEN "log" ELSE "return"]
      /\ fn' = fn /\ sent' = sent /\ logged' = logged /\ late' = late
  BY Zenon DEF Serve, Goto
<1>3. /\ r \in Actors /\ ConnOf[r] \in Conns /\ \A q \in Requests : q \in Actors /\ ConnOf[q] \in Conns
      /\ at'[r] \in {"log", "return"} /\ (Kind[r] # "list" => at'[r] = "log")
      /\ \A v \in Actors : v # r => at'[v] = at[v]
  BY <1>2, TokenKeys, SMT DEF Conns
<1>4. /\ body' \in [Conns -> Bodies]
      /\ \A k \in Conns, q \in Requests :
            body'[k] = Answer(q) => body[k] = Answer(q) \/ (q = r /\ k = ConnOf[r])
  <2>1. b \in Bodies /\ \A q \in Requests : b = Answer(q) => q = r
    BY ResponsesDiffer, Zenon
  <2> QED BY <1>1, <1>3, <2>1, SMT DEF HandlerTypes
<1>5. HandlerTypes'
  BY <1>2, <1>4 DEF HandlerTypes
<1>6. OneAtATime'
  BY <1>2, <1>3, SMT DEF OneAtATime, Active
<1>7. GoroutinesFit'
  BY <1>2, <1>3, SMT DEF GoroutinesFit
<1>8. BodiesFit'
  BY <1>2, <1>3, <1>4, SMT DEF BodiesFit, Active
<1>9. LogsFit'
  BY <1>2, <1>3, <1>4, SMT DEF LogsFit
<1>10. OwnAnswers' /\ AnswersAreLogged'
  BY <1>2 DEF OwnAnswers, AnswersAreLogged
<1> QED BY <1>5, <1>6, <1>7, <1>8, <1>9, <1>10

\* A single request is logged with what its context holds.
LEMMA LogSingleKeeps ==
    ASSUME IInv, NEW r \in Requests, LogSingle(r), up' = up
    PROVE  HandlerInv'
<1> USE DEF IInv, HandlerInv, TokenInv
<1>1. /\ at[r] = "log" /\ at' = [at EXCEPT ![r] = "return"]
      /\ logged' = logged \cup {<<r, body[ConnOf[r]]>>}
      /\ fn' = fn /\ body' = body /\ sent' = sent /\ late' = late
  BY DEF LogSingle, Goto
<1>2. /\ r \in Actors /\ ConnOf[r] \in Conns /\ \A q \in Requests : q \in Actors /\ ConnOf[q] \in Conns
      /\ at'[r] = "return" /\ \A v \in Actors : v # r => at'[v] = at[v]
  BY <1>1, TokenKeys, SMT DEF Conns
<1>3. HandlerTypes'
  <2>1. logged' \subseteq Requests \X Bodies
    BY <1>1, <1>2, SMT DEF HandlerTypes
  <2> QED BY <1>1, <2>1 DEF HandlerTypes
<1>4. OneAtATime'
  BY <1>1, <1>2, SMT DEF OneAtATime, Active
<1>5. GoroutinesFit'
  BY <1>1, <1>2, SMT DEF GoroutinesFit
<1>6. BodiesFit'
  BY <1>1, <1>2, SMT DEF BodiesFit, Active
<1>7. LogsFit'
  BY <1>1, <1>2, SMT DEF LogsFit
<1>8. OwnAnswers' /\ AnswersAreLogged'
  BY <1>1, SMT DEF OwnAnswers, AnswersAreLogged
<1> QED BY <1>3, <1>4, <1>5, <1>6, <1>7, <1>8

\* The goroutine of a batch starts ...
LEMMA StartBatchKeeps ==
    ASSUME IInv, NEW r \in Requests, StartBatch(r), up' = up
    PROVE  HandlerInv'
<1> USE DEF IInv, HandlerInv, TokenInv
<1>1. /\ at[r] = "serve" /\ at' = [at EXCEPT ![r] = "wait"] /\ fn' = [fn EXCEPT ![r] = "parse"]
      /\ body' = body /\ sent' = sent /\ logged' = logged /\ late' = late
  BY DEF StartBatch, Goto, FnGoto
<1>2. /\ r \in Actors /\ ConnOf[r] \in Conns /\ \A q \in Requests : q \in Actors /\ ConnOf[q] \in Conns
      /\ at'[r] = "wait" /\ \A v \in Actors : v # r => at'[v] = at[v]
      /\ fn'[r] = "parse" /\ \A q \in Requests : q # r => fn'[q] = fn[q]
  BY <1>1, TokenKeys, SMT DEF Conns, HandlerTypes
<1>3. HandlerTypes'
  <2>1. fn' \in [Requests -> FnStages]
    BY <1>1, SMT DEF HandlerTypes, FnStages
  <2> QED BY <1>1, <2>1 DEF HandlerTypes
<1>4. OneAtATime'
  BY <1>1, <1>2, SMT DEF OneAtATime, Active
<1>5. GoroutinesFit'
  BY <1>1, <1>2, SMT DEF GoroutinesFit
<1>6. BodiesFit'
  BY <1>1, <1>2, SMT DEF BodiesFit, Active
<1>7. LogsFit'
  <2>1. late = {} => fn[r] # "log"
    BY <1>1, SMT DEF GoroutinesFit, Running
  <2> QED BY <1>1, <1>2, <2>1, SMT DEF LogsFit
<1>8. OwnAnswers' /\ AnswersAreLogged'
  BY <1>1 DEF OwnAnswers, AnswersAreLogged
<1> QED BY <1>3, <1>4, <1>5, <1>6, <1>7, <1>8

\* ... parses and asks the service, or gives up ...
LEMMA GoroutineKeeps ==
    ASSUME IInv, NEW r \in Requests, Parse(r) \/ Ask(r), up' = up
    PROVE  HandlerInv'
<1> USE DEF IInv, HandlerInv
<1>1. /\ at' = at /\ body' = body /\ sent' = sent /\ logged' = logged /\ late' = late
      /\ fn[r] \in {"parse", "ask"}
      /\ \E s \in {"ask", "respond", "drop"} : fn' = [fn EXCEPT ![r] = s]
  BY Zenon DEF Parse, Ask, FnGoto
<1>2. /\ fn'[r] \in {"ask", "respond", "drop"} /\ fn' \in [Requests -> FnStages]
      /\ \A q \in Requests : q # r => fn'[q] = fn[q]
  BY <1>1, SMT DEF HandlerTypes, FnStages
<1>3. HandlerTypes'
  BY <1>1, <1>2 DEF HandlerTypes
<1>4. OneAtATime' /\ BodiesFit' /\ OwnAnswers' /\ AnswersAreLogged'
  BY <1>1 DEF OneAtATime, Active, BodiesFit, OwnAnswers, AnswersAreLogged
<1>5. GoroutinesFit'
  BY <1>1, <1>2, SMT DEF GoroutinesFit, Running
<1>6. LogsFit'
  BY <1>1, <1>2, SMT DEF LogsFit
<1> QED BY <1>3, <1>4, <1>5, <1>6

\* ... writes the prices ...
LEMMA RespondedKeeps ==
    ASSUME IInv, NEW r \in Requests, Responded(r), up' = up
    PROVE  HandlerInv'
<1> USE DEF IInv, HandlerInv
<1>1. /\ fn[r] = "respond" /\ fn' = [fn EXCEPT ![r] = "log"]
      /\ body' = [body EXCEPT ![ConnOf[r]] = Answer(r)]
      /\ at' = at /\ sent' = sent /\ logged' = logged /\ late' = late
  BY DEF Responded, Write, FnGoto
<1>2. /\ ConnOf[r] \in Conns /\ \A q \in Requests : ConnOf[q] \in Conns
      /\ fn'[r] = "log" /\ \A q \in Requests : q # r => fn'[q] = fn[q]
  BY <1>1, SMT DEF Conns, HandlerTypes
<1>3. /\ body' \in [Conns -> Bodies]
      /\ \A k \in Conns, q \in Requests :
            body'[k] = Answer(q) => body[k] = Answer(q) \/ (q = r /\ k = ConnOf[r])
  BY <1>1, <1>2, ResponsesDiffer, SMT DEF HandlerTypes
<1>4. HandlerTypes'
  <2>1. fn' \in [Requests -> FnStages]
    BY <1>1, SMT DEF HandlerTypes, FnStages
  <2> QED BY <1>1, <1>3, <2>1 DEF HandlerTypes
<1>5. OneAtATime' /\ OwnAnswers' /\ AnswersAreLogged'
  BY <1>1 DEF OneAtATime, Active, OwnAnswers, AnswersAreLogged
<1>6. at[r] = "wait" \/ r \in late
  BY <1>1, SMT DEF GoroutinesFit, Running
<1>7. GoroutinesFit'
  BY <1>1, <1>2, <1>6, SMT DEF GoroutinesFit
<1>8. BodiesFit'
  BY <1>1, <1>2, <1>3, <1>6, SMT DEF BodiesFit, Active
<1>9. LogsFit'
  BY <1>1, <1>2, <1>3, SMT DEF LogsFit
<1> QED BY <1>4, <1>5, <1>7, <1>8, <1>9

\* ... and logs what its context holds.
LEMMA LogBatchKeeps ==
    ASSUME IInv, NEW r \in Requests, LogBatch(r), up' = up
    PROVE  HandlerInv'
<1> USE DEF IInv, HandlerInv
<1>1. /\ fn[r] \in {"log", "drop"}
      /\ fn' = [fn EXCEPT ![r] = IF fn[r] = "log" THEN "done" ELSE "failed"]
      /\ logged' = logged \cup {<<r, body[ConnOf[r]]>>}
      /\ at' = at /\ body' = body /\ sent' = sent /\ late' = late
  BY DEF LogBatch, FnGoto
<1>2. /\ ConnOf[r] \in Conns /\ \A q \in Requests : ConnOf[q] \in Conns
      /\ fn'[r] \in {"done", "failed"} /\ \A q \in Requests : q # r => fn'[q] = fn[q]
      /\ fn' \in [Requests -> FnStages]
  BY <1>1, SMT DEF Conns, HandlerTypes, FnStages
<1>3. HandlerTypes'
  <2>1. logged' \subseteq Requests \X Bodies
    BY <1>1, <1>2, SMT DEF HandlerTypes
  <2> QED BY <1>1, <1>2, <2>1 DEF HandlerTypes
<1>4. OneAtATime' /\ OwnAnswers' /\ BodiesFit'
  BY <1>1 DEF OneAtATime, Active, OwnAnswers, BodiesFit
<1>5. GoroutinesFit'
  BY <1>1, <1>2, SMT DEF GoroutinesFit, Running
<1>6. LogsFit'
  BY <1>1, <1>2, SMT DEF LogsFit
<1>7. AnswersAreLogged'
  BY <1>1, SMT DEF AnswersAreLogged
<1> QED BY <1>3, <1>4, <1>5, <1>6, <1>7

\* The client is sent what the context holds.
LEMMA ReturnKeeps ==
    ASSUME IInv, NEW r \in Requests, Return(r), up' = up
    PROVE  HandlerInv'
<1> USE DEF IInv, HandlerInv, TokenInv
<1>1. /\ at[r] = "return" /\ at' = [at EXCEPT ![r] = "over"]
      /\ sent' = [sent EXCEPT ![r] = body[ConnOf[r]]]
      /\ body' = [body EXCEPT ![ConnOf[r]] = Empty]
      /\ fn' = fn /\ logged' = logged /\ late' = late
  BY DEF Return, Write, Goto
<1>2. /\ r \in Actors /\ ConnOf[r] \in Conns /\ \A q \in Requests : q \in Actors /\ ConnOf[q] \in Conns
      /\ at'[r] = "over" /\ \A v \in Actors : v # r => at'[v] = at[v]
  BY <1>1, TokenKeys, SMT DEF Conns
<1>3. /\ body' \in [Conns -> Bodies] /\ sent' \in [Requests -> Bodies]
      /\ \A k \in Conns, q \in Requests :
            body'[k] = Answer(q) => body[k] = Answer(q) /\ k # ConnOf[r]
      /\ sent'[r] = body[ConnOf[r]] /\ \A q \in Requests : q # r => sent'[q] = sent[q]
  BY <1>1, <1>2, ResponsesDiffer, SMT DEF HandlerTypes
<1>4. HandlerTypes'
  BY <1>1, <1>3 DEF HandlerTypes
<1>5. OneAtATime'
  BY <1>1, <1>2, SMT DEF OneAtATime, Active
<1>6. GoroutinesFit'
  BY <1>1, <1>2, SMT DEF GoroutinesFit
<1>7. BodiesFit'
  BY <1>1, <1>2, <1>3, SMT DEF BodiesFit, Active
<1>8. LogsFit'
  BY <1>1, <1>2, <1>3, SMT DEF LogsFit
<1>9. OwnAnswers'
  <2>1. \A q \in Requests :
           body[ConnOf[r]] = Answer(q) => r = q \/ (q \in late /\ ConnOf[q] = ConnOf[r])
    BY <1>1, <1>2, SMT DEF BodiesFit, OneAtATime, Active
  <2> QED BY <1>1, <1>3, <2>1, SMT DEF OwnAnswers
<1>10. AnswersAreLogged'
  <2>1. late = {} => fn[r] # "log"
    BY <1>1, SMT DEF GoroutinesFit, Running
  <2> QED BY <1>1, <1>3, <2>1, SMT DEF AnswersAreLogged, LogsFit
<1> QED BY <1>4, <1>5, <1>6, <1>7, <1>8, <1>9, <1>10

-----------------------------------------------------------------------------
(* The theorems.                                                           *)

\* The steps of the middleware keep both invariants.
LEMMA MiddlewareKeeps ==
    ASSUME IInv, NEW r \in Requests, TokenStep(r), up' = up
    PROVE  IInv'
<1> USE DEF IInv
<1>1. r \in Actors /\ \A w \in Actors : at[w] \in Stages
  BY TokenKeys, SMT DEF TokenInv
<1>2. /\ {"look", "return", "serve"} 
          \subseteq Stages \ {"new", "over", "row", "fill", "limit", "set", "recount", "restart"}
      /\ "limit" \in Stages \ {"new", "over"} /\ "fill" \in Stages \ {"new", "over"}
      /\ "row" \in Stages \ {"new", "over"}
  BY SMT DEF Stages, InMiddleware, GetStages
<1>3. fn[r] \in Running => at[r] = "wait" \/ r \in late
  BY DEF HandlerInv, GoroutinesFit
<1>4. CASE Arrive(r)
  <2>1. PICK s \in {"look", "return"} :
           /\ at' = [at EXCEPT ![r] = s]
           /\ body' = body \/ body' = [body EXCEPT ![ConnOf[r]] = Refusal(r)]
    BY <1>4, SMT DEF Arrive, Goto, Write
  <2>2. /\ at[r] = "new" /\ UNCHANGED <<storeVars, limitVars, rate, errors, fn, sent, logged, late>>
        /\ \A q \in Requests : ConnOf[q] = ConnOf[r] => ~Active(q)
    BY <1>4, SMT DEF Arrive, Active
  <2>3. Moves
    <3>1. UNCHANGED <<storeVars, limitVars, rate>> /\ errors' \in {errors, errors + 1}
      BY <2>2
    <3>2. s \in Stages \ {"row", "fill", "limit", "set", "recount", "restart"} /\ s \notin {"clear", "save"}
      BY <1>2, <2>1, SMT
    <3> QED BY <1>1, <2>1, <3>1, <3>2, MovesTo
  <2>4. GoesOn(r, s)
    BY <1>3, <2>1, <2>2, SMT DEF GoesOn
  <2> QED BY <1>2, <2>3, <2>4, MovesKeep, GoesOnKeeps, SMT
<1>5. CASE Refuse(r)
  <2>1. /\ at[r] \in {"look", "row", "limit"}
        /\ UNCHANGED <<storeVars, limitVars, rate, fn, sent, logged, late>>
        /\ errors' \in {errors, errors + 1} /\ at' = [at EXCEPT ![r] = "return"]
        /\ body' = [body EXCEPT ![ConnOf[r]] = Refusal(r)]
    BY <1>5, SMT DEF Refuse, Error, Goto, Write
  <2>2. Moves
    <3>1. UNCHANGED <<storeVars, limitVars, rate>> /\ errors' \in {errors, errors + 1}
      BY <2>1
    <3>2. "return" \in Stages \ {"row", "fill", "limit", "set", "recount", "restart"}
      BY <1>2, SMT
    <3> QED BY <1>1, <2>1, <3>1, <3>2, MovesTo
  <2>3. GoesOn(r, "return")
    BY <1>3, <2>1, SMT DEF GoesOn
  <2> QED BY <1>2, <2>2, <2>3, MovesKeep, GoesOnKeeps, SMT
<1>6. CASE GetRate(r)
  <2>1. /\ at[r] \in {"look", "row", "fill"} /\ UNCHANGED <<fn, body, sent, logged, late>>
        /\ at[r] = "row" => rows[TokenOf[r]] # <<>>
        /\ LookInCache(r) \/ ReadRow(r) \/ FillCache(r) \/ FillFails(r)
    BY <1>6, SMT DEF GetRate, GetStep, LookInCache, ReadRow, FillCache, FillFails
  <2>2. PICK s \in {"limit", "row", "fill"} : at' = [at EXCEPT ![r] = s]
    <3>1. AfterGet(r) = "limit"
      BY DEF AfterGet
    <3> QED BY <2>1, <3>1, SMT DEF LookInCache, ReadRow, FillCache, FillFails, Goto
  <2>3. GoesOn(r, s)
    BY <1>3, <2>1, <2>2, SMT DEF GoesOn
  <2>4. HandlerInv'
    BY <1>2, <2>2, <2>3, GoesOnKeeps, SMT
  <2>5. TokenInv'
    BY <1>1, <2>1, LookInCacheKeeps, ReadRowKeeps, FillCacheKeeps, FillFailsKeeps
  <2> QED BY <2>4, <2>5
<1>7. CASE LetIn(r)
  <2>1. /\ at[r] = "limit" /\ at' = [at EXCEPT ![r] = "serve"]
        /\ UNCHANGED <<fn, body, sent, logged, late>>
    BY <1>7 DEF LetIn, Goto
  <2>2. GoesOn(r, "serve")
    BY <1>3, <2>1, SMT DEF GoesOn
  <2>3. HandlerInv'
    BY <1>2, <2>2, GoesOnKeeps, SMT
  <2> QED BY <1>7, <2>3, LetInKeeps
<1> QED BY <1>4, <1>5, <1>6, <1>7 DEF TokenStep

\* So do those of the handlers and goroutines.
LEMMA HandlersKeep ==
    ASSUME IInv, NEW r \in Requests, ServeStep(r) \/ GoroutineStep(r), up' = up
    PROVE  IInv'
<1>0. IInv /\ up' = up
  OBVIOUS
<1>1. UNCHANGED <<storeVars, limitVars, rate, errors>>
  BY DEF ServeStep, GoroutineStep
<1>2. /\ r \in Actors /\ r \notin Admins
      /\ {"return", "wait", "log", "over"} \subseteq Stages \ {"row", "fill", "limit", "set", "recount", "restart"}
      /\ "return" \in Stages \ {"new", "over"}
  BY TokenKeys, SMT DEF Stages
<1>3. \/ at' = at
      \/ \E s \in {"return", "wait", "log", "over"} : at' = [at EXCEPT ![r] = s]
  BY SMT DEF ServeStep, GoroutineStep, Serve, LogSingle, StartBatch, Finish, TimeOut, Return,
             Parse, Ask, Responded, LogBatch, Goto
<1>4. Moves
  BY <1>1, <1>2, <1>3, SMT DEF Moves
<1>5. TokenInv'
  BY <1>4, MovesKeep DEF IInv
<1>6. ASSUME Serve(r)
      PROVE  HandlerInv'
  BY <1>6, ServeKeeps, <1>0, Zenon
<1>7. ASSUME LogSingle(r)
      PROVE  HandlerInv'
  BY <1>7, LogSingleKeeps, <1>0, Zenon
<1>8. ASSUME StartBatch(r)
      PROVE  HandlerInv'
  BY <1>8, StartBatchKeeps, <1>0, Zenon
<1>9. ASSUME Finish(r)
      PROVE  HandlerInv'
  <2>1. GoesOn(r, "return")
    BY <1>9, SMT DEF Finish, IsOver, Running, GoesOn, Goto, Write
  <2> QED BY <1>0, <1>2, <2>1, GoesOnKeeps, SMT
<1>10. ASSUME TimeOut(r)
      PROVE  HandlerInv'
  <2>1. GoesOn(r, "return")
    BY <1>10, SMT DEF TimeOut, GoesOn, Goto, Write
  <2> QED BY <1>0, <1>2, <2>1, GoesOnKeeps, SMT
<1>11. ASSUME Return(r)
      PROVE  HandlerInv'
  BY <1>11, ReturnKeeps, <1>0, Zenon
<1>12. ASSUME Parse(r) \/ Ask(r)
      PROVE  HandlerInv'
  BY <1>12, GoroutineKeeps, <1>0, Zenon
<1>13. ASSUME Responded(r)
      PROVE  HandlerInv'
  BY <1>13, RespondedKeeps, <1>0, Zenon
<1>14. ASSUME LogBatch(r)
      PROVE  HandlerInv'
  BY <1>14, LogBatchKeeps, <1>0, Zenon
<1>15. HandlerInv'
  BY <1>6, <1>7, <1>8, <1>9, <1>10, <1>11, <1>12, <1>13, <1>14 DEF ServeStep, GoroutineStep
<1> QED BY <1>5, <1>15 DEF IInv

\* And those of the calls about tokens, and of time.
LEMMA AdminsKeep ==
    ASSUME IInv, Others
    PROVE  IInv'
<1> USE DEF IInv
<1>1. UNCHANGED handlerVars
  BY DEF Others
<1>2. at \in [Actors -> Stages] /\ \A r \in Requests : r \in Actors
  BY TokenKeys DEF TokenInv
<1>3. ASSUME NEW a \in Admins, GetStep(a) \/ GetFails(a) \/ AdminStep(a)
      PROVE  IInv'
  <2>1. a \in Actors /\ a \notin Requests
    BY TokenKeys
  <2>2. \E s : at' = [at EXCEPT ![a] = s]
    BY <1>3, Zenon DEF GetStep, GetFails, AdminStep, LookInCache, ReadRow, FillCache,
                FillFails, StartCall, ClearCache, ClearCount, SaveRow, SaveFails, SetCache,
                CommandFails, Goto
  <2>3. \A r \in Requests : at'[r] = at[r]
    BY <1>2, <2>1, <2>2, SMT
  <2>4. HandlerInv'
    BY <1>1, <2>3, OthersKeep
  <2>5. CASE GetStep(a)
    BY <2>1, <2>4, <2>5, LookInCacheKeeps, ReadRowKeeps, FillCacheKeeps, FillFailsKeeps
       DEF GetStep
  <2>6. CASE GetFails(a)
    <3>1. /\ UNCHANGED <<storeVars, limitVars, rate>> /\ errors' = errors + 1
          /\ at' = [at EXCEPT ![a] = "over"]
      BY <2>6 DEF GetFails, Error, Goto
    <3>2. Moves
      <4>1. "over" \in Stages \ {"row", "fill", "limit", "set", "recount", "restart"}
        BY SMT DEF Stages
      <4>2. UNCHANGED <<storeVars, limitVars, rate>> /\ errors' \in {errors, errors + 1}
        BY <3>1
      <4> QED BY <2>1, <3>1, <4>1, <4>2, MovesTo
    <3> QED BY <2>4, <3>2, MovesKeep
  <2>7. CASE StartCall(a)
    <3>1. UNCHANGED <<storeVars, limitVars, rate, errors>>
      BY <2>7 DEF StartCall
    <3>2. PICK s \in {"save", "clear", "look"} :
             at' = [at EXCEPT ![a] = s] /\ (s # "look" => Task[a].op # "get")
      <4>1. CASE Task[a].op = "add"
        BY <2>7, <4>1, SMT DEF StartCall, Goto
      <4>2. CASE Task[a].op = "delete"
        BY <2>7, <4>2, SMT DEF StartCall, Goto
      <4>3. CASE Task[a].op \notin {"add", "delete"}
        <5>1. at' = [at EXCEPT ![a] = "look"]
          BY <2>7, <4>3 DEF StartCall, Goto
        <5> QED BY <5>1
      <4> QED BY <4>1, <4>2, <4>3, SMT
    <3>3. s \in Stages \ {"row", "fill", "limit", "set", "recount", "restart"}
      BY SMT DEF Stages, InMiddleware, GetStages
    <3>4. Moves
      <4>1. UNCHANGED <<storeVars, limitVars, rate>> /\ errors' \in {errors, errors + 1}
        BY <3>1
      <4>2. s \in {"clear", "save"} => Task[a].op # "get"
        BY <3>2
      <4> QED BY <2>1, <3>2, <3>3, <4>1, <4>2, MovesTo
    <3> QED BY <2>4, <3>4, MovesKeep
  <2>8. CASE ClearCache(a)
    BY <2>4, <2>8, ClearCacheKeeps
  <2>9. CASE SaveRow(a)
    BY <2>4, <2>9, SaveRowKeeps
  <2>10. CASE SaveFails(a)
    <3>1. /\ UNCHANGED <<storeVars, limitVars, rate>> /\ errors' = errors + 1
          /\ at' = [at EXCEPT ![a] = "over"]
      BY <2>10 DEF SaveFails, Error, Goto
    <3>2. Moves
      <4>1. "over" \in Stages \ {"row", "fill", "limit", "set", "recount", "restart"}
        BY SMT DEF Stages
      <4>2. UNCHANGED <<storeVars, limitVars, rate>> /\ errors' \in {errors, errors + 1}
        BY <3>1
      <4> QED BY <2>1, <3>1, <4>1, <4>2, MovesTo
    <3> QED BY <2>4, <3>2, MovesKeep
  <2>11. CASE SetCache(a)
    BY <2>4, <2>11, SetCacheKeeps
  <2>12. CASE ClearCount(a)
    BY <2>4, <2>12, ClearCountKeeps
  <2>13. CASE CommandFails(a)
    BY <2>4, <2>13, CommandFailsKeeps
  <2> QED BY <1>3, <2>5, <2>6, <2>7, <2>8, <2>9, <2>10, <2>11, <2>12, <2>13 DEF AdminStep
<1>4. ASSUME NEW t \in Tokens, ExpireToken(t)
      PROVE  IInv'
  <2>1. at' = at
    BY <1>4 DEF ExpireToken
  <2> QED BY <1>1, <1>4, <2>1, ExpireTokenKeeps, OthersKeep
<1>5. CASE Tick
  <2>1. at' = at
    BY <1>5 DEF Tick
  <2> QED BY <1>1, <1>5, <2>1, TickKeeps, OthersKeep
<1> QED BY <1>3, <1>4, <1>5 DEF Others

LEMMA Inductive == IInv /\ [Next]_vars => IInv'
<1> SUFFICES ASSUME IInv, [Next]_vars
             PROVE  IInv'
  OBVIOUS
<1> USE DEF IInv
<1>1. ASSUME NEW r \in Requests, TokenStep(r) \/ ServeStep(r) \/ GoroutineStep(r), UNCHANGED up
      PROVE  IInv'
  BY <1>1, MiddlewareKeeps, HandlersKeep
<1>2. ASSUME NEW r \in Requests, Panic(r), UNCHANGED tokenVars
      PROVE  IInv'
  <2>1. /\ UNCHANGED <<storeVars, limitVars, at, rate, errors>>
        /\ up' = FALSE /\ UNCHANGED <<fn, body, sent, logged, late>>
    BY <1>2 DEF Panic, tokenVars
  <2>2. Moves
    BY <2>1 DEF Moves
  <2>3. HandlerInv'
    BY <2>1 DEF HandlerInv, HandlerTypes, OneAtATime, Active, GoroutinesFit, BodiesFit, LogsFit,
                OwnAnswers, AnswersAreLogged
  <2> QED BY <2>2, <2>3, MovesKeep
<1>3. CASE UNCHANGED vars
  <2>1. UNCHANGED <<storeVars, limitVars, at, rate, errors>> /\ UNCHANGED handlerVars
    BY <1>3 DEF vars, tokenVars
  <2>2. Moves
    BY <2>1 DEF Moves
  <2> QED BY <2>1, <2>2, MovesKeep, OthersKeep
<1> QED BY <1>1, <1>2, <1>3, AdminsKeep DEF Next

LEMMA Invariance == Spec => []IInv
<1>1. Init => IInv
  BY TokenInit, HandlerInit DEF IInv
<1> QED BY <1>1, Inductive, PTL DEF Spec

\* Every variable keeps its type; a key and its time to live end together.
THEOREM TypeCorrect == Spec => []TypeOK
<1>1. IInv => TypeOK
  BY DEF IInv, TokenInv, HandlerInv, HandlerTypes, TypeOK
<1> QED BY <1>1, Invariance, PTL

\* No second, wherever it begins, lets in more than the rate, rounded up
\* (AppTokens!WithinRate, rate_limiter_service.go:40-52), for any number of requests,
\* tokens and updates and any rates, the fractions included.
THEOREM WithinRateCorrect == Spec => []WithinRate
<1>1. IInv => WithinRate
  <2> SUFFICES ASSUME IInv, NEW t \in Keys \ reset
               PROVE  \E limit \in granted[t] \cup {1} :
                          Scale * Cardinality(LetInFor(t)) < limit + Scale
    BY Zenon DEF WithinRate
  <2> USE DEF IInv, TokenInv
  <2>1. PICK limit \in granted[t] \cup {1} : Within(used[t], limit)
    BY Zenon DEF Counts
  <2>2. IsFiniteSet(LetInFor(t)) /\ Cardinality(LetInFor(t)) <= used[t]
    BY DEF Counts
  <2>3. Cardinality(LetInFor(t)) \in Nat
    BY <2>2, FS_CardinalityType, Zenon
  <2>4. used[t] \in Nat /\ limit \in Nat
    BY RatesAreNumbers, SMT DEF TokenTypes
  <2>5. Within(Cardinality(LetInFor(t)), limit)
    BY <2>1, <2>2, <2>3, <2>4, WithinLess, Zenon
  <2> QED BY <2>5, Zenon DEF Within
<1> QED BY <1>1, Invariance, PTL

\* A client is sent its own prices, or late ones of its connection
\* (price_controller.go:69-90).
THEOREM OwnAnswersCorrect == Spec => []OwnAnswers
<1>1. IInv => OwnAnswers
  BY DEF IInv, HandlerInv
<1> QED BY <1>1, Invariance, PTL

\* What a client is sent is logged (price_controller.go:119-140, 362-382), unless a
\* batch has timed out.
THEOREM AnswersAreLoggedCorrect == Spec => []AnswersAreLogged
<1>1. IInv => AnswersAreLogged
  BY DEF IInv, HandlerInv
<1> QED BY <1>1, Invariance, PTL

-----------------------------------------------------------------------------
(* The cached rates.                                                       *)

\* The rate that a look-up or a call is about to cache is that of the only row, and
\* nothing is cached between the steps of a deletion, unless the histories say so.
Fresh ==
    /\ CachedIsCurrent
    /\ \A w \in Actors \ behind :
          at[w] = "fill" /\ Len(rows[TokenOf[w]]) <= 1 => rows[TokenOf[w]] = <<rate[w]>>
    /\ \A a \in Admins \ behind :
          at[a] = "set" /\ Len(rows[TokenOf[a]]) <= 1 => rows[TokenOf[a]] = <<Task[a].rate>>
    /\ \A a \in Admins :
          Task[a].op = "delete" /\ at[a] \in {"recount", "save"} /\ TokenOf[a] \notin outdated =>
              cached[TokenOf[a]] = None

\* A step that neither caches nor changes a row, and ends no setting of the cache.
Quiet ==
    /\ rows' = rows /\ cached' = cached /\ behind' = behind /\ outdated' = outdated
    /\ \A w \in Actors : \/ at'[w] = at[w] /\ rate'[w] = rate[w]
                         \/ w \in Requests /\ at'[w] # "fill"
                         \/ /\ w \in Admins /\ at[w] # "set" /\ at'[w] \notin {"fill", "set"}
                            /\ Task[w].op = "delete" /\ at'[w] \in {"recount", "save"} =>
                                  at[w] \in {"recount", "save"}

LEMMA QuietKeeps == Fresh /\ Quiet => Fresh'
<1> SUFFICES ASSUME Fresh, Quiet
             PROVE  Fresh'
  OBVIOUS
<1>0. rows' = rows /\ cached' = cached /\ behind' = behind /\ outdated' = outdated
  BY Zenon DEF Quiet
<1>1. \A a \in Admins : at[a] = "set" => at'[a] = "set"
  BY TokenKeys, Zenon DEF Quiet
<1>2. \A w \in Actors : at'[w] = "fill" => at[w] = "fill" /\ rate'[w] = rate[w]
  BY TokenKeys, Zenon DEF Quiet
<1>3. \A a \in Admins : at'[a] = "set" => at[a] = "set"
  BY TokenKeys, Zenon DEF Quiet
<1>4. \A a \in Admins :
         Task[a].op = "delete" /\ at'[a] \in {"recount", "save"} => at[a] \in {"recount", "save"}
  BY TokenKeys, Zenon DEF Quiet
<1>5. CachedIsCurrent'
  BY <1>0, <1>1, Zenon DEF Fresh, CachedIsCurrent
<1>6. \A w \in Actors \ behind' :
         at'[w] = "fill" /\ Len(rows'[TokenOf[w]]) <= 1 => rows'[TokenOf[w]] = <<rate'[w]>>
  BY <1>0, <1>2, Zenon DEF Fresh
<1>7. \A a \in Admins \ behind' :
         at'[a] = "set" /\ Len(rows'[TokenOf[a]]) <= 1 => rows'[TokenOf[a]] = <<Task[a].rate>>
  BY <1>0, <1>3, Zenon DEF Fresh
<1>8. \A a \in Admins :
         Task[a].op = "delete" /\ at'[a] \in {"recount", "save"} /\ TokenOf[a] \notin outdated' =>
             cached'[TokenOf[a]] = None
  BY <1>0, <1>4, Zenon DEF Fresh
<1> QED BY <1>5, <1>6, <1>7, <1>8, Zenon DEF Fresh

LEMMA FreshInit == Init => Fresh
<1> SUFFICES ASSUME InitTokens
             PROVE  Fresh
  BY DEF Init
<1>1. \A w \in Actors : at[w] \in {"new", "over"}
  BY SMT DEF InitTokens
<1>2. \A t \in Tokens : cached[t] = None
  BY SMT DEF InitTokens
<1>3. \A w \in Actors : at[w] \notin {"fill", "set", "recount", "save"}
  BY <1>1, SMT
<1>4. \A a \in Admins : a \in Actors
  BY TokenKeys, Zenon
<1> QED BY <1>2, <1>3, <1>4, Zenon DEF Fresh, CachedIsCurrent

\* One actor moves.
LEMMA OneMoves ==
    ASSUME at \in [Actors -> Stages], NEW w \in Actors, NEW s, at' = [at EXCEPT ![w] = s]
    PROVE  at'[w] = s /\ \A v \in Actors : v # w => at'[v] = at[v]
BY SMT

\* The rate that w caches is that of the row, or its token is outdated.
LEMMA CachingKeeps ==
    ASSUME TokenInv, Fresh, NEW w \in Actors, TokenOf[w] \in Tokens, NEW value, NEW s,
           w \in behind \/ Len(rows[TokenOf[w]]) > 1 \/ rows[TokenOf[w]] = <<value>>,
           s \notin {"fill", "set"}, s \notin {"recount", "save"},
           at' = [at EXCEPT ![w] = s], CacheToken(w, value), rows' = rows, rate' = rate
    PROVE  Fresh'
<1> DEFINE t == TokenOf[w]
           deleted == \E a \in Admins : /\ TokenOf[a] = t /\ Task[a].op = "delete"
                                        /\ at[a] \in {"recount", "save"}
<1>1. at'[w] = s /\ \A v \in Actors : v # w => at'[v] = at[v]
  BY OneMoves, Zenon DEF TokenInv
<1>2. /\ cached' = [cached EXCEPT ![t] = value]
      /\ outdated' = IF w \in behind \/ deleted THEN outdated \cup {t} ELSE outdated \ {t}
      /\ behind' = behind \ {w}
  BY Zenon DEF CacheToken
<1>3. cached'[t] = value /\ \A u \in Tokens : u # t => cached'[u] = cached[u]
  BY <1>2, SMT DEF TokenInv, TokenTypes
<1>4. t \notin outdated' => w \notin behind /\ ~deleted
  BY <1>2, Zenon
<1>5. \A u : u # t /\ u \notin outdated' => u \notin outdated
  BY <1>2, SMT
<1> HIDE DEF deleted
<1>6. \A a \in Admins : a \in Actors /\ TokenOf[a] \in Tokens
  BY TokenKeys, Zenon
<1>7. \A v \in Actors : v # w /\ v \notin behind' => v \notin behind
  BY <1>2, SMT
<1>8. ASSUME NEW u \in Tokens \ outdated', cached'[u] # None, Len(rows'[u]) <= 1,
             \A a \in Admins : TokenOf[a] = u => at'[a] # "set"
      PROVE  rows'[u] = <<cached'[u]>>
  <2>1. CASE u = t
    <3>1. ~(Len(rows[t]) > 1)
      <4>1. Len(rows[t]) \in Nat
        BY SMT DEF TokenInv, TokenTypes
      <4> QED BY <1>8, <2>1, <4>1, SMT
    <3> QED BY <1>3, <1>4, <2>1, <3>1, Zenon
  <2>2. CASE u # t
    <3>1. \A a \in Admins : TokenOf[a] = u => at[a] # "set"
      BY <1>1, <1>6, <1>8, <2>2, Zenon
    <3>2. u \notin outdated /\ cached'[u] = cached[u]
      BY <1>3, <1>5, <2>2, Zenon
    <3> QED BY <1>8, <3>1, <3>2, Zenon DEF Fresh, CachedIsCurrent
  <2> QED BY <2>1, <2>2
<1>9. CachedIsCurrent'
  BY <1>8, Zenon DEF CachedIsCurrent
<1>10. \A v \in Actors \ behind' :
          at'[v] = "fill" /\ Len(rows'[TokenOf[v]]) <= 1 => rows'[TokenOf[v]] = <<rate'[v]>>
  BY <1>1, <1>7, Zenon DEF Fresh
<1>11. \A a \in Admins \ behind' :
          at'[a] = "set" /\ Len(rows'[TokenOf[a]]) <= 1 => rows'[TokenOf[a]] = <<Task[a].rate>>
  BY <1>1, <1>6, <1>7, Zenon DEF Fresh
<1>12. ASSUME NEW a \in Admins, Task[a].op = "delete", at'[a] \in {"recount", "save"},
              TokenOf[a] \notin outdated'
       PROVE  cached'[TokenOf[a]] = None
  <2>1. a # w /\ at[a] \in {"recount", "save"}
    BY <1>1, <1>6, <1>12, Zenon
  <2>2. TokenOf[a] # t
    BY <1>4, <1>12, <2>1, Zenon DEF deleted
  <2> QED BY <1>3, <1>5, <1>6, <1>12, <2>1, <2>2, Zenon DEF Fresh
<1> QED BY <1>9, <1>10, <1>11, <1>12, Zenon DEF Fresh

\* A step that takes the cached rate of a token away.
LEMMA UncachingKeeps ==
    ASSUME TokenInv, Fresh, NEW t \in Tokens, cached' = [cached EXCEPT ![t] = None],
           outdated' = outdated \ {t}, behind' = behind, rows' = rows, rate' = rate,
           \A a \in Admins : /\ at[a] = "set" <=> at'[a] = "set"
                             /\ at'[a] \in {"recount", "save"} =>
                                   at[a] \in {"recount", "save"} \/ TokenOf[a] = t,
           \A w \in Actors : at'[w] = "fill" => at[w] = "fill"
    PROVE  Fresh'
<1>1. cached'[t] = None /\ \A u \in Tokens : u # t => cached'[u] = cached[u]
  BY SMT DEF TokenInv, TokenTypes
<1>2. \A u : u # t /\ u \notin outdated' => u \notin outdated
  BY SMT
<1>3. CachedIsCurrent'
  BY <1>1, <1>2, Zenon DEF Fresh, CachedIsCurrent
<1>4. \A v \in Actors \ behind' :
          at'[v] = "fill" /\ Len(rows'[TokenOf[v]]) <= 1 => rows'[TokenOf[v]] = <<rate'[v]>>
  BY Zenon DEF Fresh
<1>5. \A a \in Admins \ behind' :
          at'[a] = "set" /\ Len(rows'[TokenOf[a]]) <= 1 => rows'[TokenOf[a]] = <<Task[a].rate>>
  BY Zenon DEF Fresh
<1>6. \A a \in Admins : TokenOf[a] \in Tokens
  BY TokenKeys, Zenon
<1>7. \A a \in Admins :
          Task[a].op = "delete" /\ at'[a] \in {"recount", "save"} /\ TokenOf[a] \notin outdated' =>
              cached'[TokenOf[a]] = None
  BY <1>1, <1>2, <1>6, Zenon DEF Fresh
<1> QED BY <1>3, <1>4, <1>5, <1>7, Zenon DEF Fresh

\* The oldest row is read.
LEMMA ReadRowFresh ==
    ASSUME TokenInv, Fresh, NEW w \in Actors, ReadRow(w), rows[TokenOf[w]] # <<>>
    PROVE  Fresh'
<1> DEFINE t == TokenOf[w]
<1>1. /\ at[w] = "row" /\ at' = [at EXCEPT ![w] = "fill"]
      /\ rate' = [rate EXCEPT ![w] = Head(rows[t])]
      /\ rows' = rows /\ cached' = cached /\ behind' = behind /\ outdated' = outdated
  BY Zenon DEF ReadRow, Goto, storeVars, cacheVars
<1>2. t \in Tokens
  BY <1>1, SMT DEF TokenInv, StagesFit
<1>3. /\ at'[w] = "fill" /\ rate'[w] = Head(rows[t])
      /\ \A v \in Actors : v # w => at'[v] = at[v] /\ rate'[v] = rate[v]
  BY <1>1, SMT DEF TokenInv, TokenTypes
<1>4. Len(rows[t]) <= 1 => rows[t] = <<Head(rows[t])>>
  <2>1. rows[t] \in Seq(Rates)
    BY <1>2, SMT DEF TokenInv, TokenTypes
  <2> QED BY <2>1, SMT
<1>5. \A a \in Admins : a \in Actors
  BY TokenKeys, Zenon
<1>6. \A a \in Admins : /\ at[a] = "set" <=> at'[a] = "set"
                        /\ at'[a] \in {"recount", "save"} => at[a] \in {"recount", "save"}
  BY <1>1, <1>3, <1>5, Zenon
<1>7. CachedIsCurrent'
  BY <1>1, <1>6, Zenon DEF Fresh, CachedIsCurrent
<1>8. \A v \in Actors \ behind' :
          at'[v] = "fill" /\ Len(rows'[TokenOf[v]]) <= 1 => rows'[TokenOf[v]] = <<rate'[v]>>
  BY <1>1, <1>3, <1>4, Zenon DEF Fresh
<1>9. \A a \in Admins \ behind' :
          at'[a] = "set" /\ Len(rows'[TokenOf[a]]) <= 1 => rows'[TokenOf[a]] = <<Task[a].rate>>
  BY <1>1, <1>6, Zenon DEF Fresh
<1>10. \A a \in Admins :
          Task[a].op = "delete" /\ at'[a] \in {"recount", "save"} /\ TokenOf[a] \notin outdated' =>
              cached'[TokenOf[a]] = None
  BY <1>1, <1>6, Zenon DEF Fresh
<1> QED BY <1>7, <1>8, <1>9, <1>10, Zenon DEF Fresh

\* A row is changed: whoever was about to cache what it had before is behind.
LEMMA SaveRowFresh ==
    ASSUME TokenInv, Fresh, NEW a \in Admins, SaveRow(a)
    PROVE  Fresh'
<1> DEFINE t == TokenOf[a]
<1>1. /\ at[a] = "save"
      /\ at' = [at EXCEPT ![a] = IF Task[a].op = "delete" THEN "over" ELSE "set"]
      /\ rows' = [rows EXCEPT ![t] = Saved(a)]
      /\ behind' = behind \cup {w \in Actors \ {a} : TokenOf[w] = t /\ at[w] \in {"fill", "set"}}
      /\ cached' = cached /\ outdated' = outdated /\ rate' = rate
  BY Zenon DEF SaveRow, Goto
<1>2. a \in Actors /\ t \in Tokens /\ \A b \in Admins : b \in Actors /\ TokenOf[b] \in Tokens
  BY TokenKeys, Zenon
<1>3. /\ at'[a] = IF Task[a].op = "delete" THEN "over" ELSE "set"
      /\ \A v \in Actors : v # a => at'[v] = at[v]
  BY <1>1, <1>2, OneMoves, Zenon DEF TokenInv
<1>4. rows'[t] = Saved(a) /\ \A u \in Tokens : u # t => rows'[u] = rows[u]
  BY <1>1, <1>2, SMT DEF TokenInv, TokenTypes
<1>5. Task[a].op = "delete" => Saved(a) = <<>> /\ (t \notin outdated => cached[t] = None)
  BY <1>1, Zenon DEF Saved, Fresh
<1>6. Task[a].op # "delete" /\ Len(Saved(a)) <= 1 => Saved(a) = <<Task[a].rate>>
  <2>1. rows[t] \in Seq(Rates)
    BY <1>2, SMT DEF TokenInv, TokenTypes
  <2>2. Task[a].op # "delete" => Task[a].rate \in Rates
    BY <1>1, TaskFields, SMT DEF TokenInv, StagesFit
  <2>3. CASE Task[a].op = "update" /\ rows[t] # <<>>
    <3>1. Saved(a) = <<Task[a].rate>> \o Tail(rows[t])
      BY <2>3, SMT DEF Saved
    <3>2. Tail(rows[t]) \in Seq(Rates) /\ Task[a].rate \in Rates
      BY <2>1, <2>2, <2>3, HeadTailProperties, SMT
    <3>3. PICK rest \in Seq(Rates) : rest = Tail(rows[t])
      BY <3>2, Zenon
    <3>4. PICK x \in Rates : x = Task[a].rate
      BY <3>2, Zenon
    <3>5. <<x>> \in Seq(Rates) /\ Len(<<x>>) = 1
      BY OneIsSeq, SMT
    <3>6. Len(<<x>> \o rest) = Len(<<x>>) + Len(rest)
      BY <3>5, ConcatProperties, Zenon
    <3>7. Len(rest) = 0 => rest = <<>>
      BY EmptySeq, SMT
    <3>8. rest = <<>> => <<x>> \o rest = <<x>>
      BY <3>5, ConcatEmptySeq, Zenon
    <3>9. Len(rest) \in Nat
      BY LenProperties, Zenon
    <3>10. Len(<<x>> \o rest) <= 1 => <<x>> \o rest = <<x>>
      BY <3>5, <3>6, <3>7, <3>8, <3>9, SMT
    <3> QED BY <3>1, <3>3, <3>4, <3>10, Zenon
  <2>4. CASE Task[a].op # "delete" /\ ~(Task[a].op = "update" /\ rows[t] # <<>>)
    <3>1. Saved(a) = Append(rows[t], Task[a].rate) /\ Task[a].rate \in Rates
      BY <2>2, <2>4, SMT DEF Saved
    <3>2. PICK before \in Seq(Rates) : before = rows[t]
      BY <2>1, Zenon
    <3>3. PICK x \in Rates : x = Task[a].rate
      BY <3>1, Zenon
    <3>4. Len(Append(before, x)) = Len(before) + 1 /\ Len(before) \in Nat
      BY AppendProperties, LenProperties, Zenon
    <3>5. Len(before) = 0 => before = <<>>
      BY EmptySeq, SMT
    <3>6. before = <<>> => Append(before, x) = <<x>>
      BY SMT
    <3>7. Len(Append(before, x)) <= 1 => Append(before, x) = <<x>>
      BY <3>4, <3>5, <3>6, SMT
    <3> QED BY <3>1, <3>2, <3>3, <3>7, Zenon
  <2> QED BY <2>3, <2>4, Zenon
<1>7. ASSUME NEW u \in Tokens \ outdated', cached'[u] # None, Len(rows'[u]) <= 1,
             \A b \in Admins : TokenOf[b] = u => at'[b] # "set"
      PROVE  rows'[u] = <<cached'[u]>>
  <2>1. CASE u = t
    <3>1. Task[a].op = "delete"
      BY <1>3, <1>7, <2>1, Zenon
    <3> QED BY <1>1, <1>5, <1>7, <2>1, <3>1, Zenon
  <2>2. CASE u # t
    <3>1. \A b \in Admins : TokenOf[b] = u => at[b] # "set"
      BY <1>2, <1>3, <1>7, <2>2, Zenon
    <3>2. rows'[u] = rows[u]
      BY <1>4, <2>2, Zenon
    <3> QED BY <1>1, <1>7, <3>1, <3>2, Zenon DEF Fresh, CachedIsCurrent
  <2> QED BY <2>1, <2>2
<1>8. CachedIsCurrent'
  BY <1>7, Zenon DEF CachedIsCurrent
<1>9. \A v \in Actors : v \notin behind' /\ v # a =>
         v \notin behind /\ (at[v] \in {"fill", "set"} => TokenOf[v] # t)
  BY <1>1, SMT
<1>10. \A v \in Actors : at[v] = "fill" => TokenOf[v] \in Tokens
  BY SMT DEF TokenInv, StagesFit
<1>11. ASSUME NEW v \in Actors \ behind', at'[v] = "fill", Len(rows'[TokenOf[v]]) <= 1
       PROVE  rows'[TokenOf[v]] = <<rate'[v]>>
  <2>1. v # a
    BY <1>3, <1>11, SMT
  <2>2. at[v] = "fill" /\ v \notin behind /\ TokenOf[v] # t /\ TokenOf[v] \in Tokens
    BY <1>3, <1>9, <1>10, <1>11, <2>1, Zenon
  <2>3. rows'[TokenOf[v]] = rows[TokenOf[v]]
    BY <1>4, <2>2, Zenon
  <2> QED BY <1>1, <1>11, <2>2, <2>3, Zenon DEF Fresh
<1>12. ASSUME NEW b \in Admins \ behind', at'[b] = "set", Len(rows'[TokenOf[b]]) <= 1
       PROVE  rows'[TokenOf[b]] = <<Task[b].rate>>
  <2>1. CASE b = a
    <3>1. Task[a].op # "delete"
      BY <1>3, <1>12, <2>1, SMT
    <3> QED BY <1>4, <1>6, <1>12, <2>1, <3>1, Zenon
  <2>2. CASE b # a
    <3>1. at[b] = "set" /\ b \notin behind /\ TokenOf[b] # t
      BY <1>2, <1>3, <1>9, <1>12, <2>2, Zenon
    <3>2. rows'[TokenOf[b]] = rows[TokenOf[b]]
      BY <1>2, <1>4, <3>1, Zenon
    <3> QED BY <1>12, <3>1, <3>2, Zenon DEF Fresh
  <2> QED BY <2>1, <2>2
<1>13. ASSUME NEW b \in Admins, Task[b].op = "delete", at'[b] \in {"recount", "save"},
              TokenOf[b] \notin outdated'
       PROVE  cached'[TokenOf[b]] = None
  <2>1. b # a
    BY <1>3, <1>13, SMT
  <2>2. at[b] \in {"recount", "save"}
    BY <1>2, <1>3, <1>13, <2>1, Zenon
  <2> QED BY <1>1, <1>13, <2>2, Zenon DEF Fresh
<1> QED BY <1>8, <1>11, <1>12, <1>13, Zenon DEF Fresh

\* One actor goes on quietly.
LEMMA QuietMove ==
    ASSUME TokenInv, NEW w \in Actors, NEW s, at' = [at EXCEPT ![w] = s],
           rate' = rate \/ \E x : rate' = [rate EXCEPT ![w] = x],
           UNCHANGED <<rows, cacheVars>>, s # "fill",
           w \in Admins => /\ at[w] # "set" /\ s # "set"
                           /\ Task[w].op = "delete" /\ s \in {"recount", "save"} =>
                                 at[w] \in {"recount", "save"}
    PROVE  Quiet
<1>1. at'[w] = s /\ \A v \in Actors : v # w => at'[v] = at[v]
  BY OneMoves, Zenon DEF TokenInv
<1>2. \A v \in Actors : v # w => rate'[v] = rate[v]
  BY SMT DEF TokenInv, TokenTypes
<1>3. rows' = rows /\ cached' = cached /\ behind' = behind /\ outdated' = outdated
  BY Zenon DEF cacheVars
<1>4. w \in Requests \/ w \in Admins
  BY Zenon DEF Actors
<1>5. s \in {"recount", "save"} <=> at'[w] \in {"recount", "save"}
  BY <1>1, Zenon
<1>6. \/ w \in Requests /\ at'[w] # "fill"
      \/ /\ w \in Admins /\ at[w] # "set" /\ at'[w] \notin {"fill", "set"}
         /\ Task[w].op = "delete" /\ at'[w] \in {"recount", "save"} => at[w] \in {"recount", "save"}
  <2>1. CASE w \in Requests
    BY <1>1, <2>1, Zenon
  <2>2. CASE w \in Admins
    BY <1>1, <2>2, SMT
  <2> QED BY <1>4, <2>1, <2>2
<1> QED BY <1>1, <1>2, <1>3, <1>6, Zenon DEF Quiet

\* Nobody goes on.
LEMMA NobodyMoves ==
    ASSUME at' = at, rate' = rate, UNCHANGED <<rows, cacheVars>>
    PROVE  Quiet
BY Zenon DEF Quiet, cacheVars

\* An actor that is at the end of what it was about to do without having done it.
LEMMA LeavingKeeps ==
    ASSUME TokenInv, Fresh, NEW w \in Actors, NEW s, at' = [at EXCEPT ![w] = s],
           behind' = behind \ {w}, rows' = rows, cached' = cached, outdated' = outdated,
           rate' = rate, s \notin {"fill", "set"}, w \in Admins => at[w] # "set",
           s \in {"recount", "save"} => at[w] \in {"recount", "save"}
    PROVE  Fresh'
<1>1. at'[w] = s /\ \A v \in Actors : v # w => at'[v] = at[v]
  BY OneMoves, Zenon DEF TokenInv
<1>2. \A v \in Actors : v # w /\ v \notin behind' => v \notin behind
  BY SMT
<1>3. \A a \in Admins : a \in Actors
  BY TokenKeys, Zenon
<1>4. \A a \in Admins : at[a] = "set" => at'[a] = "set"
  BY <1>1, <1>3, Zenon
<1>5. CachedIsCurrent'
  BY <1>4, Zenon DEF Fresh, CachedIsCurrent
<1>6. \A v \in Actors \ behind' :
          at'[v] = "fill" /\ Len(rows'[TokenOf[v]]) <= 1 => rows'[TokenOf[v]] = <<rate'[v]>>
  BY <1>1, <1>2, Zenon DEF Fresh
<1>7. \A a \in Admins \ behind' :
          at'[a] = "set" /\ Len(rows'[TokenOf[a]]) <= 1 => rows'[TokenOf[a]] = <<Task[a].rate>>
  BY <1>1, <1>2, <1>3, Zenon DEF Fresh
<1>8. \A a \in Admins : at'[a] \in {"recount", "save"} => at[a] \in {"recount", "save"}
  BY <1>1, <1>3, Zenon
<1>9. \A a \in Admins :
          Task[a].op = "delete" /\ at'[a] \in {"recount", "save"} /\ TokenOf[a] \notin outdated' =>
              cached'[TokenOf[a]] = None
  BY <1>8, Zenon DEF Fresh
<1> QED BY <1>5, <1>6, <1>7, <1>9, Zenon DEF Fresh

\* A command that is lost makes the token outdated.
LEMMA LosingKeeps ==
    ASSUME TokenInv, Fresh, NEW a \in Admins, NEW s, at' = [at EXCEPT ![a] = s],
           behind' = behind \ {a}, rows' = rows, cached' = cached, rate' = rate,
           outdated' = outdated \cup {TokenOf[a]}, s \notin {"fill", "set"}
    PROVE  Fresh'
<1>1. at'[a] = s /\ \A v \in Actors : v # a => at'[v] = at[v]
  BY OneMoves, TokenKeys, Zenon DEF TokenInv
<1>2. \A v \in Actors : v # a /\ v \notin behind' => v \notin behind
  BY SMT
<1>3. \A b \in Admins : b \in Actors
  BY TokenKeys, Zenon
<1>4. \A u : u \notin outdated' => u \notin outdated /\ u # TokenOf[a]
  BY SMT
<1>5. \A b \in Admins : at[b] = "set" /\ TokenOf[b] # TokenOf[a] => at'[b] = "set"
  BY <1>1, <1>3, Zenon
<1>6. CachedIsCurrent'
  BY <1>4, <1>5, SMT DEF Fresh, CachedIsCurrent
<1>7. \A v \in Actors \ behind' :
          at'[v] = "fill" /\ Len(rows'[TokenOf[v]]) <= 1 => rows'[TokenOf[v]] = <<rate'[v]>>
  BY <1>1, <1>2, Zenon DEF Fresh
<1>8. \A b \in Admins \ behind' :
          at'[b] = "set" /\ Len(rows'[TokenOf[b]]) <= 1 => rows'[TokenOf[b]] = <<Task[b].rate>>
  BY <1>1, <1>2, <1>3, Zenon DEF Fresh
<1>9. \A b \in Admins :
          Task[b].op = "delete" /\ at'[b] \in {"recount", "save"} /\ TokenOf[b] \notin outdated' =>
              cached'[TokenOf[b]] = None
  BY <1>1, <1>3, <1>4, Zenon DEF Fresh
<1> QED BY <1>6, <1>7, <1>8, <1>9, Zenon DEF Fresh

\* A look-up, of a request or of a call.
LEMMA LookUpFresh ==
    ASSUME TokenInv, Fresh, NEW w \in Actors, GetStep(w),
           at[w] = "row" => rows[TokenOf[w]] # <<>> \/ w \in Admins
    PROVE  Fresh'
<1>1. /\ AfterGet(w) \in {"limit", "clear", "over"}
      /\ w \in Requests => AfterGet(w) = "limit"
  BY SMT DEF AfterGet
<1>a. w \in Admins => w \notin Requests
  BY TokenKeys, Zenon
<1>2. CASE LookInCache(w)
  <2>1. PICK s \in {"limit", "row", AfterGet(w)} : at' = [at EXCEPT ![w] = s]
    BY <1>2, SMT DEF LookInCache, Goto
  <2>2. s \notin {"fill", "set", "recount", "save"}
    BY <1>1, <2>1, SMT
  <2>3. at[w] = "look" /\ UNCHANGED <<rows, cacheVars>>
    BY <1>2, Zenon DEF LookInCache, storeVars
  <2>4. \E x : rate' = [rate EXCEPT ![w] = x]
    BY <1>2, Zenon DEF LookInCache
  <2>5. at[w] # "set" /\ s # "fill" /\ s # "set" /\ s \notin {"recount", "save"}
    BY <2>2, <2>3, SMT
  <2>6. Quiet
    BY <2>1, <2>3, <2>4, <2>5, QuietMove, Zenon
  <2> QED BY <2>6, QuietKeeps
<1>3. CASE ReadRow(w)
  <2>1. CASE rows[TokenOf[w]] = <<>>
    <3>1. /\ at[w] = "row" /\ at' = [at EXCEPT ![w] = "over"] /\ rate' = rate
          /\ UNCHANGED <<rows, cacheVars>>
      BY <1>3, <2>1, Zenon DEF ReadRow, Goto, storeVars
    <3>2. at[w] # "set" /\ "over" \notin {"fill", "set", "recount", "save"}
      BY <3>1, SMT
    <3>3. "over" # "fill" /\ "over" # "set" /\ "over" \notin {"recount", "save"}
      BY SMT
    <3>4. Quiet
      BY <3>1, <3>2, <3>3, QuietMove, Zenon
    <3> QED BY <3>4, QuietKeeps
  <2>2. CASE rows[TokenOf[w]] # <<>>
    BY <1>3, <2>2, ReadRowFresh, Zenon
  <2> QED BY <2>1, <2>2
<1>4. CASE FillCache(w)
  <2>1. /\ at[w] = "fill" /\ at' = [at EXCEPT ![w] = AfterGet(w)] /\ CacheToken(w, rate[w])
        /\ rows' = rows /\ rate' = rate
    BY <1>4, Zenon DEF FillCache, Goto
  <2>2. TokenOf[w] \in Tokens
    BY <2>1, SMT DEF TokenInv, StagesFit
  <2>3. Len(rows[TokenOf[w]]) <= 1 \/ Len(rows[TokenOf[w]]) > 1
    <3>1. Len(rows[TokenOf[w]]) \in Nat
      BY <2>2, SMT DEF TokenInv, TokenTypes
    <3> QED BY <3>1, SMT
  <2>4. w \in behind \/ Len(rows[TokenOf[w]]) > 1 \/ rows[TokenOf[w]] = <<rate[w]>>
    BY <2>1, <2>3, Zenon DEF Fresh
  <2>5. AfterGet(w) \notin {"fill", "set"} /\ AfterGet(w) \notin {"recount", "save"}
    BY <1>1, SMT
  <2> QED BY <2>1, <2>2, <2>4, <2>5, CachingKeeps, Zenon
<1>5. CASE FillFails(w)
  <2>1. /\ at[w] = "fill" /\ at' = [at EXCEPT ![w] = AfterGet(w)] /\ behind' = behind \ {w}
        /\ rows' = rows /\ cached' = cached /\ outdated' = outdated /\ rate' = rate
    BY <1>5, Zenon DEF FillFails, Goto
  <2>2. AfterGet(w) \notin {"fill", "set", "recount", "save"}
    BY <1>1, SMT
  <2> QED BY <2>1, <2>2, LeavingKeeps, Zenon
<1> QED BY <1>2, <1>3, <1>4, <1>5 DEF GetStep

\* A call of an administrator.
LEMMA AdminStepFresh ==
    ASSUME TokenInv, Fresh, NEW a \in Admins, AdminStep(a) \/ GetFails(a)
    PROVE  Fresh'
<1>a. a \in Actors /\ TokenOf[a] \in Tokens
  BY TokenKeys, Zenon
<1>1. CASE StartCall(a)
  <2>1. PICK s \in {"save", "clear", "look"} :
             at' = [at EXCEPT ![a] = s] /\ (s = "save" => Task[a].op = "add")
    <3>1. CASE Task[a].op = "add"
      BY <1>1, <3>1, SMT DEF StartCall, Goto
    <3>2. CASE Task[a].op = "delete"
      BY <1>1, <3>2, SMT DEF StartCall, Goto
    <3>3. CASE Task[a].op \notin {"add", "delete"}
      <4>1. at' = [at EXCEPT ![a] = "look"]
        BY <1>1, <3>3 DEF StartCall, Goto
      <4> QED BY <4>1
    <3> QED BY <3>1, <3>2, <3>3, SMT
  <2>2. at[a] = "new" /\ UNCHANGED <<rows, cacheVars>> /\ rate' = rate
    BY <1>1, Zenon DEF StartCall, storeVars
  <2>3. /\ s # "fill" /\ at[a] # "set" /\ s # "set"
        /\ ~(Task[a].op = "delete" /\ s \in {"recount", "save"})
    BY <2>1, <2>2, SMT
  <2>4. Quiet
    BY <1>a, <2>1, <2>2, <2>3, QuietMove, Zenon
  <2> QED BY <2>4, QuietKeeps
<1>2. CASE ClearCache(a)
  <2>1. /\ at[a] = "clear" /\ at' = [at EXCEPT ![a] = AfterCommand(a)]
        /\ cached' = [cached EXCEPT ![TokenOf[a]] = None]
        /\ outdated' = outdated \ {TokenOf[a]} /\ behind' = behind /\ rows' = rows /\ rate' = rate
    BY <1>2, Zenon DEF ClearCache, Goto
  <2>2. AfterCommand(a) = "recount"
    BY <2>1, SMT DEF AfterCommand
  <2>3. at'[a] = "recount" /\ \A v \in Actors : v # a => at'[v] = at[v]
    BY <1>a, <2>1, <2>2, OneMoves, Zenon DEF TokenInv
  <2>4. \A v \in Actors : at'[v] = "fill" => at[v] = "fill"
    BY <2>3, SMT
  <2>5. \A b \in Admins : /\ at[b] = "set" <=> at'[b] = "set"
                          /\ at'[b] \in {"recount", "save"} =>
                                at[b] \in {"recount", "save"} \/ TokenOf[b] = TokenOf[a]
    BY <2>1, <2>3, TokenKeys, SMT
  <2> QED BY <1>a, <2>1, <2>4, <2>5, UncachingKeeps, Zenon
<1>3. CASE ClearCount(a)
  <2>1. /\ at[a] \in {"recount", "restart"} /\ at' = [at EXCEPT ![a] = AfterCommand(a)]
        /\ UNCHANGED <<rows, cacheVars>> /\ rate' = rate
    BY <1>3, Zenon DEF ClearCount, Goto, storeVars
  <2>2. AfterCommand(a) \in {"save", "over"} /\ (AfterCommand(a) = "save" => at[a] = "recount")
    BY <2>1, SMT DEF AfterCommand
  <2>3. /\ at[a] # "set" /\ AfterCommand(a) # "fill" /\ AfterCommand(a) # "set"
        /\ AfterCommand(a) \in {"recount", "save"} => at[a] \in {"recount", "save"}
    BY <2>1, <2>2, SMT
  <2>4. Quiet
    BY <1>a, <2>1, <2>3, QuietMove, Zenon
  <2> QED BY <2>4, QuietKeeps
<1>4. CASE SaveRow(a)
  BY <1>4, SaveRowFresh
<1>5. CASE SaveFails(a) \/ GetFails(a)
  <2>1. /\ at[a] \in {"look", "row", "save"} /\ at' = [at EXCEPT ![a] = "over"]
        /\ UNCHANGED <<rows, cacheVars>> /\ rate' = rate
    BY <1>5, SMT DEF SaveFails, GetFails, Goto, storeVars
  <2>2. at[a] # "set" /\ "over" # "fill" /\ "over" # "set" /\ "over" \notin {"recount", "save"}
    BY <2>1, SMT
  <2>3. Quiet
    BY <1>a, <2>1, <2>2, QuietMove, Zenon
  <2> QED BY <2>3, QuietKeeps
<1>6. CASE SetCache(a)
  <2>1. /\ at[a] = "set" /\ at' = [at EXCEPT ![a] = AfterCommand(a)]
        /\ CacheToken(a, Task[a].rate) /\ rows' = rows /\ rate' = rate
    BY <1>6, Zenon DEF SetCache, Goto
  <2>2. Len(rows[TokenOf[a]]) <= 1 \/ Len(rows[TokenOf[a]]) > 1
    <3>1. Len(rows[TokenOf[a]]) \in Nat
      BY <1>a, SMT DEF TokenInv, TokenTypes
    <3> QED BY <3>1, SMT
  <2>3. a \in behind \/ Len(rows[TokenOf[a]]) > 1 \/ rows[TokenOf[a]] = <<Task[a].rate>>
    BY <2>1, <2>2, Zenon DEF Fresh
  <2>4. AfterCommand(a) \notin {"fill", "set"} /\ AfterCommand(a) \notin {"recount", "save"}
    BY <2>1, SMT DEF AfterCommand
  <2> QED BY <1>a, <2>1, <2>3, <2>4, CachingKeeps, Zenon
<1>7. CASE CommandFails(a)
  <2>1. /\ at[a] \in {"clear", "recount", "set", "restart"}
        /\ at' = [at EXCEPT ![a] = AfterCommand(a)] /\ behind' = behind \ {a}
        /\ outdated' = IF at[a] \in {"clear", "set"} THEN outdated \cup {TokenOf[a]} ELSE outdated
        /\ rows' = rows /\ cached' = cached /\ rate' = rate
    BY <1>7, Zenon DEF CommandFails, Goto
  <2>2. CASE at[a] \in {"clear", "set"}
    <3>1. outdated' = outdated \cup {TokenOf[a]}
      BY <2>1, <2>2, Zenon
    <3>2. AfterCommand(a) \notin {"fill", "set"}
      BY <2>1, SMT DEF AfterCommand
    <3> QED BY <1>a, <2>1, <3>1, <3>2, LosingKeeps, Zenon
  <2>3. CASE at[a] \in {"recount", "restart"}
    <3>1. AfterCommand(a) \in {"save", "over"} /\ (AfterCommand(a) = "save" => at[a] = "recount")
      BY <2>3, SMT DEF AfterCommand
    <3>2. outdated' = outdated
      BY <2>1, <2>3, SMT
    <3>3. /\ at[a] # "set" /\ AfterCommand(a) \notin {"fill", "set"}
          /\ AfterCommand(a) \in {"recount", "save"} => at[a] \in {"recount", "save"}
      BY <2>3, <3>1, SMT
    <3> QED BY <1>a, <2>1, <3>2, <3>3, LeavingKeeps, Zenon
  <2> QED BY <2>1, <2>2, <2>3, SMT
<1> QED BY <1>1, <1>2, <1>3, <1>4, <1>5, <1>6, <1>7 DEF AdminStep

\* Every step keeps it.
LEMMA FreshKeeps == IInv /\ Fresh /\ [Next]_vars => Fresh'
<1> SUFFICES ASSUME IInv, Fresh, [Next]_vars
             PROVE  Fresh'
  OBVIOUS
<1> USE DEF IInv
<1>0. \A r \in Requests : r \in Actors /\ r \notin Admins
  BY TokenKeys, Zenon
<1>1. ASSUME NEW r \in Requests, TokenStep(r)
      PROVE  Fresh'
  <2>1. CASE GetRate(r)
    <3>1. GetStep(r) /\ (at[r] = "row" => rows[TokenOf[r]] # <<>>)
      BY <2>1, Zenon DEF GetRate
    <3> QED BY <1>0, <3>1, LookUpFresh, Zenon
  <2>2. CASE Arrive(r) \/ Refuse(r) \/ LetIn(r)
    <3>1. UNCHANGED <<rows, cacheVars>> /\ rate' = rate
      BY <2>2, Zenon DEF Arrive, Refuse, LetIn, Allow, storeVars
    <3>2. PICK s \in {"return", "look", "serve"} : at' = [at EXCEPT ![r] = s]
      BY <2>2, SMT DEF Arrive, Refuse, LetIn, Goto
    <3>3. s # "fill"
      BY <3>2, SMT
    <3>4. Quiet
      BY <1>0, <3>1, <3>2, <3>3, QuietMove, Zenon
    <3> QED BY <3>4, QuietKeeps
  <2> QED BY <1>1, <2>1, <2>2 DEF TokenStep
<1>2. ASSUME NEW r \in Requests, ServeStep(r)
      PROVE  Fresh'
  <2>1. UNCHANGED <<rows, cacheVars>> /\ rate' = rate
    BY <1>2, Zenon DEF ServeStep, storeVars
  <2>2. PICK s \in {"log", "return", "wait", "over"} : at' = [at EXCEPT ![r] = s]
    BY <1>2, SMT DEF ServeStep, Serve, LogSingle, StartBatch, Finish, TimeOut, Return, Goto
  <2>3. s # "fill"
    BY <2>2, SMT
  <2>4. Quiet
    BY <1>0, <2>1, <2>2, <2>3, QuietMove, Zenon
  <2> QED BY <2>4, QuietKeeps
<1>3. ASSUME NEW r \in Requests, GoroutineStep(r) \/ (Panic(r) /\ UNCHANGED tokenVars)
      PROVE  Fresh'
  <2>1. UNCHANGED <<rows, cacheVars>> /\ rate' = rate /\ at' = at
    BY <1>3, SMT DEF GoroutineStep, Parse, Ask, Responded, LogBatch, tokenVars, storeVars, cacheVars
  <2>2. Quiet
    BY <2>1, NobodyMoves, Zenon
  <2> QED BY <2>2, QuietKeeps
<1>4. CASE Others
  <2>1. ASSUME NEW a \in Admins, GetStep(a) \/ GetFails(a) \/ AdminStep(a)
        PROVE  Fresh'
    <3>1. a \in Actors
      BY TokenKeys, Zenon
    <3> QED BY <2>1, <3>1, LookUpFresh, AdminStepFresh, Zenon
  <2>2. ASSUME NEW t \in Tokens, ExpireToken(t)
        PROVE  Fresh'
    <3>1. /\ cached' = [cached EXCEPT ![t] = None] /\ outdated' = outdated \ {t}
          /\ behind' = behind /\ rows' = rows /\ rate' = rate /\ at' = at
      BY <2>2, Zenon DEF ExpireToken
    <3> QED BY <3>1, UncachingKeeps, Zenon
  <2>3. CASE Tick
    <3>1. UNCHANGED <<rows, cacheVars>> /\ rate' = rate /\ at' = at
      BY <2>3, Zenon DEF Tick, storeVars
    <3>2. Quiet
      BY <3>1, NobodyMoves, Zenon
    <3> QED BY <3>2, QuietKeeps
  <2> QED BY <1>4, <2>1, <2>2, <2>3 DEF Others
<1>5. CASE UNCHANGED vars
  <2>1. UNCHANGED <<rows, cacheVars>> /\ rate' = rate /\ at' = at
    BY <1>5, Zenon DEF vars, tokenVars, storeVars
  <2>2. Quiet
    BY <2>1, NobodyMoves, Zenon
  <2> QED BY <2>2, QuietKeeps
<1> QED BY <1>1, <1>2, <1>3, <1>4, <1>5 DEF Next

\* A cached rate is that of the row unless its history explains it
\* (AppTokens!CachedIsCurrent, app_token_repository.go:42-49, 91-101, 109-112).
THEOREM CachedIsCurrentCorrect == Spec => []CachedIsCurrent
<1>1. Init => Fresh
  BY FreshInit
<1>2. Fresh => CachedIsCurrent
  BY DEF Fresh
<1> QED BY <1>1, <1>2, FreshKeeps, Invariance, PTL DEF Spec
=============================================================================
