----------------------------- MODULE AppTokens -----------------------------
(***************************************************************************)
(* The application tokens (price/repository/app_token_repository.go) and   *)
(* the rate limiter (price/service/rate_limiter_service.go).  A token is a *)
(* row of Postgres with a rate, cached in Redis.  A request reads the rate *)
(* through the cache and runs one Lua script, which counts it under a key  *)
(* that ends a second after the last request it has let in.  The services  *)
(* and controllers of the tokens hand the calls on.                        *)
(***************************************************************************)
EXTENDS Naturals, Sequences, FiniteSets

CONSTANTS
    Requests,
    Admins,       \* calls that add, update or delete a token, and look-ups
    Tokens,
    Anonymous,    \* the empty token
    DefaultRate,  \* AllowApiKeyNilRateLimiter
    TokenOf,      \* TokenOf[w]: the token of a request or a call
    Task,         \* Task[a]: what the call a does
    Casts,        \* sets of requests and calls that come together
    Scale,        \* a rate is a float64: r stands for r / Scale a second
    Rates,        \* the rates there are; one below zero does what zero does
    InitRates,    \* the row each token starts with
    None,         \* no rate: nothing cached
    Second,       \* the ticks of a second
    MaxErrors     \* bound on the errors of Redis and Postgres

Actors == Requests \cup Admins

ASSUME TokenAssumption ==
    /\ Requests \cap Admins = {} /\ Anonymous \notin Tokens
    /\ TokenOf \in [Actors -> Tokens \cup {Anonymous}]
    /\ \A a \in Admins : TokenOf[a] \in Tokens
    /\ Task \in [Admins -> [op : {"add", "update", "insert"}, rate : Rates]
                           \cup [op : {"get", "delete"}]]
    /\ Casts \subseteq SUBSET Actors
    /\ Scale \in Nat \ {0} /\ Rates \subseteq Nat /\ DefaultRate \in Nat /\ None \notin Nat
    /\ InitRates \in [Tokens -> Rates]
    /\ Second \in Nat \ {0} /\ MaxErrors \in Nat

VARIABLES
    rows,     \* [token]: the rates of its rows that are not deleted, oldest first
    cached,   \* [token]: the cached rate, or None
    used,     \* [token]: the count of its rate_limit key; 0 without a key
    ttl,      \* [token]: the ticks until that key ends
    at,       \* [actor]: where it is; "over" for one that never comes
    rate,     \* [actor]: the rate it has read
    since,    \* history: [request]: the ticks of the second since it was let in, from
              \* 1 on; 0 before and after that
    granted,  \* history: [token]: the rates it has ever had
    reset,    \* history: the tokens whose rate_limit key an update or deletion removed
    behind,   \* history: actors about to cache what has been changed since they had it
    outdated, \* history: tokens last cached by one of those, in the middle of a
              \* deletion, or with a command lost
    errors

cacheVars == <<cached, behind, outdated>>
storeVars == <<rows, granted, cacheVars>>
limitVars == <<used, ttl, since, reset>>
tokenVars == <<storeVars, limitVars, at, rate, errors>>

Keys == Tokens \cup {Anonymous}
GetStages == {"look", "row", "fill"}

Goto(w, stage) == at' = [at EXCEPT ![w] = stage]
Error == errors < MaxErrors /\ errors' = errors + 1

InitTokens ==
    /\ rows = [t \in Tokens |-> <<InitRates[t]>>]
    /\ cached = [t \in Tokens |-> None]
    /\ granted = [t \in Keys |-> {IF t = Anonymous THEN DefaultRate ELSE InitRates[t]}]
    /\ used = [t \in Keys |-> 0] /\ ttl = [t \in Keys |-> 0]
    /\ since = [r \in Requests |-> 0]
    /\ reset = {} /\ behind = {} /\ outdated = {} /\ errors = 0
    /\ \E cast \in Casts : at = [w \in Actors |-> IF w \in cast THEN "new" ELSE "over"]
    /\ rate = [w \in Actors |-> None]

AfterGet(w) ==
    IF w \in Requests THEN "limit"
    ELSE IF Task[w].op \in {"update", "insert"} THEN "clear" ELSE "over"

\* After a command of a call to Redis.
AfterCommand(a) ==
    CASE at[a] = "clear" -> "recount"
      [] at[a] = "recount" -> "save"
      [] at[a] = "set" -> IF Task[a].op = "add" THEN "over" ELSE "restart"
      [] at[a] = "restart" -> "over"

-----------------------------------------------------------------------------
(* Planted bugs.  Each operator below is a wrong variant of the definition *)
(* of the same parameters it is paired with in PROJECT.json; no action uses *)
(* them.                                                                   *)

\* The key gets its time to live with the first request only: a window that does
\* not slide.
FixedWindow(t) == IF used[t] = 0 THEN Second ELSE ttl[t]

\* An update leaves the cache to the next look-up.
SetNothing(a) ==
    /\ at[a] = "set"
    /\ Goto(a, AfterCommand(a))
    /\ UNCHANGED <<storeVars, limitVars, rate, errors>>

-----------------------------------------------------------------------------
(* GetAppTokenByToken.                                                     *)

LookInCache(w) ==
    LET t == TokenOf[w] IN
    /\ at[w] = "look"
    /\ IF t = Anonymous
       THEN rate' = [rate EXCEPT ![w] = DefaultRate] /\ Goto(w, "limit")
       ELSE /\ rate' = [rate EXCEPT ![w] = cached[t]]
            /\ Goto(w, IF cached[t] = None THEN "row" ELSE AfterGet(w))
    /\ UNCHANGED <<storeVars, limitVars, errors>>

\* The oldest row.  Without a row the call fails.
ReadRow(w) ==
    LET t == TokenOf[w] IN
    /\ at[w] = "row"
    /\ IF rows[t] = <<>> THEN Goto(w, "over") /\ UNCHANGED rate
       ELSE Goto(w, "fill") /\ rate' = [rate EXCEPT ![w] = Head(rows[t])]
    /\ UNCHANGED <<storeVars, limitVars, errors>>

\* w sets the cached token.
CacheToken(w, value) ==
    LET t == TokenOf[w]
        deleted == \E a \in Admins : /\ TokenOf[a] = t /\ Task[a].op = "delete"
                                    /\ at[a] \in {"recount", "save"} IN
    /\ cached' = [cached EXCEPT ![t] = value]
    /\ outdated' = IF w \in behind \/ deleted THEN outdated \cup {t} ELSE outdated \ {t}
    /\ behind' = behind \ {w}

FillCache(w) ==
    /\ at[w] = "fill"
    /\ CacheToken(w, rate[w])
    /\ Goto(w, AfterGet(w))
    /\ UNCHANGED <<rows, granted, limitVars, rate, errors>>

\* A failing SET is ignored.
FillFails(w) ==
    /\ at[w] = "fill" /\ Error
    /\ behind' = behind \ {w}
    /\ Goto(w, AfterGet(w))
    /\ UNCHANGED <<rows, granted, cached, outdated, limitVars, rate>>

GetFails(w) ==
    /\ at[w] \in {"look", "row"} /\ Error
    /\ Goto(w, "over")
    /\ UNCHANGED <<storeVars, limitVars, rate>>

-----------------------------------------------------------------------------
(* AddAppToken, UpdateAppToken and DeleteAppToken.                         *)

StartCall(a) ==
    /\ at[a] = "new"
    /\ Goto(a, CASE Task[a].op = "add" -> "save" [] Task[a].op = "delete" -> "clear"
                 [] OTHER -> "look")
    /\ UNCHANGED <<storeVars, limitVars, rate, errors>>

\* The cached token and its count are deleted before the table is changed.
ClearCache(a) ==
    /\ at[a] = "clear"
    /\ cached' = [cached EXCEPT ![TokenOf[a]] = None]
    /\ outdated' = outdated \ {TokenOf[a]}
    /\ Goto(a, AfterCommand(a))
    /\ UNCHANGED <<rows, granted, behind, limitVars, rate, errors>>

\* An update deletes the count again at its end.
ClearCount(a) ==
    LET t == TokenOf[a] IN
    /\ at[a] \in {"recount", "restart"}
    /\ used' = [used EXCEPT ![t] = 0] /\ ttl' = [ttl EXCEPT ![t] = 0]
    /\ reset' = reset \cup {t}
    /\ Goto(a, AfterCommand(a))
    /\ UNCHANGED <<storeVars, since, rate, errors>>

\* An added token is a row of its own, also if it has one; so is an updated one
\* that comes without the id of its row.
Saved(a) ==
    LET t == TokenOf[a]
        op == Task[a].op IN
    IF op = "delete" THEN <<>>
    ELSE IF op = "update" /\ rows[t] # <<>> THEN <<Task[a].rate>> \o Tail(rows[t])
    ELSE Append(rows[t], Task[a].rate)

SaveRow(a) ==
    LET t == TokenOf[a] IN
    /\ at[a] = "save"
    /\ rows' = [rows EXCEPT ![t] = Saved(a)]
    /\ granted' = IF Task[a].op = "delete" THEN granted
                  ELSE [granted EXCEPT ![t] = @ \cup {Task[a].rate}]
    /\ behind' = behind \cup {w \in Actors \ {a} : TokenOf[w] = t /\ at[w] \in {"fill", "set"}}
    /\ Goto(a, IF Task[a].op = "delete" THEN "over" ELSE "set")
    /\ UNCHANGED <<cached, outdated, limitVars, rate, errors>>

SaveFails(a) ==
    /\ at[a] = "save" /\ Error
    /\ Goto(a, "over")
    /\ UNCHANGED <<storeVars, limitVars, rate>>

\* The cache is set to what was written.
SetCache(a) ==
    /\ at[a] = "set"
    /\ CacheToken(a, Task[a].rate)
    /\ Goto(a, AfterCommand(a))
    /\ UNCHANGED <<rows, granted, limitVars, rate, errors>>

\* A failing DEL or SET of a call is ignored.
CommandFails(a) ==
    /\ at[a] \in {"clear", "recount", "set", "restart"} /\ Error
    /\ outdated' = IF at[a] \in {"clear", "set"} THEN outdated \cup {TokenOf[a]} ELSE outdated
    /\ behind' = behind \ {a}
    /\ Goto(a, AfterCommand(a))
    /\ UNCHANGED <<rows, granted, cached, limitVars, rate>>

\* After ten or thirty minutes.
ExpireToken(t) ==
    /\ cached[t] # None
    /\ cached' = [cached EXCEPT ![t] = None] /\ outdated' = outdated \ {t}
    /\ UNCHANGED <<rows, granted, behind, limitVars, at, rate, errors>>

AdminStep(a) ==
    \/ StartCall(a) \/ ClearCache(a) \/ ClearCount(a) \/ SaveRow(a) \/ SaveFails(a)
    \/ SetCache(a) \/ CommandFails(a)

GetStep(w) == LookInCache(w) \/ ReadRow(w) \/ FillCache(w) \/ FillFails(w)

-----------------------------------------------------------------------------
(* Allow: the Lua script, which Redis runs as one.                         *)

\* A key that is not there lets a request in whatever the rate is.
IsAllowed(r) == LET t == TokenOf[r] IN used[t] = 0 \/ Scale * used[t] < rate[r]

TimeToLive(t) == Second

Allow(r) ==
    LET t == TokenOf[r] IN
    /\ IsAllowed(r)
    /\ used' = [used EXCEPT ![t] = @ + 1]
    /\ ttl' = [ttl EXCEPT ![t] = TimeToLive(t)]
    /\ since' = [since EXCEPT ![r] = 1]
    /\ UNCHANGED <<storeVars, reset, rate, errors>>

\* Time passes, to where something depends on it.
Tick ==
    /\ \E t \in Keys : ttl[t] > 0
    /\ ttl' = [t \in Keys |-> IF ttl[t] > 0 THEN ttl[t] - 1 ELSE 0]
    /\ used' = [t \in Keys |-> IF ttl[t] > 1 THEN used[t] ELSE 0]
    /\ since' = [r \in Requests |-> IF since[r] \in 1..(Second - 1) THEN since[r] + 1 ELSE 0]
    /\ UNCHANGED <<storeVars, reset, at, rate, errors>>

-----------------------------------------------------------------------------
\* The requests of a second.
LetInFor(t) == {r \in Requests : TokenOf[r] = t /\ since[r] # 0}

TokenTypes ==
    /\ rows \in [Tokens -> Seq(Rates)]
    /\ cached \in [Tokens -> Rates \cup {None}]
    /\ granted \in [Keys -> SUBSET (Rates \cup {DefaultRate})]
    /\ used \in [Keys -> Nat] /\ ttl \in [Keys -> 0..Second]
    /\ \A t \in Keys : used[t] = 0 <=> ttl[t] = 0
    /\ since \in [Requests -> 0..Second] /\ reset \subseteq Tokens
    /\ rate \in [Actors -> Rates \cup {DefaultRate, None}] /\ errors \in Nat
    /\ behind \subseteq Actors /\ outdated \subseteq Tokens

\* In no second, wherever it begins, are more requests let in for a token than the
\* highest rate it has had, rounded up, or one if the rate is zero; whichever requests
\* read their rate before others were counted (rate_limiter_service.go:40-52).  Unless
\* an update or a deletion of the token has started the count afresh
\* (app_token_repository.go:92, 102, 110).
WithinRate ==
    \A t \in Keys \ reset : \E limit \in granted[t] \cup {1} :
        Scale * Cardinality(LetInFor(t)) < limit + Scale

\* The cached rate of a token with one row at most is that of its row, once the call
\* that has changed the row has set the cache, and a deleted token is not cached.  A
\* wrong rate is left behind only by a call that had read or written the row before
\* another changed it, by a look-up between the two steps of a deletion, or by an
\* error of Redis, never by a look-up between the two steps of an update
\* (app_token_repository.go:42-49, 77-78, 91-101, 109-112).
CachedIsCurrent ==
    \A t \in Tokens \ outdated :
        /\ cached[t] # None /\ Len(rows[t]) <= 1
        /\ \A a \in Admins : TokenOf[a] = t => at[a] # "set"
        => rows[t] = <<cached[t]>>
=============================================================================
