---------------------------- MODULE PriceHandlers ----------------------------
(***************************************************************************)
(* What happens to a request for prices: the middleware of the rate limit  *)
(* (price/middleware/rate_limit_middleware.go), the handlers               *)
(* (price/controller/price_controller.go), the log of the request, and the *)
(* server that sends the response.  A batch is handled by a goroutine that *)
(* the handler waits for, three minutes at most.  The goroutine goes on    *)
(* after that, and writes to a context that the server uses for the next   *)
(* request of the connection.                                              *)
(***************************************************************************)
EXTENDS AppTokens

CONSTANTS
    Kind,     \* Kind[r]: the handler that request r is for
    ConnOf,   \* ConnOf[r]: its connection
    KeyFree   \* the empty token is let in (AllowApiKeyNil)

Kinds == {"single", "batch", "list", "preflight", "undated"}
Conns == {ConnOf[r] : r \in Requests}

ASSUME KindAssumption ==
    /\ Kind \in [Requests -> Kinds] /\ KeyFree \in BOOLEAN
    /\ DOMAIN ConnOf = Requests

VARIABLES
    fn,      \* [request]: where the goroutine of a batch is
    body,    \* [connection]: the response of its context
    sent,    \* [request]: what the client was sent
    logged,  \* the log: pairs of a request and the body it was logged with
    late,    \* history: the batches that have timed out
    up       \* the process has not died

handlerVars == <<fn, body, sent, logged, late, up>>
vars == <<tokenVars, handlerVars>>

Empty == [is |-> "empty"]
Answer(r) == [is |-> "answer", of |-> r]
Failure(r) == [is |-> "error", of |-> r]
TimedOut(r) == [is |-> "timeout", of |-> r]
Refusal(r) == [is |-> "refusal", of |-> r]

InMiddleware == GetStages \cup {"limit"}
Stages == {"new", "clear", "recount", "save", "set", "restart", "over", "serve", "wait",
           "log", "return"}
          \cup InMiddleware
FnStages == {"none", "parse", "ask", "respond", "log", "drop", "done", "failed", "ended"}

Init ==
    /\ InitTokens
    /\ fn = [r \in Requests |-> "none"]
    /\ body = [k \in Conns |-> Empty]
    /\ sent = [r \in Requests |-> Empty]
    /\ logged = {} /\ late = {} /\ up = TRUE

Write(r, response) == body' = [body EXCEPT ![ConnOf[r]] = response]
FnGoto(r, stage) == fn' = [fn EXCEPT ![r] = stage]

-----------------------------------------------------------------------------
(* Planted bugs.                                                           *)

\* The handler does not wait for its goroutine.
MayReturn(r) == TRUE

\* The handler gives up only while the goroutine waits for the service.
DeadlineReached(r) == fn[r] \notin {"parse", "ask"}

\* The goroutine logs before it has written the response.
RespondedLater(r) ==
    /\ fn[r] = "respond"
    /\ logged' = logged \cup {<<r, body[ConnOf[r]]>>}
    /\ Write(r, Answer(r)) /\ FnGoto(r, "done")
    /\ UNCHANGED <<at, sent, late>>

-----------------------------------------------------------------------------
(* The middleware.                                                         *)

\* A preflight is answered, and a request without a key may be refused, at once.
Arrive(r) ==
    /\ at[r] = "new"
    /\ \A q \in Requests : ConnOf[q] = ConnOf[r] => at[q] \in {"new", "over"}
    /\ IF Kind[r] = "preflight" \/ (TokenOf[r] = Anonymous /\ ~KeyFree)
       THEN Goto(r, "return") /\ Write(r, Refusal(r))
       ELSE Goto(r, "look") /\ UNCHANGED body
    /\ UNCHANGED <<storeVars, limitVars, rate, errors, fn, sent, logged, late>>

\* Refused with 429, or with 500 when the token cannot be read.
Refuse(r) ==
    /\ \/ at[r] = "limit" /\ ~IsAllowed(r) /\ UNCHANGED errors
       \/ at[r] = "limit" /\ Error
       \/ at[r] = "row" /\ rows[TokenOf[r]] = <<>> /\ UNCHANGED errors
       \/ at[r] \in {"look", "row"} /\ Error
    /\ Goto(r, "return") /\ Write(r, Refusal(r))
    /\ UNCHANGED <<storeVars, limitVars, rate, fn, sent, logged, late>>

GetRate(r) ==
    /\ at[r] = "row" => rows[TokenOf[r]] # <<>>
    /\ GetStep(r)
    /\ UNCHANGED <<fn, body, sent, logged, late>>

LetIn(r) ==
    /\ at[r] = "limit" /\ Allow(r)
    /\ Goto(r, "serve")
    /\ UNCHANGED <<fn, body, sent, logged, late>>

-----------------------------------------------------------------------------
(* GetPrice and GetHistoricalPrice; GetCoinList and SyncCoins.             *)

\* The parameters are refused, or the service answers.
Serve(r) ==
    /\ at[r] = "serve" /\ Kind[r] \in {"single", "list"}
    /\ \E response \in {Answer(r), Failure(r)} : Write(r, response)
    /\ Goto(r, IF Kind[r] = "single" THEN "log" ELSE "return")
    /\ UNCHANGED <<fn, sent, logged, late>>

\* The deferred log follows the response.
LogSingle(r) ==
    /\ at[r] = "log"
    /\ logged' = logged \cup {<<r, body[ConnOf[r]]>>}
    /\ Goto(r, "return")
    /\ UNCHANGED <<fn, body, sent, late>>

-----------------------------------------------------------------------------
(* GetBatchPrice and GetBatchHistoricalPrice, under withTimeout.           *)

StartBatch(r) ==
    /\ at[r] = "serve" /\ Kind[r] \in {"batch", "undated"}
    /\ Goto(r, "wait") /\ FnGoto(r, "parse")
    /\ UNCHANGED <<body, sent, logged, late>>

Parse(r) ==
    /\ fn[r] = "parse"
    /\ \E next \in {"ask", "drop"} : FnGoto(r, next)
    /\ UNCHANGED <<at, body, sent, logged, late>>

\* GetBatchPrice may give up at the deadline of the context.
Ask(r) ==
    /\ fn[r] = "ask" /\ Kind[r] = "batch"
    /\ \E next \in {"respond", "drop"} : FnGoto(r, next)
    /\ UNCHANGED <<at, body, sent, logged, late>>

\* A GET of historical prices leaves the dates of the service nil, which it indexes:
\* the process dies.
Panic(r) ==
    /\ fn[r] = "ask" /\ Kind[r] = "undated"
    /\ up' = FALSE
    /\ UNCHANGED <<at, fn, body, sent, logged, late>>

Responded(r) ==
    /\ fn[r] = "respond"
    /\ Write(r, Answer(r)) /\ FnGoto(r, "log")
    /\ UNCHANGED <<at, sent, logged, late>>

\* The deferred log precedes the response to an error.
LogBatch(r) ==
    /\ fn[r] \in {"log", "drop"}
    /\ logged' = logged \cup {<<r, body[ConnOf[r]]>>}
    /\ FnGoto(r, IF fn[r] = "log" THEN "done" ELSE "failed")
    /\ UNCHANGED <<at, body, sent, late>>

IsOver(r) == fn[r] \in {"done", "failed"}

Finish(r) ==
    /\ at[r] = "wait" /\ IsOver(r)
    /\ IF fn[r] = "failed" THEN Write(r, Failure(r)) ELSE UNCHANGED body
    /\ Goto(r, "return")
    /\ UNCHANGED <<fn, sent, logged, late>>

IsOverdue(r) == TRUE

TimeOut(r) ==
    /\ at[r] = "wait" /\ IsOverdue(r)
    /\ Write(r, TimedOut(r)) /\ late' = late \cup {r}
    /\ Goto(r, "return")
    /\ UNCHANGED <<fn, sent, logged>>

-----------------------------------------------------------------------------
\* The server sends the response of the context and resets it.
Return(r) ==
    /\ at[r] = "return"
    /\ sent' = [sent EXCEPT ![r] = body[ConnOf[r]]]
    /\ Write(r, Empty)
    /\ Goto(r, "over")
    /\ UNCHANGED <<fn, logged, late>>

TokenStep(r) == Arrive(r) \/ Refuse(r) \/ GetRate(r) \/ LetIn(r)

ServeStep(r) ==
    /\ Serve(r) \/ LogSingle(r) \/ StartBatch(r) \/ Finish(r) \/ TimeOut(r) \/ Return(r)
    /\ UNCHANGED <<storeVars, limitVars, rate, errors>>

GoroutineStep(r) ==
    /\ Parse(r) \/ Ask(r) \/ Responded(r) \/ LogBatch(r)
    /\ UNCHANGED <<storeVars, limitVars, rate, errors>>

\* The tokens are in Redis and in Postgres, and outlive the process.
Others ==
    /\ \/ \E a \in Admins : up /\ (GetStep(a) \/ GetFails(a) \/ AdminStep(a))
       \/ \E t \in Tokens : ExpireToken(t)
       \/ Tick
    /\ UNCHANGED handlerVars

Next ==
    \/ \E r \in Requests :
          \/ up /\ (TokenStep(r) \/ ServeStep(r) \/ GoroutineStep(r)) /\ UNCHANGED up
          \/ up /\ Panic(r) /\ UNCHANGED tokenVars
    \/ Others

Spec == Init /\ [][Next]_vars

\* The handlers go on while the process is up, with the deadline of a batch at the
\* latest (each has so few steps that one condition does for all).  Nothing is assumed
\* of the goroutine of a batch, which waits for the price service.
FairSpec ==
    /\ Spec
    /\ WF_vars(\E r \in Requests : up /\ (TokenStep(r) \/ ServeStep(r)) /\ UNCHANGED up)

-----------------------------------------------------------------------------
Bodies == {Empty} \cup UNION {{Answer(r), Failure(r), TimedOut(r), Refusal(r)} : r \in Requests}

\* Every variable keeps its type.
TypeOK ==
    /\ TokenTypes
    /\ at \in [Actors -> Stages]
    /\ fn \in [Requests -> FnStages]
    /\ body \in [Conns -> Bodies] /\ sent \in [Requests -> Bodies]
    /\ logged \subseteq Requests \X Bodies
    /\ late \subseteq Requests /\ up \in BOOLEAN

\* A client is sent the prices of another request only if that one has timed out on
\* the same connection before: its goroutine was still at work (69-90).
OwnAnswers ==
    \A r, q \in Requests : sent[r] = Answer(q) => r = q \/ (q \in late /\ ConnOf[q] = ConnOf[r])

\* The prices a client is sent are in the log of its request
\* (price_controller.go:119-140, 362-382), unless a batch has timed out.
AnswersAreLogged ==
    \A r \in Requests : sent[r] = Answer(r) /\ Kind[r] # "list" /\ late = {} =>
        <<r, Answer(r)>> \in logged

\* A batch that has arrived is answered, however long the price service takes
\* (69-90), unless the process dies.
BatchesEnd ==
    \A r \in {q \in Requests : Kind[q] = "batch"} :
        at[r] \notin {"new", "over"} ~> (at[r] = "over" \/ ~up)
=============================================================================
