---------------------------- MODULE PriceAnswers ----------------------------
(***************************************************************************)
(* What the price service promises to its callers, without any of the      *)
(* coalescing machinery.  A caller opens a request for a list of tokens.   *)
(* Meanwhile the data sources quote prices.  Every open request ends in    *)
(* exactly one of three ways: it is answered once, token by token, with a  *)
(* price some source has quoted for that very token or with "no price"; it *)
(* is refused with an error; or it is abandoned because the process        *)
(* serving it died.  An ended request never changes again.                 *)
(***************************************************************************)
CONSTANTS Requests,   \* one element per call of GetPrice or GetBatchPrice
          Coins,      \* chain id and lower-case address of a token
          Prices,     \* the prices a source may quote
          Asks,       \* Asks[r]: the sequence of coins request r asks for
          NoPrice,    \* the nil price
          Absent      \* the empty price

VARIABLES status,     \* "new", "open", "answered", "refused" or "abandoned"
          reply,      \* reply[r][i]: the price answered for the i-th coin
          quoted      \* the pairs <<coin, price>> some source has quoted

vars == <<status, reply, quoted>>

Replies(r) == [DOMAIN Asks[r] -> Prices \cup {NoPrice, Absent}]

Init == /\ status = [r \in Requests |-> "new"]
        /\ reply \in [Requests -> {<<>>}]
        /\ quoted = {}

\* The sources quote some prices.
Quote(Q) == /\ quoted' = quoted \cup Q
            /\ UNCHANGED <<status, reply>>

Open(r) == /\ status[r] = "new"
           /\ status' = [status EXCEPT ![r] = "open"]
           /\ UNCHANGED <<reply, quoted>>

\* A request is answered from quoted prices only.  A request served from the
\* cache is answered as soon as it is made, so it may never be seen open.
Answer(r) ==
    /\ status[r] \in {"new", "open"}
    /\ status' = [status EXCEPT ![r] = "answered"]
    /\ \E a \in Replies(r) :
          /\ \A i \in DOMAIN Asks[r] :
                a[i] \in Prices => <<Asks[r][i], a[i]>> \in quoted
          /\ reply' = [reply EXCEPT ![r] = a]
    /\ UNCHANGED quoted

Refuse(r) == /\ status[r] = "open"
             /\ status' = [status EXCEPT ![r] = "refused"]
             /\ UNCHANGED <<reply, quoted>>

\* A process dies with everything it was serving.
Abandon(R) == /\ \A r \in R : status[r] = "open"
              /\ status' = [r \in Requests |->
                               IF r \in R THEN "abandoned" ELSE status[r]]
              /\ UNCHANGED <<reply, quoted>>

Next == \/ \E Q \in SUBSET (Coins \X Prices) : Quote(Q)
        \/ \E r \in Requests : Open(r) \/ Answer(r) \/ Refuse(r)
        \/ \E R \in SUBSET Requests : Abandon(R)

Spec == Init /\ [][Next]_vars
=============================================================================
