-------------------------- MODULE MCPriceHandlers --------------------------
(***************************************************************************)
(* An instance of PriceHandlers for TLC.                                   *)
(***************************************************************************)
EXTENDS PriceHandlers, TLC

CONSTANTS b1, u1, p1, s1, l1, l2, n1, n2, n3, n4, update, delete, add, insert, get, t1, k1, k2, k3, k4, k5, k6

\* A batch, a single request and a preflight on one connection; the list of coins
\* on others.
SomeKinds == b1 :> "batch" @@ s1 :> "single" @@ l1 :> "list" @@ l2 :> "list" @@ n1 :> "list"
             @@ n2 :> "list" @@ n3 :> "list" @@ n4 :> "list"
             @@ u1 :> "undated" @@ p1 :> "preflight"
SomeConns == b1 :> k1 @@ s1 :> k1 @@ p1 :> k1 @@ l1 :> k2 @@ l2 :> k3 @@ u1 :> k3
             @@ n1 :> k3 @@ n2 :> k4 @@ n3 :> k5 @@ n4 :> k6
SomeTokens == [w \in Actors |-> IF w \in {b1, p1, n1, n2, n3, n4} THEN Anonymous ELSE t1]
SomeTasks == update :> [op |-> "update", rate |-> 2] @@ add :> [op |-> "add", rate |-> 4]
             @@ insert :> [op |-> "insert", rate |-> 0]
             @@ delete :> [op |-> "delete"] @@ get :> [op |-> "get"]

\* Up to three requests are served, four are counted against the empty token, two
\* against a token that is changed meanwhile, and a look-up meets two changes.
SomeCasts == {{b1, s1, p1}, {b1, u1}, {n1, n2, n3, n4}} \cup
             {{l1, l2, a} : a \in {update, delete, add}} \cup
             {{get, a, b} : a \in {add, insert}, b \in {update, delete}}
\* One and a half.
FirstRates == [t \in Tokens |-> 3]
=============================================================================
