--------------------------- MODULE MCPriceSources ---------------------------
(***************************************************************************)
(* Instances of PriceSources for TLC.                                      *)
(***************************************************************************)
EXTENDS PriceSources

CONSTANTS r1, r2, k, a, u

\* r1 asks for an associated coin and an unknown one, r2 for a coin with a row and
\* the same unknown one.
TwoRequests == [r \in Requests |-> IF r = r1 THEN {a, u} ELSE {k, u}]

\* The coin a is associated with k.
AssociatedCoin == [c \in Coins |-> IF c = a THEN k ELSE c]

SomeRows == {[src |-> s[1], last |-> s[2]] :
    s \in {<<"defillama", "geckoterminal">>, <<"coinGeckoOnChain", "coingecko">>,
           <<None, "defillama">>}}
=============================================================================
