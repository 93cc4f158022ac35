--------------------------- MODULE MCDataSources ---------------------------
(***************************************************************************)
(* An instance of DataSources for TLC.                                     *)
(***************************************************************************)
EXTENDS DataSources, TLC

CONSTANTS j1, j2, c1, c2, c3

Job(source, day, coins, batch, fresh) ==
    [source |-> source, day |-> day, coins |-> coins, batch |-> batch, fresh |-> fresh]
Batch(source, day) == Job(source, day, {c1, c2}, TRUE, FALSE)
One(source, day, fresh) == Job(source, day, {c1}, FALSE, fresh)

\* A batch of two coins next to a call for the first of them; or of one that has no
\* row.  The last is a batch of DefiLlama's whose first coin the other call may cache.  DefiLlama does not know the chain of the second coin.
SomePlans ==
    {j1 :> Batch(s, Now) @@ j2 :> One("defillama", Now, TRUE) : s \in SourceNames} \cup
    {j1 :> Batch(s, d) @@ j2 :> One("geckoterminal", 1, FALSE) :
        <<s, d>> \in {<<"coingecko", 1>>, <<"coingecko", 2>>, <<"geckoterminal", 2>>}} \cup
    {j1 :> Batch(s, 1) @@ j2 :> One("geckoterminal", Now, TRUE) : s \in {"onchain", "defillama"}} \cup
    {j1 :> Job(s, Now, {c1, c3}, TRUE, TRUE) @@ j2 :> One("geckoterminal", Today, FALSE) :
        s \in {"defillama", "dodoex"}} \cup
    {j1 :> Job("defillama", Now, {c1, c3}, TRUE, FALSE) @@ j2 :> One("defillama", Now, TRUE)}
=============================================================================
