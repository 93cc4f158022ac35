-------------------------- MODULE MCPriceCoalescer --------------------------
(***************************************************************************)
(* Instances of PriceCoalescer for TLC.                                    *)
(***************************************************************************)
EXTENDS PriceCoalescer, TLC

CONSTANTS p1, p2, r1, r2, k1, k2, c1, c2, v1, h1, h2

OneCoin  == [k \in Keys |-> c1]
TwoCoins == k1 :> c1 @@ k2 :> c2

\* Everything in one process, or r1 in the one and r2 in the other.
OnePod   == [r \in Requests |-> p1]
OneSlot  == [h \in Handlers |-> p1]
TwoPods  == r1 :> p1 @@ r2 :> p2
TwoSlots == h1 :> p1 @@ h2 :> p2

\* Two calls for the same key; a GetPrice and a GetBatchPrice that share a key;
\* a GetBatchPrice of two keys.
Singles        == r1 :> <<k1>> @@ r2 :> <<k1>>
SingleAndBatch == r1 :> <<k1>> @@ r2 :> <<k1, k2>>
BatchAlone     == r2 :> <<k1, k2>>

\* The two processes of TwoPods are alike: they change places together with
\* their calls and goroutines.
Alike ==
    {f \in Permutations({p1, p2, r1, r2, h1, h2}) :
        /\ {f[p1], f[p2]} = Pods /\ {f[r1], f[r2]} = Requests
        /\ \A r \in Requests : f[PodOf[r]] = PodOf[f[r]]
        /\ \A h \in Handlers : f[SlotPod[h]] = SlotPod[f[h]]}

=============================================================================
