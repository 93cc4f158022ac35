----------------------------- MODULE MCCoinQueue -----------------------------
(***************************************************************************)
(* Instances of CoinQueue for TLC.                                         *)
(***************************************************************************)
EXTENDS CoinQueue, TLC

CONSTANTS p1, p2, a1, a2, e1, t1, t2, f1, c1, c2, v1, v2

\* Everything in one process, or a2 and t2 in a second one.
OnePod  == [w \in Workers |-> p1]
TwoPods == [w \in Workers |-> IF w \in {a2, t2} THEN p2 ELSE p1]

\* Both coins, or the first one only.
MixedCoins == [a \in Adders |-> IF a = a1 THEN {c1, c2} ELSE {c1}]
SameCoin  == [a \in Adders |-> {c1}]
BothCoins == [a \in Adders |-> {c1, c2}]

\* The first coin has a column, the second one has none until e1 writes it.
OneKnown == c1 :> v1 @@ c2 :> Nil
AllKnown == [c \in CoinIDs |-> v1]

EditFirst  == [e \in Editors |-> <<c1, v2>>]
EditSecond == [e \in Editors |-> <<c2, v2>>]
=============================================================================
