------------------------- MODULE MCHistoricalQueue -------------------------
(***************************************************************************)
(* Instances of HistoricalQueue for TLC.                                   *)
(***************************************************************************)
EXTENDS HistoricalQueue, TLC

CONSTANTS s1, s2, t1, l1, d1, d2, x, y

\* s1 saves the first day twice in one call, then the second; s2 the first.
TwoSaves ==
    LET Price(d, p) == [day |-> d, price |-> p] IN
    [s \in Savers |-> IF s = s1 THEN <<Price(d1, y), Price(d1, x), Price(d2, x)>>
                      ELSE <<Price(d1, y)>>]

OldRows == [d \in Days |-> y]
=============================================================================
