---------------------------- MODULE MCTaskQueue ----------------------------
(***************************************************************************)
(* Instances of TaskQueue for TLC.                                         *)
(***************************************************************************)
EXTENDS TaskQueue

CONSTANTS e1, e2, e3, w1, w2, t1, t2, c1, c2

\* Two notifications about the first coin, one about the second.
TwoAboutFirst == [e \in Callers |-> IF e = e3 THEN c2 ELSE c1]
=============================================================================
