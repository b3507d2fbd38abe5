----------------------------- MODULE MCCritical -----------------------------
(* Instances of Critical: two cores of two tasks each, and one core of two  *)
(* tasks.                                                                  *)
EXTENDS Critical, TLC

CONSTANTS k0, k1, a, b, c, d

OneCore == {k0}
TwoCores == {k0, k1}
TwoTasks == k0 :> <<a, b>>
TwoEach == (k0 :> <<a, b>>) @@ (k1 :> <<c, d>>)
=============================================================================
