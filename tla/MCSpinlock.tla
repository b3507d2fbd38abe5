----------------------------- MODULE MCSpinlock -----------------------------
(* Three cores that acquire and release one lock in any order, nested and   *)
(* repeated calls included.                                                *)
EXTENDS Spinlock

CONSTANTS c0, c1, c2

Cores == {c0, c1, c2}
=============================================================================
