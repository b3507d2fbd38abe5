------------------------------ MODULE MCKernel ------------------------------
(* Instances of Kernel: an idle task, an RT task that only yields, and      *)
(* application tasks, with room for one more control block.                 *)
EXTENDS SchedLoop

CONSTANTS idle, r, a, b, c

IdleFirst == <<idle, a, b>>
IdleLast == <<a, b, idle>>
WithRt == <<idle, r, a, b>>

(* The credits of an RT task, 3 to 5 in app/rtsched.c.                      *)
OneCredit == [t \in Tcb |-> 1]
TwoCredits == [t \in Tcb |-> 2]

(* What the application does: tasks that come and go, tasks that change     *)
(* priorities, tasks that only wait for time or for each other.            *)
LifeCalls == {"delay", "suspend", "resume", "spawn", "cancel"}
PriorityCalls == {"delay", "suspend", "resume", "priority", "rt_priority"}
WaitCalls == {"delay", "suspend", "resume"}
=============================================================================
