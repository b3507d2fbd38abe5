------------------------------- MODULE MCMutex ------------------------------
(* app/mutex.c with a third task: no idle task, preemptive mode.            *)
EXTENDS Mutex

CONSTANTS a, b, c

NoCredits == [t \in Tcb |-> 1]
ABC == <<a, b, c>>
=============================================================================
