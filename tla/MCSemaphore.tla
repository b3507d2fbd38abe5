----------------------------- MODULE MCSemaphore ----------------------------
(* Instances of Semaphore: an idle task and two or three tasks that use the *)
(* semaphore, and also delay, suspend and resume one another.               *)
EXTENDS Semaphore

CONSTANTS idle, a, b, c

NoCredits == [t \in Tcb |-> 1]
IdleABC == <<idle, a, b, c>>
IdleAB == <<idle, a, b>>
SemCalls == {"sem", "trywait", "delay", "suspend", "resume"}
SemLifeCalls == SemCalls \cup {"sem_create", "sem_destroy"}

-----------------------------------------------------------------------------
(* What the documentation says, and the code does not do. *)

(* README.md:128: ucx_task_cancel "cancels a previously spawned task and    *)
(* removes kernel allocated data structures": no queue of the kernel still  *)
(* names its control block.                                                 *)
CancelLeavesNoTrace == \A i \in 1 .. Len(waitq) : Listed(waitq[i])
=============================================================================
