------------------------------- MODULE Mutex --------------------------------
(***************************************************************************)
(* The tasks of app/mutex.c: each one waits on a semaphore created with    *)
(* value 1, works, and signals it, forever. The composition of semaphore,  *)
(* scheduler and yield has to make that a mutual exclusion, with every     *)
(* task getting its turn.                                                  *)
(***************************************************************************)
EXTENDS Semaphore

VARIABLE phase        \* per task: "outside", "waiting" in ucx_sem_wait or
                      \* just returned from it, "inside" the critical section

mvars == <<svars, phase>>

ASSUME MutexAssumption == Value = 1

Enter(t) == /\ phase[t] = "outside"
            /\ ucx_sem_wait(t)
            /\ phase' = [phase EXCEPT ![t] = "waiting"]

(* ucx_sem_wait has returned: the task runs its own code again. *)
Work(t) == /\ phase[t] = "waiting"
           /\ Running(t)
           /\ phase' = [phase EXCEPT ![t] = "inside"]
           /\ UNCHANGED svars

Leave(t) == /\ phase[t] = "inside"
            /\ ucx_sem_signal(t)
            /\ phase' = [phase EXCEPT ![t] = "outside"]

(* Ticks, yields and delays inside and outside the critical section. *)
Elsewhere == /\ Next
             /\ UNCHANGED <<semVars, phase>>

MutexInit == SemInit /\ phase = [t \in Tcb |-> "outside"]

Go(t) == Enter(t) \/ Work(t) \/ Leave(t)

MutexNext == Elsewhere \/ \E t \in Tcb : Go(t)

(* The end of a call that blocked, once its task runs again. *)
ReturnFromCall(t) ==
  pc[t] = "yield" /\ ucx_task_yield(t) /\ UNCHANGED <<semVars, phase>>

(* The timer keeps ticking. A task that gets the processor again and again  *)
(* makes progress: a quantum is longer than a step.                        *)
MutexFairness ==
  /\ WF_mvars(Tick /\ UNCHANGED <<semVars, phase>>)
  /\ \A t \in Tcb : SF_mvars(ReturnFromCall(t)) /\ SF_mvars(Go(t))

MutexSpec == MutexInit /\ [][MutexNext]_mvars
MutexLiveSpec == MutexSpec /\ MutexFairness

-----------------------------------------------------------------------------
(* Never two tasks in the critical section. *)
MutualExclusion ==
  \A t, u \in Tcb : phase[t] = "inside" /\ phase[u] = "inside" => t = u

(* Every task that asks for the critical section gets it.                   *)
EveryoneEnters == \A t \in Tcb : (phase[t] = "waiting") ~> (phase[t] = "inside")
=============================================================================
