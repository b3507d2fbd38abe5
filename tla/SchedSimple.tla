---------------------------- MODULE SchedSimple -----------------------------
(***************************************************************************)
(* krnl_schedule as built with CONFIG_SCHED_SIMPLE: round the list of tasks *)
(* from the current one on, counting every READY task down, until a count  *)
(* comes to 0. It gives up after a fixed number of steps. Module Kernel    *)
(* has the scheduler of the default build.                                 *)
(*                                                                         *)
(* Tasks are their places in the list. Here a task is ready or it is not:  *)
(* what makes it so, and the calls, are Kernel's.                          *)
(***************************************************************************)
EXTENDS Integers, FiniteSetsExt

CONSTANTS
  NTasks,         \* how many tasks are in the list
  Bases,          \* base priorities
  ItMax           \* 10000 in the code

ASSUME SimpleAssumption ==
  /\ NTasks \in Nat \ {0} /\ Bases \subseteq 1 .. 255 /\ ItMax \in Nat

VARIABLES
  ready,          \* READY or RUNNING, and no RT task
  base_prio, count, \* the two bytes of priority
  chosen,         \* kcb->task_current
  noTasks         \* krnl_panic(ERR_NO_TASKS)

simpleVars == <<ready, base_prio, count, chosen, noTasks>>

Places == 1 .. NTasks

SimpleInit ==
  /\ ready \in [Places -> BOOLEAN]
  /\ base_prio \in [Places -> Bases] /\ count = base_prio
  /\ chosen = 1 /\ noTasks = FALSE

(* slip: the walk starts at the first task, as in the other scheduler *)
StepsFromFirst(t) == t

(* list_cnext from the current task on comes to t after so many steps.      *)
Steps(t) == ((t - chosen - 1) % NTasks) + 1

(* The least count decides in which round the walk ends, and the order of   *)
(* the list at which of the tasks that have it.                             *)
Least == Min({count[t] : t \in {u \in Places : ready[u]}})
Winner ==
  CHOOSE t \in Places :
    /\ ready[t] /\ count[t] = Least
    /\ \A u \in Places : ready[u] /\ count[u] = Least => Steps(t) <= Steps(u)
Iterations == (Least - 1) * NTasks + Steps(Winner)

Select ==
  /\ chosen' = Winner
  /\ count' = [t \in Places |->
       IF ~ready[t] THEN count[t]
       ELSE IF t = Winner THEN base_prio[t]
       ELSE count[t] - Least + (IF Steps(t) < Steps(Winner) THEN 0 ELSE 1)]
  /\ UNCHANGED <<ready, base_prio, noTasks>>

simple_schedule ==
  /\ ~noTasks
  /\ IF (\E t \in Places : ready[t]) /\ Iterations <= ItMax + 1
       THEN Select
       ELSE noTasks' = TRUE /\ UNCHANGED <<ready, base_prio, count, chosen>>

(* A delay or a suspension, and its end.                                    *)
StateChanges(t) ==
  /\ ~noTasks
  /\ ready' = [ready EXCEPT ![t] = ~@] /\ UNCHANGED <<base_prio, count, chosen, noTasks>>

(* ucx_task_priority sets both bytes.                                       *)
PriorityChanges(t) ==
  /\ ~noTasks
  /\ \E b \in Bases : base_prio' = [base_prio EXCEPT ![t] = b] /\ count' = [count EXCEPT ![t] = b]
  /\ UNCHANGED <<ready, chosen, noTasks>>

(* krnl_panic never returns.                                                *)
SimpleHalted == noTasks /\ UNCHANGED simpleVars

SimpleNext ==
  \/ simple_schedule \/ SimpleHalted
  \/ \E t \in Places : StateChanges(t) \/ PriorityChanges(t)

(* The timer interrupt, or the yields of the tasks, go on.                  *)
SimpleFairness == WF_simpleVars(simple_schedule)
SimpleSpec == SimpleInit /\ [][SimpleNext]_simpleVars
SimpleLiveSpec == SimpleSpec /\ SimpleFairness

-----------------------------------------------------------------------------
(* Where NTasks times the greatest base is at most ItMax + 1, a task that   *)
(* stays ready is chosen again and again, unless its own count goes on      *)
(* being set anew: neither the others' priorities, changes of priority,     *)
(* blocking and waking up nor the limit of the walk keep the task from the  *)
(* processor.                                                               *)
SetAnew(t) == count'[t] > count[t] /\ chosen' # t
ReadyTasksAreChosen ==
  \A t \in Places :
    []<>(~ready[t] \/ chosen = t) \/ []<><<SetAnew(t)>>_simpleVars

(* The walk gives up, and the kernel halts with ERR_NO_TASKS, only where    *)
(* there is, as kernel/ecodes.c:7 says of that code, "no tasks to run".     *)
GiveUpMeansNoTasks == noTasks => \A t \in Places : ~ready[t]
=============================================================================
