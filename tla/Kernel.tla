------------------------------- MODULE Kernel -------------------------------
(***************************************************************************)
(* The task core of UCX/OS on one core: the task list and the task control *)
(* blocks of kernel/ucx.c, the default scheduler, the dispatcher and the   *)
(* task calls of the application, in cooperative and in preemptive mode.   *)
(*                                                                         *)
(* A task is named by its control block (a TCB is allocated from the heap, *)
(* freed by ucx_task_cancel and reused by a later ucx_task_spawn). Code    *)
(* between CRITICAL_ENTER and CRITICAL_LEAVE is one step; in preemptive    *)
(* mode a timer interrupt (Tick) falls between any two steps, so what a    *)
(* call does after leaving its critical section is a step of its own.      *)
(***************************************************************************)
EXTENDS Integers, SequencesExt

CONSTANTS
  Tcb,          \* the control blocks the heap has room for
  Modes,        \* what app_main may return: preemptive (TRUE), or not
  RtSched,      \* the application installed our_sched of app/rtsched.c
  RtTasks,      \* the tasks app_main gives an RT priority
  Credits,      \* the credits of the RT priority of each task
  InitTasks,    \* the tasks app_main spawns, in order
  Idle,         \* tasks that only ever yield, and that no call names
  Calls,        \* the calls the other tasks make
  Levels,       \* the priority levels in use (app_main may set any)
  Delays        \* the arguments they pass to ucx_task_delay

(* The low byte of the constants in enum task_priorities; 0x1f is NORMAL.  *)
PriorityLevels == {1, 3, 7, 15, 31, 63, 127, 255}
Normal == 31

UInt16 == {n \in Nat : n <= 65535}

ASSUME KernelAssumption ==
  /\ Modes \subseteq BOOLEAN /\ RtSched \in BOOLEAN
  /\ InitTasks \in Seq(Tcb) /\ Len(InitTasks) >= 1
  /\ IsInjective(InitTasks)
  /\ Idle \subseteq Tcb
  /\ \A t \in Idle \cup RtTasks : \E i \in 1 .. Len(InitTasks) : InitTasks[i] = t
  /\ RtTasks \subseteq Tcb
  /\ Credits \in [Tcb -> Nat \ {0}]
  /\ Levels \subseteq PriorityLevels /\ Levels # {}
  /\ Delays \subseteq UInt16

VARIABLES
  preemptive,   \* kcb->preemptive = 'y', set once by main()
  tasks,        \* kcb->tasks: the list of control blocks
  current,      \* kcb->task_current
  state,        \* tcb->state
  priority,     \* tcb->priority, 16 bits: base priority, then the countdown
  delay,        \* tcb->delay
  rt,           \* tcb->rt_prio is set
  task_node,    \* the static variable of our_sched: no node, the node of a
                \* task, or the node of a task that was cancelled since
  remaining,    \* per task, the credits left of its RT priority
  pc,           \* where each task is: "run" in its own code, "yield" about to
                \* yield inside a call, "spin" waiting in yield() for the next
                \* tick, "spawn" in ucx_task_spawn past its critical section,
                \* "call" inside a call of a module that extends this one
  new,          \* the control block that a task in "spawn" is filling in
  panic         \* the code krnl_panic halted the system with, or "none"

rtVars == <<rt, task_node, remaining>>
tcbVars == <<state, priority, delay, rtVars>>
vars == <<tasks, current, state, priority, delay, rtVars, pc, new, panic, preemptive>>

-----------------------------------------------------------------------------
(* Helpers on the task list and on priorities. *)

Listed(t) == \E i \in 1 .. Len(tasks) : tasks[i] = t

Low(p) == p % 256
High(p) == p \div 256
Prio(level) == 256 * level + level

(* A task is running code of its own, on a system that has not halted, and *)
(* its application makes this call.                                        *)
Running(t) == panic = "none" /\ current = t /\ pc[t] = "run"
MayCall(t, call) == Running(t) /\ t \notin Idle /\ call \in Calls

(* The tasks a call may name: those whose id ucx_task_spawn has returned.  *)
(* An id that names no task makes the call return an error and change      *)
(* nothing.                                                                *)
Target(u) == Listed(u) /\ state[u] # "STOPPED" /\ u \notin Idle

-----------------------------------------------------------------------------
(* Scheduling *)

(* slip: a BLOCKED task without a delay is taken for one whose delay ended *)
DelayRanOut(t) == Listed(t) /\ state[t] = "BLOCKED" /\ delay[t] <= 1

(* delay_update on every task of the list *)
DelaysOver(t) == Listed(t) /\ state[t] = "BLOCKED" /\ delay[t] = 1
UpdatedState == [t \in Tcb |-> IF DelaysOver(t) THEN "READY" ELSE state[t]]
UpdatedDelay ==
  [t \in Tcb |-> IF Listed(t) /\ state[t] = "BLOCKED" /\ delay[t] > 0
                   THEN delay[t] - 1 ELSE delay[t]]

(* slip: the RUNNING task is not turned back *)
NotPreempted(st) == st

(* The scheduler turns a RUNNING current task back to READY. *)
Preempted(st) ==
  [t \in Tcb |-> IF t = current /\ st[t] = "RUNNING" THEN "READY" ELSE st[t]]

Ready(st, t) == st[t] = "READY" /\ ~rt[t]
Count(i) == Low(priority[tasks[i]])

(* The first pass of krnl_schedule starts from the first task of the list, *)
(* ready or not, and moves to a READY task whose countdown is not above    *)
(* the one it holds: it ends on the last of the smallest countdowns among  *)
(* the READY tasks that are not above the first task of the list. Where    *)
(* there is none it stays on a first task that is not READY, and panics.   *)
Eligible(st) ==
  {i \in 1 .. Len(tasks) : Ready(st, tasks[i]) /\ Count(i) <= Count(1)}
Selected(st, i) ==
  /\ i \in Eligible(st)
  /\ \A j \in Eligible(st) : /\ Count(i) <= Count(j)
                             /\ Count(i) = Count(j) => j <= i

(* slips: the countdown is taken off tasks that are not READY, so are the  *)
(* whole 16 bits, the second pass is missing                               *)
RecountsAll(st, s) ==
  [t \in Tcb |-> IF t = s THEN Prio(High(priority[t]))
                         ELSE priority[t] - Low(priority[s])]
RecountsUnmasked(st, s) ==
  [t \in Tcb |-> IF t = s THEN Prio(High(priority[t]))
                         ELSE priority[t] - priority[s]]
RecountsNone(st, s) ==
  [t \in Tcb |-> IF t = s THEN Prio(High(priority[t])) ELSE priority[t]]

(* The second pass takes the selected countdown off every READY task; the  *)
(* selected one, now 0, restarts from its base priority.                   *)
Recounted(st, s) ==
  [t \in Tcb |->
     IF t = s THEN Prio(High(priority[t]))
     ELSE IF Listed(t) /\ Ready(st, t) THEN priority[t] - Low(priority[s])
     ELSE priority[t]]

NoTaskReady(ready) ==
  /\ Eligible(ready) = {}
  /\ panic' = "NO_TASKS"
  /\ state' = ready
  /\ UNCHANGED <<current, priority>>

SwitchTask(ready) ==
  \E i \in 1 .. Len(tasks) :
    /\ Selected(ready, i)
    /\ current' = tasks[i]
    /\ state' = [t \in Tcb |-> IF t = tasks[i] THEN "RUNNING" ELSE ready[t]]
    /\ priority' = Recounted(ready, tasks[i])
    /\ UNCHANGED panic

krnl_schedule(st) == NoTaskReady(Preempted(st)) \/ SwitchTask(Preempted(st))

(* our_sched of app/rtsched.c, the scheduler of the application. It keeps  *)
(* the node of its last choice from one call to the next.                  *)
NoNode == [at |-> "none", task |-> InitTasks[1]]
RtReady(ready, k) == ready[tasks[k]] = "READY" /\ rt[tasks[k]]
RtNext(ready, from, k) ==
  /\ k \in from .. Len(tasks) /\ RtReady(ready, k)
  /\ \A j \in from .. k - 1 : ~RtReady(ready, j)
RtAfter(ready, t, k) ==
  \E i \in 1 .. Len(tasks) : tasks[i] = t /\ RtNext(ready, i + 1, k)

RtRun(ready, t) ==
  /\ task_node' = [at |-> "node", task |-> t]
  /\ current' = t
  /\ state' = [u \in Tcb |-> IF u = t THEN "RUNNING" ELSE ready[u]]
  /\ UNCHANGED <<priority, panic>>

(* After a task of the kernel's scheduler: the first RT task of the list.  *)
RtFirst(ready) ==
  /\ task_node.at = "none"
  /\ \E k \in 1 .. Len(tasks) : RtNext(ready, 1, k) /\ RtRun(ready, tasks[k])
  /\ UNCHANGED remaining

(* While its task has credits left it runs again, in whatever state it is. *)
RtAgain(ready) ==
  /\ task_node.at = "node" /\ remaining[task_node.task] # 1
  /\ remaining' = [remaining EXCEPT ![task_node.task] = @ - 1]
  /\ RtRun(ready, task_node.task)

(* Its last credit renews them, and the next RT task of the list runs;     *)
(* after the last one, a task of the kernel's scheduler.                   *)
RtRenew ==
  /\ task_node.at = "node" /\ remaining[task_node.task] = 1
  /\ remaining' = [remaining EXCEPT ![task_node.task] = Credits[task_node.task]]
RtOther(ready) ==
  /\ RtRenew
  /\ \E k \in 1 .. Len(tasks) : /\ RtAfter(ready, task_node.task, k)
                               /\ RtRun(ready, tasks[k])
RtDone(st) ==
  /\ RtRenew
  /\ \A k \in 1 .. Len(tasks) : ~RtAfter(Preempted(st), task_node.task, k)
  /\ task_node' = NoNode
  /\ krnl_schedule(st)

(* It searches past the end of the list when no RT task is READY, or reads *)
(* the node of a freed task: what happens then is not defined by the code, *)
(* and the model stops.                                                    *)
RtAstray(ready) ==
  /\ \/ task_node.at = "freed"
     \/ /\ task_node.at = "none"
        /\ \A k \in 1 .. Len(tasks) : ~RtReady(ready, k)
  /\ panic' = "UNDEFINED"
  /\ state' = ready
  /\ UNCHANGED <<current, priority, task_node, remaining>>

(* slip: the RUNNING task is not turned back *)
OurSchedKeepsRunning(st) ==
  RtFirst(st) \/ RtAgain(st) \/ RtOther(st) \/ RtDone(st) \/ RtAstray(st)

our_sched(st) ==
  \/ RtFirst(Preempted(st)) \/ RtAgain(Preempted(st)) \/ RtOther(Preempted(st))
  \/ RtDone(st) \/ RtAstray(Preempted(st))

(* What dispatch() runs: kcb->rt_sched, which calls for krnl_schedule, or  *)
(* krnl_schedule alone where the application installed no scheduler.       *)
Schedule(st) ==
  \/ RtSched /\ our_sched(st)
  \/ ~RtSched /\ krnl_schedule(st) /\ UNCHANGED <<task_node, remaining>>

(* The timer interrupt: krnl_dispatcher counts the tick, which lets every  *)
(* task spinning in yield() go on, and dispatch() switches tasks.          *)
Tick ==
  /\ preemptive /\ panic = "none"
  /\ delay' = UpdatedDelay
  /\ Schedule(UpdatedState)
  /\ pc' = [t \in Tcb |-> IF pc[t] = "spin" THEN "run" ELSE pc[t]]
  /\ UNCHANGED <<tasks, rt, new, preemptive>>

(* ucx_task_yield, called by the application or at the end of a call that  *)
(* blocks: in preemptive mode it waits for the next tick, in cooperative   *)
(* mode it updates the delays and runs the scheduler itself.               *)
ucx_task_yield(t) ==
  /\ panic = "none" /\ current = t /\ pc[t] \in {"run", "yield"}
  /\ \/ /\ preemptive
        /\ pc' = [pc EXCEPT ![t] = "spin"]
        /\ UNCHANGED <<tcbVars, current, panic>>
     \/ /\ ~preemptive
        /\ pc' = [pc EXCEPT ![t] = "run"]
        /\ delay' = UpdatedDelay
        /\ krnl_schedule(UpdatedState)
        /\ UNCHANGED rtVars
  /\ UNCHANGED <<tasks, new, preemptive>>

-----------------------------------------------------------------------------
(* slip: the task blocks and its delay is not set *)
DelayNotSet(t, n) ==
  /\ MayCall(t, "delay")
  /\ state' = [state EXCEPT ![t] = "BLOCKED"]
  /\ pc' = [pc EXCEPT ![t] = "yield"]
  /\ UNCHANGED <<tasks, current, priority, delay, rtVars, new, panic, preemptive>>

(* The task calls *)
ucx_task_delay(t, n) ==
  /\ MayCall(t, "delay")
  /\ delay' = [delay EXCEPT ![t] = n]
  /\ state' = [state EXCEPT ![t] = "BLOCKED"]
  /\ pc' = [pc EXCEPT ![t] = "yield"]
  /\ UNCHANGED <<tasks, current, priority, rtVars, new, panic, preemptive>>

(* slips: a task that suspends itself goes on; any state is accepted *)
SuspendGoesOn(t, u) ==
  /\ MayCall(t, "suspend") /\ Target(u)
  /\ state[u] \in {"READY", "RUNNING"}
  /\ state' = [state EXCEPT ![u] = "SUSPENDED"]
  /\ UNCHANGED <<tasks, current, priority, delay, rtVars, pc, new, panic, preemptive>>
SuspendsAnyState(t, u) ==
  /\ MayCall(t, "suspend") /\ Target(u)
  /\ state' = [state EXCEPT ![u] = "SUSPENDED"]
  /\ pc' = IF u = t THEN [pc EXCEPT ![t] = "yield"] ELSE pc
  /\ UNCHANGED <<tasks, current, priority, delay, rtVars, new, panic, preemptive>>

(* Suspending oneself ends in a yield; any other state is refused. *)
ucx_task_suspend(t, u) ==
  /\ MayCall(t, "suspend") /\ Target(u)
  /\ state[u] \in {"READY", "RUNNING"}
  /\ state' = [state EXCEPT ![u] = "SUSPENDED"]
  /\ pc' = IF u = t THEN [pc EXCEPT ![t] = "yield"] ELSE pc
  /\ UNCHANGED <<tasks, current, priority, delay, rtVars, new, panic, preemptive>>

(* slip: a task in any state is made READY *)
ResumesAnyState(t, u) ==
  /\ MayCall(t, "resume") /\ Target(u)
  /\ state' = [state EXCEPT ![u] = "READY"]
  /\ UNCHANGED <<tasks, current, priority, delay, rtVars, pc, new, panic, preemptive>>

ucx_task_resume(t, u) ==
  /\ MayCall(t, "resume") /\ Target(u)
  /\ state[u] = "SUSPENDED"
  /\ state' = [state EXCEPT ![u] = "READY"]
  /\ UNCHANGED <<tasks, current, priority, delay, rtVars, pc, new, panic, preemptive>>

ucx_task_priority(t, u, level) ==
  /\ MayCall(t, "priority") /\ Target(u)
  /\ priority' = [priority EXCEPT ![u] = Prio(level)]
  /\ UNCHANGED <<tasks, current, state, delay, rtVars, pc, new, panic, preemptive>>

ucx_task_rt_priority(t, u) ==
  /\ MayCall(t, "rt_priority") /\ Target(u)
  /\ rt' = [rt EXCEPT ![u] = TRUE]
  /\ UNCHANGED <<task_node, remaining>>
  /\ UNCHANGED <<tasks, current, state, priority, delay, pc, new, panic, preemptive>>

(* slip: READY inside the critical section, before the context exists *)
SpawnedReady(t, u) ==
  /\ MayCall(t, "spawn") /\ ~Listed(u)
  /\ tasks' = Append(tasks, u)
  /\ state' = [state EXCEPT ![u] = "READY"]
  /\ priority' = [priority EXCEPT ![u] = Prio(Normal)]
  /\ delay' = [delay EXCEPT ![u] = 0]
  /\ rt' = [rt EXCEPT ![u] = FALSE] /\ UNCHANGED <<task_node, remaining>>
  /\ pc' = [pc EXCEPT ![t] = "spawn", ![u] = "run"]
  /\ new' = [new EXCEPT ![t] = u]
  /\ panic' \in {"none", "STACK_ALLOC"}
  /\ UNCHANGED <<current, preemptive>>

(* ucx_task_spawn, first half: the critical section lists a STOPPED task   *)
(* with the normal priority. Its stack may not fit any more.               *)
ucx_task_spawn(t, u) ==
  /\ MayCall(t, "spawn") /\ ~Listed(u)
  /\ tasks' = Append(tasks, u)
  /\ state' = [state EXCEPT ![u] = "STOPPED"]
  /\ priority' = [priority EXCEPT ![u] = Prio(Normal)]
  /\ delay' = [delay EXCEPT ![u] = 0]
  /\ rt' = [rt EXCEPT ![u] = FALSE] /\ UNCHANGED <<task_node, remaining>>
  /\ pc' = [pc EXCEPT ![t] = "spawn", ![u] = "run"]
  /\ new' = [new EXCEPT ![t] = u]
  /\ panic' \in {"none", "STACK_ALLOC"}
  /\ UNCHANGED <<current, preemptive>>

(* Second half, open to interrupts: the stack and the context are built    *)
(* before the task is made READY.                                          *)
SpawnReady(t) ==
  /\ panic = "none" /\ current = t /\ pc[t] = "spawn"
  /\ state' = [state EXCEPT ![new[t]] = "READY"]
  /\ pc' = [pc EXCEPT ![t] = "run"]
  /\ UNCHANGED <<tasks, current, priority, delay, rtVars, new, panic, preemptive>>

(* The heap has no room for a control block. *)
SpawnNoMemory(t) ==
  /\ MayCall(t, "spawn")
  /\ panic' = "TCB_ALLOC"
  /\ UNCHANGED <<tasks, current, tcbVars, pc, new, preemptive>>

(* our_sched is not told that the node it keeps is freed. *)
NodeWithout(u) ==
  IF task_node.at = "node" /\ task_node.task = u
    THEN [task_node EXCEPT !.at = "freed"] ELSE task_node

(* slip: a task may cancel itself *)
CancelsItself(t, u) ==
  /\ MayCall(t, "cancel") /\ Target(u)
  /\ \E k \in 1 .. Len(tasks) :
       tasks[k] = u /\ tasks' = RemoveAt(tasks, k)
  /\ task_node' = NodeWithout(u)
  /\ UNCHANGED <<current, state, priority, delay, rt, remaining, pc, new, panic,
                 preemptive>>

(* A task cannot cancel itself; another one is unlinked and freed. *)
ucx_task_cancel(t, u) ==
  /\ MayCall(t, "cancel") /\ Target(u) /\ u # t
  /\ \E k \in 1 .. Len(tasks) :
       tasks[k] = u /\ tasks' = RemoveAt(tasks, k)
  /\ task_node' = NodeWithout(u)
  /\ UNCHANGED <<current, state, priority, delay, rt, remaining, pc, new, panic,
                 preemptive>>

-----------------------------------------------------------------------------
(* app_main has spawned the tasks and set their priorities; main() starts  *)
(* the first task of the list without changing its state.                  *)
Init ==
  /\ preemptive \in Modes
  /\ tasks = InitTasks
  /\ current = InitTasks[1]
  /\ state = [t \in Tcb |-> IF Listed(t) THEN "READY" ELSE "STOPPED"]
  /\ \E level \in [Tcb -> Levels] :
       /\ priority = [t \in Tcb |-> Prio(IF Listed(t) THEN level[t] ELSE Normal)]
  /\ delay = [t \in Tcb |-> 0]
  /\ rt = [t \in Tcb |-> t \in RtTasks]
  /\ task_node = NoNode
  /\ remaining = Credits
  /\ pc = [t \in Tcb |-> "run"]
  /\ new = [t \in Tcb |-> t]
  /\ panic = "none"

(* krnl_panic disables interrupts and loops forever. *)
Halted == panic # "none" /\ UNCHANGED vars

Yield == \E t \in Tcb : ucx_task_yield(t)

Call(t) ==
  \/ \E n \in Delays : ucx_task_delay(t, n)
  \/ \E u \in Tcb : \/ ucx_task_suspend(t, u)
                    \/ ucx_task_resume(t, u)
                    \/ \E level \in Levels : ucx_task_priority(t, u, level)
                    \/ ucx_task_rt_priority(t, u)
                    \/ ucx_task_spawn(t, u)
                    \/ ucx_task_cancel(t, u)
  \/ SpawnReady(t)
  \/ SpawnNoMemory(t)

Next == Tick \/ Yield \/ (\E t \in Tcb : Call(t)) \/ Halted

Spec == Init /\ [][Next]_vars

(* The timer keeps interrupting, and a cooperative task keeps yielding.    *)
Fairness == WF_vars(Tick) /\ WF_vars(~preemptive /\ Yield)
LiveSpec == Spec /\ Fairness

-----------------------------------------------------------------------------
(* Properties *)

(* What app/rtsched.c does with its RT tasks: they only yield. our_sched    *)
(* sets a task with credits left RUNNING without a look at its state, so    *)
(* that what is said of blocked and suspended tasks depends on it.          *)
RtOnlyYield == RtSched => RtTasks \subseteq Idle /\ "rt_priority" \notin Calls

TaskStates == {"STOPPED", "READY", "RUNNING", "BLOCKED", "SUSPENDED"}

TypeInv ==
  /\ tasks \in Seq(Tcb)
  /\ current \in Tcb
  /\ state \in [Tcb -> TaskStates]
  /\ priority \in [Tcb -> UInt16]
  /\ delay \in [Tcb -> UInt16]
  /\ rt \in [Tcb -> BOOLEAN]
  /\ task_node \in [at : {"none", "node", "freed"}, task : Tcb]
  /\ remaining \in [Tcb -> Nat \ {0}]
  /\ pc \in [Tcb -> {"run", "yield", "spin", "spawn", "call"}]
  /\ new \in [Tcb -> Tcb]
  /\ panic \in {"none", "NO_TASKS", "TCB_ALLOC", "STACK_ALLOC", "SEM_OPERATION",
               "UNDEFINED"}
  /\ preemptive \in BOOLEAN

(* The list names no control block twice, and holds the current task: the  *)
(* processor never runs on the stack of a task that was freed.             *)
CurrentListed ==
  /\ IsInjective(tasks)
  /\ Listed(current)

(* Of the tasks in the list only the current one is ever RUNNING, whatever *)
(* the mixture of switches by the scheduler and by the RT scheduler.       *)
OneRunning == \A t \in Tcb : Listed(t) /\ state[t] = "RUNNING" => t = current

(* A task that blocked, was suspended or is still being built executes      *)
(* nothing but the yield it ends in: wherever an interrupt falls, the call   *)
(* that stopped it does not return before it was woken.                      *)
StoppedTasksDoNotRun ==
  panic = "none" /\ pc[current] \in {"run", "spawn", "call"} =>
    state[current] \in {"READY", "RUNNING"}

(* A SUSPENDED task leaves that state by ucx_task_resume alone, and a       *)
(* BLOCKED one by the end of its delay: no switch of tasks starts it again. *)
StoppedUntilWoken ==
  [][\A t \in Tcb : Listed(t) /\ Listed(t)' =>
       /\ state[t] = "SUSPENDED" /\ state'[t] # "SUSPENDED" =>
            \E u \in Tcb : ucx_task_resume(u, t)
       /\ state[t] = "BLOCKED" /\ state'[t] # "BLOCKED" =>
            DelaysOver(t) /\ delay'[t] = 0]_vars

(* A countdown of ucx_task_delay runs only in a BLOCKED task: no call takes *)
(* a delayed task out of BLOCKED, and none leaves a stale countdown that a  *)
(* later block would be cut short by.                                      *)
DelayOnlyWhileBlocked ==
  \A t \in Tcb : Listed(t) /\ delay[t] > 0 => state[t] = "BLOCKED"

(* A task under construction stays STOPPED, and so out of reach of the     *)
(* scheduler, until its stack and context are there.                       *)
HalfBuiltNeverScheduled ==
  \A t \in Tcb : Listed(t) /\ pc[t] = "spawn" =>
    /\ Listed(new[t]) /\ state[new[t]] = "STOPPED" /\ new[t] # current

(* The 16-bit subtraction of krnl_schedule never borrows from the base      *)
(* priority in the high byte, and the countdown stays within the base.      *)
CountdownWithinBase ==
  \A t \in Tcb : Listed(t) =>
    /\ High(priority[t]) \in PriorityLevels
    /\ Low(priority[t]) <= High(priority[t])

(* With an idle task at the front of the list, one without an RT priority,  *)
(* the kernel never halts with "no tasks to run", whatever the others do.   *)
NoFalsePanic == InitTasks[1] \in Idle \ RtTasks => panic # "NO_TASKS"

(* ecodes.c: ERR_NO_TASKS is "no tasks to run". *)
PanicMeansNoTasks ==
  panic = "NO_TASKS" => \A t \in Tcb : Listed(t) => ~Ready(state, t)

(* Scheduling never changes a base priority: only ucx_task_priority and the *)
(* creation of the task do.                                                *)
BaseKept ==
  [][\A t \in Tcb : Listed(t) /\ Listed(t)' =>
       \/ High(priority'[t]) = High(priority[t])
       \/ \E c \in Tcb, level \in Levels : ucx_task_priority(c, t, level)]_vars

(* A READY task is scheduled in the end: no mixture of base priorities,    *)
(* delays, suspensions and resumptions starves it.                         *)
NoStarvation ==
  \A t \in Tcb : (Listed(t) /\ Ready(state, t)) ~>
                  (current = t \/ ~Listed(t) \/ ~Ready(state, t))

(* A delay expires in the end. *)
DelaysExpire ==
  \A t \in Tcb : (Listed(t) /\ state[t] = "BLOCKED") ~>
                  (~Listed(t) \/ state[t] # "BLOCKED")
=============================================================================
