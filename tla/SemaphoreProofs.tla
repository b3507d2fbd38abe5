--------------------------- MODULE SemaphoreProofs ----------------------------
(***************************************************************************)
(* The semaphore over the task core, for every set of tasks, every order   *)
(* of their calls and both scheduling modes: the count and the queue agree *)
(* and no wake-up is lost, as long as no waiting task is cancelled. At the *)
(* end app/mutex.c, for every number of tasks and in both modes: a         *)
(* semaphore that starts at 1 is handed from task to task.                 *)
(***************************************************************************)
EXTENDS Mutex, KernelProofs, FiniteSetTheorems

USE DEF rtVars

(* What the theorems ask of the application. *)
NoCancel == "cancel" \notin Calls
NoZeroDelay == 0 \notin Delays
RoomForAll == /\ IsFiniteSet(Tcb)
              /\ Cardinality(Tcb \ Idle) <= QueueRoom

-----------------------------------------------------------------------------
(* The inductive invariant. *)

Queued(t) == \E i \in 1 .. Len(waitq) : waitq[i] = t
Asleep(t) == Listed(t) /\ state[t] = "BLOCKED" /\ delay[t] = 0

SemTypes == count \in Int /\ waitq \in Seq(Tcb) /\ semLive \in BOOLEAN

(* WaitersBlocked by task instead of by place; an idle task never waits.   *)
WaitersAsleep ==
  /\ IsInjective(waitq)
  /\ \A t \in Tcb : Queued(t) => Asleep(t) /\ t \notin Idle

(* Between the test and the release of ucx_sem_destroy nobody else runs.   *)
DestroyIsAlone ==
  \A t \in Tcb : pc[t] = "call" =>
    /\ ~preemptive /\ current = t /\ panic = "none"
    /\ semLive /\ waitq = << >>

(* A semaphore is not freed under the tasks that wait on it.               *)
NoWaiterOnFreed == waitq # << >> => semLive

QueueInv == /\ SemTypes
            /\ CountMatchesQueue
            /\ WaitersAsleep
            /\ DestroyIsAlone
            /\ NoWaiterOnFreed

SInv == Inv /\ QueueInv

-----------------------------------------------------------------------------
(* Queues of tasks. *)

LEMMA TailOfQueue ==
  ASSUME NEW s \in Seq(Tcb), IsInjective(s), s # << >>
  PROVE  /\ Tail(s) \in Seq(Tcb) /\ IsInjective(Tail(s))
         /\ Head(s) \in Tcb /\ Len(s) >= 1 /\ Head(s) = s[1]
         /\ Len(Tail(s)) = Len(s) - 1
         /\ \A t \in Tcb : (\E i \in 1 .. Len(Tail(s)) : Tail(s)[i] = t)
              <=> (\E i \in 1 .. Len(s) : s[i] = t) /\ t # Head(s)
<1> DEFINE r == Tail(s)
<1>1. /\ r \in Seq(Tcb) /\ Len(r) = Len(s) - 1 /\ Head(s) = s[1]
      /\ Len(s) \in Nat /\ Len(s) >= 1 /\ Head(s) \in Tcb
      /\ \A i \in 1 .. Len(s) - 1 : r[i] = s[i + 1]
  OBVIOUS
<1>2. \A i, j \in 1 .. Len(s) : s[i] = s[j] => i = j
  BY DEF IsInjective
<1> HIDE DEF r
<1>3. \A i \in 1 .. Len(r) : i + 1 \in 1 .. Len(s) /\ i + 1 # 1 /\ r[i] = s[i + 1]
  BY <1>1
<1>4. IsInjective(r)
  <2> SUFFICES ASSUME NEW i \in 1 .. Len(r), NEW j \in 1 .. Len(r), r[i] = r[j]
               PROVE  i = j
    BY <1>1 DEF IsInjective
  <2>1. i + 1 = j + 1
    BY <1>2, <1>3
  <2> QED BY <2>1
<1>5. 1 \in 1 .. Len(s)
  BY <1>1
<1>6. ASSUME NEW j \in 1 .. Len(s), s[j] # s[1]
      PROVE  j - 1 \in 1 .. Len(r) /\ r[j - 1] = s[j]
  BY <1>1, <1>6
<1>7. \A t \in Tcb : (\E i \in 1 .. Len(r) : r[i] = t)
              <=> (\E i \in 1 .. Len(s) : s[i] = t) /\ t # Head(s)
  BY <1>1, <1>2, <1>3, <1>5, <1>6
<1> QED BY <1>1, <1>4, <1>7 DEF r

(* The two forms of WaitersBlocked. *)
LEMMA WaitersByTask ==
  ASSUME SemTypes, WaitersAsleep
  PROVE  WaitersBlocked
<1>1. \A i \in 1 .. Len(waitq) : waitq[i] \in Tcb /\ Queued(waitq[i])
  BY DEF SemTypes, Queued
<1> QED BY <1>1 DEF WaitersAsleep, WaitersBlocked, Asleep

-----------------------------------------------------------------------------
(* What the task core does to tasks that sleep without a delay. *)

(* Nothing in the task core but a cancellation or the end of a delay takes *)
(* a task out of BLOCKED.                                                  *)
LEMMA KernelKeepsAsleep ==
  ASSUME RtOnlyYield, Inv, NoCancel, Next, NEW w \in Tcb, Asleep(w)
  PROVE  Asleep(w)'
<1> USE DEF Asleep
<1>s. ASSUME krnl_schedule(UpdatedState) \/ Schedule(UpdatedState),
             delay' = UpdatedDelay, UNCHANGED tasks
      PROVE  Asleep(w)'
  BY <1>s, SwitchStates DEF DelaysOver, UpdatedDelay, Listed
<1>1. CASE Tick
  BY <1>1, <1>s DEF Tick
<1>2. CASE Yield
  BY <1>2, <1>s DEF Yield, ucx_task_yield, tcbVars, Listed
<1>3. CASE Halted
  BY <1>3 DEF Halted, vars, Listed
<1>4. ASSUME NEW t \in Tcb, Call(t)
      PROVE  Asleep(w)'
  <2>r. Running(t) => state[t] # "BLOCKED"
    BY DEF Running, Inv, StoppedTasksDoNotRun
  <2>1. ASSUME NEW n \in Delays, ucx_task_delay(t, n)
        PROVE  Asleep(w)'
    <3>1. w # t
      BY <2>1, <2>r DEF ucx_task_delay, MayCall
    <3> QED BY <2>1, <3>1 DEF ucx_task_delay, Inv, TypeInv, Listed
  <2>2. ASSUME NEW u \in Tcb, ucx_task_suspend(t, u) \/ ucx_task_resume(t, u)
        PROVE  Asleep(w)'
    BY <2>2 DEF ucx_task_suspend, ucx_task_resume, Inv, TypeInv, Listed
  <2>3. ASSUME NEW u \in Tcb,
               \/ \E level \in Levels : ucx_task_priority(t, u, level)
               \/ ucx_task_rt_priority(t, u)
        PROVE  Asleep(w)'
    BY <2>3 DEF ucx_task_priority, ucx_task_rt_priority, Listed
  <2>4. ASSUME NEW u \in Tcb, ucx_task_spawn(t, u)
        PROVE  Asleep(w)'
    <3>1. ~Listed(u) /\ tasks' = Append(tasks, u)
          /\ state' = [state EXCEPT ![u] = "STOPPED"] /\ delay' = [delay EXCEPT ![u] = 0]
      BY <2>4 DEF ucx_task_spawn
    <3>2. w # u
      BY <3>1
    <3>3. tasks \in Seq(Tcb) /\ IsInjective(tasks)
      BY DEF Inv, TypeInv, CurrentListed
    <3>4. Listed(w)'
      BY <3>1, <3>3, AppendedListed DEF Listed
    <3> QED BY <3>1, <3>2, <3>4 DEF Inv, TypeInv
  <2>5. ~ \E u \in Tcb : ucx_task_cancel(t, u)
    BY DEF ucx_task_cancel, MayCall, NoCancel
  <2>6. CASE SpawnReady(t)
    <3>1. new[t] # w /\ state' = [state EXCEPT ![new[t]] = "READY"]
          /\ UNCHANGED <<tasks, delay>>
      BY <2>6 DEF SpawnReady, Inv, CurrentListed, HalfBuiltNeverScheduled
    <3> QED BY <3>1 DEF Inv, TypeInv, Listed
  <2>7. CASE SpawnNoMemory(t)
    BY <2>7 DEF SpawnNoMemory, tcbVars, Listed
  <2> QED BY <1>4, <2>1, <2>2, <2>3, <2>4, <2>5, <2>6, <2>7 DEF Call
<1> QED BY <1>1, <1>2, <1>3, <1>4 DEF Next

(* And nothing in it puts one to sleep without a delay: a countdown that    *)
(* reaches 0 makes its task READY in the same step.                        *)
LEMMA KernelLullsNobody ==
  ASSUME RtOnlyYield, Inv, NoZeroDelay, Next, NEW w \in Tcb, Asleep(w)'
  PROVE  Asleep(w)
<1> USE DEF Asleep
<1>d. \A t \in Tcb : delay[t] \in Nat /\ (Listed(t) /\ state[t] # "BLOCKED" => delay[t] = 0)
  BY IsUInt16, NoDelayLeft DEF Inv, TypeInv
<1>s. ASSUME krnl_schedule(UpdatedState) \/ Schedule(UpdatedState),
             delay' = UpdatedDelay, UNCHANGED tasks
      PROVE  Asleep(w)
  <2>1. Listed(w) /\ state'[w] = "BLOCKED" /\ delay'[w] = 0
    BY <1>s DEF Listed
  <2>2. state[w] = "BLOCKED" /\ ~DelaysOver(w)
    BY <1>s, <2>1, SwitchStates DEF Inv, TypeInv, TaskStates
  <2>3. delay[w] # 1
    BY <2>1, <2>2 DEF DelaysOver
  <2>4. delay[w] > 0 => delay'[w] = delay[w] - 1
    BY <1>s, <2>1, <2>2 DEF UpdatedDelay
  <2>5. delay[w] = 0
    BY <1>d, <2>1, <2>3, <2>4
  <2> QED BY <2>1, <2>2, <2>5
<1>1. CASE Tick
  BY <1>1, <1>s DEF Tick
<1>2. CASE Yield
  BY <1>2, <1>s DEF Yield, ucx_task_yield, tcbVars, Listed
<1>3. CASE Halted
  BY <1>3 DEF Halted, vars, Listed
<1>4. ASSUME NEW t \in Tcb, Call(t)
      PROVE  Asleep(w)
  <2>1. ASSUME NEW n \in Delays, ucx_task_delay(t, n)
        PROVE  Asleep(w)
    <3>1. n # 0
      BY DEF NoZeroDelay
    <3>2. w # t
      BY <2>1, <3>1 DEF ucx_task_delay, Inv, TypeInv
    <3> QED BY <2>1, <3>2 DEF ucx_task_delay, Inv, TypeInv, Listed
  <2>2. ASSUME NEW u \in Tcb, ucx_task_suspend(t, u) \/ ucx_task_resume(t, u)
        PROVE  Asleep(w)
    BY <2>2 DEF ucx_task_suspend, ucx_task_resume, Inv, TypeInv, Listed
  <2>3. ASSUME NEW u \in Tcb,
               \/ \E level \in Levels : ucx_task_priority(t, u, level)
               \/ ucx_task_rt_priority(t, u)
        PROVE  Asleep(w)
    BY <2>3 DEF ucx_task_priority, ucx_task_rt_priority, Listed
  <2>4. ASSUME NEW u \in Tcb, ucx_task_spawn(t, u)
        PROVE  Asleep(w)
    <3>1. ~Listed(u) /\ tasks' = Append(tasks, u)
          /\ state' = [state EXCEPT ![u] = "STOPPED"] /\ delay' = [delay EXCEPT ![u] = 0]
      BY <2>4 DEF ucx_task_spawn
    <3>2. w # u
      BY <3>1 DEF Inv, TypeInv
    <3>3. tasks \in Seq(Tcb) /\ IsInjective(tasks)
      BY DEF Inv, TypeInv, CurrentListed
    <3>4. Listed(w)
      BY <3>1, <3>2, <3>3, AppendedListed DEF Listed
    <3> QED BY <3>1, <3>2, <3>4 DEF Inv, TypeInv
  <2>5. ASSUME NEW u \in Tcb, ucx_task_cancel(t, u)
        PROVE  Asleep(w)
    <3>1. PICK k \in 1 .. Len(tasks) : tasks[k] = u /\ tasks' = RemoveAt(tasks, k)
      BY <2>5 DEF ucx_task_cancel
    <3>2. tasks \in Seq(Tcb) /\ IsInjective(tasks)
      BY DEF Inv, TypeInv, CurrentListed
    <3>3. Listed(w)' <=> Listed(w) /\ w # u
      BY <3>1, <3>2, RemovedListed DEF Listed
    <3> QED BY <2>5, <3>3 DEF ucx_task_cancel
  <2>6. CASE SpawnReady(t)
    BY <2>6 DEF SpawnReady, Inv, TypeInv, Listed
  <2>7. CASE SpawnNoMemory(t)
    BY <2>7 DEF SpawnNoMemory, tcbVars, Listed
  <2> QED BY <1>4, <2>1, <2>2, <2>3, <2>4, <2>5, <2>6, <2>7 DEF Call
<1> QED BY <1>1, <1>2, <1>3, <1>4 DEF Next

(* A step of the task core is made by a task that is not inside a call on a *)
(* semaphore, and moves none into one; it raises no panic of a semaphore.   *)
LeavesCalls ==
  /\ panic = "none" /\ panic' # "SEM_OPERATION"
  /\ preemptive \/ pc[current] # "call"
  /\ \A t \in Tcb : pc'[t] = "call" => pc[t] = "call"
  /\ UNCHANGED preemptive

LEMMA KernelLeavesCalls ==
  ASSUME Inv, Next, ~UNCHANGED vars
  PROVE  LeavesCalls
<1> USE DEF Inv, TypeInv, LeavesCalls
<1>1. CASE Tick
  <2>1. panic' \in {panic, "NO_TASKS", "UNDEFINED"}
    BY <1>1, SwitchStates DEF Tick
  <2> QED BY <1>1, <2>1 DEF Tick
<1>2. CASE Yield
  <2>1. PICK t \in Tcb : ucx_task_yield(t)
    BY <1>2 DEF Yield
  <2>2. panic' \in {panic, "NO_TASKS", "UNDEFINED"}
    BY <2>1, SwitchStates DEF ucx_task_yield
  <2> QED BY <2>1, <2>2 DEF ucx_task_yield
<1>3. CASE Halted
  BY <1>3 DEF Halted
<1>4. ASSUME NEW t \in Tcb, Call(t)
      PROVE  LeavesCalls
  <2> USE DEF MayCall, Running
  <2>1. ASSUME NEW n \in Delays, ucx_task_delay(t, n)
        PROVE  LeavesCalls
    BY <2>1 DEF ucx_task_delay
  <2>2. ASSUME NEW u \in Tcb,
               ucx_task_suspend(t, u) \/ ucx_task_resume(t, u)
        PROVE  LeavesCalls
    BY <2>2 DEF ucx_task_suspend, ucx_task_resume
  <2>3. ASSUME NEW u \in Tcb,
               \/ \E level \in Levels : ucx_task_priority(t, u, level)
               \/ ucx_task_rt_priority(t, u)
               \/ ucx_task_cancel(t, u)
        PROVE  LeavesCalls
    BY <2>3 DEF ucx_task_priority, ucx_task_rt_priority, ucx_task_cancel
  <2>4. ASSUME NEW u \in Tcb, ucx_task_spawn(t, u)
        PROVE  LeavesCalls
    BY <2>4 DEF ucx_task_spawn
  <2>5. CASE SpawnReady(t) \/ SpawnNoMemory(t)
    BY <2>5 DEF SpawnReady, SpawnNoMemory
  <2> QED BY <1>4, <2>1, <2>2, <2>3, <2>4, <2>5 DEF Call
<1> QED BY <1>1, <1>2, <1>3, <1>4 DEF Next

-----------------------------------------------------------------------------
(* Every step keeps the invariant: one lemma for the task core, and one for *)
(* each call on the semaphore.                                             *)

LEMMA KernelKeepsSInv ==
  ASSUME RtOnlyYield, SInv, NoCancel, Next, UNCHANGED semVars
  PROVE  SInv'
<1> USE DEF SInv
<1>0. UNCHANGED <<count, waitq, semLive>>
  BY DEF semVars
<1>1. CASE UNCHANGED vars
  <2>1. Inv'
    BY <1>1, NothingElseKeepsInv DEF vars
  <2>2. UNCHANGED <<tasks, current, state, delay, pc, panic, preemptive>>
    BY <1>1 DEF vars
  <2>3. SemTypes' /\ CountMatchesQueue' /\ NoWaiterOnFreed'
    BY <1>0, <2>2 DEF QueueInv, SemTypes, CountMatchesQueue, NoWaiterOnFreed
  <2>4. WaitersAsleep'
    BY <1>0, <2>2 DEF QueueInv, WaitersAsleep, Queued, Asleep, Listed
  <2>5. DestroyIsAlone'
    BY <1>0, <2>2 DEF QueueInv, DestroyIsAlone
  <2> QED BY <2>1, <2>3, <2>4, <2>5 DEF QueueInv
<1>2. CASE ~UNCHANGED vars
  <2>1. Inv'
    BY NextInv
  <2>2. LeavesCalls
    BY <1>2, KernelLeavesCalls
  <2>3. SemTypes' /\ CountMatchesQueue' /\ NoWaiterOnFreed'
    BY <1>0, <2>2 DEF QueueInv, SemTypes, CountMatchesQueue, NoWaiterOnFreed,
                      LeavesCalls
  <2>4. WaitersAsleep'
    <3>1. \A t \in Tcb : Queued(t)' <=> Queued(t)
      BY <1>0 DEF Queued
    <3>2. IsInjective(waitq')
      BY <1>0 DEF QueueInv, WaitersAsleep
    <3> QED BY <3>1, <3>2, KernelKeepsAsleep DEF QueueInv, WaitersAsleep
  <2>5. DestroyIsAlone'
    BY <2>2 DEF QueueInv, DestroyIsAlone, LeavesCalls
  <2> QED BY <2>1, <2>3, <2>4, <2>5 DEF QueueInv
<1> QED BY <1>1, <1>2

(* A task that runs its own code: it is not queued, and no other task is    *)
(* inside a call.                                                          *)
LEMMA CallerRuns ==
  ASSUME RtOnlyYield, SInv, NEW t \in Tcb, Running(t)
  PROVE  /\ Listed(t) /\ current = t /\ pc[t] = "run" /\ panic = "none"
         /\ state[t] \in {"READY", "RUNNING"} /\ delay[t] = 0 /\ ~Queued(t)
         /\ \A u \in Tcb : pc[u] # "call"
<1>1. /\ Listed(t) /\ current = t /\ pc[t] = "run" /\ panic = "none"
      /\ state[t] \in {"READY", "RUNNING"}
  BY DEF Running, SInv, Inv, CurrentListed, StoppedTasksDoNotRun
<1>2. delay[t] = 0
  BY <1>1, NoDelayLeft DEF SInv
<1> QED BY <1>1, <1>2 DEF SInv, QueueInv, WaitersAsleep, Asleep, DestroyIsAlone

(* The queue and the tasks in it are as before. *)
LEMMA SameQueue ==
  ASSUME SInv, UNCHANGED <<tasks, state, delay, waitq>>
  PROVE  WaitersAsleep'
BY DEF SInv, QueueInv, WaitersAsleep, Queued, Asleep, Listed

LEMMA CreateKeepsSInv ==
  ASSUME RtOnlyYield, SInv, NEW t \in Tcb, ucx_sem_create(t)
  PROVE  SInv'
<1> USE DEF SInv
<1>1. /\ Running(t) /\ count' = Value /\ waitq' = << >> /\ semLive'
      /\ UNCHANGED <<tasks, current, state, priority, delay, rtVars, pc, new, panic, preemptive>>
  BY DEF ucx_sem_create, MayCall, vars
<1>2. Inv'
  BY <1>1, NothingElseKeepsInv
<1>3. waitq' \in Seq(Tcb) /\ Len(waitq') = 0 /\ IsInjective(waitq')
  BY <1>1 DEF IsInjective
<1>4. semLive' \in BOOLEAN
  BY DEF ucx_sem_create
<1>5. SemTypes' /\ CountMatchesQueue' /\ NoWaiterOnFreed'
  <2>1. count' \in Int /\ ~(count' < 0)
    BY <1>1, SemaphoreAssumption
  <2>2. SemTypes' /\ NoWaiterOnFreed'
    BY <1>1, <1>3, <1>4, <2>1 DEF SemTypes, NoWaiterOnFreed
  <2>3. CountMatchesQueue'
    BY <1>3, <2>1 DEF CountMatchesQueue
  <2> QED BY <2>2, <2>3
<1>6. WaitersAsleep'
  BY <1>3 DEF WaitersAsleep, Queued
<1>7. DestroyIsAlone'
  BY <1>1, CallerRuns DEF DestroyIsAlone
<1> QED BY <1>2, <1>5, <1>6, <1>7 DEF QueueInv

(* Into and out of ucx_sem_destroy nothing else changes. *)
LEMMA PcKeepsInv ==
  ASSUME Inv, NEW t \in Tcb, current = t, NEW from \in {"run", "call"}, pc[t] = from,
         NEW to \in {"run", "call"}, pc' = [pc EXCEPT ![t] = to],
         UNCHANGED <<tasks, current, state, priority, delay, rtVars, new, panic, preemptive>>
  PROVE  Inv'
<1>1. \A w \in Tcb : /\ Listed(w)' <=> Listed(w)
                     /\ pc'[w] = "spawn" => pc[w] = "spawn"
  BY DEF Inv, TypeInv, Listed
<1>2. TypeInv' /\ CurrentListed' /\ OneRunning' /\ StoppedTasksDoNotRun'
  BY DEF Inv, TypeInv, CurrentListed, OneRunning, StoppedTasksDoNotRun, Listed
<1>3. /\ DelaysKept' /\ CountdownWithinBase' /\ IdleAlive' /\ IdleAtFront'
      /\ NodeIsRt' /\ RtIsIdle' /\ NoFalsePanic'
  BY DEF Inv, DelaysKept, DelayOnlyWhileBlocked, CountdownWithinBase, IdleAlive,
         IdleAtFront, NodeIsRt, RtIsIdle, NoFalsePanic, Listed, High, Low
<1>4. HalfBuiltNeverScheduled'
  BY <1>1 DEF Inv, TypeInv, HalfBuiltNeverScheduled
<1>5. SpawnsDistinct'
  BY <1>1 DEF Inv, SpawnsDistinct
<1> QED BY <1>2, <1>3, <1>4, <1>5 DEF Inv

LEMMA DestroyKeepsSInv ==
  ASSUME RtOnlyYield, SInv, NEW t \in Tcb, ucx_sem_destroy(t), preemptive => pc'[t] # "call"
  PROVE  SInv'
<1> USE DEF SInv
<1>1. /\ Running(t) /\ semLive /\ waitq = << >> /\ pc' = [pc EXCEPT ![t] = "call"]
      /\ UNCHANGED <<tasks, current, state, priority, delay, rtVars, new, panic, preemptive>>
      /\ UNCHANGED <<count, waitq, semLive>>
  BY DEF ucx_sem_destroy, MayCall, tcbVars, semVars
<1>2. Inv'
  BY <1>1, CallerRuns, PcKeepsInv
<1>3. SemTypes' /\ CountMatchesQueue' /\ NoWaiterOnFreed'
  BY <1>1 DEF QueueInv, SemTypes, CountMatchesQueue, NoWaiterOnFreed
<1>4. WaitersAsleep'
  BY <1>1, SameQueue
<1>5. ~preemptive /\ current = t /\ panic = "none"
  BY <1>1, CallerRuns DEF Inv, TypeInv
<1>6. DestroyIsAlone'
  BY <1>1, <1>5, CallerRuns DEF DestroyIsAlone, Inv, TypeInv
<1> QED BY <1>2, <1>3, <1>4, <1>6 DEF QueueInv

LEMMA FreedKeepsSInv ==
  ASSUME RtOnlyYield, SInv, NEW t \in Tcb, SemFreed(t)
  PROVE  SInv'
<1> USE DEF SInv
<1>1. /\ current = t /\ pc[t] = "call" /\ pc' = [pc EXCEPT ![t] = "run"] /\ ~semLive'
      /\ UNCHANGED <<tasks, current, state, priority, delay, rtVars, new, panic, preemptive>>
      /\ UNCHANGED <<count, waitq>> /\ semLive' \in BOOLEAN
  BY DEF SemFreed, tcbVars
<1>2. Inv'
  BY <1>1, PcKeepsInv
<1>3. waitq = << >>
  BY <1>1 DEF QueueInv, DestroyIsAlone
<1>4. SemTypes' /\ CountMatchesQueue' /\ NoWaiterOnFreed'
  BY <1>1, <1>3 DEF QueueInv, SemTypes, CountMatchesQueue, NoWaiterOnFreed
<1>5. WaitersAsleep'
  BY <1>1, SameQueue
<1>6. DestroyIsAlone'
  BY <1>1 DEF QueueInv, DestroyIsAlone, Inv, TypeInv
<1> QED BY <1>2, <1>4, <1>5, <1>6 DEF QueueInv

(* Calls that move only the count, and one that halts the system.          *)
LEMMA CountKeepsSInv ==
  ASSUME RtOnlyYield, SInv, NEW t \in Tcb, Running(t), count' \in Int,
         UNCHANGED <<tasks, current, state, priority, delay, rtVars, pc, new, preemptive>>,
         UNCHANGED <<waitq, semLive>>,
         \/ panic' = panic /\ count' >= 0 /\ waitq = << >>
         \/ panic' = "SEM_OPERATION"
  PROVE  SInv'
<1> USE DEF SInv
<1>1. Inv'
  BY NothingElseKeepsInv
<1>2. SemTypes' /\ NoWaiterOnFreed'
  BY DEF QueueInv, SemTypes, NoWaiterOnFreed
<1>3. CountMatchesQueue'
  <2>1. CASE panic' = "SEM_OPERATION"
    BY <2>1 DEF CountMatchesQueue
  <2>2. CASE count' >= 0 /\ waitq = << >>
    <3>1. waitq' = << >> /\ ~(count' < 0)
      BY <2>2
    <3>2. Len(waitq') = 0
      BY <3>1
    <3> QED BY <3>1, <3>2 DEF CountMatchesQueue
  <2> QED BY <2>1, <2>2
<1>4. WaitersAsleep'
  BY SameQueue
<1>5. DestroyIsAlone'
  BY CallerRuns DEF DestroyIsAlone
<1> QED BY <1>1, <1>2, <1>3, <1>4, <1>5 DEF QueueInv

(* While no panic is raised the queue is empty unless the count is negative. *)
LEMMA EmptyQueue ==
  ASSUME SInv, panic = "none"
  PROVE  /\ count \in Int /\ waitq \in Seq(Tcb) /\ Len(waitq) \in Nat
         /\ waitq = << >> <=> count >= 0
         /\ count < 0 => Len(waitq) = -count
<1>1. /\ count \in Int /\ waitq \in Seq(Tcb)
      /\ Len(waitq) = IF count < 0 THEN -count ELSE 0
  BY DEF SInv, QueueInv, SemTypes, CountMatchesQueue
<1>2. Len(waitq) \in Nat /\ (waitq = << >> <=> Len(waitq) = 0)
  BY <1>1
<1> QED BY <1>1, <1>2

LEMMA BlocksKeepsSInv ==
  ASSUME RtOnlyYield, SInv, NEW t \in Tcb, ucx_sem_wait(t), count' < 0, panic' # "SEM_OPERATION"
  PROVE  SInv'
<1> USE DEF SInv
<1>1. /\ Running(t) /\ t \notin Idle /\ semLive /\ count' = count - 1
      /\ waitq' = Append(waitq, t)
      /\ state' = [state EXCEPT ![t] = "BLOCKED"]
      /\ pc' = [pc EXCEPT ![t] = "yield"]
      /\ UNCHANGED <<tasks, current, priority, delay, rtVars, new, panic, preemptive>>
      /\ semLive' = semLive
  BY DEF ucx_sem_wait, MayCall
<1>2. /\ Listed(t) /\ state[t] \in {"READY", "RUNNING"} /\ delay[t] = 0 /\ ~Queued(t)
      /\ panic = "none" /\ pc[t] = "run"
      /\ \A u \in Tcb : pc[u] # "call"
  BY <1>1, CallerRuns
<1>3. Inv'
  <2>1. delay' \in [Tcb -> UInt16]
    BY <1>1 DEF Inv, TypeInv
  <2> QED BY <1>1, <1>2, <2>1, CallKeepsInv
<1>4. /\ count \in Int /\ waitq \in Seq(Tcb) /\ Len(waitq) \in Nat
      /\ waitq = << >> <=> count >= 0
      /\ count < 0 => Len(waitq) = -count
  BY <1>2, EmptyQueue
<1>5. /\ waitq' \in Seq(Tcb) /\ IsInjective(waitq') /\ Len(waitq') = Len(waitq) + 1
      /\ \A w \in Tcb : Queued(w)' <=> Queued(w) \/ w = t
  <2>1. IsInjective(waitq) /\ ~ \E i \in 1 .. Len(waitq) : waitq[i] = t
    BY <1>2 DEF QueueInv, WaitersAsleep, Queued
  <2> QED BY <1>1, <1>4, <2>1, AppendedListed DEF Queued
<1>6. SemTypes' /\ NoWaiterOnFreed'
  BY <1>1, <1>4, <1>5 DEF QueueInv, SemTypes, NoWaiterOnFreed
<1>7. CountMatchesQueue'
  <2>1. waitq = << >> => Len(waitq) = 0
    OBVIOUS
  <2> QED BY <1>1, <1>4, <1>5, <2>1 DEF CountMatchesQueue
<1>8. WaitersAsleep'
  <2>1. \A w \in Tcb : Listed(w)' <=> Listed(w)
    BY <1>1 DEF Listed
  <2>2. \A w \in Tcb : state'[w] = IF w = t THEN "BLOCKED" ELSE state[w]
    BY <1>1 DEF Inv, TypeInv
  <2> QED BY <1>1, <1>2, <1>5, <2>1, <2>2 DEF QueueInv, WaitersAsleep, Asleep
<1>9. DestroyIsAlone'
  BY <1>1, <1>2 DEF DestroyIsAlone, Inv, TypeInv
<1> QED BY <1>3, <1>6, <1>7, <1>8, <1>9 DEF QueueInv

LEMMA WaitKeepsSInv ==
  ASSUME RtOnlyYield, SInv, NEW t \in Tcb, ucx_sem_wait(t)
  PROVE  SInv'
<1>1. Running(t) /\ count' = count - 1
  BY DEF ucx_sem_wait, MayCall
<1>2. /\ panic = "none" /\ count \in Int /\ (waitq = << >> <=> count >= 0)
  BY <1>1, CallerRuns, EmptyQueue
<1>3. CASE count' < 0 /\ panic' # "SEM_OPERATION"
  BY <1>3, BlocksKeepsSInv
<1>4. CASE count' >= 0
  <2>1. waitq = << >> /\ count' \in Int
    BY <1>1, <1>2, <1>4
  <2>2. /\ UNCHANGED <<tasks, current, state, priority, delay, rtVars, pc, new, preemptive>>
        /\ UNCHANGED <<waitq, semLive, panic>>
    BY <1>1, <1>2, <1>4 DEF ucx_sem_wait
  <2> QED BY <1>1, <1>4, <2>1, <2>2, CountKeepsSInv
<1>5. CASE panic' = "SEM_OPERATION"
  <2>1. /\ UNCHANGED <<tasks, current, state, priority, delay, rtVars, pc, new, preemptive>>
        /\ UNCHANGED <<waitq, semLive>>
    BY <1>2, <1>5 DEF ucx_sem_wait
  <2> QED BY <1>1, <1>2, <1>5, <2>1, CountKeepsSInv
<1> QED BY <1>1, <1>2, <1>3, <1>4, <1>5

LEMMA TrywaitKeepsSInv ==
  ASSUME RtOnlyYield, SInv, NEW t \in Tcb, ucx_sem_trywait(t)
  PROVE  SInv'
<1>1. /\ Running(t) /\ count > 0 /\ count' = count - 1
      /\ UNCHANGED <<tasks, current, state, priority, delay, rtVars, pc, new, preemptive>>
      /\ UNCHANGED <<waitq, semLive, panic>>
  BY DEF ucx_sem_trywait, MayCall, vars
<1>2. count \in Int /\ (waitq = << >> <=> count >= 0)
  BY <1>1, CallerRuns, EmptyQueue
<1> QED BY <1>1, <1>2, CountKeepsSInv

(* The task that has waited longest is READY again, and nobody else.       *)
LEMMA WakesKeepsSInv ==
  ASSUME RtOnlyYield, SInv, NEW t \in Tcb, ucx_sem_signal(t), count' <= 0
  PROVE  SInv'
<1> USE DEF SInv
<1>1. Running(t) /\ semLive /\ count' = count + 1 /\ semLive' = semLive
  BY DEF ucx_sem_signal, MayCall
<1>2. panic = "none" /\ pc[t] = "run" /\ \A u \in Tcb : pc[u] # "call"
  BY <1>1, CallerRuns
<1>3. /\ count \in Int /\ waitq \in Seq(Tcb) /\ Len(waitq) \in Nat
      /\ waitq # << >> /\ Len(waitq) = -count
  BY <1>1, <1>2, EmptyQueue
<1> DEFINE u == Head(waitq)
<1>4. /\ state' = [state EXCEPT ![u] = "READY"] /\ waitq' = Tail(waitq)
      /\ UNCHANGED <<tasks, current, priority, delay, rtVars, pc, new, panic, preemptive>>
  BY <1>1, <1>3 DEF ucx_sem_signal
<1>5. /\ waitq' \in Seq(Tcb) /\ IsInjective(waitq') /\ u \in Tcb /\ Queued(u)
      /\ Len(waitq') = Len(waitq) - 1
      /\ \A w \in Tcb : Queued(w)' <=> Queued(w) /\ w # u
  <2>1. IsInjective(waitq)
    BY DEF QueueInv, WaitersAsleep
  <2>2. /\ Tail(waitq) \in Seq(Tcb) /\ IsInjective(Tail(waitq))
        /\ u \in Tcb /\ Len(waitq) >= 1 /\ u = waitq[1]
        /\ Len(Tail(waitq)) = Len(waitq) - 1
        /\ \A w \in Tcb : (\E i \in 1 .. Len(Tail(waitq)) : Tail(waitq)[i] = w)
              <=> (\E i \in 1 .. Len(waitq) : waitq[i] = w) /\ w # u
    BY <1>3, <2>1, TailOfQueue
  <2>3. 1 \in 1 .. Len(waitq)
    BY <1>3, <2>2
  <2> HIDE DEF u
  <2> QED BY <1>4, <2>2, <2>3 DEF Queued
<1>6. Asleep(u) /\ u \notin Idle
  BY <1>5 DEF QueueInv, WaitersAsleep
<1> HIDE DEF u
<1>7. Inv'
  <2>1. delay' \in [Tcb -> UInt16]
    BY <1>4 DEF Inv, TypeInv
  <2> QED BY <1>1, <1>4, <1>5, <1>6, <2>1, CallKeepsInv DEF Asleep
<1>8. SemTypes' /\ NoWaiterOnFreed' /\ CountMatchesQueue'
  BY <1>1, <1>3, <1>5 DEF QueueInv, SemTypes, NoWaiterOnFreed, CountMatchesQueue
<1>9. WaitersAsleep'
  <2>1. \A w \in Tcb : Listed(w)' <=> Listed(w)
    BY <1>4 DEF Listed
  <2>2. \A w \in Tcb : w # u => state'[w] = state[w]
    BY <1>4 DEF Inv, TypeInv
  <2> QED BY <1>4, <1>5, <2>1, <2>2 DEF QueueInv, WaitersAsleep, Asleep
<1>10. DestroyIsAlone'
  BY <1>2, <1>4 DEF DestroyIsAlone
<1> QED BY <1>7, <1>8, <1>9, <1>10 DEF QueueInv

LEMMA SignalKeepsSInv ==
  ASSUME RtOnlyYield, SInv, NEW t \in Tcb, ucx_sem_signal(t)
  PROVE  SInv'
<1>1. Running(t) /\ count' = count + 1
  BY DEF ucx_sem_signal, MayCall
<1>2. count \in Int /\ (waitq = << >> <=> count >= 0)
  BY <1>1, CallerRuns, EmptyQueue
<1>3. CASE count' <= 0
  BY <1>3, WakesKeepsSInv
<1>4. CASE count' > 0
  <2>1. waitq = << >> /\ count' \in Int /\ count' >= 0
    BY <1>1, <1>2, <1>4
  <2>2. /\ UNCHANGED <<tasks, current, state, priority, delay, rtVars, pc, new, preemptive>>
        /\ UNCHANGED <<waitq, semLive, panic>>
    BY <1>1, <1>2, <1>4 DEF ucx_sem_signal
  <2> QED BY <1>1, <2>1, <2>2, CountKeepsSInv
<1> QED BY <1>1, <1>2, <1>3, <1>4

LEMMA SemInitInv == SemInit => SInv
<1> SUFFICES ASSUME SemInit PROVE SInv
  OBVIOUS
<1>1. Init /\ count = Value /\ waitq = << >> /\ semLive = TRUE
  BY DEF SemInit
<1>2. waitq \in Seq(Tcb) /\ Len(waitq) = 0 /\ IsInjective(waitq)
  BY <1>1 DEF IsInjective
<1>3. \A t \in Tcb : pc[t] = "run"
  BY <1>1 DEF Init
<1>v. count \in Int /\ ~(count < 0)
  <2>1. Value \in Nat /\ count = Value
    BY <1>1, SemaphoreAssumption
  <2> QED BY ONLY <2>1
<1>4. SemTypes /\ CountMatchesQueue /\ NoWaiterOnFreed
  BY <1>1, <1>2, <1>v DEF SemTypes, CountMatchesQueue, NoWaiterOnFreed
<1>5. WaitersAsleep /\ DestroyIsAlone
  BY <1>2, <1>3 DEF WaitersAsleep, DestroyIsAlone, Queued
<1> QED BY <1>1, <1>4, <1>5, InitInv DEF SInv, QueueInv

LEMMA SemNextInv ==
  ASSUME RtOnlyYield, SInv, NoCancel, [AppNext]_svars
  PROVE  SInv'
<1>1. CASE UNCHANGED svars
  <2>1. Inv'
    BY <1>1, NothingElseKeepsInv DEF SInv, svars, vars
  <2>2. QueueInv'
    BY <1>1 DEF SInv, QueueInv, svars, vars, semVars, SemTypes, CountMatchesQueue,
                WaitersAsleep, DestroyIsAlone, NoWaiterOnFreed, Queued, Asleep, Listed
  <2> QED BY <2>1, <2>2 DEF SInv
<1>2. CASE Next /\ UNCHANGED semVars
  BY <1>2, KernelKeepsSInv
<1>3. ASSUME NEW t \in Tcb, SemCall(t), preemptive => pc'[t] # "call"
      PROVE  SInv'
  BY <1>3, CreateKeepsSInv, DestroyKeepsSInv, FreedKeepsSInv, WaitKeepsSInv,
     TrywaitKeepsSInv, SignalKeepsSInv DEF SemCall
<1> QED BY <1>1, <1>2, <1>3 DEF AppNext, SemNext

-----------------------------------------------------------------------------
(* No lost wake-up. *)

LEMMA NoLostWaiterByTask ==
  ASSUME SemTypes
  PROVE  NoLostWaiter <=> \A t \in Tcb : Asleep(t) => Queued(t)
BY DEF NoLostWaiter, Asleep, Queued

LEMMA SemCallLosesNobody ==
  ASSUME RtOnlyYield, SInv, NEW t \in Tcb, SemCall(t), NEW w \in Tcb, Asleep(w)',
         Asleep(w) => Queued(w)
  PROVE  Queued(w)'
<1> USE DEF SInv, Inv, TypeInv
<1>q. ASSUME UNCHANGED waitq
      PROVE  Queued(w)' <=> Queued(w)
  BY <1>q DEF Queued
<1>1. CASE UNCHANGED <<tasks, state, delay, waitq>>
  BY <1>1, <1>q DEF Asleep, Listed
<1>2. CASE ucx_sem_create(t)
  <2>1. waitq = << >>
    BY <1>2 DEF ucx_sem_create, QueueInv, NoWaiterOnFreed
  <2>2. UNCHANGED <<tasks, state, delay, waitq>>
    BY <1>2, <2>1 DEF ucx_sem_create, vars
  <2> QED BY <1>1, <2>2
<1>3. CASE ucx_sem_destroy(t) \/ SemFreed(t) \/ ucx_sem_trywait(t)
  <2>1. UNCHANGED <<tasks, state, delay, waitq>>
    BY <1>3 DEF ucx_sem_destroy, SemFreed, ucx_sem_trywait, tcbVars, semVars, vars
  <2> QED BY <1>1, <2>1
<1>4. CASE ucx_sem_wait(t) /\ state' # state
  <2>1. /\ waitq' = Append(waitq, t) /\ state' = [state EXCEPT ![t] = "BLOCKED"]
        /\ UNCHANGED <<tasks, delay>>
    BY <1>4 DEF ucx_sem_wait
  <2>2. waitq \in Seq(Tcb)
    BY DEF QueueInv, SemTypes
  <2>3. /\ Len(waitq') = Len(waitq) + 1 /\ waitq'[Len(waitq) + 1] = t /\ Len(waitq) \in Nat
        /\ \A i \in 1 .. Len(waitq) : waitq'[i] = waitq[i]
    BY <2>1, <2>2
  <2>4. CASE w = t
    <3>1. Len(waitq) + 1 \in 1 .. Len(waitq')
      BY <2>3
    <3> QED BY <2>3, <2>4, <3>1 DEF Queued
  <2>5. CASE w # t
    <3>1. Asleep(w)
      BY <2>1, <2>5 DEF Asleep, Listed
    <3>2. PICK i \in 1 .. Len(waitq) : waitq[i] = w
      BY <3>1 DEF Queued
    <3>3. i \in 1 .. Len(waitq')
      BY <2>3
    <3> QED BY <2>3, <3>2, <3>3 DEF Queued
  <2> QED BY <2>4, <2>5
<1>5. CASE ucx_sem_signal(t) /\ state' # state
  <2>1. /\ waitq # << >> /\ waitq' = Tail(waitq)
        /\ state' = [state EXCEPT ![Head(waitq)] = "READY"]
        /\ UNCHANGED <<tasks, delay>>
    BY <1>5 DEF ucx_sem_signal
  <2>2. waitq \in Seq(Tcb) /\ IsInjective(waitq)
    BY DEF QueueInv, SemTypes, WaitersAsleep
  <2>3. /\ Head(waitq) \in Tcb
        /\ \A x \in Tcb : (\E i \in 1 .. Len(Tail(waitq)) : Tail(waitq)[i] = x)
              <=> (\E i \in 1 .. Len(waitq) : waitq[i] = x) /\ x # Head(waitq)
    BY <2>1, <2>2, TailOfQueue
  <2>4. w # Head(waitq)
    BY <2>1 DEF Asleep
  <2>5. Asleep(w)
    BY <2>1, <2>3, <2>4 DEF Asleep, Listed
  <2> QED BY <2>1, <2>3, <2>4, <2>5 DEF Queued
<1>6. CASE (ucx_sem_wait(t) \/ ucx_sem_signal(t)) /\ state' = state
  <2>1. CASE UNCHANGED waitq
    BY <1>1, <1>6, <2>1 DEF ucx_sem_wait, ucx_sem_signal
  <2>2. CASE waitq' # waitq /\ ucx_sem_wait(t)
    <3>1. state' = [state EXCEPT ![t] = "BLOCKED"] /\ Running(t)
      BY <2>2 DEF ucx_sem_wait, MayCall
    <3>2. state[t] # "BLOCKED"
      BY <3>1, CallerRuns
    <3> QED BY <1>6, <3>1, <3>2
  <2>3. CASE waitq' # waitq /\ ucx_sem_signal(t)
    <3>1. state' = [state EXCEPT ![Head(waitq)] = "READY"] /\ waitq # << >>
      BY <2>3 DEF ucx_sem_signal
    <3>2. waitq \in Seq(Tcb) /\ WaitersBlocked
      BY WaitersByTask DEF QueueInv, SemTypes
    <3>3. Head(waitq) \in Tcb /\ Head(waitq) = waitq[1] /\ 1 \in 1 .. Len(waitq)
      BY <3>1, <3>2
    <3>4. state[Head(waitq)] = "BLOCKED"
      BY <3>2, <3>3 DEF WaitersBlocked
    <3> QED BY <1>6, <3>1, <3>3, <3>4
  <2> QED BY <1>6, <2>1, <2>2, <2>3
<1> QED BY <1>2, <1>3, <1>4, <1>5, <1>6 DEF SemCall

LEMMA StepLosesNobody ==
  ASSUME RtOnlyYield, SInv, SInv', NoZeroDelay, NoLostWaiter, [AppNext]_svars
  PROVE  NoLostWaiter'
<1> SUFFICES ASSUME NEW w \in Tcb, Asleep(w)'
             PROVE  Queued(w)'
  BY DEF NoLostWaiter, Asleep, Queued
<1>1. Asleep(w) => Queued(w)
  BY NoLostWaiterByTask DEF SInv, QueueInv
<1>2. CASE Next /\ UNCHANGED semVars
  <2>1. Asleep(w)
    BY <1>2, KernelLullsNobody DEF SInv
  <2> QED BY <1>1, <1>2, <2>1 DEF Queued, semVars
<1>3. CASE UNCHANGED svars
  BY <1>1, <1>3 DEF svars, vars, semVars, Asleep, Queued, Listed
<1>4. ASSUME NEW t \in Tcb, SemCall(t)
      PROVE  Queued(w)'
  BY <1>1, <1>4, SemCallLosesNobody
<1> QED BY <1>2, <1>3, <1>4 DEF AppNext, SemNext

-----------------------------------------------------------------------------
(* The queue has room for every task. *)

LEMMA RoomForCaller ==
  ASSUME RtOnlyYield, SInv, RoomForAll, NEW t \in Tcb, Running(t), t \notin Idle
  PROVE  Len(waitq) # QueueRoom
<1> DEFINE users == Tcb \ Idle
           q == Append(waitq, t)
<1>1. /\ waitq \in Seq(Tcb) /\ IsInjective(waitq) /\ ~Queued(t)
      /\ \A w \in Tcb : Queued(w) => w \notin Idle
  BY CallerRuns DEF SInv, QueueInv, SemTypes, WaitersAsleep
<1>2. /\ q \in Seq(Tcb) /\ IsInjective(q) /\ Len(q) = Len(waitq) + 1 /\ Len(waitq) \in Nat
      /\ \A w \in Tcb : (\E i \in 1 .. Len(q) : q[i] = w) <=> Queued(w) \/ w = t
  BY <1>1, AppendedListed DEF Queued
<1> HIDE DEF q
<1>3. q \in [1 .. Len(q) -> users]
  BY <1>1, <1>2
<1>4. q \in Injection(1 .. Len(q), users)
  BY <1>2, <1>3 DEF Injection, IsInjective
<1>5. IsFiniteSet(users) /\ Cardinality(users) \in Nat
  BY FS_Subset, FS_CardinalityType DEF RoomForAll
<1>6. Cardinality(1 .. Len(q)) <= Cardinality(users)
  BY <1>4, <1>5, FS_Injection
<1>7. Cardinality(1 .. Len(q)) = Len(q)
  BY <1>2, FS_Interval
<1> QED BY <1>2, <1>5, <1>6, <1>7 DEF RoomForAll

LEMMA QueueStaysLargeEnough ==
  ASSUME RtOnlyYield, SInv, RoomForAll, QueueSuffices, [AppNext]_svars
  PROVE  QueueSuffices'
<1> USE DEF QueueSuffices
<1>1. CASE UNCHANGED svars
  BY <1>1 DEF svars, vars
<1>2. CASE Next
  BY <1>2, KernelLeavesCalls DEF SInv, LeavesCalls, vars
<1>3. ASSUME NEW t \in Tcb, SemCall(t)
      PROVE  QueueSuffices'
  <2>1. CASE ucx_sem_wait(t)
    <3>1. Len(waitq) # QueueRoom
      BY <2>1, RoomForCaller DEF ucx_sem_wait, MayCall
    <3> QED BY <2>1, <3>1 DEF ucx_sem_wait
  <2>2. CASE ucx_sem_signal(t)
    <3>1. count < 0 => waitq # << >>
      BY <2>2, EmptyQueue DEF ucx_sem_signal, MayCall, Running, SInv, QueueInv
    <3>2. count' <= 0 => count < 0
      BY <2>2 DEF ucx_sem_signal, SInv, QueueInv, SemTypes
    <3> QED BY <2>2, <3>1, <3>2 DEF ucx_sem_signal
  <2>3. CASE ~ucx_sem_wait(t) /\ ~ucx_sem_signal(t)
    BY <1>3, <2>3 DEF SemCall, ucx_sem_create, ucx_sem_destroy, SemFreed,
                      ucx_sem_trywait, vars
  <2> QED BY <2>1, <2>2, <2>3
<1> QED BY <1>1, <1>2, <1>3 DEF AppNext, SemNext

-----------------------------------------------------------------------------
(* Every step of the semaphore is a step of Dijkstra's, or none that it     *)
(* sees. The panic of ucx_sem_wait is such a step: the count stays <= 0.    *)

LEMMA SemStep ==
  ASSUME RtOnlyYield, SInv, [AppNext]_svars
  PROVE  [D!Next]_(D!dijkstraVars)
<1> DEFINE value == IF count > 0 THEN count ELSE 0
<1>v. count \in Int /\ waitq \in Seq(Tcb)
  BY DEF SInv, QueueInv, SemTypes
<1>s. ASSUME UNCHANGED semVars
      PROVE  UNCHANGED D!dijkstraVars
  BY <1>s DEF semVars, D!dijkstraVars
<1>1. ASSUME UNCHANGED svars \/ (Next /\ UNCHANGED semVars)
      PROVE  UNCHANGED D!dijkstraVars
  BY <1>1, <1>s DEF svars
<1>2. ASSUME NEW t \in Tcb, SemCall(t)
      PROVE  D!Next \/ UNCHANGED D!dijkstraVars
  <2>p. panic = "none"
    BY <1>2 DEF SemCall, ucx_sem_create, ucx_sem_destroy, SemFreed, ucx_sem_wait,
                ucx_sem_trywait, ucx_sem_signal, MayCall, Running
  <2>e. /\ waitq = << >> <=> count >= 0
        /\ count < 0 => Len(waitq) = -count
    BY <2>p, EmptyQueue
  <2>1. CASE ucx_sem_create(t)
    <3>1. ~semLive /\ semLive' = TRUE /\ count' = Value /\ waitq' = << >>
      BY <2>1 DEF ucx_sem_create
    <3>a. Value \in Nat
      BY SemaphoreAssumption
    <3>2. value' = Value
      BY ONLY <3>a, <3>1
    <3>3. D!Create
      BY <3>1, <3>2 DEF D!Create
    <3> QED BY <3>3 DEF D!Next
  <2>2. CASE ucx_sem_destroy(t)
    BY <2>2, <1>s DEF ucx_sem_destroy
  <2>3. CASE SemFreed(t)
    <3>1. semLive /\ waitq = << >>
      BY <2>3 DEF SemFreed, SInv, QueueInv, DestroyIsAlone
    <3>2. D!Destroy
      BY <2>3, <3>1 DEF SemFreed, D!Destroy
    <3> QED BY <3>2 DEF D!Next
  <2>4. CASE ucx_sem_wait(t)
    <3>q. ~D!IsWaiting(t)
      BY <2>4, CallerRuns DEF ucx_sem_wait, MayCall, D!IsWaiting, Queued
    <3>c. semLive /\ count' = count - 1 /\ UNCHANGED semLive
      BY <2>4 DEF ucx_sem_wait
    <3>1. CASE count' >= 0
      <4>1. UNCHANGED waitq /\ value > 0 /\ value' = value - 1
        BY <2>4, <3>1, <3>c, <1>v DEF ucx_sem_wait
      <4>2. D!Wait(t)
        BY <3>c, <3>q, <4>1 DEF D!Wait
      <4> QED BY <4>2 DEF D!Next
    <3>2. CASE count' < 0 /\ UNCHANGED waitq
      <4>1. UNCHANGED value
        BY <3>2, <3>c, <1>v
      <4> QED BY <3>2, <3>c, <4>1 DEF D!dijkstraVars
    <3>3. CASE count' < 0 /\ waitq' = Append(waitq, t)
      <4>1. UNCHANGED value /\ value = 0
        BY <3>3, <3>c, <1>v
      <4>2. D!Wait(t)
        BY <3>c, <3>q, <3>3, <4>1 DEF D!Wait
      <4> QED BY <4>2 DEF D!Next
    <3> QED BY <2>4, <3>1, <3>2, <3>3 DEF ucx_sem_wait
  <2>5. CASE ucx_sem_trywait(t)
    <3>1. value > 0 /\ value' = value - 1
      BY <2>5, <1>v DEF ucx_sem_trywait
    <3>2. D!TryWait
      BY <2>5, <3>1 DEF ucx_sem_trywait, D!TryWait
    <3> QED BY <3>2 DEF D!Next
  <2>6. CASE ucx_sem_signal(t)
    <3>c. semLive /\ count' = count + 1 /\ UNCHANGED semLive
      BY <2>6 DEF ucx_sem_signal
    <3>1. CASE count' > 0
      <4>1. waitq = << >> /\ UNCHANGED waitq /\ value' = value + 1
        BY <2>6, <3>1, <3>c, <1>v, <2>e DEF ucx_sem_signal
      <4>2. D!Signal
        BY <3>c, <4>1 DEF D!Signal
      <4> QED BY <4>2 DEF D!Next
    <3>2. CASE count' <= 0
      <4>1. waitq # << >> /\ waitq' = Tail(waitq) /\ UNCHANGED value
        BY <2>6, <3>2, <3>c, <1>v, <2>e DEF ucx_sem_signal
      <4>2. D!Signal
        BY <3>c, <4>1 DEF D!Signal
      <4> QED BY <4>2 DEF D!Next
    <3> QED BY <3>1, <3>2, <3>c, <1>v
  <2> QED BY <1>2, <2>1, <2>2, <2>3, <2>4, <2>5, <2>6 DEF SemCall
<1>3. \/ UNCHANGED svars \/ (Next /\ UNCHANGED semVars)
      \/ \E t \in Tcb : SemCall(t)
  BY DEF AppNext, SemNext
<1>4. D!Next \/ UNCHANGED D!dijkstraVars
  BY <1>1, <1>2, <1>3
<1> QED BY <1>4

LEMMA SemStart == SemInit => D!Init
<1> SUFFICES ASSUME SemInit
             PROVE  D!Init
  OBVIOUS
<1>1. count = Value /\ waitq = << >> /\ semLive = TRUE
  BY DEF SemInit
<1>2. Value \in Nat
  BY SemaphoreAssumption
<1>3. (IF count > 0 THEN count ELSE 0) = Value
  BY ONLY <1>1, <1>2
<1> QED BY <1>1, <1>3 DEF D!Init

-----------------------------------------------------------------------------
LEMMA SemInvariance ==
  ASSUME RtOnlyYield, NoCancel
  PROVE  AppSpec => []SInv
<1>1. SInv /\ [AppNext]_svars => SInv'
  BY SemNextInv
<1> QED BY <1>1, SemInitInv, PTL DEF AppSpec

(* Whatever the application calls, except that it cancels no task: in both *)
(* scheduling modes, through every order of waits, failed trywaits,        *)
(* signals, delays, suspensions and ticks, the count of a semaphore is     *)
(* minus the number of its queued tasks, or its queue is empty.            *)
THEOREM CountAgrees ==
  ASSUME RtOnlyYield, NoCancel
  PROVE  AppSpec => []CountMatchesQueue
<1>1. SInv => CountMatchesQueue
  BY DEF SInv, QueueInv
<1> QED BY <1>1, SemInvariance, PTL

(* ucx_task_resume, the scheduler and the end of a delay never take a task *)
(* out of a semaphore: it stays queued once, BLOCKED, until a signal.      *)
THEOREM WaitersStayBlocked ==
  ASSUME RtOnlyYield, NoCancel
  PROVE  AppSpec => []WaitersBlocked
<1>1. SInv => WaitersBlocked
  BY WaitersByTask DEF SInv, QueueInv
<1> QED BY <1>1, SemInvariance, PTL

(* A task that went to sleep in ucx_sem_wait can be found by a signal: none *)
(* is BLOCKED with nothing that would wake it, where no task calls          *)
(* ucx_task_delay(0), which blocks it for good.                             *)
THEOREM WakeUpsAreNotLost ==
  ASSUME RtOnlyYield, NoCancel, NoZeroDelay
  PROVE  AppSpec => []NoLostWaiter
<1>1. SemInit => NoLostWaiter
  BY DEF SemInit, Init, NoLostWaiter, Listed
<1>2. SInv /\ SInv' /\ NoLostWaiter /\ [AppNext]_svars => NoLostWaiter'
  BY StepLosesNobody
<1> QED BY <1>1, <1>2, SemInvariance, PTL DEF AppSpec

(* With a queue created for all tasks that use the semaphore, neither       *)
(* ucx_sem_wait nor ucx_sem_signal ever halts the system.                   *)
THEOREM QueueNeverOverflows ==
  ASSUME RtOnlyYield, NoCancel, RoomForAll
  PROVE  AppSpec => []QueueSuffices
<1>1. SemInit => QueueSuffices
  BY DEF SemInit, Init, QueueSuffices
<1>2. SInv /\ QueueSuffices /\ [AppNext]_svars => QueueSuffices'
  BY QueueStaysLargeEnough
<1> QED BY <1>1, <1>2, SemInvariance, PTL DEF AppSpec

(* kernel/semaphore.c implements the documented semaphore: waiting tasks    *)
(* pass in the order in which they came, and no step of a scheduler, a tick *)
(* or another call changes its value.                                       *)
THEOREM SemaphoreIsDijkstra ==
  ASSUME RtOnlyYield, NoCancel
  PROVE  AppSpec => ImplementsDijkstra
<1>1. SInv /\ [AppNext]_svars => [D!Next]_(D!dijkstraVars)
  BY SemStep
<1> QED BY <1>1, SemStart, SemInvariance, PTL DEF AppSpec, ImplementsDijkstra, D!Spec

-----------------------------------------------------------------------------
(* The tasks of app/mutex.c.                                                *)

(* The semaphore belongs to a task from the moment its ucx_sem_wait passed *)
(* or a signal took it out of the queue, long before it runs again.        *)
Holder(t) == phase[t] # "outside" /\ ~Queued(t)

OneHolder ==
  /\ \A t, u \in Tcb : Holder(t) /\ Holder(u) => t = u
  /\ count <= 1
  /\ count = 1 <=> \A t \in Tcb : ~Holder(t)

MutexInv ==
  /\ SInv
  /\ \A t \in Tcb : pc[t] # "call"
  /\ phase \in [Tcb -> {"outside", "waiting", "inside"}]
  /\ \A t \in Tcb : Queued(t) => phase[t] = "waiting"
  /\ panic = "none" => OneHolder
  /\ MutualExclusion

-----------------------------------------------------------------------------
LEMMA MutexInitInv == MutexInit => MutexInv
<1> SUFFICES ASSUME MutexInit
             PROVE  MutexInv
  OBVIOUS
<1>1. SemInit /\ phase = [t \in Tcb |-> "outside"]
  BY DEF MutexInit
<1>2. SInv /\ pc = [t \in Tcb |-> "run"] /\ waitq = << >> /\ count = 1
  BY <1>1, SemInitInv, MutexAssumption DEF SemInit, Init
<1>3. \A t \in Tcb : ~Queued(t) /\ ~Holder(t)
  BY <1>1, <1>2 DEF Queued, Holder
<1> QED BY <1>1, <1>2, <1>3 DEF MutexInv, OneHolder, MutualExclusion

(* What the tasks of the application do is what AppSpec allows them.       *)
LEMMA MutexIsAnApplication ==
  ASSUME RtOnlyYield, MutexInv, [MutexNext]_mvars
  PROVE  [AppNext]_svars /\ \A t \in Tcb : pc'[t] # "call"
<1> USE DEF MutexInv
<1>1. CASE UNCHANGED mvars
  BY <1>1 DEF mvars, svars, vars
<1>2. CASE Elsewhere
  <2>1. \A t \in Tcb : pc'[t] # "call"
    BY <1>2, KernelLeavesCalls DEF Elsewhere, LeavesCalls, SInv, vars
  <2> QED BY <1>2, <2>1 DEF Elsewhere, AppNext, SemNext
<1>3. ASSUME NEW t \in Tcb, Go(t)
      PROVE  [AppNext]_svars /\ \A u \in Tcb : pc'[u] # "call"
  <2>1. pc \in [Tcb -> {"run", "yield", "spin", "spawn", "call"}]
    BY DEF SInv, Inv, TypeInv
  <2>2. CASE Enter(t)
    <3>1. SemCall(t)
      BY <2>2 DEF Enter, SemCall
    <3>2. pc' = pc \/ pc' = [pc EXCEPT ![t] = "yield"]
      BY <2>2 DEF Enter, ucx_sem_wait
    <3> QED BY <2>1, <3>1, <3>2 DEF AppNext, SemNext
  <2>3. CASE Leave(t)
    <3>1. SemCall(t) /\ pc' = pc
      BY <2>3 DEF Leave, SemCall, ucx_sem_signal
    <3> QED BY <3>1 DEF AppNext, SemNext
  <2>4. CASE Work(t)
    BY <2>4 DEF Work, svars, vars
  <2> QED BY <1>3, <2>2, <2>3, <2>4 DEF Go
<1> QED BY <1>1, <1>2, <1>3 DEF MutexNext

LEMMA EnterKeepsHolder ==
  ASSUME RtOnlyYield, MutexInv, NEW t \in Tcb, Enter(t)
  PROVE  /\ \A u \in Tcb : Queued(u)' => phase'[u] = "waiting"
         /\ panic' = "none" => OneHolder'
<1> USE DEF MutexInv
<1>1. /\ phase[t] = "outside" /\ phase' = [phase EXCEPT ![t] = "waiting"]
      /\ count' = count - 1 /\ ucx_sem_wait(t) /\ Running(t) /\ panic = "none"
  BY DEF Enter, ucx_sem_wait, MayCall, Running
<1>2. count \in Int /\ OneHolder /\ waitq \in Seq(Tcb) /\ ~Queued(t) /\ ~Holder(t)
  BY <1>1, EmptyQueue DEF Holder
<1>3. CASE UNCHANGED waitq
  <2>1. \A u \in Tcb : Queued(u)' <=> Queued(u)
    BY <1>3 DEF Queued
  <2>2. \A u \in Tcb : Holder(u)' <=> Holder(u) \/ u = t
    BY <1>1, <1>2, <2>1 DEF Holder
  <2>3. panic' = "none" => count = 1
    BY <1>1, <1>2, <1>3, CallerRuns DEF ucx_sem_wait, OneHolder
  <2> QED BY <1>1, <1>2, <2>1, <2>2, <2>3 DEF OneHolder
<1>4. CASE waitq' = Append(waitq, t) /\ count' < 0
  <2>1. \A u \in Tcb : Queued(u)' <=> Queued(u) \/ u = t
    BY <1>2, <1>4, AppendedListed DEF Queued
  <2>2. \A u \in Tcb : Holder(u)' <=> Holder(u)
    BY <1>1, <1>2, <2>1 DEF Holder
  <2> QED BY <1>1, <1>2, <1>4, <2>1, <2>2 DEF OneHolder
<1> QED BY <1>1, <1>3, <1>4 DEF ucx_sem_wait

LEMMA LeavePassesItOn ==
  ASSUME RtOnlyYield, MutexInv, NEW t \in Tcb, Leave(t)
  PROVE  /\ \A u \in Tcb : Queued(u)' => phase'[u] = "waiting"
         /\ panic' = "none" => OneHolder'
<1> USE DEF MutexInv
<1>1. /\ phase[t] = "inside" /\ phase' = [phase EXCEPT ![t] = "outside"]
      /\ count' = count + 1 /\ ucx_sem_signal(t) /\ panic = "none"
  BY DEF Leave, ucx_sem_signal, MayCall, Running
<1>2. /\ count \in Int /\ OneHolder /\ waitq \in Seq(Tcb) /\ IsInjective(waitq)
      /\ ~Queued(t) /\ Holder(t)
      /\ waitq = << >> <=> count >= 0
  BY <1>1, EmptyQueue DEF Holder, SInv, QueueInv, WaitersAsleep
<1>3. count <= 0 /\ \A u \in Tcb : Holder(u) => u = t
  BY <1>2 DEF OneHolder
<1>4. CASE UNCHANGED waitq /\ count' > 0
  <2>1. \A u \in Tcb : Queued(u)' <=> Queued(u)
    BY <1>4 DEF Queued
  <2>2. \A u \in Tcb : ~Holder(u)'
    BY <1>1, <1>3, <2>1 DEF Holder
  <2> QED BY <1>1, <1>2, <1>3, <1>4, <2>1, <2>2 DEF OneHolder
<1>5. CASE waitq # << >> /\ waitq' = Tail(waitq) /\ count' <= 0
  <2>1. /\ Head(waitq) \in Tcb /\ Queued(Head(waitq))
        /\ \A u \in Tcb : Queued(u)' <=> Queued(u) /\ u # Head(waitq)
    <3>1. /\ Head(waitq) \in Tcb /\ Head(waitq) = waitq[1] /\ Len(waitq) >= 1
          /\ Len(waitq) \in Nat
          /\ \A u \in Tcb : (\E i \in 1 .. Len(Tail(waitq)) : Tail(waitq)[i] = u)
               <=> (\E i \in 1 .. Len(waitq) : waitq[i] = u) /\ u # Head(waitq)
      BY <1>2, <1>5, TailOfQueue
    <3>2. 1 \in 1 .. Len(waitq)
      BY <3>1
    <3> QED BY <1>5, <3>1, <3>2 DEF Queued
  <2>2. Head(waitq) # t /\ phase[Head(waitq)] = "waiting"
    BY <1>2, <2>1
  <2>3. \A u \in Tcb : Holder(u)' <=> u = Head(waitq)
    BY <1>1, <1>3, <2>1, <2>2 DEF Holder
  <2> QED BY <1>1, <1>2, <1>5, <2>1, <2>3 DEF OneHolder
<1> QED BY <1>1, <1>2, <1>3, <1>4, <1>5 DEF ucx_sem_signal

LEMMA MutexNextInv ==
  ASSUME RtOnlyYield, NoCancel, MutexInv, [MutexNext]_mvars
  PROVE  MutexInv'
<1> USE DEF MutexInv
<1>1. SInv' /\ \A t \in Tcb : pc'[t] # "call"
  BY MutexIsAnApplication, SemNextInv
<1>2. CASE UNCHANGED mvars \/ Elsewhere
  <2>1. UNCHANGED <<waitq, count, phase>> /\ (panic' = "none" => panic = "none")
    <3>1. CASE UNCHANGED mvars
      BY <3>1 DEF mvars, svars, vars, semVars
    <3>2. CASE Elsewhere
      BY <3>2, KernelLeavesCalls DEF Elsewhere, semVars, LeavesCalls, SInv, vars
    <3> QED BY <1>2, <3>1, <3>2
  <2>2. \A t \in Tcb : (Queued(t)' <=> Queued(t)) /\ (Holder(t)' <=> Holder(t))
    BY <2>1 DEF Queued, Holder
  <2> QED BY <1>1, <2>1, <2>2 DEF OneHolder, MutualExclusion
<1>3. ASSUME NEW t \in Tcb, Go(t)
      PROVE  MutexInv'
  <2>1. panic = "none"
    BY <1>3 DEF Go, Enter, Work, Leave, ucx_sem_wait, ucx_sem_signal, MayCall, Running
  <2>2. CASE Enter(t)
    <3>1. phase' = [phase EXCEPT ![t] = "waiting"]
      BY <2>2 DEF Enter
    <3> QED BY <1>1, <2>2, <3>1, EnterKeepsHolder DEF MutualExclusion
  <2>3. CASE Leave(t)
    <3>1. phase' = [phase EXCEPT ![t] = "outside"]
      BY <2>3 DEF Leave
    <3> QED BY <1>1, <2>3, <3>1, LeavePassesItOn DEF MutualExclusion
  <2>4. CASE Work(t)
    <3>1. /\ phase[t] = "waiting" /\ phase' = [phase EXCEPT ![t] = "inside"]
          /\ UNCHANGED <<waitq, count, panic>> /\ Running(t)
      BY <2>4 DEF Work, svars, vars, semVars
    <3>2. ~Queued(t) /\ Holder(t)
      BY <3>1, CallerRuns DEF Holder
    <3>3. \A u \in Tcb : (Queued(u)' <=> Queued(u)) /\ (Holder(u)' <=> Holder(u))
      BY <3>1 DEF Queued, Holder
    <3>4. \A u \in Tcb : phase[u] = "inside" => u = t
      <4>1. \A u \in Tcb : phase[u] = "inside" => Holder(u)
        BY DEF Holder
      <4> QED BY <2>1, <3>2, <4>1 DEF OneHolder
    <3>5. MutualExclusion'
      BY <3>1, <3>4 DEF MutualExclusion
    <3>6. OneHolder'
      BY <2>1, <3>1, <3>3 DEF OneHolder
    <3>7. \A u \in Tcb : Queued(u)' => phase'[u] = "waiting"
      BY <3>1, <3>2, <3>3
    <3> QED BY <1>1, <3>1, <3>5, <3>6, <3>7
  <2> QED BY <1>3, <2>2, <2>3, <2>4 DEF Go
<1> QED BY <1>2, <1>3 DEF MutexNext

-----------------------------------------------------------------------------
(* Of any number of tasks that wait on a semaphore of value 1 before and    *)
(* signal it after their work, never two are inside, whatever ticks,        *)
(* yields, delays and suspensions come between; they cancel no task.        *)
THEOREM TheMutexExcludes ==
  ASSUME RtOnlyYield, NoCancel
  PROVE  MutexSpec => []MutualExclusion
<1>1. MutexInv /\ [MutexNext]_mvars => MutexInv'
  BY MutexNextInv
<1>2. MutexInv => MutualExclusion
  BY DEF MutexInv
<1> QED BY <1>1, <1>2, MutexInitInv, PTL DEF MutexSpec
=============================================================================
