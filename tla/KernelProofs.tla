---------------------------- MODULE KernelProofs ----------------------------
(***************************************************************************)
(* Theorems about the task core, for every set of control blocks, every    *)
(* application and both scheduling modes: who runs, what a countdown may   *)
(* be, and when the kernel may halt with "no tasks to run".                *)
(***************************************************************************)
EXTENDS SchedLoop, BasicProofs

USE DEF rtVars

-----------------------------------------------------------------------------
(* The inductive invariant: the invariants of Kernel, and what they need.  *)

(* Two tasks never build the same control block. *)
SpawnsDistinct ==
  \A t, u \in Tcb :
    (Listed(t) /\ pc[t] = "spawn" /\ Listed(u) /\ pc[u] = "spawn" /\ t # u)
      => new[t] # new[u]

(* No call names an idle task, and no idle task blocks.                    *)
IdleAlive ==
  \A t \in Idle : Listed(t) /\ state[t] \in {"READY", "RUNNING"}

(* An idle task at the front of the list stays there, for krnl_schedule.   *)
IdleAtFront ==
  InitTasks[1] \in Idle \ RtTasks =>
    /\ Len(tasks) >= 1 /\ tasks[1] = InitTasks[1]
    /\ ~rt[InitTasks[1]]

(* The node our_sched keeps, until it is freed, is that of an RT task.     *)
NodeIsRt ==
  task_node.at = "node" =>
    /\ Listed(task_node.task) /\ rt[task_node.task]
    /\ state[task_node.task] # "STOPPED"

(* What holds of blocked and suspended tasks needs RT tasks that only      *)
(* yield: then RT tasks are idle tasks, and a delay runs only in a task    *)
(* that is BLOCKED.                                                        *)
RtIsIdle == RtOnlyYield /\ RtSched => \A t \in Tcb : rt[t] => t \in Idle
DelaysKept == RtOnlyYield => DelayOnlyWhileBlocked

Inv == /\ TypeInv
       /\ CurrentListed
       /\ OneRunning
       /\ StoppedTasksDoNotRun
       /\ DelaysKept
       /\ HalfBuiltNeverScheduled
       /\ SpawnsDistinct
       /\ CountdownWithinBase
       /\ IdleAlive
       /\ IdleAtFront
       /\ NodeIsRt
       /\ RtIsIdle
       /\ NoFalsePanic

-----------------------------------------------------------------------------
(* Arithmetic of the two bytes of a priority.                              *)

LEMMA IsUInt16 ==
  ASSUME NEW n
  PROVE  n \in UInt16 <=> n \in Nat /\ n <= 65535
BY SMT DEF UInt16

LEMMA LevelRange ==
  ASSUME NEW l \in PriorityLevels
  PROVE  l \in Nat /\ l <= 255
BY SMT DEF PriorityLevels

LEMMA PrioBytes ==
  ASSUME NEW l \in PriorityLevels
  PROVE  /\ Prio(l) \in UInt16
         /\ High(Prio(l)) = l
         /\ Low(Prio(l)) = l
<1>1. l \in Nat /\ l <= 255
  BY LevelRange
<1>2. Prio(l) \in Nat /\ Prio(l) <= 65535
  BY SMT, <1>1 DEF Prio
<1>3. High(Prio(l)) = l /\ Low(Prio(l)) = l
  BY SMT, <1>1 DEF Prio, High, Low
<1> QED BY <1>2, <1>3, IsUInt16

LEMMA LowIsNat ==
  ASSUME NEW p \in UInt16
  PROVE  p \in Nat /\ Low(p) \in Nat /\ Low(p) <= p
<1>1. p \in Nat
  BY IsUInt16
<1>2. p % 256 \in Nat /\ p % 256 <= p
  BY SMT, <1>1
<1> QED BY <1>1, <1>2 DEF Low

(* Taking no more than the low byte off leaves the high byte alone. *)
LEMMA NoBorrow ==
  ASSUME NEW p \in UInt16, NEW n \in Nat, n <= Low(p)
  PROVE  /\ p - n \in UInt16
         /\ High(p - n) = High(p)
         /\ Low(p - n) = Low(p) - n
<1>1. p \in Nat /\ p <= 65535
  BY IsUInt16
<1>2. p - n \in Nat /\ (p - n) % 256 = (p % 256) - n /\ (p - n) \div 256 = p \div 256
  BY SMT, <1>1 DEF Low
<1>3. p - n <= 65535
  BY SMT, <1>1
<1>4. p - n \in UInt16
  BY <1>2, <1>3, IsUInt16
<1> QED BY <1>2, <1>4 DEF High, Low

LEMMA NormalLevel == Normal \in PriorityLevels
BY SMT DEF Normal, PriorityLevels

-----------------------------------------------------------------------------
(* Who is in the list once its k-th node is gone.                          *)

LEMMA RemovedListed ==
  ASSUME NEW s \in Seq(Tcb), IsInjective(s), NEW k \in 1 .. Len(s)
  PROVE  /\ IsInjective(RemoveAt(s, k))
         /\ \A t \in Tcb : (\E i \in 1 .. Len(RemoveAt(s, k)) : RemoveAt(s, k)[i] = t)
              <=> (\E i \in 1 .. Len(s) : s[i] = t) /\ t # s[k]
<1> DEFINE r == RemoveAt(s, k)
<1>1. /\ r \in Seq(Tcb) /\ Len(r) = Len(s) - 1
      /\ \A i \in 1 .. Len(s) - 1 : r[i] = IF i < k THEN s[i] ELSE s[i + 1]
  BY RemovedNode
<1>2. \A i, j \in 1 .. Len(s) : s[i] = s[j] => i = j
  BY DEF IsInjective
<1> HIDE DEF r
<1>3. IsInjective(r)
  BY <1>1, <1>2 DEF IsInjective
<1>4. ASSUME NEW i \in 1 .. Len(r)
      PROVE  r[i] # s[k] /\ \E j \in 1 .. Len(s) : s[j] = r[i]
  <2>1. CASE i < k
    BY <1>1, <1>2, <1>4, <2>1
  <2>2. CASE ~(i < k)
    BY <1>1, <1>2, <1>4, <2>2
  <2> QED BY <2>1, <2>2
<1>5. ASSUME NEW j \in 1 .. Len(s), j # k
      PROVE  \E i \in 1 .. Len(r) : r[i] = s[j]
  <2>1. CASE j < k
    BY <1>1, <2>1
  <2>2. CASE j > k
    <3>1. j - 1 \in 1 .. Len(r) /\ r[j - 1] = s[j]
      BY <1>1, <2>2
    <3> QED BY <3>1
  <2> QED BY <1>5, <2>1, <2>2
<1>6. \A t \in Tcb : (\E i \in 1 .. Len(r) : r[i] = t)
              <=> (\E i \in 1 .. Len(s) : s[i] = t) /\ t # s[k]
  BY <1>2, <1>4, <1>5
<1> QED BY <1>3, <1>6 DEF r

-----------------------------------------------------------------------------
(* What a switch of tasks does to the states, whoever picks the next task: *)
(* the scheduler of the kernel, the RT scheduler, or a panic.              *)

LEMMA SwitchStates ==
  ASSUME Inv, krnl_schedule(UpdatedState) \/ Schedule(UpdatedState)
  PROVE  /\ state' \in [Tcb -> TaskStates]
         /\ current' \in Tcb /\ Listed(current')
         /\ panic' \in {panic, "NO_TASKS", "UNDEFINED"}
         /\ \A t \in Tcb : state[t] = "STOPPED" => state'[t] = "STOPPED"
         /\ \A t \in Tcb : state'[t] = "STOPPED" => state[t] = "STOPPED"
         /\ RtOnlyYield =>
              /\ \A t \in Tcb : state[t] = "SUSPENDED" => state'[t] = "SUSPENDED"
              /\ \A t \in Tcb : state[t] = "BLOCKED" /\ ~DelaysOver(t)
                                   => state'[t] = "BLOCKED"
         /\ \A t \in Tcb : state[t] \in {"READY", "RUNNING"} \/ DelaysOver(t)
                             => state'[t] \in {"READY", "RUNNING"}
         /\ \A t \in Tcb : Listed(t) /\ state'[t] = "RUNNING" => t = current'
         /\ panic' \notin {"NO_TASKS", "UNDEFINED"} => state'[current'] = "RUNNING"
         /\ current' # current => state'[current'] = "RUNNING"
<1> USE DEF Inv, TypeInv
<1> DEFINE st == Preempted(UpdatedState)
<1>1. \A t \in Tcb : st[t] = IF DelaysOver(t) THEN "READY"
                              ELSE IF t = current /\ state[t] = "RUNNING" THEN "READY"
                              ELSE state[t]
  BY DEF Preempted, UpdatedState, DelaysOver
<1>2. st \in [Tcb -> TaskStates]
  <2>1. \A t \in Tcb : st[t] \in TaskStates
    BY <1>1 DEF TaskStates
  <2> QED BY <2>1 DEF Preempted
<1>3. \A t \in Tcb : Listed(t) => st[t] # "RUNNING"
  BY <1>1 DEF OneRunning
<1> HIDE DEF st
<1>4. CASE NoTaskReady(st) \/ RtAstray(st)
  <2>1. state' = st /\ current' = current /\ panic' \in {"NO_TASKS", "UNDEFINED"}
    BY <1>4 DEF NoTaskReady, RtAstray
  <2> QED BY <1>1, <1>2, <1>3, <2>1 DEF CurrentListed, DelaysOver
<1>5. ASSUME NEW n \in Tcb, Listed(n), st[n] # "STOPPED", RtOnlyYield => st[n] = "READY",
             current' = n,
             state' = [t \in Tcb |-> IF t = n THEN "RUNNING" ELSE st[t]],
             panic' = panic
      PROVE  /\ state' \in [Tcb -> TaskStates]
             /\ current' \in Tcb /\ Listed(current')
             /\ panic' \in {panic, "NO_TASKS", "UNDEFINED"}
             /\ \A t \in Tcb : state[t] = "STOPPED" => state'[t] = "STOPPED"
             /\ \A t \in Tcb : state'[t] = "STOPPED" => state[t] = "STOPPED"
             /\ RtOnlyYield =>
                  /\ \A t \in Tcb : state[t] = "SUSPENDED" => state'[t] = "SUSPENDED"
                  /\ \A t \in Tcb : state[t] = "BLOCKED" /\ ~DelaysOver(t)
                                       => state'[t] = "BLOCKED"
             /\ \A t \in Tcb : state[t] \in {"READY", "RUNNING"} \/ DelaysOver(t)
                                 => state'[t] \in {"READY", "RUNNING"}
             /\ \A t \in Tcb : Listed(t) /\ state'[t] = "RUNNING" => t = current'
             /\ state'[current'] = "RUNNING"
  <2>1. state' \in [Tcb -> TaskStates]
    BY <1>2, <1>5 DEF TaskStates
  <2>2. \A t \in Tcb : state'[t] = IF t = n THEN "RUNNING" ELSE st[t]
    BY <1>5
  <2> QED BY <1>1, <1>3, <1>5, <2>1, <2>2 DEF DelaysOver
<1>6. CASE SwitchTask(st)
  <2>1. PICK i \in 1 .. Len(tasks) :
          /\ Selected(st, i)
          /\ current' = tasks[i]
          /\ state' = [t \in Tcb |-> IF t = tasks[i] THEN "RUNNING" ELSE st[t]]
          /\ UNCHANGED panic
    BY <1>6 DEF SwitchTask
  <2>2. tasks[i] \in Tcb /\ Listed(tasks[i]) /\ st[tasks[i]] = "READY"
    BY <2>1 DEF Listed, Selected, Eligible, Ready
  <2> QED BY <1>5, <2>1, <2>2
<1>7. CASE RtFirst(st) \/ RtOther(st)
  <2>1. PICK k \in 1 .. Len(tasks) : RtRun(st, tasks[k]) /\ RtReady(st, k)
    BY <1>7 DEF RtFirst, RtOther, RtAfter, RtNext
  <2>2. tasks[k] \in Tcb /\ Listed(tasks[k]) /\ st[tasks[k]] = "READY"
    BY <2>1 DEF Listed, RtReady
  <2> QED BY <1>5, <2>1, <2>2 DEF RtRun
<1>8. CASE RtSched /\ RtAgain(st)
  <2> DEFINE n == task_node.task
  <2>1. RtRun(st, n) /\ n \in Tcb /\ Listed(n) /\ rt[n] /\ state[n] # "STOPPED"
    BY <1>8 DEF RtAgain, NodeIsRt
  <2>2. st[n] # "STOPPED"
    BY <1>1, <2>1
  <2>3. RtOnlyYield => st[n] = "READY"
    <3>1. RtOnlyYield => state[n] \in {"READY", "RUNNING"}
      BY <1>8, <2>1 DEF RtIsIdle, IdleAlive
    <3> QED BY <1>1, <1>3, <2>1, <3>1
  <2> HIDE DEF n
  <2> QED BY <1>5, <2>1, <2>2, <2>3 DEF RtRun
<1>9. \/ NoTaskReady(st) \/ SwitchTask(st) \/ RtFirst(st) \/ RtOther(st)
      \/ (RtSched /\ RtAgain(st)) \/ RtAstray(st)
  BY DEF krnl_schedule, Schedule, our_sched, RtDone, st
<1> QED BY <1>4, <1>6, <1>7, <1>8, <1>9

(* A switch that names a task by the node it keeps names a task of the     *)
(* list with an RT priority.                                               *)
LEMMA SwitchNode ==
  ASSUME Inv, UNCHANGED <<tasks, rt>>,
         \/ krnl_schedule(UpdatedState) /\ UNCHANGED <<task_node, remaining>>
         \/ Schedule(UpdatedState)
  PROVE  /\ task_node' \in [at : {"none", "node", "freed"}, task : Tcb]
         /\ remaining' \in [Tcb -> Nat \ {0}]
         /\ NodeIsRt'
<1> USE DEF Inv, TypeInv
<1> DEFINE st == Preempted(UpdatedState)
<1>1. \A t \in Tcb : state'[t] = "STOPPED" => state[t] = "STOPPED"
  BY SwitchStates
<1>2. \A t \in Tcb : Listed(t)' <=> Listed(t)
  BY DEF Listed
<1>3. remaining' \in [Tcb -> Nat \ {0}]
  <2>1. CASE UNCHANGED remaining
    BY <2>1
  <2>2. CASE RtAgain(st)
    <3>1. /\ remaining[task_node.task] \in Nat \ {0, 1} /\ task_node.task \in Tcb
          /\ remaining' = [remaining EXCEPT ![task_node.task] = @ - 1]
      BY <2>2 DEF RtAgain
    <3>2. remaining[task_node.task] - 1 \in Nat \ {0}
      BY <3>1
    <3> QED BY <3>1, <3>2
  <2>3. CASE RtRenew
    BY <2>3, KernelAssumption DEF RtRenew
  <2>4. UNCHANGED remaining \/ RtAgain(st) \/ RtRenew
    BY DEF Schedule, our_sched, RtFirst, RtOther, RtDone, RtAstray
  <2> QED BY <2>1, <2>2, <2>3, <2>4
<1> DEFINE Node == task_node' \in [at : {"none", "node", "freed"}, task : Tcb] /\ NodeIsRt'
<1> SUFFICES Node
  BY <1>3
<1>4. CASE UNCHANGED task_node
  <2>1. NodeIsRt'
    BY <1>1, <1>2, <1>4 DEF NodeIsRt
  <2> QED BY <1>4, <2>1
<1>5. CASE task_node' = NoNode
  <2>1. NodeIsRt' /\ InitTasks[1] \in Tcb
    BY <1>5, KernelAssumption DEF NodeIsRt, NoNode
  <2> QED BY <1>5, <2>1 DEF NoNode
<1>6. ASSUME NEW t \in Tcb, Listed(t), rt[t], RtRun(st, t)
      PROVE  task_node' \in [at : {"none", "node", "freed"}, task : Tcb] /\ NodeIsRt'
  <2>1. task_node' = [at |-> "node", task |-> t] /\ state'[t] = "RUNNING"
    BY <1>6 DEF RtRun
  <2>2. task_node'.task = t
    BY <2>1
  <2> QED BY <1>2, <1>6, <2>1, <2>2 DEF NodeIsRt
<1>7. CASE RtFirst(st) \/ RtOther(st)
  <2>1. PICK k \in 1 .. Len(tasks) : RtRun(st, tasks[k]) /\ RtReady(st, k)
    BY <1>7 DEF RtFirst, RtOther, RtAfter, RtNext
  <2>2. tasks[k] \in Tcb /\ Listed(tasks[k]) /\ rt[tasks[k]]
    BY <2>1 DEF Listed, RtReady
  <2> QED BY <1>6, <2>1, <2>2
<1>8. CASE RtAgain(st)
  <2>1. /\ RtRun(st, task_node.task) /\ task_node.task \in Tcb
        /\ Listed(task_node.task) /\ rt[task_node.task]
    BY <1>8 DEF RtAgain, NodeIsRt
  <2> QED BY <1>6, <2>1
<1>9. \/ UNCHANGED task_node \/ task_node' = NoNode
      \/ RtFirst(st) \/ RtOther(st) \/ RtAgain(st)
  BY DEF Schedule, our_sched, RtDone, RtAstray
<1> QED BY <1>4, <1>5, <1>7, <1>8, <1>9

(* What the scheduler does to the priorities. *)
LEMMA SwitchPriorities ==
  ASSUME Inv, krnl_schedule(UpdatedState) \/ Schedule(UpdatedState)
  PROVE  /\ priority' \in [Tcb -> UInt16]
         /\ \A t \in Tcb : Listed(t) =>
              /\ High(priority'[t]) = High(priority[t])
              /\ Low(priority'[t]) <= High(priority'[t])
<1> USE DEF Inv, TypeInv
<1> DEFINE st == Preempted(UpdatedState)
<1>0. \A t \in Tcb : Listed(t) =>
        High(priority[t]) \in PriorityLevels /\ Low(priority[t]) <= High(priority[t])
  BY DEF CountdownWithinBase
<1>1. CASE UNCHANGED priority
  BY <1>0, <1>1
<1>2. ASSUME NEW i \in 1 .. Len(tasks), Selected(st, i),
             priority' = Recounted(st, tasks[i])
      PROVE  /\ priority' \in [Tcb -> UInt16]
             /\ \A t \in Tcb : Listed(t) =>
                  /\ High(priority'[t]) = High(priority[t])
                  /\ Low(priority'[t]) <= High(priority'[t])
  <2> DEFINE s == tasks[i]
  <2>1. s \in Tcb /\ Listed(s) /\ i \in Eligible(st)
    BY <1>2 DEF Listed, Selected
  <2>2. ASSUME NEW j \in 1 .. Len(tasks)
        PROVE  tasks[j] \in Tcb /\ Count(j) \in Nat
    <3>1. tasks[j] \in Tcb
      OBVIOUS
    <3>2. priority[tasks[j]] \in UInt16
      BY <3>1
    <3> QED BY <3>1, <3>2, LowIsNat DEF Count
  <2>3. ASSUME NEW j \in 1 .. Len(tasks), Ready(st, tasks[j])
        PROVE  Count(i) <= Count(j)
    <3>1. CASE Count(j) <= Count(1)
      BY <1>2, <2>3, <3>1 DEF Selected, Eligible
    <3>2. CASE ~(Count(j) <= Count(1))
      <4>1. Count(i) <= Count(1)
        BY <2>1 DEF Eligible
      <4>2. 1 \in 1 .. Len(tasks)
        OBVIOUS
      <4> QED BY <2>2, <3>2, <4>1, <4>2
    <3> QED BY <3>1, <3>2
  <2>4. ASSUME NEW t \in Tcb
        PROVE  /\ priority'[t] \in UInt16
               /\ Listed(t) => /\ High(priority'[t]) = High(priority[t])
                               /\ Low(priority'[t]) <= High(priority'[t])
    <3>1. CASE t = s
      <4>1. priority'[t] = Prio(High(priority[t]))
        BY <1>2, <3>1 DEF Recounted
      <4>2. High(priority[t]) \in PriorityLevels
        BY <1>0, <2>1, <3>1
      <4>3. /\ priority'[t] \in UInt16
            /\ High(priority'[t]) = High(priority[t])
            /\ Low(priority'[t]) = High(priority[t])
        BY <4>1, <4>2, PrioBytes
      <4>4. High(priority[t]) \in Nat
        BY <4>2, LevelRange
      <4> QED BY <4>3, <4>4
    <3>2. CASE t # s /\ Listed(t) /\ Ready(st, t)
      <4>1. priority'[t] = priority[t] - Low(priority[s])
        BY <1>2, <3>2 DEF Recounted
      <4>2. PICK j \in 1 .. Len(tasks) : tasks[j] = t
        BY <3>2 DEF Listed
      <4>3. Low(priority[s]) <= Low(priority[t])
        BY <2>3, <3>2, <4>2 DEF Count
      <4>4. Low(priority[s]) \in Nat /\ Low(priority[t]) \in Nat
        BY <2>1, LowIsNat
      <4>5. /\ priority'[t] \in UInt16
            /\ High(priority'[t]) = High(priority[t])
            /\ Low(priority'[t]) = Low(priority[t]) - Low(priority[s])
        BY <4>1, <4>3, <4>4, NoBorrow
      <4>6. High(priority[t]) \in Nat /\ Low(priority[t]) <= High(priority[t])
        BY <1>0, <3>2, LevelRange
      <4> QED BY <4>4, <4>5, <4>6
    <3>3. CASE t # s /\ ~(Listed(t) /\ Ready(st, t))
      <4>1. priority'[t] = priority[t]
        BY <1>2, <3>3 DEF Recounted
      <4> QED BY <1>0, <4>1
    <3> QED BY <3>1, <3>2, <3>3
  <2>5. priority' \in [Tcb -> UInt16]
    BY <1>2, <2>4 DEF Recounted
  <2> QED BY <2>4, <2>5
<1>3. \/ UNCHANGED priority
      \/ \E i \in 1 .. Len(tasks) : Selected(st, i) /\ priority' = Recounted(st, tasks[i])
  BY DEF krnl_schedule, Schedule, our_sched, NoTaskReady, SwitchTask, RtFirst,
         RtAgain, RtOther, RtDone, RtAstray, RtRun
<1> QED BY <1>1, <1>2, <1>3

(* The idle task at the front of the list is always eligible.              *)
LEMMA SwitchNoPanic ==
  ASSUME Inv, krnl_schedule(UpdatedState) \/ Schedule(UpdatedState),
         InitTasks[1] \in Idle \ RtTasks, panic # "NO_TASKS"
  PROVE  panic' # "NO_TASKS"
<1> USE DEF Inv, TypeInv
<1> DEFINE st == Preempted(UpdatedState)
           first == InitTasks[1]
<1>1. /\ 1 \in 1 .. Len(tasks) /\ tasks[1] = first /\ first \in Tcb
      /\ ~rt[first] /\ state[first] \in {"READY", "RUNNING"}
  BY DEF IdleAtFront, IdleAlive
<1>2. Listed(first)
  BY <1>1 DEF Listed
<1>3. st[first] = "READY"
  BY <1>1, <1>2 DEF Preempted, UpdatedState, DelaysOver, OneRunning
<1>4. Count(1) \in Nat
  BY <1>1, LowIsNat DEF Count
<1>5. 1 \in Eligible(st)
  BY <1>1, <1>3, <1>4 DEF Eligible, Ready
<1>6. ~NoTaskReady(st)
  BY <1>5 DEF NoTaskReady
<1> QED BY <1>6 DEF krnl_schedule, Schedule, our_sched, SwitchTask, RtFirst, RtAgain,
                    RtOther, RtDone, RtAstray, RtRun

(* A switch of tasks keeps the invariant. Every call that ends in one only *)
(* lets tasks that wait in yield() go on.                                  *)
LEMMA SwitchKeepsInv ==
  ASSUME Inv, panic = "none",
         \/ krnl_schedule(UpdatedState) /\ UNCHANGED <<task_node, remaining>>
         \/ Schedule(UpdatedState),
         delay' = UpdatedDelay,
         UNCHANGED <<tasks, rt, new, preemptive>>,
         pc' \in [Tcb -> {"run", "yield", "spin", "spawn", "call"}],
         \A t \in Tcb : pc'[t] = pc[t] \/ pc'[t] = "run"
  PROVE  Inv'
<1>1. \A t \in Tcb : Listed(t)' <=> Listed(t)
  BY DEF Listed
<1>2. \A t \in Tcb : delay'[t] \in UInt16 /\ (delay[t] = 0 => delay'[t] = 0)
  <2>1. ASSUME NEW t \in Tcb
        PROVE  delay'[t] \in UInt16 /\ (delay[t] = 0 => delay'[t] = 0)
    <3>1. delay[t] \in Nat /\ delay[t] <= 65535
      BY IsUInt16 DEF Inv, TypeInv
    <3>2. CASE Listed(t) /\ state[t] = "BLOCKED" /\ delay[t] > 0
      <4>1. delay'[t] = delay[t] - 1
        BY <3>2 DEF UpdatedDelay
      <4>2. delay[t] - 1 \in Nat /\ delay[t] - 1 <= 65535 /\ delay[t] # 0
        BY <3>1, <3>2
      <4> QED BY <4>1, <4>2, IsUInt16
    <3>3. CASE ~(Listed(t) /\ state[t] = "BLOCKED" /\ delay[t] > 0)
      BY <3>1, <3>3, IsUInt16 DEF UpdatedDelay
    <3> QED BY <3>2, <3>3
  <2> QED BY <2>1
<1>3. TypeInv'
  <2>1. /\ tasks' \in Seq(Tcb) /\ rt' \in [Tcb -> BOOLEAN] /\ new' \in [Tcb -> Tcb]
        /\ preemptive' \in BOOLEAN
    BY DEF Inv, TypeInv
  <2>2. delay' \in [Tcb -> UInt16]
    BY <1>2 DEF UpdatedDelay
  <2>3. panic' \in {"none", "NO_TASKS", "UNDEFINED"}
    BY SwitchStates
  <2> QED BY <2>1, <2>2, <2>3, SwitchStates, SwitchNode, SwitchPriorities DEF TypeInv
<1>4. CurrentListed'
  <2>1. IsInjective(tasks)'
    BY DEF Inv, CurrentListed
  <2> QED BY <1>1, <2>1, SwitchStates DEF CurrentListed
<1>5. OneRunning'
  BY <1>1, SwitchStates DEF OneRunning
<1>6. StoppedTasksDoNotRun'
  BY SwitchStates DEF StoppedTasksDoNotRun
<1>7. DelaysKept'
  <2> SUFFICES ASSUME RtOnlyYield, NEW t \in Tcb, Listed(t), delay'[t] > 0
               PROVE  state'[t] = "BLOCKED"
    BY <1>1 DEF DelaysKept, DelayOnlyWhileBlocked
  <2>1. delay[t] \in Nat /\ delay'[t] \in Nat
    BY <1>2, IsUInt16 DEF Inv, TypeInv
  <2>2. delay[t] > 0
    BY <1>2, <2>1
  <2>3. state[t] = "BLOCKED"
    BY <2>2 DEF Inv, DelaysKept, DelayOnlyWhileBlocked
  <2>4. ~DelaysOver(t)
    <3>1. delay'[t] = delay[t] - 1
      BY <2>2, <2>3 DEF UpdatedDelay
    <3> QED BY <2>1, <3>1 DEF DelaysOver
  <2> QED BY <2>3, <2>4, SwitchStates
<1>8. HalfBuiltNeverScheduled'
  <2> SUFFICES ASSUME NEW t \in Tcb, Listed(t), pc'[t] = "spawn"
               PROVE  Listed(new[t]) /\ state'[new[t]] = "STOPPED" /\ new[t] # current'
    BY <1>1 DEF HalfBuiltNeverScheduled, Inv, TypeInv
  <2>1. pc[t] = "spawn" /\ new[t] \in Tcb
    BY DEF Inv, TypeInv
  <2>2. Listed(new[t]) /\ state[new[t]] = "STOPPED" /\ new[t] # current
    BY <2>1 DEF Inv, HalfBuiltNeverScheduled
  <2> QED BY <2>1, <2>2, SwitchStates
<1>9. SpawnsDistinct'
  <2> SUFFICES ASSUME NEW t \in Tcb, NEW u \in Tcb, Listed(t)', Listed(u)',
                      pc'[t] = "spawn", pc'[u] = "spawn", new'[t] = new'[u]
               PROVE  t = u
    BY DEF SpawnsDistinct
  <2>1. pc[t] = "spawn" /\ pc[u] = "spawn" /\ new[t] = new[u]
    OBVIOUS
  <2>2. Listed(t) /\ Listed(u)
    BY <1>1
  <2> QED BY <2>1, <2>2 DEF Inv, SpawnsDistinct
<1>10. CountdownWithinBase'
  BY <1>1, SwitchPriorities DEF CountdownWithinBase, Inv, High, Low
<1>11. IdleAlive' /\ IdleAtFront' /\ NodeIsRt' /\ RtIsIdle'
  <2>1. IdleAlive'
    BY <1>1, SwitchStates, KernelAssumption DEF Inv, IdleAlive
  <2>2. IdleAtFront' /\ RtIsIdle'
    BY DEF Inv, IdleAtFront, RtIsIdle
  <2> QED BY <2>1, <2>2, SwitchNode
<1>12. NoFalsePanic'
  BY SwitchNoPanic DEF NoFalsePanic
<1> QED BY <1>3, <1>4, <1>5, <1>6, <1>7, <1>8, <1>9, <1>10, <1>11, <1>12 DEF Inv

LEMMA TickKeepsInv ==
  ASSUME Inv, Tick
  PROVE  Inv'
<1>1. /\ pc' \in [Tcb -> {"run", "yield", "spin", "spawn", "call"}]
      /\ \A t \in Tcb : pc'[t] = pc[t] \/ pc'[t] = "run"
  BY DEF Tick, Inv, TypeInv
<1> QED BY <1>1, SwitchKeepsInv DEF Tick

LEMMA YieldKeepsInv ==
  ASSUME Inv, NEW t \in Tcb, ucx_task_yield(t)
  PROVE  Inv'
<1>1. CASE ~preemptive
  <2>1. /\ pc' \in [Tcb -> {"run", "yield", "spin", "spawn", "call"}]
        /\ \A u \in Tcb : pc'[u] = pc[u] \/ pc'[u] = "run"
    BY <1>1 DEF ucx_task_yield, Inv, TypeInv
  <2> QED BY <1>1, <2>1, SwitchKeepsInv DEF ucx_task_yield
<1>2. CASE preemptive
  <2>1. /\ pc' = [pc EXCEPT ![t] = "spin"] /\ current = t
        /\ UNCHANGED <<tasks, current, state, priority, delay, rtVars, new, panic, preemptive>>
    BY <1>2 DEF ucx_task_yield, tcbVars
  <2>2. TypeInv' /\ StoppedTasksDoNotRun'
    BY <2>1 DEF Inv, TypeInv, StoppedTasksDoNotRun
  <2>3. CurrentListed' /\ OneRunning' /\ DelaysKept'
    BY <2>1 DEF Inv, CurrentListed, OneRunning, DelaysKept, DelayOnlyWhileBlocked, Listed
  <2>4. HalfBuiltNeverScheduled' /\ SpawnsDistinct'
    <3>1. \A u \in Tcb : (pc'[u] = "spawn" => pc[u] = "spawn") /\ (Listed(u)' <=> Listed(u))
      BY <2>1 DEF Inv, TypeInv, Listed
    <3>2. HalfBuiltNeverScheduled'
      BY <2>1, <3>1 DEF Inv, TypeInv, HalfBuiltNeverScheduled
    <3>3. SpawnsDistinct'
      <4> SUFFICES ASSUME NEW u \in Tcb, NEW w \in Tcb, Listed(u)', Listed(w)',
                          pc'[u] = "spawn", pc'[w] = "spawn", new'[u] = new'[w]
                   PROVE  u = w
        BY DEF SpawnsDistinct
      <4>1. /\ pc[u] = "spawn" /\ pc[w] = "spawn" /\ new[u] = new[w]
            /\ Listed(u) /\ Listed(w)
        BY <2>1, <3>1
      <4> QED BY <4>1 DEF Inv, SpawnsDistinct
    <3> QED BY <3>2, <3>3
  <2>5. CountdownWithinBase' /\ NoFalsePanic' /\ IdleAlive' /\ IdleAtFront' /\ NodeIsRt' /\ RtIsIdle'
    BY <2>1 DEF Inv, CountdownWithinBase, High, Low, IdleAlive, IdleAtFront, NodeIsRt,
                RtIsIdle, NoFalsePanic, Listed
  <2> QED BY <2>2, <2>3, <2>4, <2>5 DEF Inv
<1> QED BY <1>1, <1>2, KernelAssumption

-----------------------------------------------------------------------------
(* The calls of a running task.                                            *)

(* A call that leaves the list, the current task and every priority alone, *)
(* takes the caller out of its own code at most to yield, and moves one    *)
(* task u between two states other than STOPPED.                           *)
LEMMA CallKeepsInv ==
  ASSUME Inv, NEW t \in Tcb, Running(t), NEW u \in Tcb, Listed(u), u \notin Idle,
         state[u] # "STOPPED",
         NEW to \in {"READY", "BLOCKED", "SUSPENDED"},
         state' = [state EXCEPT ![u] = to],
         pc' = [pc EXCEPT ![t] = "yield"] \/ (pc' = pc /\ (u = t => to = "READY")),
         delay' \in [Tcb -> UInt16],
         \A w \in Tcb : w # u => delay'[w] = delay[w],
         RtOnlyYield /\ to # "BLOCKED" => delay'[u] = 0,
         UNCHANGED <<tasks, current, priority, rtVars, new, panic, preemptive>>
  PROVE  Inv'
<1>1. \A w \in Tcb : Listed(w)' <=> Listed(w)
  BY DEF Listed
<1>2. \A w \in Tcb : state'[w] = IF w = u THEN to ELSE state[w]
  BY DEF Inv, TypeInv
<1>3. TypeInv'
  BY DEF Inv, TypeInv, TaskStates
<1>4. CurrentListed'
  BY DEF Inv, CurrentListed, Listed
<1>5. OneRunning'
  BY <1>1, <1>2 DEF Inv, OneRunning
<1>6. StoppedTasksDoNotRun'
  BY <1>2 DEF Inv, TypeInv, StoppedTasksDoNotRun, Running
<1>7. DelaysKept'
  <2> SUFFICES ASSUME RtOnlyYield, NEW w \in Tcb, Listed(w), delay'[w] > 0
               PROVE  state'[w] = "BLOCKED"
    BY <1>1 DEF DelaysKept, DelayOnlyWhileBlocked
  <2>1. CASE w = u
    BY <1>2, <2>1
  <2>2. CASE w # u
    BY <1>2, <2>2 DEF Inv, DelaysKept, DelayOnlyWhileBlocked
  <2> QED BY <2>1, <2>2
<1>8. \A w \in Tcb : pc'[w] = "spawn" => pc[w] = "spawn"
  BY DEF Inv, TypeInv
<1>9. HalfBuiltNeverScheduled'
  <2> SUFFICES ASSUME NEW w \in Tcb, Listed(w), pc[w] = "spawn"
               PROVE  Listed(new[w]) /\ state'[new[w]] = "STOPPED" /\ new[w] # current
    BY <1>1, <1>8 DEF HalfBuiltNeverScheduled, Inv, TypeInv
  <2>1. Listed(new[w]) /\ state[new[w]] = "STOPPED" /\ new[w] # current /\ new[w] \in Tcb
    BY DEF Inv, TypeInv, HalfBuiltNeverScheduled
  <2> QED BY <1>2, <2>1
<1>10. SpawnsDistinct'
  BY <1>1, <1>8 DEF Inv, SpawnsDistinct
<1>11. CountdownWithinBase'
  BY <1>1 DEF Inv, CountdownWithinBase, High, Low
<1>12. NoFalsePanic' /\ IdleAlive' /\ IdleAtFront' /\ NodeIsRt' /\ RtIsIdle'
  BY <1>1, <1>2, KernelAssumption DEF Inv, IdleAlive, IdleAtFront, NodeIsRt, RtIsIdle,
                                      NoFalsePanic, TypeInv
<1> QED BY <1>3, <1>4, <1>5, <1>6, <1>7, <1>9, <1>10, <1>11, <1>12 DEF Inv

LEMMA DelayKeepsInv ==
  ASSUME Inv, NEW t \in Tcb, NEW n \in Delays, ucx_task_delay(t, n)
  PROVE  Inv'
<1>1. Running(t) /\ t \notin Idle /\ Listed(t) /\ state[t] # "STOPPED"
  BY DEF ucx_task_delay, MayCall, Running, Inv, CurrentListed, StoppedTasksDoNotRun
<1>2. n \in UInt16
  BY KernelAssumption
<1>3. /\ delay' \in [Tcb -> UInt16]
      /\ \A w \in Tcb : w # t => delay'[w] = delay[w]
  BY <1>2 DEF ucx_task_delay, Inv, TypeInv
<1> QED BY <1>1, <1>3, CallKeepsInv DEF ucx_task_delay

(* A task that is not BLOCKED has no delay left. *)
LEMMA NoDelayLeft ==
  ASSUME Inv, RtOnlyYield, NEW u \in Tcb, Listed(u), state[u] # "BLOCKED"
  PROVE  delay[u] = 0
<1>1. delay[u] \in Nat
  BY IsUInt16 DEF Inv, TypeInv
<1> QED BY <1>1 DEF Inv, DelaysKept, DelayOnlyWhileBlocked

LEMMA SuspendKeepsInv ==
  ASSUME Inv, NEW t \in Tcb, NEW u \in Tcb, ucx_task_suspend(t, u)
  PROVE  Inv'
<1>1. /\ Running(t) /\ Listed(u) /\ u \notin Idle /\ state[u] # "STOPPED"
      /\ state[u] # "BLOCKED"
  BY DEF ucx_task_suspend, MayCall, Target
<1>2. RtOnlyYield => delay[u] = 0
  BY <1>1, NoDelayLeft
<1>3. delay' = delay /\ delay' \in [Tcb -> UInt16]
  BY DEF ucx_task_suspend, Inv, TypeInv
<1>4. pc' = [pc EXCEPT ![t] = "yield"] \/ (pc' = pc /\ u # t)
  BY DEF ucx_task_suspend
<1> QED BY <1>1, <1>2, <1>3, <1>4, CallKeepsInv DEF ucx_task_suspend

LEMMA ResumeKeepsInv ==
  ASSUME Inv, NEW t \in Tcb, NEW u \in Tcb, ucx_task_resume(t, u)
  PROVE  Inv'
<1>1. /\ Running(t) /\ Listed(u) /\ u \notin Idle /\ state[u] # "STOPPED"
      /\ state[u] # "BLOCKED"
  BY DEF ucx_task_resume, MayCall, Target
<1>2. RtOnlyYield => delay[u] = 0
  BY <1>1, NoDelayLeft
<1>3. delay' = delay /\ delay' \in [Tcb -> UInt16]
  BY DEF ucx_task_resume, Inv, TypeInv
<1> QED BY <1>1, <1>2, <1>3, CallKeepsInv DEF ucx_task_resume

LEMMA PriorityKeepsInv ==
  ASSUME Inv, NEW t \in Tcb, NEW u \in Tcb, NEW l \in Levels,
         ucx_task_priority(t, u, l)
  PROVE  Inv'
<1>1. /\ priority' = [priority EXCEPT ![u] = Prio(l)]
      /\ UNCHANGED <<tasks, current, state, delay, rtVars, pc, new, panic, preemptive>>
  BY DEF ucx_task_priority
<1>2. l \in PriorityLevels
  BY KernelAssumption
<1>3. l \in Nat /\ Prio(l) \in UInt16 /\ High(Prio(l)) = l /\ Low(Prio(l)) = l
  BY <1>2, PrioBytes, LevelRange
<1>4. TypeInv'
  BY <1>1, <1>3 DEF Inv, TypeInv
<1>5. CountdownWithinBase'
  <2> SUFFICES ASSUME NEW w \in Tcb, Listed(w)
               PROVE  /\ High(priority'[w]) \in PriorityLevels
                      /\ Low(priority'[w]) <= High(priority'[w])
    BY <1>1 DEF CountdownWithinBase, Listed, High, Low
  <2>1. CASE w = u
    BY <1>1, <1>2, <1>3, <2>1 DEF Inv, TypeInv
  <2>2. CASE w # u
    BY <1>1, <2>2 DEF Inv, TypeInv, CountdownWithinBase
  <2> QED BY <2>1, <2>2
<1>6. CurrentListed' /\ OneRunning' /\ StoppedTasksDoNotRun' /\ DelaysKept'
  BY <1>1 DEF Inv, CurrentListed, OneRunning, StoppedTasksDoNotRun,
              DelaysKept, DelayOnlyWhileBlocked, Listed
<1>7. HalfBuiltNeverScheduled' /\ SpawnsDistinct' /\ NoFalsePanic'
  BY <1>1 DEF Inv, HalfBuiltNeverScheduled, SpawnsDistinct, NoFalsePanic, Listed
<1>8. IdleAlive' /\ IdleAtFront' /\ NodeIsRt' /\ RtIsIdle'
  BY <1>1 DEF Inv, IdleAlive, IdleAtFront, NodeIsRt, RtIsIdle, Listed
<1> QED BY <1>4, <1>5, <1>6, <1>7, <1>8 DEF Inv

LEMMA RtPriorityKeepsInv ==
  ASSUME Inv, NEW t \in Tcb, NEW u \in Tcb, ucx_task_rt_priority(t, u)
  PROVE  Inv'
<1>1. /\ rt' = [rt EXCEPT ![u] = TRUE] /\ u \notin Idle /\ "rt_priority" \in Calls
      /\ UNCHANGED <<task_node, remaining>>
      /\ UNCHANGED <<tasks, current, state, priority, delay, pc, new, panic, preemptive>>
  BY DEF ucx_task_rt_priority, Target, MayCall
<1>2. TypeInv' /\ CurrentListed' /\ OneRunning' /\ StoppedTasksDoNotRun'
  BY <1>1 DEF Inv, TypeInv, CurrentListed, OneRunning, StoppedTasksDoNotRun, Listed
<1>3. DelaysKept' /\ HalfBuiltNeverScheduled' /\ SpawnsDistinct'
  BY <1>1 DEF Inv, DelaysKept, DelayOnlyWhileBlocked, HalfBuiltNeverScheduled,
              SpawnsDistinct, Listed
<1>4. CountdownWithinBase' /\ NoFalsePanic'
  BY <1>1 DEF Inv, CountdownWithinBase, NoFalsePanic, Listed, High, Low
<1>5. IdleAlive' /\ IdleAtFront'
  BY <1>1, KernelAssumption DEF Inv, TypeInv, IdleAlive, IdleAtFront, Listed
<1>6. NodeIsRt'
  BY <1>1 DEF Inv, TypeInv, NodeIsRt, Listed
<1>7. RtIsIdle'
  BY <1>1 DEF RtIsIdle, RtOnlyYield
<1> QED BY <1>2, <1>3, <1>4, <1>5, <1>6, <1>7 DEF Inv

-----------------------------------------------------------------------------
(* Tasks that come and go.                                                 *)

LEMMA AppendedListed ==
  ASSUME NEW s \in Seq(Tcb), IsInjective(s), NEW u \in Tcb,
         ~\E i \in 1 .. Len(s) : s[i] = u
  PROVE  /\ Append(s, u) \in Seq(Tcb) /\ IsInjective(Append(s, u))
         /\ Len(s) >= 1 => Append(s, u)[1] = s[1]
         /\ Len(Append(s, u)) = Len(s) + 1
         /\ \A t \in Tcb : (\E i \in 1 .. Len(Append(s, u)) : Append(s, u)[i] = t)
              <=> (\E i \in 1 .. Len(s) : s[i] = t) \/ t = u
<1> DEFINE r == Append(s, u)
<1>1. /\ r \in Seq(Tcb) /\ Len(r) = Len(s) + 1 /\ r[Len(s) + 1] = u
      /\ \A i \in 1 .. Len(s) : r[i] = s[i]
  OBVIOUS
<1>2. \A i, j \in 1 .. Len(s) : s[i] = s[j] => i = j
  BY DEF IsInjective
<1> HIDE DEF r
<1>3. Len(s) \in Nat
  OBVIOUS
<1>4. \A i \in 1 .. Len(r) : i \in 1 .. Len(s) \/ i = Len(s) + 1
  BY <1>1, <1>3
<1>5. IsInjective(r)
  <2> SUFFICES ASSUME NEW i \in 1 .. Len(r), NEW j \in 1 .. Len(r), r[i] = r[j]
               PROVE  i = j
    BY <1>1 DEF IsInjective
  <2> QED BY <1>1, <1>2, <1>4
<1>6. \A t \in Tcb : (\E i \in 1 .. Len(r) : r[i] = t)
              <=> (\E i \in 1 .. Len(s) : s[i] = t) \/ t = u
  <2>1. Len(s) + 1 \in 1 .. Len(r) /\ \A i \in 1 .. Len(s) : i \in 1 .. Len(r)
    BY <1>1, <1>3
  <2> QED BY <1>1, <1>4, <2>1
<1>7. Len(s) >= 1 => r[1] = s[1]
  BY <1>1, <1>3
<1> QED BY <1>1, <1>5, <1>6, <1>7 DEF r

LEMMA SpawnKeepsInv ==
  ASSUME Inv, NEW t \in Tcb, NEW u \in Tcb, ucx_task_spawn(t, u)
  PROVE  Inv'
<1>1. /\ Running(t) /\ ~Listed(u)
      /\ tasks' = Append(tasks, u)
      /\ state' = [state EXCEPT ![u] = "STOPPED"]
      /\ priority' = [priority EXCEPT ![u] = Prio(Normal)]
      /\ delay' = [delay EXCEPT ![u] = 0]
      /\ rt' = [rt EXCEPT ![u] = FALSE] /\ UNCHANGED <<task_node, remaining>>
      /\ pc' = [pc EXCEPT ![t] = "spawn", ![u] = "run"]
      /\ new' = [new EXCEPT ![t] = u]
      /\ panic' \in {"none", "STACK_ALLOC"}
      /\ UNCHANGED <<current, preemptive>> /\ current = t
  BY DEF ucx_task_spawn, MayCall, Running
<1>2. /\ tasks' \in Seq(Tcb) /\ IsInjective(tasks')
      /\ Len(tasks) >= 1 => tasks'[1] = tasks[1]
      /\ Len(tasks') = Len(tasks) + 1
      /\ \A w \in Tcb : Listed(w)' <=> Listed(w) \/ w = u
  <2>1. tasks \in Seq(Tcb) /\ IsInjective(tasks)
    BY DEF Inv, TypeInv, CurrentListed
  <2>2. ~\E i \in 1 .. Len(tasks) : tasks[i] = u
    BY <1>1 DEF Listed
  <2>3. tasks' = Append(tasks, u)
    BY <1>1
  <2> DEFINE r == Append(tasks, u)
  <2>4. /\ r \in Seq(Tcb) /\ IsInjective(r)
        /\ Len(tasks) >= 1 => r[1] = tasks[1]
        /\ Len(r) = Len(tasks) + 1
        /\ \A w \in Tcb : (\E i \in 1 .. Len(r) : r[i] = w)
             <=> (\E i \in 1 .. Len(tasks) : tasks[i] = w) \/ w = u
    BY <2>1, <2>2, AppendedListed
  <2> HIDE DEF r
  <2>5. tasks' = r
    BY <2>3 DEF r
  <2> QED BY <2>4, <2>5, Zenon DEF Listed
<1>3. u # t /\ u # current /\ Listed(t)
  BY <1>1 DEF Inv, CurrentListed
<1>4. /\ Prio(Normal) \in UInt16 /\ High(Prio(Normal)) = Normal
      /\ Low(Prio(Normal)) = Normal /\ Normal \in PriorityLevels /\ Normal \in Nat
  BY NormalLevel, PrioBytes, LevelRange
<1>5. \A w \in Tcb : /\ state'[w] = IF w = u THEN "STOPPED" ELSE state[w]
                     /\ priority'[w] = IF w = u THEN Prio(Normal) ELSE priority[w]
                     /\ delay'[w] = IF w = u THEN 0 ELSE delay[w]
                     /\ pc'[w] = IF w = u THEN "run" ELSE IF w = t THEN "spawn" ELSE pc[w]
                     /\ new'[w] = IF w = t THEN u ELSE new[w]
  BY <1>1, <1>3 DEF Inv, TypeInv
<1>6. TypeInv'
  <2>1. 0 \in UInt16
    BY IsUInt16
  <2> QED BY <1>1, <1>2, <1>4, <2>1 DEF Inv, TypeInv, TaskStates
<1>7. CurrentListed'
  BY <1>1, <1>2, <1>3 DEF CurrentListed, Listed
<1>8. OneRunning'
  BY <1>1, <1>2, <1>5 DEF Inv, OneRunning
<1>9. StoppedTasksDoNotRun'
  BY <1>1, <1>3, <1>5 DEF Inv, TypeInv, StoppedTasksDoNotRun, Running
<1>10. DelaysKept'
  <2> SUFFICES ASSUME RtOnlyYield, NEW w \in Tcb, Listed(w)', delay'[w] > 0
               PROVE  state'[w] = "BLOCKED"
    BY DEF DelaysKept, DelayOnlyWhileBlocked
  <2>1. w # u
    BY <1>5
  <2> QED BY <1>2, <1>5, <2>1 DEF Inv, DelaysKept, DelayOnlyWhileBlocked
<1>11. HalfBuiltNeverScheduled'
  <2> SUFFICES ASSUME NEW w \in Tcb, Listed(w)', pc'[w] = "spawn"
               PROVE  Listed(new[w])' /\ state'[new'[w]] = "STOPPED" /\ new'[w] # current'
    BY DEF HalfBuiltNeverScheduled
  <2>1. CASE w = t
    BY <1>1, <1>2, <1>3, <1>5, <2>1
  <2>2. CASE w # t
    <3>1. Listed(w) /\ pc[w] = "spawn" /\ new'[w] = new[w] /\ new[w] \in Tcb
      BY <1>2, <1>5, <2>2 DEF Inv, TypeInv
    <3>2. Listed(new[w]) /\ state[new[w]] = "STOPPED" /\ new[w] # current
      BY <3>1 DEF Inv, HalfBuiltNeverScheduled
    <3> QED BY <1>1, <1>2, <1>5, <3>1, <3>2
  <2> QED BY <2>1, <2>2
<1>12. SpawnsDistinct'
  <2> SUFFICES ASSUME NEW v \in Tcb, NEW w \in Tcb, Listed(v)', Listed(w)',
                      pc'[v] = "spawn", pc'[w] = "spawn", v # w, w # t
               PROVE  new'[v] # new'[w]
    BY DEF SpawnsDistinct
  <2>1. Listed(w) /\ pc[w] = "spawn" /\ new'[w] = new[w] /\ new[w] \in Tcb
    BY <1>2, <1>5 DEF Inv, TypeInv
  <2>2. Listed(new[w])
    BY <2>1 DEF Inv, HalfBuiltNeverScheduled
  <2>3. CASE v = t
    BY <1>1, <1>5, <2>1, <2>2, <2>3
  <2>4. CASE v # t
    <3>1. Listed(v) /\ pc[v] = "spawn" /\ new'[v] = new[v]
      BY <1>2, <1>5, <2>4
    <3> QED BY <2>1, <3>1 DEF Inv, SpawnsDistinct
  <2> QED BY <2>3, <2>4
<1>13. CountdownWithinBase'
  <2> SUFFICES ASSUME NEW w \in Tcb, Listed(w)'
               PROVE  /\ High(priority'[w]) \in PriorityLevels
                      /\ Low(priority'[w]) <= High(priority'[w])
    BY DEF CountdownWithinBase, High, Low
  <2>1. CASE w = u
    BY <1>4, <1>5, <2>1
  <2>2. CASE w # u
    BY <1>2, <1>5, <2>2 DEF Inv, CountdownWithinBase
  <2> QED BY <2>1, <2>2
<1>14. IdleAlive'
  <2>1. u \notin Idle
    BY <1>1 DEF Inv, IdleAlive
  <2> QED BY <1>2, <1>5, <2>1, KernelAssumption DEF Inv, IdleAlive
<1>15. IdleAtFront'
  <2> SUFFICES ASSUME InitTasks[1] \in Idle \ RtTasks
               PROVE  IdleAtFront'
    BY DEF IdleAtFront
  <2>1. /\ Len(tasks) >= 1 /\ tasks[1] = InitTasks[1] /\ InitTasks[1] \in Tcb
        /\ ~rt[InitTasks[1]]
    BY KernelAssumption DEF Inv, IdleAtFront
  <2>2. InitTasks[1] # u /\ Len(tasks) \in Nat
    BY <1>1, <2>1 DEF Listed, Inv, TypeInv
  <2>3. Len(tasks') >= 1 /\ tasks'[1] = InitTasks[1]
    BY <1>2, <2>1, <2>2
  <2>4. ~rt'[InitTasks[1]]
    BY <1>1, <2>1, <2>2 DEF Inv, TypeInv
  <2> QED BY <2>3, <2>4 DEF IdleAtFront
<1>16. NodeIsRt' /\ RtIsIdle'
  <2>1. \A w \in Tcb : rt'[w] = IF w = u THEN FALSE ELSE rt[w]
    BY <1>1 DEF Inv, TypeInv
  <2>2. RtIsIdle'
    BY <2>1 DEF Inv, RtIsIdle
  <2>3. NodeIsRt'
    BY <1>1, <1>2, <1>5, <2>1 DEF Inv, TypeInv, NodeIsRt
  <2> QED BY <2>2, <2>3
<1>17. NoFalsePanic'
  BY <1>1 DEF NoFalsePanic
<1> QED BY <1>6, <1>7, <1>8, <1>9, <1>10, <1>11, <1>12, <1>13, <1>14, <1>15, <1>16, <1>17
        DEF Inv

LEMMA SpawnReadyKeepsInv ==
  ASSUME Inv, NEW t \in Tcb, SpawnReady(t)
  PROVE  Inv'
<1> DEFINE u == new[t]
<1>1. /\ current = t /\ pc[t] = "spawn" /\ panic = "none"
      /\ state' = [state EXCEPT ![u] = "READY"]
      /\ pc' = [pc EXCEPT ![t] = "run"]
      /\ UNCHANGED <<tasks, current, priority, delay, rtVars, new, panic, preemptive>>
  BY DEF SpawnReady
<1>2. u \in Tcb /\ Listed(t) /\ Listed(u) /\ state[u] = "STOPPED" /\ u # current
  BY <1>1 DEF Inv, TypeInv, CurrentListed, HalfBuiltNeverScheduled
<1>3. /\ \A w \in Tcb : Listed(w)' <=> Listed(w)
      /\ \A w \in Tcb : state'[w] = IF w = u THEN "READY" ELSE state[w]
      /\ \A w \in Tcb : pc'[w] = IF w = t THEN "run" ELSE pc[w]
  BY <1>1 DEF Inv, TypeInv, Listed
<1>4. TypeInv'
  BY <1>1 DEF Inv, TypeInv, TaskStates
<1>5. CurrentListed' /\ OneRunning'
  BY <1>1, <1>3 DEF Inv, CurrentListed, OneRunning
<1>6. StoppedTasksDoNotRun'
  BY <1>1, <1>2, <1>3 DEF Inv, TypeInv, StoppedTasksDoNotRun
<1>7. DelaysKept'
  <2> SUFFICES ASSUME RtOnlyYield, NEW w \in Tcb, Listed(w), delay[w] > 0
               PROVE  state'[w] = "BLOCKED"
    BY <1>1, <1>3 DEF DelaysKept, DelayOnlyWhileBlocked
  <2>1. state[w] = "BLOCKED"
    BY DEF Inv, DelaysKept, DelayOnlyWhileBlocked
  <2> QED BY <1>2, <1>3, <2>1
<1>8. HalfBuiltNeverScheduled'
  <2> SUFFICES ASSUME NEW w \in Tcb, Listed(w), pc[w] = "spawn", w # t
               PROVE  Listed(new[w]) /\ state'[new[w]] = "STOPPED" /\ new[w] # current
    BY <1>1, <1>3 DEF HalfBuiltNeverScheduled, Inv, TypeInv
  <2>1. /\ new[w] \in Tcb /\ Listed(new[w]) /\ state[new[w]] = "STOPPED"
        /\ new[w] # current
    BY DEF Inv, TypeInv, HalfBuiltNeverScheduled
  <2>2. new[w] # u
    BY <1>1, <1>2 DEF Inv, SpawnsDistinct
  <2> QED BY <1>3, <2>1, <2>2
<1>9. SpawnsDistinct'
  BY <1>1, <1>3 DEF Inv, SpawnsDistinct
<1>10. CountdownWithinBase' /\ NoFalsePanic'
  BY <1>1, <1>3 DEF Inv, CountdownWithinBase, NoFalsePanic, High, Low
<1>11. IdleAlive' /\ IdleAtFront' /\ NodeIsRt' /\ RtIsIdle'
  BY <1>1, <1>2, <1>3, KernelAssumption DEF Inv, TypeInv, IdleAlive, IdleAtFront, NodeIsRt,
                                            RtIsIdle
<1> QED BY <1>4, <1>5, <1>6, <1>7, <1>8, <1>9, <1>10, <1>11 DEF Inv

(* Freeing a task takes it out of every clause.                            *)
LEMMA CancelKeepsInv ==
  ASSUME Inv, NEW t \in Tcb, NEW u \in Tcb, ucx_task_cancel(t, u)
  PROVE  Inv'
<1>1. PICK k \in 1 .. Len(tasks) : tasks[k] = u /\ tasks' = RemoveAt(tasks, k)
  BY DEF ucx_task_cancel
<1>2. /\ current = t /\ u # t /\ u \notin Idle /\ state[u] # "STOPPED"
      /\ task_node' = NodeWithout(u)
      /\ UNCHANGED <<current, state, priority, delay, rt, remaining, pc, new, panic,
                     preemptive>>
  BY DEF ucx_task_cancel, MayCall, Running, Target
<1>3. tasks \in Seq(Tcb) /\ IsInjective(tasks)
  BY DEF Inv, TypeInv, CurrentListed
<1>4. /\ IsInjective(tasks')
      /\ \A w \in Tcb : Listed(w)' <=> Listed(w) /\ w # u
  BY <1>1, <1>3, RemovedListed DEF Listed
<1>5. /\ tasks' \in Seq(Tcb) /\ Len(tasks') = Len(tasks) - 1
      /\ \A i \in 1 .. Len(tasks) - 1 :
           tasks'[i] = IF i < k THEN tasks[i] ELSE tasks[i + 1]
  BY <1>1, <1>3, RemovedNode
<1>6. TypeInv'
  <2>1. task_node' \in [at : {"none", "node", "freed"}, task : Tcb]
    BY <1>2 DEF NodeWithout, Inv, TypeInv
  <2> QED BY <1>2, <1>5, <2>1 DEF Inv, TypeInv
<1>7. CurrentListed'
  BY <1>2, <1>4 DEF Inv, TypeInv, CurrentListed
<1>8. OneRunning' /\ StoppedTasksDoNotRun' /\ DelaysKept'
  BY <1>2, <1>4 DEF Inv, OneRunning, StoppedTasksDoNotRun, DelaysKept, DelayOnlyWhileBlocked
<1>9. HalfBuiltNeverScheduled'
  <2> SUFFICES ASSUME NEW w \in Tcb, Listed(w), pc[w] = "spawn"
               PROVE  Listed(new[w])' /\ state[new[w]] = "STOPPED" /\ new[w] # current
    BY <1>2, <1>4 DEF HalfBuiltNeverScheduled
  <2>1. /\ new[w] \in Tcb /\ Listed(new[w]) /\ state[new[w]] = "STOPPED"
        /\ new[w] # current
    BY DEF Inv, TypeInv, HalfBuiltNeverScheduled
  <2> QED BY <1>2, <1>4, <2>1
<1>10. SpawnsDistinct'
  BY <1>2, <1>4 DEF Inv, SpawnsDistinct
<1>11. CountdownWithinBase' /\ NoFalsePanic'
  BY <1>2, <1>4 DEF Inv, CountdownWithinBase, NoFalsePanic, High, Low
<1>12. IdleAtFront'
  <2> SUFFICES ASSUME InitTasks[1] \in Idle \ RtTasks
               PROVE  Len(tasks') >= 1 /\ tasks'[1] = InitTasks[1]
    BY <1>2 DEF Inv, IdleAtFront
  <2>1. Len(tasks) \in Nat /\ tasks[1] = InitTasks[1]
    BY <1>3 DEF Inv, IdleAtFront
  <2>2. k > 1 /\ k <= Len(tasks)
    BY <1>1, <1>2, <2>1
  <2> QED BY <1>5, <2>1, <2>2
<1>13. IdleAlive' /\ RtIsIdle'
  BY <1>2, <1>4, KernelAssumption DEF Inv, IdleAlive, RtIsIdle
<1>14. NodeIsRt'
  <2> SUFFICES ASSUME task_node'.at = "node"
               PROVE  NodeIsRt'
    BY DEF NodeIsRt
  <2>1. task_node' = task_node /\ task_node.task # u /\ task_node.task \in Tcb
    BY <1>2 DEF NodeWithout, Inv, TypeInv
  <2> QED BY <1>2, <1>4, <2>1 DEF Inv, NodeIsRt
<1> QED BY <1>6, <1>7, <1>8, <1>9, <1>10, <1>11, <1>12, <1>13, <1>14 DEF Inv

(* Steps that change nothing but, possibly, the code of the panic.         *)
LEMMA NothingElseKeepsInv ==
  ASSUME Inv, UNCHANGED <<tasks, current, state, priority, delay, rtVars, pc, new, preemptive>>,
         panic' \in {panic, "TCB_ALLOC", "SEM_OPERATION"}
  PROVE  Inv'
<1>1. TypeInv' /\ CurrentListed' /\ OneRunning' /\ StoppedTasksDoNotRun'
  BY DEF Inv, TypeInv, CurrentListed, OneRunning, StoppedTasksDoNotRun, Listed
<1>2. DelaysKept' /\ HalfBuiltNeverScheduled' /\ SpawnsDistinct'
  BY DEF Inv, DelaysKept, DelayOnlyWhileBlocked, HalfBuiltNeverScheduled, SpawnsDistinct, Listed
<1>3. CountdownWithinBase' /\ NoFalsePanic'
  BY DEF Inv, CountdownWithinBase, NoFalsePanic, Listed, High, Low
<1>4. IdleAlive' /\ IdleAtFront' /\ NodeIsRt' /\ RtIsIdle'
  BY DEF Inv, IdleAlive, IdleAtFront, NodeIsRt, RtIsIdle, Listed
<1> QED BY <1>1, <1>2, <1>3, <1>4 DEF Inv

-----------------------------------------------------------------------------
(* The invariant holds initially, and every step keeps it.                 *)

LEMMA InitInv ==
  ASSUME Init
  PROVE  Inv
<1>1. PICK level \in [Tcb -> Levels] :
        priority = [t \in Tcb |-> Prio(IF Listed(t) THEN level[t] ELSE Normal)]
  BY DEF Init
<1>2. ASSUME NEW t \in Tcb
      PROVE  /\ priority[t] \in UInt16
             /\ High(priority[t]) \in PriorityLevels
             /\ Low(priority[t]) <= High(priority[t])
  <2> DEFINE l == IF Listed(t) THEN level[t] ELSE Normal
  <2>1. l \in PriorityLevels /\ priority[t] = Prio(l)
    BY <1>1, KernelAssumption, NormalLevel
  <2> HIDE DEF l
  <2> QED BY <2>1, PrioBytes, LevelRange
<1>3. /\ tasks = InitTasks /\ current = tasks[1] /\ panic = "none"
      /\ current \in Tcb /\ Listed(current) /\ Len(tasks) >= 1
      /\ \A t \in Tcb : /\ state[t] = IF Listed(t) THEN "READY" ELSE "STOPPED"
                        /\ delay[t] = 0 /\ pc[t] = "run"
      /\ task_node = NoNode /\ remaining = Credits
  BY KernelAssumption DEF Init, Listed
<1>r. rt = [t \in Tcb |-> t \in RtTasks]
  BY DEF Init
<1>i. \A t \in Idle : t \in Tcb /\ Listed(t)
  BY <1>3, KernelAssumption DEF Listed
<1>4. TypeInv
  <2>1. 0 \in UInt16
    BY IsUInt16
  <2>2. priority \in [Tcb -> UInt16]
    BY <1>1, <1>2
  <2>3. task_node \in [at : {"none", "node", "freed"}, task : Tcb]
    BY <1>3, KernelAssumption DEF NoNode
  <2> QED BY <1>3, <2>1, <2>2, <2>3, KernelAssumption DEF Init, TypeInv, TaskStates
<1>5. CurrentListed /\ OneRunning /\ StoppedTasksDoNotRun /\ DelaysKept
  BY <1>3, KernelAssumption DEF CurrentListed, OneRunning, StoppedTasksDoNotRun,
                                DelaysKept, DelayOnlyWhileBlocked
<1>6. HalfBuiltNeverScheduled /\ SpawnsDistinct
  BY <1>3 DEF HalfBuiltNeverScheduled, SpawnsDistinct
<1>7. CountdownWithinBase /\ NoFalsePanic
  BY <1>2, <1>3 DEF CountdownWithinBase, NoFalsePanic
<1>8. IdleAlive /\ IdleAtFront
  BY <1>3, <1>r, <1>i, KernelAssumption DEF IdleAlive, IdleAtFront
<1>9. NodeIsRt /\ RtIsIdle
  BY <1>3, <1>r DEF NodeIsRt, NoNode, RtIsIdle, RtOnlyYield
<1> QED BY <1>4, <1>5, <1>6, <1>7, <1>8, <1>9 DEF Inv

LEMMA NextInv ==
  ASSUME Inv, [Next]_vars
  PROVE  Inv'
<1>1. CASE Tick
  BY <1>1, TickKeepsInv
<1>2. CASE Yield
  BY <1>2, YieldKeepsInv DEF Yield
<1>3. ASSUME NEW t \in Tcb, Call(t)
      PROVE  Inv'
  <2>1. CASE \E n \in Delays : ucx_task_delay(t, n)
    BY <2>1, DelayKeepsInv
  <2>2. ASSUME NEW u \in Tcb,
               \/ ucx_task_suspend(t, u)
               \/ ucx_task_resume(t, u)
               \/ \E level \in Levels : ucx_task_priority(t, u, level)
               \/ ucx_task_rt_priority(t, u)
               \/ ucx_task_spawn(t, u)
               \/ ucx_task_cancel(t, u)
        PROVE  Inv'
    BY <2>2, SuspendKeepsInv, ResumeKeepsInv, PriorityKeepsInv, RtPriorityKeepsInv,
       SpawnKeepsInv, CancelKeepsInv
  <2>3. CASE SpawnReady(t)
    BY <2>3, SpawnReadyKeepsInv
  <2>4. CASE SpawnNoMemory(t)
    BY <2>4, NothingElseKeepsInv DEF SpawnNoMemory, tcbVars
  <2> QED BY <1>3, <2>1, <2>2, <2>3, <2>4 DEF Call
<1>4. CASE Halted \/ UNCHANGED vars
  BY <1>4, NothingElseKeepsInv DEF Halted, vars
<1> QED BY <1>1, <1>2, <1>3, <1>4 DEF Next

-----------------------------------------------------------------------------
(* The results.                                                            *)

LEMMA InvAlways == Spec => []Inv
<1>1. Init => Inv
  BY InitInv
<1>2. Inv /\ [Next]_vars => Inv'
  BY NextInv
<1> QED BY <1>1, <1>2, PTL DEF Spec

(* Whatever the tasks call and wherever the timer interrupts them, every   *)
(* variable of kernel/ucx.c keeps to its type.                             *)
THEOREM TypesAreKept == Spec => []TypeInv
<1>1. Inv => TypeInv
  BY DEF Inv
<1> QED BY <1>1, InvAlways, PTL

(* task_current is always a task of the list: the processor never executes  *)
(* on the stack of a cancelled task.                                        *)
THEOREM CurrentIsListed == Spec => []CurrentListed
<1>1. Inv => CurrentListed
  BY DEF Inv
<1> QED BY <1>1, InvAlways, PTL

(* krnl_schedule and our_sched, which take turns, never leave two tasks     *)
(* RUNNING, whatever the RT tasks call.                                     *)
THEOREM AtMostOneRuns == Spec => []OneRunning
<1>1. Inv => OneRunning
  BY DEF Inv
<1> QED BY <1>1, InvAlways, PTL

(* Where RT tasks only yield, a task that blocked or was suspended runs     *)
(* nothing but the yield it ends in, and stays so until the end of its      *)
(* delay or a call of ucx_task_resume: no switch by either scheduler starts *)
(* it again.                                                               *)
THEOREM StoppedTasksStop ==
  ASSUME RtOnlyYield
  PROVE  Spec => []StoppedTasksDoNotRun /\ StoppedUntilWoken
<1> DEFINE Stays(t) ==
      /\ state[t] = "SUSPENDED" /\ state'[t] # "SUSPENDED" =>
           \E u \in Tcb : ucx_task_resume(u, t)
      /\ state[t] = "BLOCKED" /\ state'[t] # "BLOCKED" =>
           DelaysOver(t) /\ delay'[t] = 0
<1>1. ASSUME Inv, Next, NEW t \in Tcb, Listed(t), Listed(t)'
      PROVE  Stays(t)
  <2>s. ASSUME krnl_schedule(UpdatedState) \/ Schedule(UpdatedState), delay' = UpdatedDelay
        PROVE  Stays(t)
    <3>1. DelaysOver(t) => delay'[t] = 0
      BY <2>s DEF DelaysOver, UpdatedDelay
    <3> QED BY <1>1, <2>s, <3>1, SwitchStates
  <2>1. CASE Tick
    BY <2>1, <2>s DEF Tick
  <2>2. CASE Yield
    BY <2>2, <2>s DEF Yield, ucx_task_yield, tcbVars
  <2>3. ASSUME NEW c \in Tcb, NEW n \in Delays, ucx_task_delay(c, n)
        PROVE  Stays(t)
    <3>1. /\ state' = [state EXCEPT ![c] = "BLOCKED"]
          /\ state[c] \notin {"SUSPENDED", "BLOCKED"}
      BY <1>1, <2>3 DEF ucx_task_delay, MayCall, Running, Inv, StoppedTasksDoNotRun
    <3> QED BY <1>1, <3>1 DEF Inv, TypeInv
  <2>4. ASSUME NEW c \in Tcb, NEW u \in Tcb, ucx_task_suspend(c, u)
        PROVE  Stays(t)
    BY <1>1, <2>4 DEF ucx_task_suspend, Inv, TypeInv
  <2>5. ASSUME NEW c \in Tcb, NEW u \in Tcb, ucx_task_resume(c, u)
        PROVE  Stays(t)
    <3>1. CASE u = t
      BY <2>5, <3>1 DEF ucx_task_resume
    <3>2. CASE u # t
      BY <1>1, <2>5, <3>2 DEF ucx_task_resume, Inv, TypeInv
    <3> QED BY <3>1, <3>2
  <2>6. ASSUME NEW c \in Tcb, NEW u \in Tcb, ucx_task_spawn(c, u)
        PROVE  Stays(t)
    <3>1. u # t /\ state' = [state EXCEPT ![u] = "STOPPED"]
      BY <1>1, <2>6 DEF ucx_task_spawn
    <3> QED BY <1>1, <3>1 DEF Inv, TypeInv
  <2>7. ASSUME NEW c \in Tcb, SpawnReady(c)
        PROVE  Stays(t)
    <3>1. state' = [state EXCEPT ![new[c]] = "READY"] /\ state[new[c]] = "STOPPED"
      BY <1>1, <2>7 DEF SpawnReady, Inv, CurrentListed, HalfBuiltNeverScheduled
    <3> QED BY <1>1, <3>1 DEF Inv, TypeInv
  <2>8. CASE UNCHANGED state
    BY <2>8
  <2>9. ASSUME NEW c \in Tcb, Call(c)
        PROVE  \/ UNCHANGED state
               \/ \E n \in Delays : ucx_task_delay(c, n)
               \/ \E u \in Tcb : ucx_task_suspend(c, u) \/ ucx_task_resume(c, u)
                                   \/ ucx_task_spawn(c, u)
               \/ SpawnReady(c)
    BY <2>9 DEF Call, ucx_task_priority, ucx_task_rt_priority, ucx_task_cancel,
                SpawnNoMemory, tcbVars
  <2>10. CASE Halted
    BY <2>10 DEF Halted, vars
  <2> HIDE DEF Stays
  <2> QED BY <1>1, <2>1, <2>2, <2>3, <2>4, <2>5, <2>6, <2>7, <2>8, <2>9, <2>10 DEF Next
<1>2. Inv /\ [Next]_vars =>
        [\A t \in Tcb : Listed(t) /\ Listed(t)' => Stays(t)]_vars
  BY <1>1
<1>3. Inv => StoppedTasksDoNotRun
  BY DEF Inv
<1> QED BY <1>2, <1>3, InvAlways, PTL DEF Spec, StoppedUntilWoken

(* No interrupt selects a task whose stack ucx_task_spawn still fills.      *)
THEOREM SpawnIsInvisible == Spec => []HalfBuiltNeverScheduled
<1>1. Inv => HalfBuiltNeverScheduled
  BY DEF Inv
<1> QED BY <1>1, InvAlways, PTL

(* No call takes a task out of a delay but the end of the delay, and no     *)
(* delay is left in a task that goes on, where RT tasks only yield.         *)
THEOREM DelaysAreKept ==
  ASSUME RtOnlyYield
  PROVE  Spec => []DelayOnlyWhileBlocked
<1>1. Inv => DelayOnlyWhileBlocked
  BY DEF Inv, DelaysKept
<1> QED BY <1>1, InvAlways, PTL

(* The subtraction of krnl_schedule never borrows from the base priority.  *)
THEOREM CountdownsStayWithinBase == Spec => []CountdownWithinBase
<1>1. Inv => CountdownWithinBase
  BY DEF Inv
<1> QED BY <1>1, InvAlways, PTL

(* A list that starts with an idle task that has no RT priority never makes *)
(* the kernel halt with "no tasks to run".                                  *)
THEOREM IdleTaskPreventsPanic == Spec => []NoFalsePanic
<1>1. Inv => NoFalsePanic
  BY DEF Inv
<1> QED BY <1>1, InvAlways, PTL

(* A base priority changes by ucx_task_priority alone, whatever the        *)
(* scheduler subtracts.                                                    *)
THEOREM BasesAreKept == Spec => BaseKept
<1> DEFINE Kept(t) ==
      \/ High(priority'[t]) = High(priority[t])
      \/ \E c \in Tcb, level \in Levels : ucx_task_priority(c, t, level)
<1>1. ASSUME Inv, Next, NEW t \in Tcb, Listed(t), Listed(t)'
      PROVE  Kept(t)
  <2>1. CASE Tick
    BY <1>1, <2>1, SwitchPriorities DEF Tick
  <2>2. CASE Yield
    <3>1. PICK y \in Tcb : ucx_task_yield(y)
      BY <2>2 DEF Yield
    <3>2. CASE ~preemptive
      BY <1>1, <3>1, <3>2, SwitchPriorities DEF ucx_task_yield
    <3>3. CASE preemptive
      BY <3>1, <3>3 DEF ucx_task_yield, tcbVars
    <3> QED BY <3>2, <3>3
  <2>3. ASSUME NEW c \in Tcb, NEW u \in Tcb, NEW level \in Levels,
               ucx_task_priority(c, u, level)
        PROVE  Kept(t)
    <3>1. CASE u = t
      BY <2>3, <3>1
    <3>2. CASE u # t
      BY <1>1, <2>3, <3>2 DEF ucx_task_priority, Inv, TypeInv
    <3> QED BY <3>1, <3>2
  <2>4. ASSUME NEW c \in Tcb, NEW u \in Tcb, ucx_task_spawn(c, u)
        PROVE  Kept(t)
    <3>1. u # t /\ priority' = [priority EXCEPT ![u] = Prio(Normal)]
      BY <1>1, <2>4 DEF ucx_task_spawn
    <3> QED BY <1>1, <3>1 DEF Inv, TypeInv
  <2>5. CASE UNCHANGED priority
    BY <2>5
  <2>6. ASSUME NEW c \in Tcb, Call(c)
        PROVE  \/ UNCHANGED priority
               \/ \E u \in Tcb, level \in Levels : ucx_task_priority(c, u, level)
               \/ \E u \in Tcb : ucx_task_spawn(c, u)
    BY <2>6 DEF Call, ucx_task_delay, ucx_task_suspend, ucx_task_resume,
                ucx_task_rt_priority, ucx_task_cancel, SpawnReady, SpawnNoMemory, tcbVars
  <2>7. CASE Halted
    BY <2>7 DEF Halted, vars
  <2> QED BY <1>1, <2>1, <2>2, <2>3, <2>4, <2>5, <2>6, <2>7 DEF Next
<1>2. Inv /\ [Next]_vars =>
        [\A t \in Tcb : Listed(t) /\ Listed(t)' => Kept(t)]_vars
  BY <1>1
<1> QED BY <1>2, InvAlways, PTL DEF Spec, BaseKept

-----------------------------------------------------------------------------
(* The loops of krnl_schedule. *)

(* 16 bits lose nothing of a number that has no more.                      *)
LEMMA SmallModulo ==
  ASSUME NEW x \in Nat, x <= 65535
  PROVE  x % 65536 = x
BY SMT

(* The scan as a run: select after each node of the list.                  *)
LEMMA ScanSteps ==
  ASSUME NEW st, Len(tasks) \in Nat, Len(tasks) >= 1
  PROVE  \E f \in [0 .. Len(tasks) -> 1 .. Len(tasks)] :
           /\ Scan(st) = f[Len(tasks)] /\ f[0] = 1
           /\ \A k \in 1 .. Len(tasks) : f[k] = Pass(st, f[k - 1], k)
<1> DEFINE n == Len(tasks)
           A == 1 .. n
           Runs(f) == f = [k \in 0 .. n |-> IF k = 0 THEN 1 ELSE Pass(st, f[k - 1], k)]
           step == [k \in 1 .. n |-> [sel \in A |-> Pass(st, sel, k)]]
           f == CHOOSE g : Runs(g)
<1>1. Scan(st) = f[n]
  BY DEF Scan
<1>2. \E g : Runs(g)
  <2>1. step \in [1 .. n -> [A -> A]]
    BY DEF Pass
  <2>2. \A sel \in A, k \in 1 .. n : step[k][sel] = Pass(st, sel, k)
    OBVIOUS
  <2>0. 1 \in A /\ n \in Nat /\ \A k \in 1 .. n : k - 1 \in 0 .. n
    OBVIOUS
  <2> HIDE DEF step, A, n
  <2>a. \E g \in [0 .. n -> A] :
          g[0] = 1 /\ \A k \in 1 .. n : g[k] = step[k][g[k - 1]]
    BY ONLY <2>0, <2>1, Iterates
  <2>3. PICK g \in [0 .. n -> A] :
          g[0] = 1 /\ \A k \in 1 .. n : g[k] = step[k][g[k - 1]]
    BY <2>a
  <2>4. ASSUME NEW k \in 1 .. n
        PROVE  g[k] = Pass(st, g[k - 1], k)
    BY <2>0, <2>2, <2>3
  <2>5. g = [k \in 0 .. n |-> IF k = 0 THEN 1 ELSE Pass(st, g[k - 1], k)]
    BY <2>3, <2>4
  <2> QED BY <2>5
<1>3. Runs(f)
  BY <1>2
<1> HIDE DEF f
<1>4. f[0] = 1 /\ DOMAIN f = 0 .. n
  BY <1>3
<1>5. ASSUME NEW k \in 1 .. n
      PROVE  f[k] = Pass(st, f[k - 1], k)
  BY <1>3
<1>6. ASSUME NEW sel \in A, NEW k \in 1 .. n
      PROVE  Pass(st, sel, k) \in A
  BY DEF Pass
<1>7. f \in [0 .. n -> A]
  <2> DEFINE S == {k \in 0 .. n : f[k] \in A}
  <2>1. 0 \in S
    BY <1>4
  <2>2. ASSUME NEW k \in 0 .. n - 1, k \in S
        PROVE  k + 1 \in S
    <3>1. k + 1 \in 1 .. n /\ (k + 1) - 1 = k
      OBVIOUS
    <3>2. f[k + 1] = Pass(st, f[k], k + 1)
      BY <1>5, <3>1
    <3>3. f[k] \in A
      BY <2>2
    <3>4. Pass(st, f[k], k + 1) \in A
      BY <1>6, <3>1, <3>3
    <3> QED BY <3>1, <3>2, <3>4
  <2> HIDE DEF S
  <2>3. \A k \in 0 .. n : k \in S
    BY <2>1, <2>2, UpTo
  <2>4. f = [k \in 0 .. n |-> f[k]]
    BY <1>3
  <2> QED BY <2>3, <2>4 DEF S
<1> QED BY <1>1, <1>4, <1>5, <1>7

(* Once a task is eligible, the scan holds the last of the smallest counts  *)
(* among those it has passed.                                               *)
LEMMA ScanSelects ==
  ASSUME NEW st, Len(tasks) \in Nat, Len(tasks) >= 1,
         \A i \in 1 .. Len(tasks) : Count(i) \in Nat
  PROVE  /\ Scan(st) \in 1 .. Len(tasks)
         /\ Eligible(st) = {} => ~Ready(st, tasks[Scan(st)])
         /\ Eligible(st) # {} => Selected(st, Scan(st))
<1> DEFINE n == Len(tasks)
           E == Eligible(st)
           Best(s, k) == \A j \in 1 .. k : j \in E =>
             s \in E /\ Count(s) <= Count(j) /\ (Count(s) = Count(j) => j <= s)
<1>1. PICK f \in [0 .. n -> 1 .. n] :
        /\ Scan(st) = f[n] /\ f[0] = 1
        /\ \A k \in 1 .. n : f[k] = Pass(st, f[k - 1], k)
  BY ScanSteps
<1> DEFINE Held(k) == /\ f[k] \in E \/ f[k] = 1
                      /\ f[k] <= k \/ f[k] = 1
                      /\ Best(f[k], k)
           S == {k \in 0 .. n : Held(k)}
<1>2. \A i \in 1 .. n : i \in E <=> Ready(st, tasks[i]) /\ Count(i) <= Count(1)
  BY DEF Eligible
<1>3. E \subseteq 1 .. n
  BY DEF Eligible
<1> HIDE DEF E
<1>4. 0 \in S
  BY <1>1
<1>5. ASSUME NEW k \in 0 .. n - 1, k \in S
      PROVE  k + 1 \in S
  <2>1. /\ k + 1 \in 1 .. n /\ k + 1 \in 0 .. n /\ (k + 1) - 1 = k
        /\ k \in 0 .. n
    OBVIOUS
  <2>2. f[k + 1] = IF Count(k + 1) <= Count(f[k]) /\ Ready(st, tasks[k + 1])
                     THEN k + 1 ELSE f[k]
    BY <1>1, <2>1 DEF Pass
  <2>3. /\ f[k] \in 1 .. n /\ Count(f[k]) \in Nat /\ Count(k + 1) \in Nat
        /\ Count(1) \in Nat /\ 1 \in 1 .. n
    <3>1. f[k] \in 1 .. n /\ 1 \in 1 .. n
      BY <2>1
    <3> QED BY <2>1, <3>1
  <2>4. Count(f[k]) <= Count(1)
    BY <1>2, <1>5, <2>3
  <2>5. Held(k)
    BY <1>5
  <2>6. CASE Count(k + 1) <= Count(f[k]) /\ Ready(st, tasks[k + 1])
    <3>1. f[k + 1] = k + 1 /\ k + 1 \in E
      BY <1>2, <2>1, <2>2, <2>3, <2>4, <2>6
    <3>2. ASSUME NEW j \in 1 .. k + 1, j \in E
          PROVE  Count(k + 1) <= Count(j) /\ j <= k + 1
      <4>1. CASE j = k + 1
        BY <2>3, <4>1
      <4>2. CASE j \in 1 .. k
        <5>1. Count(f[k]) <= Count(j) /\ Count(j) \in Nat
          BY <2>5, <3>2, <4>2, <1>3
        <5> QED BY <2>3, <2>6, <4>2, <5>1
      <4> QED BY <4>1, <4>2
    <3>3. Best(k + 1, k + 1)
      BY <3>1, <3>2
    <3> QED BY <2>1, <3>1, <3>3
  <2>7. CASE ~(Count(k + 1) <= Count(f[k]) /\ Ready(st, tasks[k + 1]))
    <3>1. f[k + 1] = f[k]
      BY <2>2, <2>7
    <3>2. ASSUME k + 1 \in E
          PROVE  f[k] \in E /\ Count(f[k]) < Count(k + 1)
      <4>1. Ready(st, tasks[k + 1]) /\ Count(k + 1) <= Count(1)
        BY <1>2, <2>1, <3>2
      <4>2. Count(f[k]) < Count(k + 1)
        BY <2>3, <2>7, <4>1
      <4>3. f[k] # 1
        BY <2>3, <4>1, <4>2
      <4> QED BY <2>5, <4>2, <4>3
    <3>3. ASSUME NEW j \in 1 .. k + 1, j \in E
          PROVE  /\ f[k] \in E /\ Count(f[k]) <= Count(j)
                 /\ Count(f[k]) = Count(j) => j <= f[k]
      <4>1. CASE j = k + 1
        BY <2>3, <3>2, <3>3, <4>1
      <4>2. CASE j \in 1 .. k
        BY <2>5, <3>3, <4>2
      <4> QED BY <4>1, <4>2
    <3>4. Best(f[k], k + 1)
      BY <3>3
    <3>5. f[k] <= k + 1 \/ f[k] = 1
      BY <2>3, <2>5
    <3> QED BY <2>1, <2>5, <3>1, <3>4, <3>5
  <2> QED BY <2>6, <2>7
<1> HIDE DEF S
<1>6. \A k \in 0 .. n : k \in S
  BY <1>4, <1>5, UpTo
<1>7. Held(n)
  BY <1>6 DEF S
<1>8. f[n] \in 1 .. n
  OBVIOUS
<1>9. Ready(st, tasks[f[n]]) => f[n] \in E
  BY <1>2, <1>7, <1>8
<1>10. E # {} => f[n] \in E /\ \A j \in E : Count(f[n]) <= Count(j)
                                          /\ (Count(f[n]) = Count(j) => j <= f[n])
  BY <1>3, <1>7
<1> QED BY <1>1, <1>8, <1>9, <1>10 DEF E, Selected

(* The second pass as a run: the priorities after each node.               *)
LEMMA SubtractedSteps ==
  ASSUME NEW st, NEW s \in Tcb, tasks \in Seq(Tcb), priority \in [Tcb -> UInt16]
  PROVE  \E f \in [0 .. Len(tasks) -> [Tcb -> Int]] :
           /\ Subtracted(st, s) = f[Len(tasks)] /\ f[0] = priority
           /\ \A k \in 1 .. Len(tasks) : f[k] = Subtract(st, s, f[k - 1], k)
<1> DEFINE n == Len(tasks)
           A == [Tcb -> Int]
           Runs(f) == f = [k \in 0 .. n |-> IF k = 0 THEN priority
                                            ELSE Subtract(st, s, f[k - 1], k)]
           step == [k \in 1 .. n |-> [p \in A |-> Subtract(st, s, p, k)]]
           f == CHOOSE g : Runs(g)
<1>1. Subtracted(st, s) = f[n]
  BY DEF Subtracted
<1>2. Low(priority[s]) \in Nat
  BY LowIsNat
<1>3. ASSUME NEW p \in A, NEW k \in 1 .. n
      PROVE  Subtract(st, s, p, k) \in A
  <2>1. tasks[k] \in Tcb /\ (p[tasks[k]] - Low(priority[s])) % 65536 \in Int
    BY <1>2
  <2> QED BY <2>1 DEF Subtract
<1>4. priority \in A /\ n \in Nat
  <2>1. \A t \in Tcb : priority[t] \in Int
    BY IsUInt16
  <2> QED BY <2>1
<1> HIDE DEF A, n
<1>5. \A k \in 1 .. n : k # 0 /\ k \in 0 .. n /\ k - 1 \in 0 .. n
  BY <1>4
<1>6. \E g : Runs(g)
  <2>1. step \in [1 .. n -> [A -> A]]
    BY <1>3
  <2>2. \A p \in A, k \in 1 .. n : step[k][p] = Subtract(st, s, p, k)
    OBVIOUS
  <2> HIDE DEF step
  <2>3. PICK g \in [0 .. n -> A] :
          g[0] = priority /\ \A k \in 1 .. n : g[k] = step[k][g[k - 1]]
    BY ONLY <1>4, <2>1, Iterates
  <2>4. ASSUME NEW k \in 1 .. n
        PROVE  g[k] = Subtract(st, s, g[k - 1], k)
    BY <1>5, <2>2, <2>3
  <2>5. g = [k \in 0 .. n |-> IF k = 0 THEN priority ELSE Subtract(st, s, g[k - 1], k)]
    BY <1>4, <2>3, <2>4
  <2> QED BY <2>5
<1>7. Runs(f)
  BY <1>6
<1> HIDE DEF f
<1>8. f[0] = priority
  BY <1>4, <1>7
<1>9. ASSUME NEW k \in 1 .. n
      PROVE  f[k] = Subtract(st, s, f[k - 1], k)
  BY <1>5, <1>7
<1>10. f \in [0 .. n -> A]
  <2> DEFINE S == {k \in 0 .. n : f[k] \in A}
  <2>1. 0 \in S
    BY <1>4, <1>8
  <2>2. ASSUME NEW k \in 0 .. n - 1, k \in S
        PROVE  k + 1 \in S
    <3>1. k + 1 \in 1 .. n /\ k + 1 \in 0 .. n /\ (k + 1) - 1 = k
      BY <1>4
    <3>2. f[k + 1] = Subtract(st, s, f[k], k + 1)
      BY <1>9, <3>1
    <3> QED BY <1>3, <2>2, <3>1, <3>2
  <2> HIDE DEF S
  <2>3. \A k \in 0 .. n : k \in S
    BY <1>4, <2>1, <2>2, UpTo
  <2>4. f = [k \in 0 .. n |-> f[k]]
    BY <1>7
  <2> QED BY <2>3, <2>4 DEF S
<1> QED BY <1>1, <1>8, <1>9, <1>10 DEF A, n

(* A task is in the list once, so each READY one loses the count once.      *)
LEMMA SubtractedOnce ==
  ASSUME NEW st, NEW s \in Tcb, tasks \in Seq(Tcb), IsInjective(tasks),
         priority \in [Tcb -> UInt16]
  PROVE  Subtracted(st, s) =
           [t \in Tcb |-> IF Listed(t) /\ Ready(st, t)
                            THEN (priority[t] - Low(priority[s])) % 65536
                            ELSE priority[t]]
<1> DEFINE n == Len(tasks)
           less(x) == (x - Low(priority[s])) % 65536
           Done(k, t) == Ready(st, t) /\ \E i \in 1 .. k : tasks[i] = t
           After(k) == [t \in Tcb |-> IF Done(k, t) THEN less(priority[t]) ELSE priority[t]]
<1>1. PICK f \in [0 .. n -> [Tcb -> Int]] :
        /\ Subtracted(st, s) = f[n] /\ f[0] = priority
        /\ \A k \in 1 .. n : f[k] = Subtract(st, s, f[k - 1], k)
  BY SubtractedSteps
<1> DEFINE S == {k \in 0 .. n : f[k] = After(k)}
<1>2. 0 \in S
  <2>1. \A t \in Tcb : ~Done(0, t)
    OBVIOUS
  <2> HIDE DEF less, Done
  <2>2. After(0) = priority
    BY <2>1
  <2> QED BY <1>1, <2>2
<1>3. ASSUME NEW k \in 0 .. n - 1, k \in S
      PROVE  k + 1 \in S
  <2> DEFINE u == tasks[k + 1]
  <2>1. /\ k + 1 \in 1 .. n /\ k + 1 \in 0 .. n /\ k \in 0 .. n /\ (k + 1) - 1 = k
        /\ u \in Tcb /\ f[k] = After(k)
    BY <1>3
  <2>2. f[k + 1] = IF Ready(st, u) THEN [f[k] EXCEPT ![u] = less(f[k][u])] ELSE f[k]
    <3>1. f[k + 1] = Subtract(st, s, f[k], k + 1)
      <4> HIDE DEF u, n, After
      <4>1. f[k + 1] = Subtract(st, s, f[(k + 1) - 1], k + 1)
        BY <1>1, <2>1
      <4> QED BY <2>1, <4>1
    <3> QED BY <3>1 DEF Subtract
  <2>3. ~Done(k, u)
    BY <2>1 DEF IsInjective
  <2>4. ASSUME NEW t \in Tcb
        PROVE  Done(k + 1, t) <=> Done(k, t) \/ (t = u /\ Ready(st, u))
    BY <2>1
  <2> HIDE DEF Done, u, less, n
  <2>5. /\ After(k)[u] = priority[u]
        /\ \A t \in Tcb : After(k + 1)[t] =
             IF t = u /\ Ready(st, u) THEN less(priority[u]) ELSE After(k)[t]
    BY <2>1, <2>3, <2>4
  <2>6. f[k + 1] = After(k + 1)
    <3> HIDE DEF After
    <3>1. f[k] \in [Tcb -> Int] /\ f[k + 1] \in [Tcb -> Int]
      BY <1>1, <2>1
    <3>2. \A t \in Tcb : f[k + 1][t] = After(k + 1)[t]
      BY <2>1, <2>2, <2>5, <3>1
    <3>3. f[k + 1] = [t \in Tcb |-> After(k + 1)[t]]
      BY <3>1, <3>2
    <3> QED BY <3>3 DEF After
  <2> QED BY <2>1, <2>6
<1>0. n \in Nat
  OBVIOUS
<1> HIDE DEF S, less, Done, n
<1>4. \A k \in 0 .. n : k \in S
  BY <1>2, <1>3, <1>0, UpTo
<1>5. f[n] = After(n)
  BY <1>4, <1>0 DEF S
<1> QED BY <1>1, <1>5 DEF Listed, less, Done, n

(* OR with a byte that is 0, bit by bit.                                    *)
LEMMA OrWithZero ==
  ASSUME NEW l \in PriorityLevels
  PROVE  OrBytes(0, l) = l
<1> DEFINE Runs(f) == f = [k \in 0 .. 8 |-> IF k = 0 THEN 0 ELSE f[k - 1] + OrBit(0, l, k)]
           A == Int
           n == 8
           f == CHOOSE g : Runs(g)
           step == [k \in 1 .. n |-> [sum \in A |-> sum + OrBit(0, l, k)]]
<1>1. OrBytes(0, l) = f[8]
  BY DEF OrBytes
<1>2. ASSUME NEW k \in 1 .. 8
      PROVE  OrBit(0, l, k) \in Int
  BY DEF Weight, OrBit
<1>3. \E g : Runs(g)
  <2>1. step \in [1 .. n -> [A -> A]]
    BY <1>2
  <2>2. \A sum \in A, k \in 1 .. n : step[k][sum] = sum + OrBit(0, l, k)
    OBVIOUS
  <2>3. 0 \in A /\ n \in Nat
    OBVIOUS
  <2> HIDE DEF step, A, n
  <2>4. PICK g \in [0 .. n -> A] : g[0] = 0 /\ \A k \in 1 .. n : g[k] = step[k][g[k - 1]]
    BY ONLY <2>1, <2>3, Iterates
  <2>5. ASSUME NEW k \in 1 .. 8
        PROVE  g[k] = g[k - 1] + OrBit(0, l, k)
    BY <2>2, <2>4 DEF n
  <2>6. g = [k \in 0 .. 8 |-> IF k = 0 THEN 0 ELSE g[k - 1] + OrBit(0, l, k)]
    BY <2>4, <2>5 DEF n
  <2> QED BY <2>6
<1>4. Runs(f)
  BY <1>3
<1> HIDE DEF f
<1>5. f[0] = 0 /\ \A k \in 1 .. 8 : f[k] = f[k - 1] + OrBit(0, l, k)
  BY <1>4
<1>6. /\ f[1] = OrBit(0, l, 1) /\ f[2] = f[1] + OrBit(0, l, 2)
      /\ f[3] = f[2] + OrBit(0, l, 3) /\ f[4] = f[3] + OrBit(0, l, 4)
      /\ f[5] = f[4] + OrBit(0, l, 5) /\ f[6] = f[5] + OrBit(0, l, 6)
      /\ f[7] = f[6] + OrBit(0, l, 7) /\ f[8] = f[7] + OrBit(0, l, 8)
  BY <1>2, <1>5
<1>7. f[8] = l
  BY <1>6 DEF OrBit, Bit, Weight, PriorityLevels
<1> QED BY <1>1, <1>7

(* The loops end on the task the definitions of Kernel name, and there is   *)
(* one; its count is the smallest of all READY tasks, so that nothing is    *)
(* borrowed and the second pass leaves it at 0, where the reset finds it.   *)
LEMMA LoopsCompute ==
  ASSUME Inv
  PROVE  LoopSelects
<1> USE DEF Inv, TypeInv
<1> DEFINE st == Preempted(UpdatedState)
           sel == Scan(st)
           s == tasks[sel]
<1>1. Len(tasks) \in Nat /\ Len(tasks) >= 1
  BY DEF CurrentListed, Listed
<1>2. ASSUME NEW i \in 1 .. Len(tasks)
      PROVE  tasks[i] \in Tcb /\ Listed(tasks[i]) /\ Count(i) \in Nat
  <2>1. tasks[i] \in Tcb /\ Listed(tasks[i])
    BY DEF Listed
  <2> QED BY <2>1, LowIsNat DEF Count
<1>3. /\ sel \in 1 .. Len(tasks)
      /\ Eligible(st) = {} => ~Ready(st, s)
      /\ Eligible(st) # {} => Selected(st, sel)
  BY <1>1, <1>2, ScanSelects
<1> HIDE DEF st, sel
<1>4. ASSUME Selected(st, sel), NEW i \in Eligible(st), Selected(st, i)
      PROVE  i = sel
  <2>1. i \in 1 .. Len(tasks) /\ sel \in Eligible(st)
    BY <1>4 DEF Selected, Eligible
  <2>2. Count(i) = Count(sel)
    BY <1>2, <1>3, <1>4, <2>1 DEF Selected
  <2> QED BY <1>3, <1>4, <2>1, <2>2 DEF Selected
<1>5. ASSUME Selected(st, sel)
      PROVE  Reset(Subtracted(st, s), s) = Recounted(st, s)
  <2> DEFINE sub == Subtracted(st, s)
             low == Low(priority[s])
  <2>1. s \in Tcb /\ Listed(s) /\ Ready(st, s) /\ sel \in Eligible(st)
    BY <1>2, <1>3, <1>5 DEF Selected, Eligible
  <2>2. ASSUME NEW t \in Tcb, Listed(t), Ready(st, t)
        PROVE  low <= Low(priority[t])
    <3>1. PICK j \in 1 .. Len(tasks) : tasks[j] = t
      BY <2>2 DEF Listed
    <3>2. CASE Count(j) <= Count(1)
      BY <1>5, <2>2, <3>1, <3>2 DEF Selected, Eligible, Count
    <3>3. CASE ~(Count(j) <= Count(1))
      <4>1. Count(sel) <= Count(1)
        BY <2>1 DEF Eligible
      <4>2. Count(sel) \in Nat /\ Count(1) \in Nat /\ Count(j) \in Nat
        BY <1>1, <1>2, <1>3
      <4>3. Count(sel) <= Count(j)
        BY <3>3, <4>1, <4>2
      <4> QED BY <3>1, <4>3 DEF Count
    <3> QED BY <3>2, <3>3
  <2>3. sub = [t \in Tcb |-> IF Listed(t) /\ Ready(st, t)
                               THEN (priority[t] - low) % 65536 ELSE priority[t]]
    <3>1. tasks \in Seq(Tcb) /\ IsInjective(tasks) /\ priority \in [Tcb -> UInt16]
      BY DEF CurrentListed
    <3> QED BY ONLY <2>1, <3>1, SubtractedOnce DEF sub, low
  <2>4. ASSUME NEW t \in Tcb, Listed(t), Ready(st, t)
        PROVE  /\ sub[t] = priority[t] - low
               /\ High(sub[t]) = High(priority[t]) /\ Low(sub[t]) = Low(priority[t]) - low
    <3>1. low \in Nat /\ low <= Low(priority[t]) /\ Low(priority[t]) \in Nat
      BY <2>1, <2>2, <2>4, LowIsNat
    <3> HIDE DEF low
    <3>2. /\ priority[t] - low \in UInt16
          /\ High(priority[t] - low) = High(priority[t])
          /\ Low(priority[t] - low) = Low(priority[t]) - low
      BY <3>1, NoBorrow
    <3>3. (priority[t] - low) % 65536 = priority[t] - low
      <4>1. priority[t] - low \in Nat /\ priority[t] - low <= 65535
        BY <3>2, IsUInt16
      <4> QED BY ONLY <4>1, SmallModulo
    <3>4. sub[t] = priority[t] - low
      BY <2>3, <2>4, <3>3
    <3> QED BY <3>2, <3>4
  <2>5. /\ High(sub[s]) = High(priority[s]) /\ Low(sub[s]) = 0
        /\ High(priority[s]) \in PriorityLevels
    <3>1. Low(sub[s]) = low - low /\ low \in Nat
      BY <2>1, <2>4, LowIsNat
    <3> QED BY <2>1, <2>4, <3>1 DEF CountdownWithinBase
  <2>6. 256 * High(sub[s]) + OrBytes(Low(sub[s]), High(sub[s])) = Prio(High(priority[s]))
    BY <2>5, OrWithZero DEF Prio
  <2>7. Reset(sub, s) = [sub EXCEPT ![s] = Prio(High(priority[s]))]
    BY <2>6 DEF Reset
  <2>8. ASSUME NEW t \in Tcb
        PROVE  Reset(sub, s)[t] = Recounted(st, s)[t]
    <3> HIDE DEF sub, low, s
    <3>1. sub[t] = IF Listed(t) /\ Ready(st, t) THEN priority[t] - low ELSE priority[t]
      BY <2>3, <2>4
    <3>2. Reset(sub, s)[t] = IF t = s THEN Prio(High(priority[s])) ELSE sub[t]
      BY <2>1, <2>3, <2>7
    <3>3. Recounted(st, s)[t] = IF t = s THEN Prio(High(priority[t]))
            ELSE IF Listed(t) /\ Ready(st, t) THEN priority[t] - low ELSE priority[t]
      BY DEF Recounted, low
    <3> QED BY <3>1, <3>2, <3>3
  <2>9. Reset(sub, s) = [t \in Tcb |-> Reset(sub, s)[t]]
    <3> HIDE DEF sub, s
    <3> QED BY <2>3, <2>7
  <2>10. Recounted(st, s) = [t \in Tcb |-> Recounted(st, s)[t]]
    BY DEF Recounted
  <2> HIDE DEF sub, s
  <2> QED BY <2>8, <2>9, <2>10 DEF sub
<1> QED BY <1>3, <1>4, <1>5 DEF LoopSelects, st, sel

(* In every state of every application the two loops of krnl_schedule, in   *)
(* their 16-bit arithmetic, compute the selection Kernel defines.           *)
THEOREM LoopsSelect == Spec => []LoopSelects
<1>1. Inv => LoopSelects
  BY LoopsCompute
<1> QED BY <1>1, InvAlways, PTL
=============================================================================
