------------------------------ MODULE Critical ------------------------------
(***************************************************************************)
(* The critical sections of the preemptive kernel, step by step: the       *)
(* macros CRITICAL_ENTER and CRITICAL_LEAVE of include/kernel/kernel.h, on *)
(* the targets whose _interrupt_set counts the calls in a static variable  *)
(* (riscv32-qemu, riscv64-qemu, AVR and the ARM ports). Sections nest: the *)
(* list and heap calls made inside a section open one of their own.        *)
(*                                                                         *)
(* The processor takes a timer interrupt between any two steps while its   *)
(* interrupts are on; the handler switches to the next task, and returning *)
(* from it (or entering a task for the first time) leaves them on.         *)
(***************************************************************************)
EXTENDS Integers, Sequences

CONSTANTS
  Core,         \* the cores
  TasksOf,      \* the tasks of each core, in the order they take turns
  Callers,      \* the tasks that make kernel calls; the others only yield
  Multicore,    \* built with -DMULTICORE: sections also take the global lock
  MaxNest,      \* how deep the kernel nests its sections
  NoCore        \* the lock is free

Task == UNION {{TasksOf[k][i] : i \in 1 .. Len(TasksOf[k])} : k \in Core}

ASSUME CriticalAssumption ==
  /\ TasksOf \in [Core -> Seq(Task)] /\ \A k \in Core : Len(TasksOf[k]) >= 1
  /\ Multicore \in BOOLEAN
  /\ MaxNest \in Nat \ {0}
  /\ NoCore \notin Core
  /\ Callers \subseteq Task

VARIABLES
  int_status,   \* static int int_status of _interrupt_set, one for all cores
  mie,          \* per core: interrupts are enabled
  global_lock,  \* the core that holds global_lock (Spinlock.tla says how)
  turn,         \* per core: the index of the running task
  pc,           \* the next step of each task
  reg,          \* the value of int_status a task has in a register
  depth         \* the sections a task is inside of

vars == <<int_status, mie, global_lock, turn, pc, reg, depth>>

Runs(k, t) == TasksOf[k][turn[k]] = t
On(k, t) == \E i \in 1 .. Len(TasksOf[k]) : TasksOf[k][i] = t

Goes(k, t, from, to) ==
  /\ Runs(k, t) /\ pc[t] = from
  /\ pc' = [pc EXCEPT ![t] = to]
  /\ UNCHANGED turn

(* A kernel call of an application task opens a section, and what it calls *)
(* inside may open another; the task leaves what it opened.                *)
Open(k, t) ==
  /\ t \in Callers /\ depth[t] < MaxNest
  /\ Goes(k, t, "own", "di_load")
  /\ UNCHANGED <<int_status, mie, global_lock, reg, depth>>
Close(k, t) ==
  /\ depth[t] > 0
  /\ depth' = [depth EXCEPT ![t] = @ - 1]
  /\ Goes(k, t, "own", IF Multicore THEN "unlock" ELSE "ei_load")
  /\ UNCHANGED <<int_status, mie, global_lock, reg>>

(* int_status-- or int_status++: read, and written back a step later. *)
Load(k, t) ==
  /\ Goes(k, t, "di_load", "di_store") \/ Goes(k, t, "ei_load", "ei_store")
  /\ reg' = [reg EXCEPT ![t] = int_status]
  /\ UNCHANGED <<int_status, mie, global_lock, depth>>

Store(k, t) ==
  /\ \/ Goes(k, t, "di_store", "di_mask") /\ reg' = [reg EXCEPT ![t] = @ - 1]
     \/ Goes(k, t, "ei_store", "ei_mask") /\ reg' = [reg EXCEPT ![t] = @ + 1]
  /\ int_status' = reg'[t]
  /\ UNCHANGED <<mie, global_lock, depth>>

(* csrc or csrs on mstatus, cli or sei, by the sign of the count. *)
Mask(k, t) ==
  /\ mie' = [mie EXCEPT ![k] = (reg[t] >= 0)]
  /\ \/ /\ Goes(k, t, "di_mask", IF Multicore THEN "lock" ELSE "own")
        /\ depth' = [depth EXCEPT ![t] = IF Multicore THEN @ ELSE @ + 1]
     \/ Goes(k, t, "ei_mask", "own") /\ UNCHANGED depth
  /\ UNCHANGED <<int_status, global_lock, reg>>

_interrupt_set(k, t) == Load(k, t) \/ Store(k, t) \/ Mask(k, t)

(* slip: holding() does not compare the core *)
LockedIsHolding(k, t) ==
  /\ global_lock' = IF global_lock = NoCore THEN k ELSE global_lock
  /\ Goes(k, t, "lock", "own")
  /\ depth' = [depth EXCEPT ![t] = @ + 1]
  /\ UNCHANGED <<int_status, mie, reg>>

(* ucx_lock_acquire(&global_lock) waits for other cores, not for its own,  *)
(* and does not count: the first release frees the lock.                   *)
Lock(k, t) ==
  /\ global_lock \in {k, NoCore} /\ global_lock' = k
  /\ Goes(k, t, "lock", "own")
  /\ depth' = [depth EXCEPT ![t] = @ + 1]
  /\ UNCHANGED <<int_status, mie, reg>>
Unlock(k, t) ==
  /\ Goes(k, t, "unlock", "ei_load")
  /\ global_lock' = IF global_lock = k THEN NoCore ELSE global_lock
  /\ UNCHANGED <<int_status, mie, reg, depth>>

(* yield() in preemptive mode spins until the tick counter moves. *)
yield(k, t) ==
  /\ depth[t] = 0
  /\ Goes(k, t, "own", "spin")
  /\ UNCHANGED <<int_status, mie, global_lock, reg, depth>>

(* The timer interrupt of a core: the tick ends the waits of yield(), and  *)
(* the scheduler, between tasks of one priority, takes turns.              *)
Tick(k) ==
  /\ mie[k]
  /\ turn' = [turn EXCEPT ![k] = (@ % Len(TasksOf[k])) + 1]
  /\ pc' = [t \in Task |->
              IF pc[t] = "spin" /\ On(k, t)
                THEN "own" ELSE pc[t]]
  /\ UNCHANGED <<int_status, mie, global_lock, reg, depth>>

Init ==
  /\ int_status = 0
  /\ mie = [k \in Core |-> TRUE]
  /\ global_lock = NoCore
  /\ turn = [k \in Core |-> 1]
  /\ pc = [t \in Task |-> "own"]
  /\ reg = [t \in Task |-> 0]
  /\ depth = [t \in Task |-> 0]

Section(k, t) ==
  \/ Close(k, t) \/ _interrupt_set(k, t) \/ Lock(k, t) \/ Unlock(k, t)
Step(k) == \E t \in Task : Open(k, t) \/ yield(k, t) \/ Section(k, t)

(* int_status only drifts so far before the runs stop following it.        *)
Bound == int_status \in -3 .. 3

Next == Bound /\ \E k \in Core : Tick(k) \/ Step(k)

Spec == Init /\ [][Next]_vars

(* Each core keeps executing, its timer keeps interrupting it while it may, *)
(* and a section is finished once it is open.                               *)
Fairness ==
  \A k \in Core : /\ WF_vars(Bound /\ Tick(k))
                  /\ \A t \in Task : WF_vars(Bound /\ Section(k, t))
LiveSpec == Spec /\ Fairness

-----------------------------------------------------------------------------
InSection(k, t) == On(k, t) /\ depth[t] > 0 /\ pc[t] = "own"

(* The cores are never in a critical section at once: the global lock keeps *)
(* them apart whatever becomes of the count they share. (One caller on each *)
(* core, and no section inside a section, whose end would free the lock.)   *)
OneCoreInside ==
  \A k, l \in Core : \A t, u \in Task : InSection(k, t) /\ InSection(l, u) => k = l

(* hal.h: _di() is to "disable interrupts": a task in a critical section,  *)
(* nested ones included, keeps the processor with interrupts off.          *)
SectionsUninterrupted ==
  \A k \in Core, t \in Task : InSection(k, t) => Runs(k, t) /\ ~mie[k]

(* A task that yields runs again: the core it waits on is not left with     *)
(* its interrupts off. (A run is followed while the count is in bounds.)    *)
YieldReturns ==
  \A t \in Task : (pc[t] = "spin") ~> (pc[t] = "own" \/ ~Bound)
=============================================================================
