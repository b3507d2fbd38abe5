------------------------------ MODULE Spinlock ------------------------------
(***************************************************************************)
(* kernel/spinlock.c: a lock of two fields, "locked" and "cpu", that the   *)
(* cores of a multi-core system read and write one at a time. A core that  *)
(* holds the lock may acquire it again, and a core that does not hold it   *)
(* may release it: both calls are meant to do nothing.                     *)
(***************************************************************************)
EXTENDS Integers

CONSTANTS Core,       \* the cores
          None        \* what lock->cpu = -1 names: no core

ASSUME NoneAssumption == None \notin Core

VARIABLES locked,     \* lock->locked
          cpu,        \* lock->cpu
          pc,         \* where each core is: in its own code, or at a step of
                      \* a call (the reads of holding() are steps of it)
          holds       \* history: the core took the lock and did not free it

vars == <<locked, cpu, pc, holds>>

Goes(c, from, to) == pc[c] = from /\ pc' = [pc EXCEPT ![c] = to]

(* lock->locked && lock->cpu == _cpu_id(), in two reads *)
Holding(c, first, second, yes, no) ==
  /\ \/ Goes(c, first, IF locked THEN second ELSE no)
     \/ Goes(c, second, IF cpu = c THEN yes ELSE no)
  /\ UNCHANGED <<locked, cpu, holds>>

Call(c) == /\ Goes(c, "own", "acquire") \/ Goes(c, "own", "release")
           /\ UNCHANGED <<locked, cpu, holds>>

(* slip: a read of the flag, and later a write *)
TestThenSet(c) ==
  /\ \/ Goes(c, "spin", IF locked THEN "spin" ELSE "set") /\ UNCHANGED <<locked, holds>>
     \/ /\ Goes(c, "set", "mark")
        /\ locked' = TRUE /\ holds' = [holds EXCEPT ![c] = TRUE]
  /\ UNCHANGED cpu

(* __sync_lock_test_and_set: one step, repeated while the lock is taken *)
TestAndSet(c) ==
  /\ Goes(c, "spin", IF locked THEN "spin" ELSE "mark")
  /\ locked' = TRUE
  /\ holds' = [holds EXCEPT ![c] = @ \/ ~locked]
  /\ UNCHANGED cpu

Mark(c) == /\ Goes(c, "mark", "own")
           /\ cpu' = c
           /\ UNCHANGED <<locked, holds>>

ucx_lock_acquire(c) ==
  \/ Holding(c, "acquire", "acquire2", "own", "spin")
  \/ TestAndSet(c)
  \/ Mark(c)

(* slip: lock->cpu keeps the core that last held the lock *)
KeepsCpu(c) == Goes(c, "unmark", "free") /\ UNCHANGED <<locked, cpu, holds>>

Unmark(c) == /\ Goes(c, "unmark", "free")
             /\ cpu' = None
             /\ UNCHANGED <<locked, holds>>

(* __sync_lock_release *)
Free(c) == /\ Goes(c, "free", "own")
           /\ locked' = FALSE
           /\ holds' = [holds EXCEPT ![c] = FALSE]
           /\ UNCHANGED cpu

ucx_lock_release(c) ==
  \/ Holding(c, "release", "release2", "unmark", "own")
  \/ Unmark(c)
  \/ Free(c)

(* ucx_lock_init, before the cores start *)
Init == /\ locked = FALSE /\ cpu = None
        /\ pc = [c \in Core |-> "own"]
        /\ holds = [c \in Core |-> FALSE]

Step(c) == Call(c) \/ ucx_lock_acquire(c) \/ ucx_lock_release(c)

Next == \E c \in Core : Step(c)

Spec == Init /\ [][Next]_vars

-----------------------------------------------------------------------------
(* The lock is held by one core at most, whatever calls the cores nest or   *)
(* repeat, and whatever the reads of holding() saw.                        *)
MutualExclusion == \A c, d \in Core : holds[c] /\ holds[d] => c = d

(* ucx_lock_acquire returns to a core that holds the lock, and              *)
(* ucx_lock_release to one that does not: neither return is taken on a      *)
(* stale look at the fields.                                               *)
CallsDeliver ==
  [][\A c \in Core :
       /\ pc[c] \in {"acquire", "acquire2", "spin", "mark"} /\ pc'[c] = "own"
            => holds'[c]
       /\ pc[c] \in {"release", "release2", "free"} /\ pc'[c] = "own"
            => ~holds'[c]]_vars
=============================================================================
