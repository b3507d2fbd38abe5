---------------------------- MODULE CriticalProofs ----------------------------
(***************************************************************************)
(* The global lock keeps the cores out of one another's critical sections, *)
(* for any number of cores and tasks and whatever the racing cores make of *)
(* the count of _interrupt_set, as long as each core has one task that     *)
(* calls the kernel and no section is opened inside another.               *)
(***************************************************************************)
EXTENDS Critical, TLAPS

(* What the theorem asks: the kernel is built for several cores, no section *)
(* nests, one task of each core opens sections, and a task is in the list   *)
(* of one core, once.                                                       *)
OneCallerEach ==
  \A k \in Core : \A t, u \in Callers : On(k, t) /\ On(k, u) => t = u
OnePlaceEach ==
  \A k, l \in Core : \A i \in 1 .. Len(TasksOf[k]), j \in 1 .. Len(TasksOf[l]) :
    TasksOf[k][i] = TasksOf[l][j] => k = l /\ i = j
LockedSections == Multicore /\ MaxNest = 1 /\ OneCallerEach /\ OnePlaceEach

-----------------------------------------------------------------------------
(* The inductive invariant: the lock belongs to the core of a task from the *)
(* end of its acquisition to its release.                                   *)

Holds(t) == depth[t] > 0 \/ pc[t] = "unlock"

CriticalTypes ==
  /\ DOMAIN pc = Task
  /\ depth \in [Task -> 0 .. 1]
  /\ \A k \in Core : turn[k] \in 1 .. Len(TasksOf[k])
  /\ DOMAIN turn = Core

(* A section is closed from its own code, and opened from outside of any.   *)
PlaceOf(t) ==
  IF t \in Callers
    THEN depth[t] = 1 => pc[t] = "own"
    ELSE depth[t] = 0 /\ pc[t] \in {"own", "spin"}

CriticalInv ==
  /\ CriticalTypes
  /\ \A t \in Task : PlaceOf(t)
  /\ \A k \in Core, t \in Task : On(k, t) /\ Holds(t) => global_lock = k

-----------------------------------------------------------------------------
LEMMA CriticalInitInv == Init => CriticalInv
<1> SUFFICES ASSUME Init
             PROVE  CriticalInv
  OBVIOUS
<1>1. ASSUME NEW k \in Core
      PROVE  1 \in 1 .. Len(TasksOf[k])
  <2>1. TasksOf[k] \in Seq(Task) /\ Len(TasksOf[k]) >= 1
    BY CriticalAssumption
  <2>2. Len(TasksOf[k]) \in Nat
    BY <2>1
  <2> QED BY <2>1, <2>2
<1>2. CriticalTypes
  BY <1>1 DEF Init, CriticalTypes
<1>3. \A t \in Task : pc[t] = "own" /\ depth[t] = 0
  BY DEF Init
<1> QED BY <1>2, <1>3 DEF CriticalInv, PlaceOf, Holds

(* The task that runs on a core is in the list of that core and no other.   *)
LEMMA PlaceOfRunning ==
  ASSUME CriticalInv, LockedSections, NEW k \in Core, NEW t \in Task, Runs(k, t)
  PROVE  On(k, t) /\ \A l \in Core : On(l, t) => l = k
<1>1. turn[k] \in 1 .. Len(TasksOf[k]) /\ TasksOf[k][turn[k]] = t
  BY DEF CriticalInv, CriticalTypes, Runs
<1>2. On(k, t)
  BY <1>1 DEF On
<1> QED BY <1>1, <1>2 DEF On, LockedSections, OnePlaceEach

LEMMA TickKeeps ==
  ASSUME CriticalInv, NEW k \in Core, Tick(k)
  PROVE  CriticalInv'
<1> USE DEF CriticalInv
<1>1. /\ UNCHANGED <<global_lock, depth>>
      /\ turn' = [turn EXCEPT ![k] = (@ % Len(TasksOf[k])) + 1]
      /\ pc' = [t \in Task |-> IF pc[t] = "spin" /\ On(k, t) THEN "own" ELSE pc[t]]
  BY DEF Tick
<1>2. CriticalTypes'
  <2>1. Len(TasksOf[k]) \in Nat /\ Len(TasksOf[k]) >= 1 /\ turn[k] \in Nat
    BY CriticalAssumption DEF CriticalTypes
  <2>2. (turn[k] % Len(TasksOf[k])) + 1 \in 1 .. Len(TasksOf[k])
    BY <2>1
  <2> QED BY <1>1, <2>2 DEF CriticalTypes
<1>3. ASSUME NEW t \in Task
      PROVE  PlaceOf(t)' /\ (Holds(t)' <=> Holds(t))
  <2>1. pc'[t] = pc[t] \/ (pc[t] = "spin" /\ pc'[t] = "own")
    BY <1>1
  <2> QED BY <1>1, <2>1 DEF PlaceOf, Holds
<1>4. \A l \in Core, t \in Task : On(l, t)' <=> On(l, t)
  BY DEF On
<1> QED BY <1>1, <1>2, <1>3, <1>4

(* What a step of a task leaves: it holds the lock as before, or has just   *)
(* found it free or its own, or gives it up.                                *)
LEMMA StepKeeps ==
  ASSUME CriticalInv, LockedSections, NEW k \in Core, NEW t \in Task,
         Open(k, t) \/ yield(k, t) \/ Section(k, t)
  PROVE  CriticalInv'
<1> USE DEF CriticalInv, LockedSections
<1>1. Runs(k, t) /\ UNCHANGED turn
  BY DEF Open, yield, Section, Close, _interrupt_set, Load, Store, Mask, Lock, Unlock, Goes
<1>2. On(k, t) /\ \A l \in Core : On(l, t) => l = k
  BY <1>1, PlaceOfRunning
<1>3. depth[t] \in 0 .. 1 /\ PlaceOf(t)
  BY DEF CriticalTypes
<1>g. ASSUME NEW from, NEW to, Goes(k, t, from, to)
      PROVE  /\ pc[t] = from /\ pc'[t] = to /\ DOMAIN pc' = Task
             /\ \A u \in Task : u # t => pc'[u] = pc[u]
  BY <1>g DEF Goes, CriticalTypes
<1>d. /\ \A u \in Task : u # t => depth'[u] = depth[u]
      /\ depth' \in [Task -> 0 .. 1]
      /\ DOMAIN pc' = Task
      /\ \A u \in Task : u # t => pc'[u] = pc[u]
      /\ PlaceOf(t)'
      /\ \/ UNCHANGED global_lock /\ (Holds(t)' <=> Holds(t))
         \/ pc[t] = "lock" /\ global_lock \in {k, NoCore} /\ global_lock' = k
         \/ pc[t] = "unlock" /\ ~Holds(t)'
  <2> USE <1>3
  <2>1. CASE Open(k, t)
    <3>1. Goes(k, t, "own", "di_load") /\ UNCHANGED <<depth, global_lock>>
          /\ t \in Callers /\ depth[t] < 1
      BY <2>1 DEF Open
    <3>2. depth[t] = 0
      BY <3>1
    <3> QED BY <3>1, <3>2, <1>g DEF PlaceOf, Holds, CriticalTypes
  <2>2. CASE yield(k, t)
    <3>1. Goes(k, t, "own", "spin") /\ UNCHANGED <<depth, global_lock>> /\ depth[t] = 0
      BY <2>2 DEF yield
    <3> QED BY <3>1, <1>g DEF PlaceOf, Holds, CriticalTypes
  <2>3. CASE Close(k, t)
    <3>1. Goes(k, t, "own", "unlock") /\ UNCHANGED global_lock /\ depth[t] > 0
          /\ depth' = [depth EXCEPT ![t] = @ - 1]
      BY <2>3 DEF Close
    <3>2. depth[t] = 1
      BY <3>1
    <3>3. depth' = [depth EXCEPT ![t] = 0] /\ depth'[t] = 0 /\ depth' \in [Task -> 0 .. 1]
      BY <3>1, <3>2 DEF CriticalTypes
    <3>4. t \in Callers
      BY <3>2 DEF PlaceOf
    <3> QED BY <3>1, <3>2, <3>3, <3>4, <1>g DEF PlaceOf, Holds, CriticalTypes
  <2>4. CASE _interrupt_set(k, t)
    <3>1. /\ UNCHANGED <<global_lock, depth>>
          /\ \/ Goes(k, t, "di_load", "di_store") \/ Goes(k, t, "di_store", "di_mask")
             \/ Goes(k, t, "di_mask", "lock") \/ Goes(k, t, "ei_load", "ei_store")
             \/ Goes(k, t, "ei_store", "ei_mask") \/ Goes(k, t, "ei_mask", "own")
      <4>1. CASE Load(k, t)
        BY <4>1 DEF Load
      <4>2. CASE Store(k, t)
        BY <4>2 DEF Store
      <4>3. CASE Mask(k, t)
        <5>1. CASE Goes(k, t, "ei_mask", "own")
          BY <4>3, <5>1 DEF Mask, Goes
        <5>2. CASE /\ Goes(k, t, "di_mask", "lock")
                   /\ depth' = [depth EXCEPT ![t] = @]
          BY <4>3, <5>2 DEF Mask, CriticalTypes
        <5> QED BY <4>3, <5>1, <5>2 DEF Mask
      <4> QED BY <2>4, <4>1, <4>2, <4>3 DEF _interrupt_set
    <3>2. pc[t] \notin {"own", "spin", "unlock"} /\ pc'[t] # "unlock"
      BY <3>1, <1>g
    <3>3. t \in Callers /\ depth[t] = 0
      BY <3>2 DEF PlaceOf
    <3> QED BY <3>1, <3>2, <3>3, <1>g DEF PlaceOf, Holds, CriticalTypes
  <2>5. CASE Lock(k, t)
    <3>1. /\ Goes(k, t, "lock", "own") /\ global_lock \in {k, NoCore} /\ global_lock' = k
          /\ depth' = [depth EXCEPT ![t] = @ + 1]
      BY <2>5 DEF Lock
    <3>2. pc[t] = "lock" /\ t \in Callers /\ depth[t] = 0
      BY <3>1, <1>g DEF PlaceOf
    <3>3. depth' = [depth EXCEPT ![t] = 1] /\ depth' \in [Task -> 0 .. 1]
      BY <3>1, <3>2 DEF CriticalTypes
    <3> QED BY <3>1, <3>2, <3>3, <1>g DEF PlaceOf, CriticalTypes
  <2>6. CASE Unlock(k, t)
    <3>1. Goes(k, t, "unlock", "ei_load") /\ UNCHANGED depth
      BY <2>6 DEF Unlock
    <3>2. pc[t] = "unlock" /\ t \in Callers /\ depth[t] = 0
      BY <3>1, <1>g DEF PlaceOf
    <3> QED BY <3>1, <3>2, <1>g DEF PlaceOf, Holds, CriticalTypes
  <2> QED BY <2>1, <2>2, <2>3, <2>4, <2>5, <2>6 DEF Section
<1>4. CriticalTypes'
  BY <1>1, <1>d DEF CriticalTypes
<1>5. ASSUME NEW u \in Task, u # t
      PROVE  PlaceOf(u)' /\ (Holds(u)' <=> Holds(u))
  BY <1>5, <1>d DEF PlaceOf, Holds
<1>6. ASSUME NEW l \in Core, NEW u \in Task, On(l, u), Holds(u)'
      PROVE  global_lock' = l
  <2>n. NoCore \notin Core
    BY CriticalAssumption
  <2>1. CASE u = t
    BY <1>2, <1>6, <1>d, <2>1 DEF Holds
  <2>2. CASE u # t
    <3>1. Holds(u) /\ global_lock = l /\ u \in Callers
      BY <1>5, <1>6, <2>2 DEF Holds, PlaceOf, CriticalTypes
    <3>2. pc[t] \in {"lock", "unlock"} => t \in Callers
      BY <1>3 DEF PlaceOf
    <3>3. pc[t] \in {"lock", "unlock"} => l # k
      BY <1>2, <1>6, <2>2, <3>1, <3>2 DEF OneCallerEach
    <3>4. pc[t] = "unlock" => global_lock = k
      BY <1>2 DEF Holds
    <3> QED BY <1>d, <2>n, <3>1, <3>3, <3>4
  <2> QED BY <2>1, <2>2
<1>7. \A l \in Core, u \in Task : On(l, u)' <=> On(l, u)
  BY DEF On
<1> QED BY <1>4, <1>5, <1>6, <1>7, <1>d

-----------------------------------------------------------------------------
(* With one caller on each core and no nested sections, two cores are never *)
(* in a critical section at once: while they race on the count and on the   *)
(* interrupt enable it decides, the lock alone keeps them apart.            *)
THEOREM SectionsExclude ==
  ASSUME LockedSections
  PROVE  Spec => []OneCoreInside
<1>1. CriticalInv /\ [Next]_vars => CriticalInv'
  <2> SUFFICES ASSUME CriticalInv, [Next]_vars
               PROVE  CriticalInv'
    OBVIOUS
  <2>1. CASE UNCHANGED vars
    BY <2>1 DEF vars, CriticalInv, CriticalTypes, PlaceOf, Holds, On
  <2>2. ASSUME NEW k \in Core, Tick(k)
        PROVE  CriticalInv'
    BY <2>2, TickKeeps
  <2>3. ASSUME NEW k \in Core, Step(k)
        PROVE  CriticalInv'
    BY <2>3, StepKeeps DEF Step
  <2> QED BY <2>1, <2>2, <2>3 DEF Next
<1>2. CriticalInv => OneCoreInside
  BY DEF CriticalInv, OneCoreInside, InSection, Holds
<1> QED BY <1>1, <1>2, CriticalInitInv, PTL DEF Spec
=============================================================================
