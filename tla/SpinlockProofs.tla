--------------------------- MODULE SpinlockProofs ---------------------------
(***************************************************************************)
(* The spinlock excludes, and its calls deliver, for any number of cores.  *)
(***************************************************************************)
EXTENDS Spinlock, TLAPS

Steps == {"own", "acquire", "acquire2", "spin", "mark",
          "release", "release2", "unmark", "free"}

TypeOK == /\ locked \in BOOLEAN
          /\ cpu \in Core \cup {None}
          /\ pc \in [Core -> Steps]
          /\ holds \in [Core -> BOOLEAN]

(* The flag is set exactly while a core holds the lock. *)
FlagMeansHeld == locked <=> \E c \in Core : holds[c]

(* A core that is marking or freeing the lock holds it, one that spins does *)
(* not: the two reads of holding() answer exactly.                         *)
StepsAgree == \A c \in Core : /\ pc[c] \in {"mark", "unmark", "free"} => holds[c]
                              /\ pc[c] = "spin" => ~holds[c]

(* The cpu field names a core if and only if it holds a marked lock. *)
CpuMeansHolder ==
  \A c \in Core : cpu = c <=> holds[c] /\ pc[c] \notin {"mark", "free"}

Inv == /\ TypeOK
       /\ FlagMeansHeld
       /\ StepsAgree
       /\ CpuMeansHolder
       /\ MutualExclusion

LEMMA InitInv == Init => Inv
<1> SUFFICES ASSUME Init PROVE Inv
  OBVIOUS
<1>1. TypeOK
  BY DEF Init, TypeOK, Steps
<1>2. \A c \in Core : ~holds[c] /\ pc[c] = "own" /\ cpu # c /\ locked = FALSE
  BY NoneAssumption DEF Init
<1>3. FlagMeansHeld
  BY DEF Init, FlagMeansHeld
<1> QED BY <1>1, <1>2, <1>3 DEF Inv, StepsAgree, CpuMeansHolder, MutualExclusion

(* A step that only moves one core, without touching the lock.             *)
LEMMA MoveKeepsInv ==
  ASSUME Inv, NEW c \in Core, NEW to \in Steps \ {"mark", "free"},
         pc' = [pc EXCEPT ![c] = to],
         pc[c] \notin {"mark", "free"},
         to = "unmark" => holds[c],
         to = "spin" => ~holds[c],
         UNCHANGED <<locked, cpu, holds>>
  PROVE  Inv'
<1>1. \A d \in Core : pc'[d] = IF d = c THEN to ELSE pc[d]
  BY DEF Inv, TypeOK
<1>2. TypeOK'
  BY DEF Inv, TypeOK
<1>3. FlagMeansHeld' /\ MutualExclusion'
  BY DEF Inv, FlagMeansHeld, MutualExclusion
<1>4. StepsAgree' /\ CpuMeansHolder'
  BY <1>1 DEF Inv, StepsAgree, CpuMeansHolder
<1> QED BY <1>2, <1>3, <1>4 DEF Inv

(* A core that takes the lock, or frees it, while no other holds it. *)
LEMMA TakeOrFreeKeepsInv ==
  ASSUME Inv, NEW c \in Core, NEW to \in {"mark", "own"},
         \A d \in Core \ {c} : ~holds[d],
         pc[c] \in {"spin", "free"},
         pc' = [pc EXCEPT ![c] = to],
         locked' = (to = "mark"),
         holds' = [holds EXCEPT ![c] = (to = "mark")],
         UNCHANGED cpu
  PROVE  Inv'
<1>1. \A d \in Core : /\ pc'[d] = IF d = c THEN to ELSE pc[d]
                      /\ d # c => ~holds'[d] /\ ~holds[d]
                      /\ d = c => (holds'[d] <=> to = "mark")
  BY DEF Inv, TypeOK
<1>2. TypeOK'
  BY DEF Inv, TypeOK, Steps
<1>3. FlagMeansHeld' /\ MutualExclusion'
  BY <1>1 DEF FlagMeansHeld, MutualExclusion
<1>4. StepsAgree'
  BY <1>1 DEF Inv, StepsAgree
<1>5. cpu # c
  BY DEF Inv, StepsAgree, CpuMeansHolder
<1>6. CpuMeansHolder'
  BY <1>1, <1>5 DEF Inv, CpuMeansHolder
<1> QED BY <1>2, <1>3, <1>4, <1>6 DEF Inv

(* A core that writes the cpu field of the lock it holds. *)
LEMMA WriteKeepsInv ==
  ASSUME Inv, NEW c \in Core, NEW to \in {"own", "free"},
         pc[c] \in {"mark", "unmark"},
         pc' = [pc EXCEPT ![c] = to],
         cpu' = IF to = "own" THEN c ELSE None,
         UNCHANGED <<locked, holds>>
  PROVE  Inv'
<1>1. \A d \in Core : pc'[d] = IF d = c THEN to ELSE pc[d]
  BY DEF Inv, TypeOK
<1>2. holds[c] /\ \A d \in Core \ {c} : ~holds[d]
  BY DEF Inv, StepsAgree, MutualExclusion
<1>3. TypeOK'
  BY DEF Inv, TypeOK, Steps
<1>4. FlagMeansHeld' /\ MutualExclusion'
  BY DEF Inv, FlagMeansHeld, MutualExclusion
<1>5. StepsAgree' /\ CpuMeansHolder'
  BY <1>1, <1>2, NoneAssumption DEF Inv, StepsAgree, CpuMeansHolder
<1> QED BY <1>3, <1>4, <1>5 DEF Inv

(* Every step of a core, and what the two reads of holding() conclude.     *)
LEMMA StepKeepsInv ==
  ASSUME Inv, NEW c \in Core, Step(c)
  PROVE  /\ Inv'
         /\ \A d \in Core \ {c} : pc'[d] = pc[d]
         /\ pc[c] \in {"acquire", "acquire2", "spin", "mark"} /\ pc'[c] = "own"
              => holds'[c]
         /\ pc[c] \in {"release", "release2", "free"} /\ pc'[c] = "own"
              => ~holds'[c]
<1> DEFINE Delivers ==
      /\ \A d \in Core \ {c} : pc'[d] = pc[d]
      /\ pc[c] \in {"acquire", "acquire2", "spin", "mark"} /\ pc'[c] = "own"
           => holds'[c]
      /\ pc[c] \in {"release", "release2", "free"} /\ pc'[c] = "own"
           => ~holds'[c]
<1>t. pc \in [Core -> Steps] /\ holds \in [Core -> BOOLEAN] /\ locked \in BOOLEAN
  BY DEF Inv, TypeOK
<1>m. ASSUME NEW from, NEW to, Goes(c, from, to)
      PROVE  /\ pc[c] = from /\ pc'[c] = to /\ pc' = [pc EXCEPT ![c] = to]
             /\ \A d \in Core \ {c} : pc'[d] = pc[d]
  BY <1>m, <1>t DEF Goes
<1>l. ~locked => ~holds[c]
  BY DEF Inv, FlagMeansHeld
<1>h. pc[c] \in {"acquire", "acquire2", "release", "release2"} =>
        (cpu = c <=> holds[c])
  BY DEF Inv, CpuMeansHolder
<1>1. CASE Call(c)
  <2>1. PICK to \in {"acquire", "release"} : Goes(c, "own", to)
    BY <1>1 DEF Call
  <2>2. UNCHANGED <<locked, cpu, holds>>
    BY <1>1 DEF Call
  <2>3. pc[c] = "own" /\ pc' = [pc EXCEPT ![c] = to] /\ pc'[c] = to
    BY <2>1, <1>m
  <2>4. Inv'
    BY <2>2, <2>3, MoveKeepsInv DEF Steps
  <2>5. Delivers
    BY <2>1, <2>3, <1>m
  <2> QED BY <2>4, <2>5
<1>2. CASE Holding(c, "acquire", "acquire2", "own", "spin")
  <2>1. UNCHANGED <<locked, cpu, holds>>
    BY <1>2 DEF Holding
  <2>2. PICK to \in {"acquire2", "own", "spin"} :
          /\ Goes(c, pc[c], to)
          /\ \/ pc[c] = "acquire" /\ to = IF locked THEN "acquire2" ELSE "spin"
             \/ pc[c] = "acquire2" /\ to = IF cpu = c THEN "own" ELSE "spin"
    BY <1>2 DEF Holding, Goes
  <2>3. pc' = [pc EXCEPT ![c] = to] /\ pc'[c] = to
    BY <2>2, <1>m
  <2>4. (to = "spin" => ~holds[c]) /\ (to = "own" => holds[c])
    BY <2>2, <1>l, <1>h
  <2>5. pc[c] \notin {"mark", "free"} /\ to \in Steps \ {"mark", "free"}
    BY <2>2 DEF Steps
  <2>6. Inv'
    BY <2>1, <2>2, <2>3, <2>4, <2>5, MoveKeepsInv
  <2>7. Delivers
    BY <2>1, <2>2, <2>3, <2>4, <1>m
  <2> QED BY <2>6, <2>7
<1>3. CASE Holding(c, "release", "release2", "unmark", "own")
  <2>1. UNCHANGED <<locked, cpu, holds>>
    BY <1>3 DEF Holding
  <2>2. PICK to \in {"release2", "own", "unmark"} :
          /\ Goes(c, pc[c], to)
          /\ \/ pc[c] = "release" /\ to = IF locked THEN "release2" ELSE "own"
             \/ pc[c] = "release2" /\ to = IF cpu = c THEN "unmark" ELSE "own"
    BY <1>3 DEF Holding, Goes
  <2>3. pc' = [pc EXCEPT ![c] = to] /\ pc'[c] = to
    BY <2>2, <1>m
  <2>4. (to = "unmark" => holds[c]) /\ (to = "own" => ~holds[c])
    BY <2>2, <1>l, <1>h
  <2>5. pc[c] \notin {"mark", "free"} /\ to \in Steps \ {"mark", "free"}
    BY <2>2 DEF Steps
  <2>6. Inv'
    BY <2>1, <2>2, <2>3, <2>4, <2>5, MoveKeepsInv
  <2>7. Delivers
    BY <2>1, <2>2, <2>3, <2>4, <1>m
  <2> QED BY <2>6, <2>7
<1>4. CASE TestAndSet(c)
  <2>1. pc[c] = "spin" /\ ~holds[c]
    BY <1>4 DEF TestAndSet, Goes, Inv, StepsAgree
  <2>2. Goes(c, "spin", IF locked THEN "spin" ELSE "mark")
    BY <1>4 DEF TestAndSet
  <2>3. CASE locked
    <3>1. UNCHANGED <<locked, cpu, holds>>
      BY <1>4, <2>3, <1>t DEF TestAndSet
    <3>2. pc' = [pc EXCEPT ![c] = "spin"] /\ pc'[c] = "spin"
      BY <2>2, <2>3, <1>m
    <3>3. Inv'
      BY <2>1, <3>1, <3>2, MoveKeepsInv DEF Steps
    <3> QED BY <2>1, <2>2, <3>2, <3>3, <1>m
  <2>4. CASE ~locked
    <3>1. \A d \in Core : ~holds[d]
      BY <2>4 DEF Inv, FlagMeansHeld
    <3>2. locked' = TRUE /\ holds' = [holds EXCEPT ![c] = TRUE] /\ UNCHANGED cpu
      BY <1>4, <2>4 DEF TestAndSet
    <3>3. pc' = [pc EXCEPT ![c] = "mark"] /\ pc'[c] = "mark"
      BY <2>2, <2>4, <1>m
    <3>4. Inv'
      BY <2>1, <3>1, <3>2, <3>3, TakeOrFreeKeepsInv
    <3> QED BY <2>1, <2>2, <3>3, <3>4, <1>m
  <2> QED BY <2>3, <2>4
<1>5. CASE Mark(c)
  <2>1. /\ pc[c] = "mark" /\ pc' = [pc EXCEPT ![c] = "own"] /\ pc'[c] = "own"
        /\ \A d \in Core \ {c} : pc'[d] = pc[d]
    BY <1>5, <1>m DEF Mark
  <2>2. cpu' = c /\ UNCHANGED <<locked, holds>>
    BY <1>5 DEF Mark
  <2>3. Inv'
    BY <2>1, <2>2, WriteKeepsInv
  <2>4. holds'[c]
    BY <2>1, <2>2 DEF Inv, StepsAgree
  <2> QED BY <2>1, <2>3, <2>4
<1>6. CASE Unmark(c)
  <2>1. /\ pc[c] = "unmark" /\ pc' = [pc EXCEPT ![c] = "free"] /\ pc'[c] = "free"
        /\ \A d \in Core \ {c} : pc'[d] = pc[d]
    BY <1>6, <1>m DEF Unmark
  <2>2. cpu' = None /\ UNCHANGED <<locked, holds>>
    BY <1>6 DEF Unmark
  <2>3. Inv'
    BY <2>1, <2>2, WriteKeepsInv
  <2> QED BY <2>1, <2>3
<1>7. CASE Free(c)
  <2>1. /\ pc[c] = "free" /\ pc' = [pc EXCEPT ![c] = "own"] /\ pc'[c] = "own"
        /\ \A d \in Core \ {c} : pc'[d] = pc[d]
    BY <1>7, <1>m DEF Free
  <2>2. locked' = FALSE /\ holds' = [holds EXCEPT ![c] = FALSE] /\ UNCHANGED cpu
    BY <1>7 DEF Free
  <2>3. \A d \in Core \ {c} : ~holds[d]
    BY <2>1 DEF Inv, StepsAgree, MutualExclusion
  <2>4. Inv'
    BY <2>1, <2>2, <2>3, TakeOrFreeKeepsInv
  <2>5. ~holds'[c]
    BY <2>2, <1>t
  <2> QED BY <2>1, <2>4, <2>5
<1> QED
  BY <1>1, <1>2, <1>3, <1>4, <1>5, <1>6, <1>7
  DEF Step, ucx_lock_acquire, ucx_lock_release

LEMMA InvAlways == Spec => []Inv
<1>1. Inv /\ [Next]_vars => Inv'
  <2> SUFFICES ASSUME Inv, [Next]_vars PROVE Inv'
    OBVIOUS
  <2>1. CASE Next
    BY <2>1, StepKeepsInv DEF Next
  <2>2. CASE UNCHANGED vars
    BY <2>2 DEF vars, Inv, TypeOK, FlagMeansHeld, StepsAgree, CpuMeansHolder,
                MutualExclusion
  <2> QED BY <2>1, <2>2
<1> QED BY InitInv, <1>1, PTL DEF Spec

(* No two cores hold the lock at once: the test-and-set decides, and the   *)
(* looks holding() takes at the two fields never make a core free or skip  *)
(* a lock by mistake.                                                      *)
THEOREM LockExcludes == Spec => []MutualExclusion
<1>1. Inv => MutualExclusion
  BY DEF Inv
<1> QED BY InvAlways, <1>1, PTL

(* ucx_lock_acquire returns holding the lock and ucx_lock_release returns  *)
(* not holding it, for any number of cores and any nesting of the calls.   *)
THEOREM LockDelivers == Spec => CallsDeliver
<1> DEFINE Delivered ==
      \A c \in Core :
        /\ pc[c] \in {"acquire", "acquire2", "spin", "mark"} /\ pc'[c] = "own"
             => holds'[c]
        /\ pc[c] \in {"release", "release2", "free"} /\ pc'[c] = "own"
             => ~holds'[c]
<1>1. Inv /\ [Next]_vars => [Delivered]_vars
  <2> SUFFICES ASSUME Inv, Next PROVE Delivered
    OBVIOUS
  <2>1. PICK c \in Core : Step(c)
    BY DEF Next
  <2> SUFFICES ASSUME NEW d \in Core
               PROVE  /\ pc[d] \in {"acquire", "acquire2", "spin", "mark"}
                           /\ pc'[d] = "own" => holds'[d]
                      /\ pc[d] \in {"release", "release2", "free"}
                           /\ pc'[d] = "own" => ~holds'[d]
    OBVIOUS
  <2>2. CASE d = c
    BY <2>1, <2>2, StepKeepsInv
  <2>3. CASE d # c
    BY <2>1, <2>3, StepKeepsInv
  <2> QED BY <2>2, <2>3
<1> QED BY InvAlways, <1>1, PTL DEF Spec, CallsDeliver
=============================================================================
