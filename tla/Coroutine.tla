------------------------------ MODULE Coroutine -----------------------------
(***************************************************************************)
(* kernel/coroutine.c: a group of coroutines, which one task, or app_main, *)
(* schedules by calling ucx_cr_schedule for ever. Each call counts the     *)
(* coroutines down from the first one on, until a count comes to 0: that   *)
(* coroutine runs, and those behind it are not counted.                    *)
(***************************************************************************)
EXTENDS Integers, Sequences, SequencesExt, FiniteSetsExt

CONSTANTS
  Fn,             \* the functions that are added as coroutines
  Priorities,
  PcounterMod,    \* pcounter and priority are 8 bits wide: 2^8
  FibersMod,      \* fibers is 16 bits wide: 2^16
  HeapGarbage,    \* what ucx_cr_ginit, which sets no fibers, may find there
  MaxCr           \* bound on the coroutines of the group

ASSUME CoroutineAssumption ==
  /\ PcounterMod \in Nat \ {0} /\ Priorities \subseteq 0 .. PcounterMod - 1
  /\ FibersMod \in Nat \ {0} /\ HeapGarbage \subseteq 0 .. FibersMod - 1
  /\ MaxCr \in Nat

VARIABLES
  cgroup,         \* [live, fibers]
  crlist,         \* the coroutines: [corotine, priority, pcounter]
  cres            \* the last call: what it was and returned, or whom it ran

crVars == <<cgroup, crlist, cres>>

CrInit == cgroup = [live |-> FALSE, fibers |-> 0] /\ crlist = << >> /\ cres = <<"none">>

ucx_cr_ginit ==
  /\ ~cgroup.live /\ crlist' = << >>
  /\ \/ \E g \in HeapGarbage : cgroup' = [live |-> TRUE, fibers |-> g]
     \/ cgroup' = cgroup
  /\ cres' = <<"ginit", cgroup'.live>>

(* Nothing ever lowers fibers.                                              *)
ucx_cr_gdestroy ==
  /\ cgroup.live
  /\ cgroup' = [cgroup EXCEPT !.live = cgroup.fibers > 0]
  /\ crlist' = IF cgroup'.live THEN crlist ELSE << >>
  /\ cres' = <<"gdestroy", IF cgroup'.live THEN -1 ELSE 0>>

ucx_cr_add(fn, prio) ==
  /\ cgroup.live /\ Len(crlist) < MaxCr
  /\ \/ /\ crlist' = Append(crlist, [corotine |-> fn, priority |-> prio, pcounter |-> prio])
        /\ cgroup' = [cgroup EXCEPT !.fibers = (@ + 1) % FibersMod]
        /\ cres' = <<"add", fn, 0>>
     \/ cres' = <<"add", fn, -1>> /\ UNCHANGED <<cgroup, crlist>>

(* ucx_cr_cancel hands the function itself to cr_trycancel, which takes it  *)
(* for a control block: what each coroutine is compared with is the word at *)
(* the address of the function, machine code. None is found.                *)
ucx_cr_cancel(fn) ==
  /\ cgroup.live
  /\ cres' = <<"cancel", fn, 0>>
  /\ UNCHANGED <<cgroup, crlist>>

CountedDown(cr) == [cr EXCEPT !.pcounter = (@ - 1) % PcounterMod]
Reloaded(cr) == [cr EXCEPT !.pcounter = cr.priority]

(* Slip: a turn starts the counts of all coroutines again. *)
TurnReloadsAll(k, hit) ==
  IF k < hit THEN CountedDown(crlist[k]) ELSE Reloaded(crlist[k])

(* What a call that runs coroutine number hit leaves of coroutine k.        *)
AfterTurn(k, hit) ==
  IF k < hit THEN CountedDown(crlist[k])
  ELSE IF k = hit THEN Reloaded(crlist[k]) ELSE crlist[k]

ucx_cr_schedule ==
  LET hits == {k \in DOMAIN crlist : CountedDown(crlist[k]).pcounter = 0}
      hit == IF hits = {} THEN Len(crlist) + 1 ELSE Min(hits)
  IN /\ cgroup.live
     /\ crlist' = [k \in DOMAIN crlist |-> AfterTurn(k, hit)]
     /\ cres' = <<"schedule", hit>>
     /\ UNCHANGED cgroup

CrNext == \/ ucx_cr_ginit \/ ucx_cr_gdestroy \/ ucx_cr_schedule
          \/ \E fn \in Fn : ucx_cr_cancel(fn)
                            \/ \E prio \in Priorities : ucx_cr_add(fn, prio)

(* The application calls ucx_cr_schedule in an endless loop.                *)
CrFairness == WF_crVars(ucx_cr_schedule)

CrSpec == CrInit /\ [][CrNext]_crVars
CrLiveSpec == CrSpec /\ CrFairness

-----------------------------------------------------------------------------
(* Every coroutine of a group runs, whatever stands before it in the list   *)
(* and whatever is added, unless the group is destroyed. It takes           *)
(* priorities other than 1: a coroutine of priority 1 runs on each call,    *)
(* and none behind it is counted any more.                                  *)
EveryCoroutineRuns ==
  \A k \in 1 .. MaxCr :
    (cgroup.live /\ k <= Len(crlist)) ~> (cres = <<"schedule", k>> \/ ~cgroup.live)

(* README.md:185, of ucx_cr_cancel: "Removes a coroutine from a group       *)
(* context."                                                                *)
CancelRemoves ==
  \A fn \in Fn : cres = <<"cancel", fn, 0>> => \A k \in DOMAIN crlist : crlist[k].corotine # fn
=============================================================================
