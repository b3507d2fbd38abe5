-------------------------------- MODULE Timer -------------------------------
(***************************************************************************)
(* kernel/timer.c: software timers. A task of the application calls one of *)
(* the two handlers for ever; the handler walks the list of timers and     *)
(* calls back those that are due. The callbacks, and between two walks the *)
(* other tasks, create, start, cancel and destroy timers, while the clock  *)
(* goes on.                                                                *)
(*                                                                         *)
(* One handler counts the ticks since its last walk down in every timer,   *)
(* the other compares the time with the time a timer is due: clock is      *)
(* kcb->ticks for the first, ucx_uptime() for the second.                  *)
(***************************************************************************)
EXTENDS Integers, Sequences, SequencesExt

CONSTANTS
  Timers,         \* ids of timers
  Period,         \* id -> the time it is created with
  Handlers,       \* subset of {"systick", "uptime"}
  TickMod,        \* kcb->ticks wraps at this (2^32 in the code)
  SizeMod,        \* a size_t wraps at this (2^16 on AVR, 2^32 or 2^64)
  HandlerEvery,   \* the handler is called at least once in so many ticks
  SelfStart,      \* a callback may start the timer it was called for
  MaxClock        \* bound on the clock

ASSUME TimerAssumption ==
  /\ Handlers \subseteq {"systick", "uptime"}
  /\ Timers \subseteq Nat \ {0} /\ Period \in [Timers -> Nat \ {0}]
  /\ HandlerEvery \in Nat \ {0} /\ TickMod \in Nat /\ TickMod > HandlerEvery
  /\ SizeMod \in Nat \ {0}
  /\ SelfStart \in BOOLEAN /\ MaxClock \in Nat

VARIABLES
  handler,        \* the handler the application calls
  clock,
  timer_lst,      \* the ids on the list; NoLst before the first create
  timer,          \* id -> [mode, time, countdown, timecmp]
  last_tick,
  walk,           \* the handler: [cur, cb, arg], cb while in a callback
  asked           \* what the application is promised: id -> [mode, due]

timerVars == <<handler, clock, timer_lst, timer, last_tick, walk, asked>>

NoLst == <<0>>
Resting == [cur |-> 0, cb |-> FALSE, arg |-> 0]
NotAsked == [mode |-> "DISABLED", due |-> 0]

TimerInit ==
  /\ handler \in Handlers
  /\ clock = 0 /\ last_tick = 0
  /\ timer_lst = NoLst
  /\ timer = [id \in Timers |-> [mode |-> "DISABLED", time |-> 0, countdown |-> 0, timecmp |-> 0]]
  /\ walk = Resting
  /\ asked = [id \in Timers |-> NotAsked]

Ticks == clock % TickMod
TickDiff == (Ticks - last_tick) % TickMod

Listed(id) == timer_lst # NoLst /\ Contains(timer_lst, id)
Place(id) == CHOOSE k \in DOMAIN timer_lst : timer_lst[k] = id
FirstTimer == IF timer_lst = << >> THEN 0 ELSE timer_lst[1]
NextTimer(id) == IF Place(id) = Len(timer_lst) THEN 0 ELSE timer_lst[Place(id) + 1]
At(id, arg) == IF id = 0 THEN Resting ELSE [cur |-> id, cb |-> FALSE, arg |-> arg]

(* The first call, and one after ticks was 0, only notes the time.          *)
timer_handler_systick ==
  /\ handler = "systick" /\ walk = Resting /\ timer_lst # NoLst
  /\ Ticks # last_tick
  /\ last_tick' = Ticks
  /\ walk' = IF last_tick = 0 THEN walk ELSE At(FirstTimer, TickDiff)
  /\ UNCHANGED <<handler, clock, timer_lst, timer, asked>>

(* slip: the time is handed on in 2 bits *)
NarrowArg(time) == time % 4

(* The time goes through a size_t into the argument of the callbacks.       *)
AsArg(time) == time % SizeMod

timer_handler ==
  /\ handler = "uptime" /\ walk = Resting /\ timer_lst # NoLst
  /\ walk' = At(FirstTimer, AsArg(clock))
  /\ UNCHANGED <<handler, clock, timer_lst, timer, last_tick, asked>>

(* What is owed after a callback: a one-shot timer nothing more, another    *)
(* one the next period, which starts now, or where the last one ended.      *)
Served(id) ==
  IF asked[id].mode # "AUTORELOAD" THEN NotAsked
  ELSE [asked[id] EXCEPT !.due = timer[id].time + IF handler = "systick" THEN clock ELSE @]

(* timer_update and timer_update_systick up to the callback.                *)
Visit ==
  LET id == walk.cur
      left == timer[id].countdown - walk.arg
      due == IF handler = "systick" THEN left <= 0 ELSE walk.arg > timer[id].timecmp
      on == timer[id].mode # "DISABLED"
  IN /\ id # 0 /\ ~walk.cb
     /\ timer' = IF on /\ handler = "systick"
                   THEN [timer EXCEPT ![id].countdown = IF left <= 0 THEN 0 ELSE left]
                   ELSE timer
     /\ IF on /\ due
          THEN walk' = [walk EXCEPT !.cb = TRUE] /\ asked' = [asked EXCEPT ![id] = Served(id)]
          ELSE walk' = At(NextTimer(id), walk.arg) /\ UNCHANGED asked
     /\ UNCHANGED <<handler, clock, timer_lst, last_tick>>

(* The rest of them; list_foreach goes on to the next node there is now.    *)
CallbackReturns ==
  LET id == walk.cur
      old == timer[id]
  IN /\ walk.cb
     /\ timer' = [timer EXCEPT ![id] =
          IF old.mode # "AUTORELOAD" THEN [old EXCEPT !.mode = "DISABLED"]
          ELSE IF handler = "systick" THEN [old EXCEPT !.countdown = old.time]
          ELSE [old EXCEPT !.timecmp = old.timecmp + old.time]]
     /\ walk' = At(NextTimer(id), walk.arg)
     /\ UNCHANGED <<handler, clock, timer_lst, last_tick, asked>>

(* Calls come from a callback, or from tasks while no walk is under way.    *)
MayCall == walk = Resting \/ walk.cb

ucx_timer_create(id) ==
  /\ MayCall /\ ~Listed(id)
  /\ LET lst == IF timer_lst = NoLst THEN << >> ELSE timer_lst
     IN timer_lst' = Append(lst, id)
  /\ timer' = [timer EXCEPT ![id] = [mode |-> "DISABLED", time |-> Period[id],
                                     countdown |-> Period[id], timecmp |-> 0]]
  /\ UNCHANGED <<handler, clock, last_tick, walk, asked>>

(* The list is there, the timer or its node is not.                         *)
CreateNoMemory ==
  /\ MayCall /\ timer_lst = NoLst /\ timer_lst' = << >>
  /\ UNCHANGED <<handler, clock, timer, last_tick, walk, asked>>

(* The timer whose callback runs is still read when it returns: callbacks   *)
(* do not destroy their own.                                                *)
ucx_timer_destroy(id) ==
  /\ MayCall /\ Listed(id) /\ id # walk.cur
  /\ timer_lst' = RemoveFirst(timer_lst, id)
  /\ timer' = [timer EXCEPT ![id] = [mode |-> "DISABLED", time |-> 0, countdown |-> 0, timecmp |-> 0]]
  /\ asked' = [asked EXCEPT ![id] = NotAsked]
  /\ UNCHANGED <<handler, clock, last_tick, walk>>

Start(id, mode, countdown) ==
  /\ MayCall /\ Listed(id) /\ (SelfStart \/ id # walk.cur)
  /\ timer' = [timer EXCEPT ![id] = [mode |-> mode, time |-> @.time, countdown |-> countdown,
                                     timecmp |-> clock + @.time]]
  /\ asked' = [asked EXCEPT ![id] = [mode |-> mode, due |-> clock + timer[id].time]]
  /\ UNCHANGED <<handler, clock, timer_lst, last_tick, walk>>

(* Slip: a timer that is started again goes on counting. *)
StartGoesOn(id, mode) == Start(id, mode, timer[id].countdown)

ucx_timer_start(id, mode) == Start(id, mode, timer[id].time)

ucx_timer_cancel(id) ==
  /\ MayCall /\ Listed(id)
  /\ timer' = [timer EXCEPT ![id].mode = "DISABLED"]
  /\ asked' = [asked EXCEPT ![id] = NotAsked]
  /\ UNCHANGED <<handler, clock, timer_lst, last_tick, walk>>

(* A handler that counts ticks is not late by more than HandlerEvery.       *)
TimePasses ==
  /\ clock < MaxClock
  /\ handler = "systick" /\ timer_lst # NoLst => TickDiff < HandlerEvery
  /\ clock' = clock + 1
  /\ UNCHANGED <<handler, timer_lst, timer, last_tick, walk, asked>>

Handling == timer_handler_systick \/ timer_handler \/ Visit \/ CallbackReturns

TimerNext ==
  \/ TimePasses \/ Handling \/ CreateNoMemory
  \/ \E id \in Timers :
       \/ ucx_timer_create(id) \/ ucx_timer_cancel(id) \/ ucx_timer_destroy(id)
       \/ \E mode \in {"ONESHOT", "AUTORELOAD"} : ucx_timer_start(id, mode)

(* The task of the handler is scheduled again and again, and its callbacks  *)
(* return.                                                                  *)
TimerFairness == WF_timerVars(TimePasses) /\ WF_timerVars(Handling)

TimerSpec == TimerInit /\ [][TimerNext]_timerVars
TimerLiveSpec == TimerSpec /\ TimerFairness

-----------------------------------------------------------------------------
CalledBack(id) == walk.cur = id /\ ~walk.cb /\ walk'.cb

(* The handler of ticks takes all the ticks since its last walk from every  *)
(* countdown, those that were over when it was set included: the ones that  *)
(* no walk had seen, and, when a callback started the timer, the ones that  *)
(* the walk under way had in hand. Neither are more than HandlerEvery.      *)
Early == IF handler = "systick" THEN 2 * HandlerEvery ELSE 0

(* A callback is called only for a timer that was started, at most once for *)
(* a one-shot timer, and after the time the timer was created with, less    *)
(* Early: whatever callbacks and tasks did to the list and to this timer in *)
(* the meantime.                                                            *)
CalledAsAsked ==
  [][\A id \in Timers : CalledBack(id) => /\ asked[id].mode # "DISABLED"
                                          /\ clock >= asked[id].due - Early]_timerVars

(* Every timer that is started, and every period of one that reloads, comes *)
(* to its callback, unless the timer is cancelled, destroyed or started     *)
(* again first: none stays due for ever. (A handler that notes a time of 0  *)
(* misses the ticks up to its next call, and the clock stops at MaxClock:   *)
(* what is due after Horizon need not come within the bound.)               *)
Horizon == MaxClock - 2 * HandlerEvery
StartedTimersFire ==
  \A id \in Timers :
    []<>(asked[id].mode = "DISABLED" \/ asked[id].due > Horizon)
=============================================================================
