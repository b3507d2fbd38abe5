----------------------------- MODULE MCServices -----------------------------
(* Instances of the services above the task core: a pipe, software timers,  *)
(* a group of coroutines and the clock; and of the simple scheduler, which  *)
(* a build may take for the default one. They share no state, so one        *)
(* behaviour exercises one of them, the part that its first state chooses,  *)
(* and fairness binds that part only.                                       *)
(*                                                                         *)
(* r reads, w writes, with blocking calls; x does both without blocking.    *)
EXTENDS Pipe, Timer, Coroutine, Uptime, SchedSimple, TLC

CONSTANTS r, w, x, Parts

VARIABLE part

MCOps == r :> {"read"} @@ w :> {"write"} @@ x :> {"nbread", "nbwrite"}
(* Longer and shorter than a countdown of ticks may be early, 2 * HandlerEvery. *)
MCPeriod == <<1, 4>>
AnyBase == [t \in Places |-> CHOOSE b \in Bases : TRUE]

(* For every size that ucx_pipe_create may be asked for, and that 16 bits    *)
(* can round up, the smearing of bits finds the least power of two.         *)
ASSUME EverySizeRounds ==
  \A request \in 0 .. 32768 : RoundedUp(request) = LeastPower(request)

ServiceVars == <<part, pipeVars, timerVars, crVars, upVars, simpleVars>>

ServiceInit ==
  /\ part \in Parts
  /\ PipeInit /\ TimerInit /\ CrInit /\ UpInit /\ SimpleInit
  /\ part # "timer" => handler = "systick"
  /\ part # "simple" => ~(\E t \in Places : ready[t]) /\ base_prio = AnyBase

ServiceNext ==
  /\ UNCHANGED part
  /\ \/ part = "pipe" /\ PipeNext /\ UNCHANGED <<timerVars, crVars, upVars, simpleVars>>
     \/ part = "timer" /\ TimerNext /\ UNCHANGED <<pipeVars, crVars, upVars, simpleVars>>
     \/ part = "coroutine" /\ CrNext /\ UNCHANGED <<pipeVars, timerVars, upVars, simpleVars>>
     \/ part = "uptime" /\ UpNext /\ UNCHANGED <<pipeVars, timerVars, crVars, simpleVars>>
     \/ part = "simple" /\ SimpleNext /\ UNCHANGED <<pipeVars, timerVars, crVars, upVars>>

(* The fairness of the parts; see PipeFairness, TimerFairness, CrFairness,  *)
(* SimpleFairness.                                                          *)
ServiceFairness ==
  /\ \A t \in Task : WF_pipeVars(part = "pipe" /\ Move(t))
  /\ WF_timerVars(part = "timer" /\ TimePasses)
  /\ WF_timerVars(part = "timer" /\ Handling)
  /\ WF_crVars(part = "coroutine" /\ ucx_cr_schedule)
  /\ WF_simpleVars(part = "simple" /\ simple_schedule)

ServiceSpec == ServiceInit /\ [][ServiceNext]_ServiceVars
ServiceLiveSpec == ServiceSpec /\ ServiceFairness
=============================================================================
