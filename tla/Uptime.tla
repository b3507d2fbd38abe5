------------------------------- MODULE Uptime -------------------------------
(***************************************************************************)
(* Where ucx_uptime and the timer interrupts get the time from: a hardware *)
(* counter that runs on while it is read in parts.                         *)
(*                                                                         *)
(*   "mtime_r"   riscv32-qemu: the high half, the low half, and again if   *)
(*               the high half has changed. (_read_us of this target looks *)
(*               only once: what the slip CheckNothing does.)              *)
(*   "CNT"       stm32f401: 16 bits of hardware, their carries counted in  *)
(*               software by every call; one comes with each SysTick       *)
(***************************************************************************)
EXTENDS Integers

CONSTANTS
  Readers,        \* subset of {"mtime_r", "CNT"}
  LowMod,         \* the low half wraps at this (2^32; 2^16 for CNT)
  SysTick,        \* the longest time between two SysTicks
  SysTickInRead,  \* a SysTick may interrupt a call of _read_us
  MaxHw           \* bound on the time

ASSUME UptimeAssumption ==
  /\ LowMod \in Nat \ {0} /\ SysTick \in 1 .. LowMod - 1
  /\ SysTickInRead \in BOOLEAN /\ MaxHw \in Nat

VARIABLES
  hw,             \* the time, as the hardware has it
  reading,        \* the call under way: [by, at, hi, lo, start, val]
  tval2, tref,    \* the static variables of the "CNT" reader
  lastTick        \* when the last SysTick was

upVars == <<hw, reading, tval2, tref, lastTick>>

NotReading == [by |-> "nobody", at |-> "done", hi |-> 0, lo |-> 0, start |-> 0, val |-> 0]

UpInit == /\ hw = 0 /\ tval2 = 0 /\ tref = 0 /\ lastTick = 0
          /\ reading = NotReading

HwHigh == hw \div LowMod
HwLow == hw % LowMod

Call(by) ==
  /\ reading.at = "done"
  /\ reading' = [NotReading EXCEPT !.by = by, !.at = "start", !.start = hw]
  /\ UNCHANGED <<hw, tval2, tref, lastTick>>

Reads(by, from, next) ==
  reading.by = by /\ reading.at = from /\ reading' = next /\ UNCHANGED <<hw, lastTick>>

Join(hi, lo) == hi * LowMod + lo
Returns(r, val) == [r EXCEPT !.at = "done", !.val = val]

(* Slip: the high half is not looked at again. *)
CheckNothing(r) == Returns(r, Join(r.hi, r.lo))

(* if (hi == MTIME_H) return; else once more *)
CheckHigh(r) == IF r.hi = HwHigh THEN Returns(r, Join(r.hi, r.lo)) ELSE [r EXCEPT !.at = "start"]

mtime_r ==
  /\ \/ Reads("mtime_r", "start", [reading EXCEPT !.at = "low", !.hi = HwHigh])
     \/ Reads("mtime_r", "low", [reading EXCEPT !.at = "check", !.lo = HwLow])
     \/ Reads("mtime_r", "check", CheckHigh(reading))
  /\ UNCHANGED <<tval2, tref>>

Carry(time) == IF time < tref THEN 1 ELSE 0

_read_us ==
  \/ /\ Reads("CNT", "start", [reading EXCEPT !.at = "carry", !.lo = HwLow])
     /\ UNCHANGED <<tval2, tref>>
  \/ /\ Reads("CNT", "carry", [reading EXCEPT !.at = "store"])
     /\ tval2' = tval2 + Carry(reading.lo) /\ UNCHANGED tref
  \/ /\ Reads("CNT", "store", Returns(reading, Join(tval2, reading.lo)))
     /\ tref' = reading.lo /\ UNCHANGED tval2

(* The handler calls _read_us, which nothing interrupts there.              *)
SysTick_Handler ==
  /\ "CNT" \in Readers
  /\ SysTickInRead \/ reading.at = "done"
  /\ tval2' = tval2 + Carry(HwLow) /\ tref' = HwLow
  /\ lastTick' = hw
  /\ UNCHANGED <<hw, reading>>

(* The counter runs on; a SysTick comes in time.                            *)
HwRuns ==
  /\ hw < MaxHw /\ ("CNT" \in Readers => hw - lastTick < SysTick)
  /\ hw' = hw + 1
  /\ UNCHANGED <<reading, tval2, tref, lastTick>>

UpNext == \/ HwRuns \/ mtime_r \/ _read_us \/ SysTick_Handler
          \/ \E by \in Readers : Call(by)

UpSpec == UpInit /\ [][UpNext]_upVars

-----------------------------------------------------------------------------
(* What a reader returns was the time at some moment of the call: it is not *)
(* torn at a carry between the halves, and none is missed or counted twice. *)
ReadsTheTime ==
  reading.at = "done" => reading.start <= reading.val /\ reading.val <= hw
=============================================================================
