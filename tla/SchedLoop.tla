----------------------------- MODULE SchedLoop ------------------------------
(***************************************************************************)
(* The two passes of krnl_schedule as the loops the code runs over the     *)
(* task list, and the claim that Kernel's Selected and Recounted, which    *)
(* say what is chosen without saying how, are what the loops compute.      *)
(***************************************************************************)
EXTENDS Kernel

(* slip: a strict comparison, so that the first of equals is taken *)
PassStrict(st, select, k) ==
  IF Count(k) < Count(select) /\ Ready(st, tasks[k]) THEN k ELSE select

(* First pass, past node k: select moves to a READY task whose count is not *)
(* above the one it holds. It starts as the first node.                     *)
Pass(st, select, k) ==
  IF Count(k) <= Count(select) /\ Ready(st, tasks[k]) THEN k ELSE select
Scan(st) ==
  LET select[k \in 0 .. Len(tasks)] ==
        IF k = 0 THEN 1 ELSE Pass(st, select[k - 1], k)
  IN select[Len(tasks)]

(* Second pass, past node k, in 16-bit arithmetic.                          *)
Subtract(st, s, p, k) ==
  IF Ready(st, tasks[k])
    THEN [p EXCEPT ![tasks[k]] = (@ - Low(priority[s])) % 65536] ELSE p
Subtracted(st, s) ==
  LET after[k \in 0 .. Len(tasks)] ==
        IF k = 0 THEN priority ELSE Subtract(st, s, after[k - 1], k)
  IN after[Len(tasks)]

(* Then the reset of the selected task: priority |= (priority >> 8) & 0xff, *)
(* here with each bit of the low byte.                                      *)
Weight == <<1, 2, 4, 8, 16, 32, 64, 128>>
Bit(n, k) == (n \div Weight[k]) % 2
OrBit(x, y, k) == IF Bit(x, k) = 1 \/ Bit(y, k) = 1 THEN Weight[k] ELSE 0
OrBytes(x, y) ==
  LET sum[k \in 0 .. 8] == IF k = 0 THEN 0 ELSE sum[k - 1] + OrBit(x, y, k)
  IN sum[8]
Reset(p, s) ==
  [p EXCEPT ![s] = 256 * High(@) + OrBytes(Low(@), High(@))]

(* In every state the next interrupt or yield may meet the task list in,   *)
(* the scan ends on a task that is not ready exactly where Kernel panics,  *)
(* on the task Kernel selects elsewhere, and leaves the same priorities.   *)
LoopSelects ==
  LET ready == Preempted(UpdatedState)
      sel == Scan(ready)
  IN IF Eligible(ready) = {}
       THEN ~Ready(ready, tasks[sel])
       ELSE /\ Selected(ready, sel)
            /\ \A i \in Eligible(ready) : Selected(ready, i) => i = sel
            /\ Reset(Subtracted(ready, tasks[sel]), tasks[sel])
                 = Recounted(ready, tasks[sel])
=============================================================================
