------------------------------ MODULE Dijkstra ------------------------------
(***************************************************************************)
(* The semaphore the documentation promises (README.md, Semaphore): a task *)
(* decrements a positive value and passes, or blocks; a signal unblocks    *)
(* the task that has waited longest, or increments the value. A semaphore  *)
(* with waiting tasks is not destroyed.                                    *)
(***************************************************************************)
EXTENDS Naturals, Sequences

CONSTANTS Task, Initial

VARIABLES value, waiting, exists

dijkstraVars == <<value, waiting, exists>>

IsWaiting(t) == \E i \in 1 .. Len(waiting) : waiting[i] = t

Init == value = Initial /\ waiting = << >> /\ exists = TRUE

Wait(t) == /\ exists /\ ~IsWaiting(t)
           /\ \/ /\ value > 0 /\ value' = value - 1 /\ UNCHANGED waiting
              \/ /\ value = 0 /\ waiting' = Append(waiting, t) /\ UNCHANGED value
           /\ UNCHANGED exists

TryWait == exists /\ value > 0 /\ value' = value - 1 /\ UNCHANGED <<waiting, exists>>

Signal == /\ exists
          /\ \/ /\ waiting = << >> /\ value' = value + 1 /\ UNCHANGED waiting
             \/ /\ waiting # << >> /\ waiting' = Tail(waiting) /\ UNCHANGED value
          /\ UNCHANGED exists

Destroy == exists /\ waiting = << >> /\ exists' = FALSE /\ UNCHANGED <<value, waiting>>

Create == ~exists /\ exists' = TRUE /\ value' = Initial /\ waiting' = << >>

Next == (\E t \in Task : Wait(t)) \/ TryWait \/ Signal \/ Destroy \/ Create

Spec == Init /\ [][Next]_dijkstraVars
=============================================================================
