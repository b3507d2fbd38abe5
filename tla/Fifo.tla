-------------------------------- MODULE Fifo --------------------------------
(***************************************************************************)
(* What a queue of lib/queue.c promises to its callers (the semaphores and *)
(* the message queues of the kernel), and a pipe of kernel/pipe.c to the   *)
(* tasks at its ends: a bounded first-in first-out buffer.                 *)
(* The result of the last call is visible in out, so an implementation has *)
(* to return the same answers, not only keep the same contents.            *)
(***************************************************************************)
EXTENDS Naturals, Sequences

CONSTANTS Data,       \* what may be enqueued: pointers, NULL included; bytes
          Null,       \* the NULL pointer or -1, returned when it is empty
          Capacity    \* how many elements fit

VARIABLES buf,        \* the elements, oldest first
          live,       \* the queue exists
          out         \* the last call and its result

fifoVars == <<buf, live, out>>

Init == /\ buf = << >>
        /\ live = FALSE
        /\ out = <<"none">>

(* A queue is created empty, or not at all when memory is exhausted. *)
Create == /\ ~live
          /\ \/ /\ live' = TRUE /\ buf' = << >>
                /\ out' = <<"create", "ok">>
             \/ /\ UNCHANGED <<buf, live>>
                /\ out' = <<"create", "no memory">>

(* Only an empty queue is destroyed. *)
Destroy == /\ live
           /\ live' = (buf # << >>)
           /\ out' = <<"destroy", IF buf = << >> THEN "ok" ELSE "busy">>
           /\ UNCHANGED buf

Enqueue(d) == /\ live
              /\ IF Len(buf) < Capacity
                   THEN buf' = Append(buf, d) /\ out' = <<"enqueue", "ok">>
                   ELSE buf' = buf /\ out' = <<"enqueue", "full">>
              /\ UNCHANGED live

Dequeue == /\ live
           /\ IF buf = << >>
                THEN buf' = buf /\ out' = <<"dequeue", Null>>
                ELSE buf' = Tail(buf) /\ out' = <<"dequeue", Head(buf)>>
           /\ UNCHANGED live

Peek == /\ live
        /\ out' = <<"peek", IF buf = << >> THEN Null ELSE Head(buf)>>
        /\ UNCHANGED <<buf, live>>

Count == /\ live
         /\ out' = <<"count", Len(buf)>>
         /\ UNCHANGED <<buf, live>>

(* A pipe is emptied by whoever asks, and destroyed with what is in it.      *)
Flush == live /\ buf' = << >> /\ out' = <<"flush", "ok">> /\ UNCHANGED live

Discard == live /\ ~live' /\ buf' = << >> /\ out' = <<"discard", "ok">>

Next == \/ Create \/ Destroy \/ Dequeue \/ Peek \/ Count
        \/ Flush \/ Discard
        \/ \E d \in Data : Enqueue(d)

Spec == Init /\ [][Next]_fifoVars
=============================================================================
