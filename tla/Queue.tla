------------------------------- MODULE Queue --------------------------------
(***************************************************************************)
(* lib/queue.c: the ring of pointers under the semaphores and the message  *)
(* queues. One slot of the ring always stays free, head = tail meaning     *)
(* "empty", and elem counts the elements a second time.                    *)
(*                                                                         *)
(* queue_create rounds the requested size up to a power of two, at least   *)
(* 2; Size is the rounded size, and "& mask" is "% Size". The operations   *)
(* take no lock: every caller in the kernel holds the critical section, so *)
(* each of them is one step here.                                          *)
(***************************************************************************)
EXTENDS Integers, Sequences

CONSTANTS Data,       \* what the callers enqueue (NULL may be in it)
          Null,       \* the NULL pointer
          Size        \* number of slots, a power of two

ASSUME SizeAssumption == Size \in Nat /\ Size >= 2

VARIABLES pdata,      \* the slots
          head,       \* slot of the oldest element
          tail,       \* slot the next element goes to
          elem,       \* number of elements
          live,       \* the queue is allocated
          out         \* the last call and its result

queueVars == <<pdata, head, tail, elem, live, out>>

Slots == 0 .. Size - 1

(* i & mask *)
Wrap(i) == i % Size

(* Before the first queue_create there is no queue: malloc'ed slots hold    *)
(* whatever the heap held.                                                 *)
Init == /\ pdata \in [Slots -> Data]
        /\ head = 0 /\ tail = 0 /\ elem = 0
        /\ live = FALSE
        /\ out = <<"none">>

queue_create ==
  /\ ~live
  /\ \/ /\ live' = TRUE /\ out' = <<"create", "ok">>
        /\ pdata' \in [Slots -> Data]
        /\ head' = 0 /\ tail' = 0 /\ elem' = 0
     \/ /\ out' = <<"create", "no memory">>
        /\ UNCHANGED <<pdata, head, tail, elem, live>>

queue_destroy ==
  /\ live
  /\ IF head = tail /\ elem = 0
       THEN live' = FALSE /\ out' = <<"destroy", "ok">>
       ELSE live' = TRUE /\ out' = <<"destroy", "busy">>
  /\ UNCHANGED <<pdata, head, tail, elem>>

queue_count ==
  /\ live
  /\ out' = <<"count", elem>>
  /\ UNCHANGED <<pdata, head, tail, elem, live>>

(* Slip: the full test compares tail itself, so the last free slot is used  *)
(* and a full ring looks empty.                                            *)
EnqueueUsesLastSlot(data) ==
  /\ live
  /\ IF tail = head /\ elem > 0
       THEN out' = <<"enqueue", "full">> /\ UNCHANGED <<pdata, tail, elem>>
       ELSE /\ pdata' = [pdata EXCEPT ![tail] = data]
            /\ tail' = Wrap(tail + 1)
            /\ elem' = elem + 1
            /\ out' = <<"enqueue", "ok">>
  /\ UNCHANGED <<head, live>>

queue_enqueue(data) ==
  /\ live
  /\ IF Wrap(tail + 1) = head
       THEN out' = <<"enqueue", "full">> /\ UNCHANGED <<pdata, tail, elem>>
       ELSE /\ pdata' = [pdata EXCEPT ![tail] = data]
            /\ tail' = Wrap(tail + 1)
            /\ elem' = elem + 1
            /\ out' = <<"enqueue", "ok">>
  /\ UNCHANGED <<head, live>>

(* Slip: the datum is read after head has moved. *)
DequeueReadsNext ==
  /\ live
  /\ IF head = tail
       THEN out' = <<"dequeue", Null>> /\ UNCHANGED <<head, elem>>
       ELSE /\ head' = Wrap(head + 1)
            /\ elem' = elem - 1
            /\ out' = <<"dequeue", pdata[Wrap(head + 1)]>>
  /\ UNCHANGED <<pdata, tail, live>>

queue_dequeue ==
  /\ live
  /\ IF head = tail
       THEN out' = <<"dequeue", Null>> /\ UNCHANGED <<head, elem>>
       ELSE /\ head' = Wrap(head + 1)
            /\ elem' = elem - 1
            /\ out' = <<"dequeue", pdata[head]>>
  /\ UNCHANGED <<pdata, tail, live>>

queue_peek ==
  /\ live
  /\ out' = <<"peek", IF head = tail THEN Null ELSE pdata[head]>>
  /\ UNCHANGED <<pdata, head, tail, elem, live>>

Next == \/ queue_create \/ queue_destroy \/ queue_count
        \/ queue_dequeue \/ queue_peek
        \/ \E data \in Data : queue_enqueue(data)

Spec == Init /\ [][Next]_queueVars

-----------------------------------------------------------------------------
TypeInv == /\ pdata \in [Slots -> Data]
           /\ head \in Slots /\ tail \in Slots
           /\ elem \in Int
           /\ live \in BOOLEAN

(* elem, the count queue_count reports and queue_destroy tests, always     *)
(* agrees with the distance from head to tail, which decides "empty" and   *)
(* "full": no sequence of calls, wrapping included, lets the two counts    *)
(* drift apart.                                                            *)
CountMatchesRing ==
  elem = IF tail >= head THEN tail - head ELSE tail - head + Size

(* The slot that holds element i of the queue, oldest first. *)
SlotOf(i) == IF head + i - 1 < Size THEN head + i - 1 ELSE head + i - 1 - Size

Contents == [i \in 1 .. elem |-> pdata[SlotOf(i)]]

(* The ring implements a bounded FIFO of Size - 1 elements: every datum    *)
(* comes out once, in order, and every call returns what the FIFO returns. *)
F == INSTANCE Fifo WITH buf <- Contents, Capacity <- Size - 1
ImplementsFifo == F!Spec
=============================================================================
