-------------------------------- MODULE Pipe --------------------------------
(***************************************************************************)
(* kernel/pipe.c: a ring of bytes between tasks. Each byte is moved in a   *)
(* critical section of its own; between two bytes of a call other tasks,   *)
(* calls on the same pipe included, may run. A blocking call that finds    *)
(* the ring empty, or full, yields and tries again.                        *)
(*                                                                         *)
(* A byte leaves through the return value of pipe_get, where -1 stands for *)
(* an empty ring: CharMax says up to which byte a char of the target is    *)
(* not negative (255 where char is unsigned, 127 where it is signed).      *)
(***************************************************************************)
EXTENDS Integers, Sequences, FiniteSetsExt, SequencesExt

CONSTANTS Task, Byte,
          Ops,        \* task -> which of the calls it makes
          Request,    \* the size given to ucx_pipe_create
          Amount,     \* the size given to the calls that move bytes
          CharMax

VARIABLES pipe,       \* struct pipe_s, and whether it is allocated
          call,       \* task -> the call it is in: [op, i]
          pres        \* the last access to the ring and its result

pipeVars == <<pipe, call, pres>>

(* The bits that are set in x.                                              *)
Bits(x) == {k \in 0 .. 16 : (x \div 2^k) % 2 = 1}

(* x--; x |= x >> 1; x |= x >> 2; ... x++                                    *)
nextpowerof2(x) ==
  LET smeared == FoldLeft(LAMBDA b, s : b \cup {k - s : k \in {j \in b : j >= s}},
                          Bits(x - 1), <<1, 2, 4, 8, 16>>)
  IN MapThenSumSet(LAMBDA k : 2^k, smeared) + 1

(* The number of slots; size is 16 bits wide.                               *)
RoundedUp(request) ==
  LET size == IF request < 2 THEN 2 ELSE request
  IN IF Cardinality(Bits(size)) = 1 THEN size ELSE nextpowerof2(size) % 65536

PipeSize == RoundedUp(Request)

Octet == {n \in Nat : n <= 255}

ASSUME PipeAssumption == /\ Request \in Nat /\ Amount \in Nat \ {0}
                         /\ Byte \subseteq Octet /\ PipeSize \in Nat \ {0, 1}

NoByte == -1
Idle == [op |-> "none", i |-> 0]
PipeWrap(i) == i % PipeSize
Empty == pipe.head = pipe.tail
(* slip: the next tail is computed, the old one is compared *)
FullAtTail == pipe.tail = pipe.head
Full == PipeWrap(pipe.tail + 1) = pipe.head
(* slip: a target where char is signed *)
AsSigned(byte) == IF byte > 127 THEN byte - 256 ELSE byte
(* data = pipe->data[head]: from char to int32_t *)
AsInt(byte) == IF byte > CharMax THEN byte - 256 ELSE byte

PipeInit ==
  /\ pipe = [data |-> [s \in 0 .. PipeSize - 1 |-> 0],
             head |-> 0, tail |-> 0, size |-> 0, live |-> FALSE]
  /\ call = [t \in Task |-> Idle]
  /\ pres = <<"none">>

ucx_pipe_create ==
  /\ ~pipe.live
  /\ \/ /\ pipe' = [pipe EXCEPT !.head = 0, !.tail = 0, !.size = 0, !.live = TRUE]
        /\ pres' = <<"create", "ok">>
     \/ pipe' = pipe /\ pres' = <<"create", "no memory">>
  /\ UNCHANGED call

(* Bytes in the pipe are no reason to keep it. Tasks inside a call would be *)
(* left with freed memory: the application destroys a pipe nobody uses.     *)
ucx_pipe_destroy ==
  /\ pipe.live /\ \A t \in Task : call[t] = Idle
  /\ pipe' = [pipe EXCEPT !.live = FALSE, !.head = 0, !.tail = 0, !.size = 0]
  /\ pres' = <<"discard", "ok">>
  /\ UNCHANGED call

ucx_pipe_flush ==
  /\ pipe.live
  /\ pipe' = [pipe EXCEPT !.head = 0, !.tail = 0, !.size = 0]
  /\ pres' = <<"flush", "ok">>
  /\ UNCHANGED call

ucx_pipe_size ==
  /\ pipe.live
  /\ pres' = <<"count", pipe.size>>
  /\ UNCHANGED <<pipe, call>>

Enter(t, op) == /\ pipe.live /\ call[t] = Idle /\ op \in Ops[t]
                /\ call' = [call EXCEPT ![t] = [op |-> op, i |-> 0]]
                /\ UNCHANGED <<pipe, pres>>

(* One more byte moved; after the last one the call returns.                *)
Advance(t) ==
  call' = [call EXCEPT ![t] = IF @.i + 1 = Amount THEN Idle ELSE [op |-> @.op, i |-> @.i + 1]]

(* Nothing to move: a blocking call yields and goes on, another one returns. *)
Missed(t, blocking) ==
  call' = IF call[t].op = blocking THEN call ELSE [call EXCEPT ![t] = Idle]

(* A turn of the loops of ucx_pipe_read and ucx_pipe_nbread.                *)
Get(t) ==
  LET byte == AsInt(pipe.data[pipe.head]) IN
  /\ call[t].op \in {"read", "nbread"}
  /\ IF Empty
       THEN pipe' = pipe /\ pres' = <<"dequeue", NoByte>> /\ Missed(t, "read")
       ELSE /\ pipe' = [pipe EXCEPT !.head = PipeWrap(@ + 1), !.size = @ - 1]
            /\ pres' = <<"dequeue", byte>>
            /\ IF byte = NoByte THEN Missed(t, "read") ELSE Advance(t)

(* A turn of the loops of ucx_pipe_write and ucx_pipe_nbwrite.              *)
Put(t) ==
  /\ call[t].op \in {"write", "nbwrite"}
  /\ IF Full
       THEN pipe' = pipe /\ pres' = <<"enqueue", "full">> /\ Missed(t, "write")
       ELSE \E byte \in Byte :
              /\ pipe' = [pipe EXCEPT !.data[pipe.tail] = byte,
                                      !.tail = PipeWrap(@ + 1), !.size = @ + 1]
              /\ pres' = <<"enqueue", "ok">>
              /\ Advance(t)

Move(t) == Get(t) \/ Put(t)

PipeNext == \/ ucx_pipe_create \/ ucx_pipe_destroy \/ ucx_pipe_flush \/ ucx_pipe_size
            \/ \E t \in Task : Move(t) \/ \E op \in Ops[t] : Enter(t, op)

(* A task in a call is scheduled again and again (Kernel.NoStarvation).     *)
PipeFairness == \A t \in Task : WF_pipeVars(Move(t))

PipeSpec == PipeInit /\ [][PipeNext]_pipeVars
PipeLiveSpec == PipeSpec /\ PipeFairness

-----------------------------------------------------------------------------
PipeContents == [k \in 1 .. pipe.size |-> pipe.data[PipeWrap(pipe.head + k - 1)]]

(* What ucx_pipe_create is asked for, rounded up to a power of two.         *)
LeastPower(request) ==
  CHOOSE s \in {2^k : k \in 1 .. 15} :
    s >= request /\ (s = 2 \/ s \div 2 < request)

Asked == LeastPower(Request)

(* The ring is a bounded FIFO of bytes that holds all but one of the slots  *)
(* it was asked for, whichever tasks read, write and flush in whatever      *)
(* order: every byte accepted from a writer goes to one reader, in order,   *)
(* and each access answers as the FIFO does.                                *)
PF == INSTANCE Fifo WITH Data <- Byte, Null <- NoByte, Capacity <- Asked - 1,
                         buf <- PipeContents, live <- pipe.live, out <- pres
PipeIsFifo == PF!Spec

(* A reader and a writer do not wait for each other forever: when the other *)
(* tasks stay away one of the two calls comes to its end, although either   *)
(* may ask for more bytes than the ring holds.                              *)
PairProgress ==
  \A r \in {t \in Task : "read" \in Ops[t]}, w \in {t \in Task : "write" \in Ops[t]} :
    <>[](\A t \in Task \ {r, w} : call[t] = Idle)
      => ((call[r].op = "read" /\ call[w].op = "write")
            ~> (call[r] = Idle \/ call[w] = Idle))
=============================================================================
