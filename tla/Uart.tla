-------------------------------- MODULE Uart --------------------------------
(***************************************************************************)
(* drivers/bus/uart/uart.c with interrupts: the receive interrupt puts     *)
(* characters into a ring and drops those that find it full; a task that   *)
(* has opened the device reads them, waiting in a loop for each. The loop  *)
(* looks at the ring outside the critical section in which get_fifo takes  *)
(* a character.                                                            *)
(***************************************************************************)
EXTENDS Integers, Sequences

CONSTANTS
  UTask,          \* the tasks
  Openers,        \* those that open the device before they read
  Char,
  NoChar,         \* the 0 that get_fifo answers when the ring is empty
  RxSize,         \* rx_buffer_mask + 1
  Wanted,         \* characters a read asks for
  MaxReceived     \* bound on the characters that arrive

ASSUME UartAssumption ==
  Openers \subseteq UTask /\ RxSize \in Nat \ {0, 1} /\ Wanted \in Nat \ {0}

VARIABLES
  rx,             \* the ring: buffer, head, tail, size
  busy,           \* data->busy
  upc,            \* task -> "away", "owner", "wait", "get"
  taken,          \* task -> characters the read has so far
  accepted,       \* all the characters the ring took, in order
  got             \* all the characters tasks read, in order

uartVars == <<rx, busy, upc, taken, accepted, got>>

UartInit ==
  /\ rx = [buffer |-> [s \in 0 .. RxSize - 1 |-> NoChar], head |-> 0, tail |-> 0, size |-> 0]
  /\ busy = FALSE
  /\ upc = [t \in UTask |-> IF t \in Openers THEN "away" ELSE "owner"]
  /\ taken = [t \in UTask |-> 0]
  /\ accepted = << >> /\ got = << >>

(* slip: the ring fills its last slot and looks empty *)
RoomInLastSlot == rx.size < RxSize
Room == (rx.tail + 1) % RxSize # rx.head

put_fifo(c) ==
  /\ Len(accepted) < MaxReceived
  /\ IF Room
       THEN /\ rx' = [rx EXCEPT !.buffer[rx.tail] = c, !.tail = (@ + 1) % RxSize,
                                !.size = @ + 1]
            /\ accepted' = Append(accepted, c)
       ELSE UNCHANGED <<rx, accepted>>
  /\ UNCHANGED <<busy, upc, taken, got>>

(* A second open is refused: the task goes away and tries again.            *)
uart_driver_open(t) ==
  /\ upc[t] = "away"
  /\ busy' = TRUE
  /\ upc' = IF busy THEN upc ELSE [upc EXCEPT ![t] = "owner"]
  /\ UNCHANGED <<rx, taken, accepted, got>>

uart_driver_close(t) ==
  /\ upc[t] = "owner" /\ t \in Openers
  /\ busy' = FALSE /\ upc' = [upc EXCEPT ![t] = "away"]
  /\ UNCHANGED <<rx, taken, accepted, got>>

ReadCalled(t) ==
  /\ upc[t] = "owner"
  /\ upc' = [upc EXCEPT ![t] = "wait"] /\ taken' = [taken EXCEPT ![t] = 0]
  /\ UNCHANGED <<rx, busy, accepted, got>>

(* A turn of while (data->rx_head == data->rx_tail).                        *)
AwaitsChar(t) ==
  /\ upc[t] = "wait"
  /\ upc' = IF rx.head = rx.tail THEN upc ELSE [upc EXCEPT ![t] = "get"]
  /\ UNCHANGED <<rx, busy, taken, accepted, got>>

get_fifo(t) ==
  /\ upc[t] = "get"
  /\ IF rx.head # rx.tail
       THEN /\ got' = Append(got, rx.buffer[rx.head])
            /\ rx' = [rx EXCEPT !.head = (@ + 1) % RxSize, !.size = @ - 1]
       ELSE got' = Append(got, NoChar) /\ UNCHANGED rx
  /\ taken' = [taken EXCEPT ![t] = @ + 1]
  /\ upc' = [upc EXCEPT ![t] = IF taken'[t] = Wanted THEN "owner" ELSE "wait"]
  /\ UNCHANGED <<busy, accepted>>

UartNext ==
  \/ \E c \in Char : put_fifo(c)
  \/ \E t \in UTask : \/ uart_driver_open(t) \/ uart_driver_close(t)
                      \/ ReadCalled(t) \/ AwaitsChar(t) \/ get_fifo(t)

UartSpec == UartInit /\ [][UartNext]_uartVars

-----------------------------------------------------------------------------
(* What tasks have read and what is in the ring is what the ring took, in   *)
(* order: nothing is invented, doubled or lost once it was accepted,        *)
(* although readers and the interrupt come in any order and the test for a  *)
(* character and its removal are two steps. Tasks must open the device: the *)
(* driver does not look who reads.                                          *)
RingChars == [k \in 1 .. rx.size |-> rx.buffer[(rx.head + k - 1) % RxSize]]
ReadsWhatArrived == got \o RingChars = accepted
=============================================================================
