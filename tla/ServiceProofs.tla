---------------------------- MODULE ServiceProofs ----------------------------
(***************************************************************************)
(* Theorems about what is around the kernel, for every size of a buffer,   *)
(* a page and a hardware counter, and any number of tasks, hosts and       *)
(* timers: the receive ring of a UART, the address cache of a network      *)
(* node, the clock, the pipe, which is a bounded FIFO, the timers, and the *)
(* EEPROM, which is an array of bytes.                                     *)
(***************************************************************************)
EXTENDS Pipe, Uart, Ethernet, Uptime, Timer, Eeprom, FiniteSetTheorems, TLAPS

-----------------------------------------------------------------------------
Wrapped(i, n) == IF i < n THEN i ELSE i - n

(* An index less than twice the size of a ring wraps at most once.          *)
LEMMA WrapsOnce ==
  ASSUME NEW n \in Nat \ {0}, NEW i \in 0 .. 2 * n - 1
  PROVE  i % n = Wrapped(i, n)
<1> USE DEF Wrapped
<1>1. CASE i < n
  BY <1>1
<1>2. CASE i >= n
  <2>1. i = n * (i \div n) + (i % n) /\ i % n \in 0 .. n - 1 /\ i \div n \in Int
    OBVIOUS
  <2>2. i \div n = 1
    BY <1>2, <2>1
  <2> QED BY <1>2, <2>1, <2>2
<1> QED BY <1>1, <1>2

(* The elements of a ring of n slots, its indices and its count, which is   *)
(* the distance of the indices.                                             *)
RingOf(b, h, s, n) == [k \in 1 .. s |-> b[(h + k - 1) % n]]
Distance(h, t, n) == IF t >= h THEN t - h ELSE t - h + n

LEMMA RingSlots ==
  ASSUME NEW n \in Nat \ {0}, NEW h \in 0 .. n - 1, NEW t \in 0 .. n - 1,
         NEW k \in 1 .. Distance(h, t, n)
  PROVE  /\ (h + k - 1) % n \in 0 .. n - 1
         /\ (h + k - 1) % n # t
<1>1. h + k - 1 \in 0 .. 2 * n - 1
  BY DEF Distance
<1>2. (h + k - 1) % n = Wrapped(h + k - 1, n)
  BY <1>1, WrapsOnce, Zenon
<1> QED BY <1>1, <1>2 DEF Distance, Wrapped

Filled(b, h, s, n, D) == \A k \in 1 .. s : b[(h + k - 1) % n] \in D

LEMMA RingSeq ==
  ASSUME NEW D, NEW n \in Nat \ {0}, NEW h \in 0 .. n - 1, NEW s \in 0 .. n - 1,
         NEW b, Filled(b, h, s, n, D)
  PROVE  RingOf(b, h, s, n) \in Seq(D) /\ Len(RingOf(b, h, s, n)) = s
<1>1. RingOf(b, h, s, n) \in [1 .. s -> D]
  BY DEF RingOf, Filled
<1> QED BY <1>1

(* What a writer puts in the slot at the tail comes after all the rest.     *)
PutsLast(n, h, t, b, d) ==
  /\ RingOf([b EXCEPT ![t] = d], h, Distance(h, t, n) + 1, n)
       = Append(RingOf(b, h, Distance(h, t, n), n), d)
  /\ (t + 1) % n \in 0 .. n - 1
  /\ Distance(h, (t + 1) % n, n) = Distance(h, t, n) + 1

LEMMA RingPut ==
  ASSUME NEW D, NEW n \in Nat \ {0}, NEW h \in 0 .. n - 1, NEW t \in 0 .. n - 1,
         NEW b \in [0 .. n - 1 -> D], NEW d \in D, (t + 1) % n # h
  PROVE  PutsLast(n, h, t, b, d)
<1> DEFINE s == Distance(h, t, n)
           c == [b EXCEPT ![t] = d]
<1>1. (t + 1) % n = IF t + 1 < n THEN t + 1 ELSE 0
  <2>1. t + 1 \in 0 .. 2 * n - 1
    OBVIOUS
  <2>2. (t + 1) % n = Wrapped(t + 1, n)
    BY ONLY <2>1, n \in Nat \ {0}, WrapsOnce, Zenon
  <2> QED BY <2>2 DEF Wrapped
<1>2. /\ (t + 1) % n \in 0 .. n - 1
      /\ s \in 0 .. n - 2 /\ Distance(h, (t + 1) % n, n) = s + 1
  BY <1>1 DEF Distance
<1>3. (h + s) % n = t
  <2>1. h + s \in 0 .. 2 * n - 1
    BY <1>2
  <2>2. (h + s) % n = Wrapped(h + s, n)
    BY ONLY <2>1, n \in Nat \ {0}, WrapsOnce, Zenon
  <2> QED BY <2>2 DEF Distance, Wrapped
<1>4. ASSUME NEW k \in 1 .. s
      PROVE  b[(h + k - 1) % n] \in D /\ c[(h + k - 1) % n] = b[(h + k - 1) % n]
  BY RingSlots
<1>5. RingOf(b, h, s, n) \in Seq(D) /\ Len(RingOf(b, h, s, n)) = s
  <2>1. s \in 0 .. n - 1 /\ Filled(b, h, s, n, D)
    BY <1>2, <1>4 DEF Filled
  <2> HIDE DEF s
  <2> QED BY <2>1, RingSeq
<1>6. c[(h + (s + 1) - 1) % n] = d
  <2> HIDE DEF s
  <2>1. h + (s + 1) - 1 = h + s
    BY <1>2
  <2> QED BY <1>3, <2>1
<1> HIDE DEF s, c
<1>7. RingOf(c, h, s + 1, n) = [k \in 1 .. s + 1 |->
                                  IF k = s + 1 THEN d ELSE b[(h + k - 1) % n]]
  <2>1. ASSUME NEW k \in 1 .. s + 1
        PROVE  c[(h + k - 1) % n] = IF k = s + 1 THEN d ELSE b[(h + k - 1) % n]
    <3>1. CASE k = s + 1
      BY <3>1, <1>6
    <3>2. CASE k # s + 1
      <4>1. k \in 1 .. s
        BY <1>2, <3>2
      <4> QED BY <1>4, <3>2, <4>1
    <3> QED BY <3>1, <3>2
  <2> QED BY <2>1 DEF RingOf
<1>8. Append(RingOf(b, h, s, n), d) = [k \in 1 .. s + 1 |->
                                  IF k = s + 1 THEN d ELSE b[(h + k - 1) % n]]
  BY <1>2, <1>5 DEF RingOf
<1> QED BY <1>2, <1>7, <1>8 DEF s, c, PutsLast

(* What a reader takes at the head is the oldest element.                   *)
TakesFirst(D, n, h, t, b) ==
  LET s == Distance(h, t, n)
      R == RingOf(b, h, s, n)
      Q == RingOf(b, (h + 1) % n, s - 1, n)
  IN /\ s \in 1 .. n - 1
     /\ R \in Seq(D) /\ Q \in Seq(D)
     /\ R = <<b[h]>> \o Q /\ Q = Tail(R) /\ b[h] = Head(R)
     /\ (h + 1) % n \in 0 .. n - 1
     /\ Distance((h + 1) % n, t, n) = s - 1

LEMMA RingGet ==
  ASSUME NEW D, NEW n \in Nat \ {0}, NEW h \in 0 .. n - 1, NEW t \in 0 .. n - 1,
         NEW b \in [0 .. n - 1 -> D], h # t
  PROVE  TakesFirst(D, n, h, t, b)
<1> DEFINE s == Distance(h, t, n)
           g == (h + 1) % n
           R == RingOf(b, h, s, n)
           Q == RingOf(b, g, s - 1, n)
<1>1. g = IF h + 1 < n THEN h + 1 ELSE 0
  <2>1. h + 1 \in 0 .. 2 * n - 1
    OBVIOUS
  <2>2. (h + 1) % n = Wrapped(h + 1, n)
    BY ONLY <2>1, n \in Nat \ {0}, WrapsOnce, Zenon
  <2> QED BY <2>2 DEF Wrapped
<1>2. s \in 1 .. n - 1 /\ g \in 0 .. n - 1 /\ Distance(g, t, n) = s - 1
  BY <1>1 DEF Distance
<1>3. ASSUME NEW k \in 1 .. s
      PROVE  b[(h + k - 1) % n] \in D
  BY RingSlots
<1> HIDE DEF s, g
<1>4. R \in Seq(D) /\ Len(R) = s
  <2>1. s \in 0 .. n - 1 /\ Filled(b, h, s, n, D)
    BY <1>2, <1>3 DEF Filled
  <2> QED BY <2>1, RingSeq
<1>5. ASSUME NEW k \in 1 .. s - 1
      PROVE  (g + k - 1) % n = (h + (k + 1) - 1) % n
  <2>1. g + k - 1 \in 0 .. 2 * n - 1 /\ h + (k + 1) - 1 \in 0 .. 2 * n - 1
    BY <1>2
  <2>2. (g + k - 1) % n = Wrapped(g + k - 1, n)
    BY ONLY <2>1, n \in Nat \ {0}, WrapsOnce, Zenon
  <2>3. (h + (k + 1) - 1) % n = Wrapped(h + (k + 1) - 1, n)
    BY ONLY <2>1, n \in Nat \ {0}, WrapsOnce, Zenon
  <2> QED BY <1>1, <1>2, <2>2, <2>3 DEF Wrapped
<1>6. ASSUME NEW k \in 1 .. s - 1
      PROVE  b[(g + k - 1) % n] \in D
  <2>1. k + 1 \in 1 .. s
    BY <1>2
  <2> QED BY <1>3, <1>5, <2>1
<1>7. Q \in Seq(D) /\ Len(Q) = s - 1
  <2>1. s - 1 \in 0 .. n - 1 /\ Filled(b, g, s - 1, n, D)
    BY <1>2, <1>6 DEF Filled
  <2> QED BY <1>2, <2>1, RingSeq
<1>8. Q = [k \in 1 .. s - 1 |-> b[(h + (k + 1) - 1) % n]]
  BY <1>5 DEF RingOf
<1>9. R[1] = b[h] /\ \A k \in 1 .. s - 1 : R[k + 1] = b[(h + (k + 1) - 1) % n]
  <2>1. (h + 1 - 1) % n = h
    OBVIOUS
  <2> QED BY <1>2, <2>1 DEF RingOf
<1>10. Q = Tail(R)
  <2> HIDE DEF Q, R
  <2>1. Tail(R) = [k \in 1 .. s - 1 |-> R[k + 1]]
    BY <1>2, <1>4
  <2> QED BY <1>8, <1>9, <2>1
<1>11. Head(R) = b[h] /\ R = <<b[h]>> \o Tail(R)
  <2> HIDE DEF R
  <2> QED BY <1>2, <1>4, <1>9
<1> QED BY <1>2, <1>4, <1>7, <1>10, <1>11 DEF s, g, TakesFirst

-----------------------------------------------------------------------------
(* The receive ring of a UART.                                              *)

(* What the theorem asks: whoever reads has opened the device.              *)
ReadersOpen == Openers = UTask

RxChars == Char \cup {NoChar}

UartTypes ==
  /\ rx \in [buffer : [0 .. RxSize - 1 -> RxChars], head : 0 .. RxSize - 1,
             tail : 0 .. RxSize - 1, size : Int]
  /\ upc \in [UTask -> {"away", "owner", "wait", "get"}]
  /\ accepted \in Seq(RxChars) /\ got \in Seq(RxChars)

(* busy admits one task at a time, so that what a reader saw in the ring    *)
(* outside the critical section is still there when it comes to take it.    *)
UartInv ==
  /\ UartTypes
  /\ rx.size = Distance(rx.head, rx.tail, RxSize)
  /\ \A t \in UTask : upc[t] # "away" => busy
  /\ \A t, u \in UTask : upc[t] # "away" /\ upc[u] # "away" => t = u
  /\ \A t \in UTask : upc[t] = "get" => rx.head # rx.tail
  /\ ReadsWhatArrived

LEMMA UartInitInv == ReadersOpen /\ UartInit => UartInv
<1> SUFFICES ASSUME ReadersOpen, UartInit
             PROVE  UartInv
  OBVIOUS
<1> USE UartAssumption DEF UartInit, ReadersOpen
<1>1. UartTypes
  BY DEF UartTypes, RxChars
<1>2. rx.head = 0 /\ rx.tail = 0 /\ rx.size = 0
  OBVIOUS
<1>3. \A t \in UTask : upc[t] = "away"
  OBVIOUS
<1>4. ReadsWhatArrived
  <2>1. RingChars \in [1 .. 0 -> RxChars]
    BY <1>2 DEF RingChars
  <2>2. RingChars = << >>
    BY <2>1
  <2> QED BY <2>2 DEF ReadsWhatArrived
<1> QED BY <1>1, <1>2, <1>3, <1>4 DEF UartInv, Distance

LEMMA RxRing ==
  /\ RingChars = RingOf(rx.buffer, rx.head, rx.size, RxSize)
  /\ RingChars' = RingOf(rx'.buffer, rx'.head, rx'.size, RxSize)
BY DEF RingChars, RingOf

LEMMA AppendedToBoth ==
  ASSUME NEW S, NEW s \in Seq(S), NEW r \in Seq(S), NEW e \in S
  PROVE  s \o Append(r, e) = Append(s \o r, e)
OBVIOUS

(* The interrupt.                                                           *)
LEMMA PutKeeps ==
  ASSUME UartInv, NEW c \in Char, put_fifo(c)
  PROVE  UartInv'
<1> USE UartAssumption DEF UartInv
<1>1. CASE ~Room
  <2>1. UNCHANGED <<rx, accepted, busy, upc, got>>
    BY <1>1 DEF put_fifo
  <2> QED BY <2>1 DEF UartTypes, ReadsWhatArrived, RingChars
<1>2. CASE Room
  <2>t. /\ rx.buffer \in [0 .. RxSize - 1 -> RxChars] /\ c \in RxChars
        /\ rx.head \in 0 .. RxSize - 1 /\ rx.tail \in 0 .. RxSize - 1
        /\ rx.size \in Int /\ RxSize \in Nat \ {0}
    BY DEF UartTypes, RxChars
  <2>1. /\ rx'.buffer = [rx.buffer EXCEPT ![rx.tail] = c]
        /\ rx'.head = rx.head /\ rx'.tail = (rx.tail + 1) % RxSize
        /\ rx'.size = rx.size + 1
        /\ accepted' = Append(accepted, c)
        /\ UNCHANGED <<busy, upc, got>>
    <3>1. rx' = [rx EXCEPT !.buffer[rx.tail] = c, !.tail = (rx.tail + 1) % RxSize,
                           !.size = rx.size + 1]
      BY ONLY <1>2, put_fifo(c) DEF put_fifo
    <3>2. rx \in [buffer : [0 .. RxSize - 1 -> RxChars], head : 0 .. RxSize - 1,
                  tail : 0 .. RxSize - 1, size : Int]
      BY DEF UartTypes
    <3>3. accepted' = Append(accepted, c) /\ UNCHANGED <<busy, upc, got>>
      BY <1>2 DEF put_fifo
    <3> QED BY ONLY <3>1, <3>2, <3>3
  <2>2. (rx.tail + 1) % RxSize # rx.head
    BY <1>2 DEF Room
  <2>p. PutsLast(RxSize, rx.head, rx.tail, rx.buffer, c)
    BY ONLY <2>t, <2>2, RingPut
  <2>3. /\ RingOf([rx.buffer EXCEPT ![rx.tail] = c], rx.head,
                  Distance(rx.head, rx.tail, RxSize) + 1, RxSize)
             = Append(RingOf(rx.buffer, rx.head, Distance(rx.head, rx.tail, RxSize), RxSize), c)
        /\ (rx.tail + 1) % RxSize \in 0 .. RxSize - 1
        /\ Distance(rx.head, (rx.tail + 1) % RxSize, RxSize)
             = Distance(rx.head, rx.tail, RxSize) + 1
    BY ONLY <2>p DEF PutsLast
  <2>4. RingChars' = Append(RingChars, c)
    BY ONLY <2>1, <2>3, RxRing, rx.size = Distance(rx.head, rx.tail, RxSize)
  <2>5. RingChars \in Seq(RxChars)
    <3>1. /\ rx.size \in 0 .. RxSize - 1
          /\ Filled(rx.buffer, rx.head, rx.size, RxSize, RxChars)
      <4>1. ASSUME NEW k \in 1 .. Distance(rx.head, rx.tail, RxSize)
            PROVE  (rx.head + k - 1) % RxSize \in 0 .. RxSize - 1
        BY ONLY <2>t, RingSlots
      <4> QED BY <2>t, <4>1 DEF Filled, Distance
    <3> QED BY ONLY <2>t, <3>1, RingSeq, RxRing
  <2>6. ReadsWhatArrived'
    <3>1. got \in Seq(RxChars) /\ got \o RingChars = accepted
      BY DEF UartTypes, ReadsWhatArrived
    <3>2. got \o Append(RingChars, c) = Append(got \o RingChars, c)
      <4>1. got \in Seq(RxChars) /\ c \in RxChars
        BY ONLY <2>t, <3>1
      <4> QED BY ONLY <4>1, <2>5, AppendedToBoth
    <3> QED BY <2>1, <2>4, <3>1, <3>2 DEF ReadsWhatArrived
  <2>7. UartTypes'
    <3>1. rx' = [rx EXCEPT !.buffer[rx.tail] = c, !.tail = (@ + 1) % RxSize, !.size = @ + 1]
      BY <1>2 DEF put_fifo
    <3>2. [rx.buffer EXCEPT ![rx.tail] = c] \in [0 .. RxSize - 1 -> RxChars]
      BY ONLY <2>t
    <3>3. rx' \in [buffer : [0 .. RxSize - 1 -> RxChars], head : 0 .. RxSize - 1,
                   tail : 0 .. RxSize - 1, size : Int]
      <4> DEFINE b == [rx.buffer EXCEPT ![rx.tail] = c]
                 e == (rx.tail + 1) % RxSize
      <4>1. rx' = [buffer |-> b, head |-> rx.head, tail |-> e, size |-> rx.size + 1]
        BY <3>1 DEF UartTypes
      <4>2. b \in [0 .. RxSize - 1 -> RxChars] /\ e \in 0 .. RxSize - 1
        BY <2>3, <3>2
      <4> HIDE DEF b, e
      <4> QED BY <2>t, <4>1, <4>2
    <3>4. accepted' \in Seq(RxChars)
      BY <2>t, <2>1 DEF UartTypes
    <3> QED BY <2>1, <3>3, <3>4 DEF UartTypes
  <2>8. \A t \in UTask : upc[t] = "get" => rx'.head # rx'.tail
    BY <2>1, <2>2, <2>3, <2>t DEF Distance
  <2>9. rx'.size = Distance(rx'.head, rx'.tail, RxSize)
    BY <2>1, <2>3
  <2> QED BY <2>1, <2>6, <2>7, <2>8, <2>9
<1> QED BY <1>1, <1>2

(* The reader.                                                              *)
LEMMA GetKeeps ==
  ASSUME UartInv, NEW t \in UTask, get_fifo(t)
  PROVE  UartInv'
<1> USE UartAssumption DEF UartInv
<1>1. upc[t] = "get" /\ rx.head # rx.tail
  BY DEF get_fifo
<1>t. /\ rx.buffer \in [0 .. RxSize - 1 -> RxChars]
      /\ rx.head \in 0 .. RxSize - 1 /\ rx.tail \in 0 .. RxSize - 1
      /\ rx.size \in Int /\ RxSize \in Nat \ {0}
  BY DEF UartTypes
<1>2. /\ got' = Append(got, rx.buffer[rx.head])
      /\ rx' = [rx EXCEPT !.head = (@ + 1) % RxSize, !.size = @ - 1]
      /\ UNCHANGED <<busy, accepted>>
  BY <1>1 DEF get_fifo
<1>3. /\ rx'.buffer = rx.buffer /\ rx'.tail = rx.tail
      /\ rx'.head = (rx.head + 1) % RxSize /\ rx'.size = rx.size - 1
  BY <1>2 DEF UartTypes
<1>4. /\ upc' \in [UTask -> {"away", "owner", "wait", "get"}]
      /\ upc'[t] \in {"owner", "wait"} /\ \A u \in UTask : u # t => upc'[u] = upc[u]
  BY DEF get_fifo, UartTypes
<1>5. \A u \in UTask : u # t => upc[u] = "away"
  BY <1>1
<1>6. /\ RingChars = <<rx.buffer[rx.head]>> \o RingChars'
      /\ RingChars' \in Seq(RxChars)
      /\ rx'.head \in 0 .. RxSize - 1
      /\ Distance(rx'.head, rx'.tail, RxSize) = rx'.size
  <2>1. rx.size = Distance(rx.head, rx.tail, RxSize)
    OBVIOUS
  <2> DEFINE s == Distance(rx.head, rx.tail, RxSize)
             g == (rx.head + 1) % RxSize
  <2>2. /\ RingOf(rx.buffer, rx.head, s, RxSize)
             = <<rx.buffer[rx.head]>> \o RingOf(rx.buffer, g, s - 1, RxSize)
        /\ RingOf(rx.buffer, g, s - 1, RxSize) \in Seq(RxChars)
        /\ g \in 0 .. RxSize - 1
        /\ Distance(g, rx.tail, RxSize) = s - 1
    <3>1. TakesFirst(RxChars, RxSize, rx.head, rx.tail, rx.buffer)
      BY ONLY <1>t, <1>1, RingGet
    <3> QED BY ONLY <3>1 DEF TakesFirst
  <2> HIDE DEF s, g
  <2>3. rx.size = s /\ rx'.head = g
    BY <1>3, <2>1 DEF s, g
  <2> QED BY ONLY <1>3, <2>2, <2>3, RxRing
<1>7. ReadsWhatArrived'
  <2>1. got \in Seq(RxChars) /\ rx.buffer[rx.head] \in RxChars
    BY <1>t DEF UartTypes
  <2>2. Append(got, rx.buffer[rx.head]) \o RingChars'
          = got \o (<<rx.buffer[rx.head]>> \o RingChars')
    <3> DEFINE d == rx.buffer[rx.head]
               R == RingChars'
    <3>1. d \in RxChars /\ R \in Seq(RxChars)
      BY <1>6, <2>1
    <3> HIDE DEF d, R
    <3>2. Append(got, d) \o R = got \o (<<d>> \o R)
      BY ONLY <2>1, <3>1
    <3> QED BY <3>2 DEF d, R
  <2> QED BY <1>2, <1>6, <2>2 DEF ReadsWhatArrived
<1>8. UartTypes'
  <2>1. rx' \in [buffer : [0 .. RxSize - 1 -> RxChars], head : 0 .. RxSize - 1,
                 tail : 0 .. RxSize - 1, size : Int]
    <3> DEFINE g == (rx.head + 1) % RxSize
    <3>1. rx' = [buffer |-> rx.buffer, head |-> g, tail |-> rx.tail, size |-> rx.size - 1]
      BY <1>2 DEF UartTypes
    <3>2. g \in 0 .. RxSize - 1
      BY <1>3, <1>6
    <3> HIDE DEF g
    <3> QED BY <1>t, <3>1, <3>2
  <2>2. got' \in Seq(RxChars)
    BY <1>t, <1>2 DEF UartTypes
  <2> QED BY <1>2, <1>4, <2>1, <2>2 DEF UartTypes
<1> QED BY <1>1, <1>2, <1>4, <1>5, <1>6, <1>7, <1>8

LEMMA UartNextInv ==
  ASSUME ReadersOpen, UartInv, [UartNext]_uartVars
  PROVE  UartInv'
<1> USE DEF UartInv
<1>1. ASSUME NEW c \in Char, put_fifo(c)
      PROVE  UartInv'
  BY <1>1, PutKeeps
<1>2. ASSUME NEW t \in UTask, get_fifo(t)
      PROVE  UartInv'
  BY <1>2, GetKeeps
<1>s. ASSUME UNCHANGED <<rx, accepted, got>>
      PROVE  /\ ReadsWhatArrived' /\ rx'.size = Distance(rx'.head, rx'.tail, RxSize)
             /\ upc' \in [UTask -> {"away", "owner", "wait", "get"}] => UartTypes'
  BY <1>s DEF UartTypes, ReadsWhatArrived, RingChars
<1>3. ASSUME NEW t \in UTask, uart_driver_open(t)
      PROVE  UartInv'
  <2>1. /\ upc' = IF busy THEN upc ELSE [upc EXCEPT ![t] = "owner"]
        /\ busy' = TRUE /\ UNCHANGED <<rx, accepted, got>>
    BY <1>3 DEF uart_driver_open
  <2>2. CASE busy
    BY <1>s, <2>1, <2>2 DEF UartTypes
  <2>3. CASE ~busy
    <3>1. \A u \in UTask : upc[u] = "away"
      BY <2>3
    <3>2. /\ upc' \in [UTask -> {"away", "owner", "wait", "get"}] /\ upc'[t] = "owner"
          /\ \A u \in UTask : u # t => upc'[u] = "away"
      BY <2>1, <2>3, <3>1 DEF UartTypes
    <3> QED BY <1>s, <2>1, <3>2
  <2> QED BY <2>2, <2>3
<1>4. ASSUME NEW t \in UTask, uart_driver_close(t)
      PROVE  UartInv'
  <2>1. /\ upc[t] = "owner" /\ upc' = [upc EXCEPT ![t] = "away"]
        /\ UNCHANGED <<rx, accepted, got>>
    BY <1>4 DEF uart_driver_close
  <2>2. /\ upc' \in [UTask -> {"away", "owner", "wait", "get"}]
        /\ \A u \in UTask : upc'[u] = "away"
    BY <2>1 DEF UartTypes
  <2> QED BY <1>s, <2>1, <2>2
<1>5. ASSUME NEW t \in UTask, ReadCalled(t) \/ AwaitsChar(t)
      PROVE  UartInv'
  <2>1. /\ upc[t] # "away"
        /\ \/ upc' = upc
           \/ upc' = [upc EXCEPT ![t] = "wait"]
           \/ upc' = [upc EXCEPT ![t] = "get"] /\ rx.head # rx.tail
        /\ UNCHANGED <<rx, busy, accepted, got>>
    BY <1>5 DEF ReadCalled, AwaitsChar
  <2>2. /\ upc' \in [UTask -> {"away", "owner", "wait", "get"}]
        /\ \A u \in UTask : u # t => upc'[u] = upc[u]
        /\ upc'[t] = "get" => rx.head # rx.tail
    BY <2>1 DEF UartTypes
  <2> QED BY <1>s, <2>1, <2>2
<1>6. CASE UNCHANGED uartVars
  BY <1>6 DEF uartVars, UartTypes, ReadsWhatArrived, RingChars
<1> QED BY <1>1, <1>2, <1>3, <1>4, <1>5, <1>6 DEF UartNext

(* What was read and what is in the ring is what the ring took, for every   *)
(* size of the ring, any number of tasks that open, read and close, and     *)
(* whatever the receive interrupt brings in between.                        *)
THEOREM NothingReadTwice ==
  ASSUME ReadersOpen
  PROVE  UartSpec => []ReadsWhatArrived
<1>1. UartInv /\ [UartNext]_uartVars => UartInv'
  BY UartNextInv
<1>2. UartInv => ReadsWhatArrived
  BY DEF UartInv
<1>3. UartInit => UartInv
  BY UartInitInv
<1> QED BY <1>1, <1>2, <1>3, PTL DEF UartSpec

-----------------------------------------------------------------------------
(* The address caches of the network nodes.                                 *)

(* Only a host gives its address away, and only its own.                    *)
FrameOk(f) ==
  /\ f.to \in Host /\ f.from \in Host
  /\ f.body.type = "ip" => f.body.dst \in {f.to, Broadcast}
  /\ f.body.type = "answer" => f.body.sender_pa \in Host /\ f.body.sender_ha = f.body.sender_pa

EthernetInv ==
  /\ arp_cache \in [Host -> [Entries -> [ip : Host \cup {NoHost}, mac : Host \cup {NoHost}]]]
  /\ arp_index \in [Host -> Entries]
  /\ \A f \in wire : FrameOk(f)
  /\ \A n \in Host, i \in Entries : arp_cache[n][i].mac = arp_cache[n][i].ip
  /\ \A n \in Host, i, j \in Entries :
       arp_cache[n][i].ip = arp_cache[n][j].ip /\ arp_cache[n][i].ip # NoHost => i = j

LEMMA EthernetInitInv == EthernetInit => EthernetInv
BY EthernetAssumption DEF EthernetInit, EthernetInv, Entries, NoHost

LEMMA EarliestHolds ==
  ASSUME NEW n \in Host, NEW ip, Holding(n, ip) # {}
  PROVE  /\ Earliest(Holding(n, ip)) \in Entries
         /\ arp_cache[n][Earliest(Holding(n, ip))].ip = ip
<1>1. Holding(n, ip) \subseteq Nat /\ Holding(n, ip) \subseteq Entries
  BY EthernetAssumption DEF Holding, Entries
<1>2. \E i \in Holding(n, ip) : \A j \in Holding(n, ip) : i <= j
  <2> DEFINE S == Holding(n, ip)
  <2> HIDE DEF S
  <2>1. S \subseteq Nat /\ S # {}
    BY <1>1 DEF S
  <2>2. PICK i \in S : \A j \in S : ~ (<<j, i>> \in OpToRel(<, Nat))
    BY <2>1, NatLessThanWellFounded, WFMin
  <2>3. ASSUME NEW j \in S, ~(i <= j)
        PROVE  FALSE
    <3>1. j \in Nat /\ i \in Nat /\ j < i
      BY <2>1, <2>3
    <3>2. <<j, i>> \in OpToRel(<, Nat)
      BY <3>1 DEF OpToRel
    <3> QED BY <2>2, <3>2
  <2> QED BY <2>3 DEF S
<1>3. Earliest(Holding(n, ip)) \in Holding(n, ip)
  BY <1>2 DEF Earliest
<1> QED BY <1>3 DEF Holding

(* The frames that go out are good when their body is and their receivers   *)
(* are the right ones.                                                      *)
LEMMA TransmitOk ==
  ASSUME \A f \in wire : FrameOk(f), NEW n \in Host, NEW mac \in Host \cup {Broadcast}, NEW body,
         Transmit(n, mac, body),
         body.type = "ip" => body.dst \in {mac, Broadcast},
         body.type = "answer" => body.sender_pa \in Host /\ body.sender_ha = body.sender_pa
  PROVE  \A f \in wire' : FrameOk(f)
<1> SUFFICES ASSUME NEW f \in wire', f \notin wire
             PROVE  FrameOk(f)
  OBVIOUS
<1>1. PICK to \in IF mac = Broadcast THEN Host \ {n} ELSE {mac} \ {n} :
        f = [to |-> to, mac |-> mac, from |-> n, body |-> body]
  BY DEF Transmit
<1>2. to \in Host /\ (mac # Broadcast => to = mac)
  BY <1>1
<1> QED BY <1>1, <1>2 DEF FrameOk

LEMMA SendKeeps ==
  ASSUME EthernetInv, NEW n \in Host, NEW ip \in (Host \cup {Broadcast}) \ {n}, eth_send(n, ip)
  PROVE  \A f \in wire' : FrameOk(f)
<1> USE DEF EthernetInv
<1>1. CASE ip = Broadcast
  BY <1>1, TransmitOk DEF eth_send, Ip
<1>2. CASE ip # Broadcast /\ Holding(n, ip) # {}
  <2>1. arp_cache[n][Earliest(Holding(n, ip))].mac = ip
    BY <1>2, EarliestHolds
  <2>2. Transmit(n, ip, Ip(ip))
    BY <1>2, <2>1 DEF eth_send
  <2> QED BY <1>2, <2>2, TransmitOk DEF Ip
<1>3. CASE ip # Broadcast /\ Holding(n, ip) = {}
  BY <1>3, TransmitOk DEF eth_send, Arp
<1> QED BY <1>1, <1>2, <1>3

LEMMA UpdateKeeps ==
  ASSUME EthernetInv, NEW n \in Host, NEW ip \in Host, arp_update(n, ip, ip), UNCHANGED wire
  PROVE  EthernetInv'
<1> USE DEF EthernetInv
<1>1. CASE Holding(n, ip) # {}
  <2> DEFINE e == Earliest(Holding(n, ip))
  <2>1. e \in Entries /\ arp_cache[n][e].ip = ip /\ arp_cache[n][e].mac = ip
    BY <1>1, EarliestHolds
  <2>2. arp_cache' = [arp_cache EXCEPT ![n][e].mac = ip] /\ UNCHANGED <<arp_index, wire>>
    BY <1>1 DEF arp_update
  <2> HIDE DEF e
  <2>3. arp_cache' = arp_cache
    <3> DEFINE Entry == [ip : Host \cup {NoHost}, mac : Host \cup {NoHost}]
               same == [arp_cache[n][e] EXCEPT !.mac = ip]
    <3>1. same = arp_cache[n][e]
      BY <2>1
    <3>2. arp_cache' = [arp_cache EXCEPT ![n] = [arp_cache[n] EXCEPT ![e] = same]]
      BY <2>2
    <3>3. arp_cache \in [Host -> [Entries -> Entry]]
      OBVIOUS
    <3> HIDE DEF Entry, same
    <3>4. [arp_cache[n] EXCEPT ![e] = arp_cache[n][e]] = arp_cache[n]
      BY ONLY <2>1, <3>3, n \in Host
    <3>5. [arp_cache EXCEPT ![n] = arp_cache[n]] = arp_cache
      BY ONLY <3>3, n \in Host
    <3> DEFINE row == [arp_cache[n] EXCEPT ![e] = arp_cache[n][e]]
    <3>6. arp_cache' = [arp_cache EXCEPT ![n] = row]
      BY ONLY <3>1, <3>2, Zenon
    <3> HIDE DEF row
    <3>7. row = arp_cache[n]
      BY ONLY <3>4 DEF row
    <3>8. arp_cache' = [arp_cache EXCEPT ![n] = arp_cache[n]]
      BY ONLY <3>6, <3>7, Zenon
    <3> QED BY ONLY <3>5, <3>8, Zenon
  <2>4. UNCHANGED <<arp_index, wire>>
    BY <2>2
  <2> QED BY ONLY EthernetInv, <2>3, <2>4
<1>2. CASE Holding(n, ip) = {}
  <2>1. \A i \in Entries : arp_cache[n][i].ip # ip
    BY <1>2 DEF Holding
  <2>2. arp_index[n] \in Entries /\ ip # NoHost
    BY EthernetAssumption DEF NoHost
  <2>3. /\ arp_cache' = [arp_cache EXCEPT ![n][arp_index[n]] = [ip |-> ip, mac |-> ip]]
        /\ arp_index' = [arp_index EXCEPT ![n] = (@ + 1) % CacheSize]
    BY <1>2 DEF arp_update
  <2>4. arp_index' \in [Host -> Entries]
    <3>1. (arp_index[n] + 1) % CacheSize \in Entries
      BY <2>2, EthernetAssumption DEF Entries
    <3> QED BY <2>3, <3>1
  <2> DEFINE Entry == [ip : Host \cup {NoHost}, mac : Host \cup {NoHost}]
             new == [ip |-> ip, mac |-> ip]
  <2>5. new \in Entry /\ new.ip = ip /\ new.mac = ip
    OBVIOUS
  <2>a. arp_cache \in [Host -> [Entries -> Entry]]
    OBVIOUS
  <2> HIDE DEF Entry, new
  <2>6. /\ arp_cache' \in [Host -> [Entries -> Entry]]
        /\ \A m \in Host, i \in Entries :
             arp_cache'[m][i] = IF m = n /\ i = arp_index[n] THEN new ELSE arp_cache[m][i]
    <3>1. arp_cache' = [arp_cache EXCEPT ![n] = [arp_cache[n] EXCEPT ![arp_index[n]] = new]]
      BY <2>3 DEF new
    <3>2. [arp_cache[n] EXCEPT ![arp_index[n]] = new] \in [Entries -> Entry]
      BY ONLY <2>5, <2>a, n \in Host
    <3> QED BY ONLY <2>2, <2>a, <3>1, <3>2, n \in Host
  <2>7. \A m \in Host, i \in Entries : arp_cache'[m][i].mac = arp_cache'[m][i].ip
    <3> TAKE m \in Host, i \in Entries
    <3>1. CASE m = n /\ i = arp_index[n]
      BY <2>5, <2>6, <3>1
    <3>2. CASE ~(m = n /\ i = arp_index[n])
      <4>1. arp_cache'[m][i] = arp_cache[m][i]
        BY <2>6, <3>2
      <4> QED BY <4>1
    <3> QED BY <3>1, <3>2
  <2>8. \A m \in Host, i, j \in Entries :
          arp_cache'[m][i].ip = arp_cache'[m][j].ip /\ arp_cache'[m][i].ip # NoHost => i = j
    <3> TAKE m \in Host, i, j \in Entries
    <3>1. CASE m # n
      <4>1. arp_cache'[m][i] = arp_cache[m][i] /\ arp_cache'[m][j] = arp_cache[m][j]
        BY <2>6, <3>1
      <4> QED BY <4>1
    <3>2. CASE m = n
      <4>1. /\ arp_cache'[n][i].ip = IF i = arp_index[n] THEN ip ELSE arp_cache[n][i].ip
            /\ arp_cache'[n][j].ip = IF j = arp_index[n] THEN ip ELSE arp_cache[n][j].ip
        BY <2>5, <2>6
      <4> QED BY <2>1, <3>2, <4>1
    <3> QED BY <3>1, <3>2
  <2>9. \A f \in wire' : FrameOk(f)'
    BY DEF FrameOk
  <2> QED BY <2>4, <2>6, <2>7, <2>8, <2>9 DEF Entry
<1> QED BY <1>1, <1>2

LEMMA EthernetNextInv == EthernetInv /\ [EthernetNext]_netVars => EthernetInv'
<1> SUFFICES ASSUME EthernetInv, [EthernetNext]_netVars
             PROVE  EthernetInv'
  OBVIOUS
<1> USE DEF EthernetInv
<1>w. ASSUME UNCHANGED <<arp_cache, arp_index>>, \A f \in wire' : FrameOk(f)
      PROVE  EthernetInv'
  BY <1>w
<1>1. ASSUME NEW n \in Senders, NEW ip \in (Host \cup {Broadcast}) \ {n}, eth_send(n, ip)
      PROVE  EthernetInv'
  <2>1. n \in Host
    BY EthernetAssumption
  <2> QED BY <1>1, <1>w, <2>1, SendKeeps DEF eth_send
<1>2. ASSUME NEW f \in wire, eth_recv(f)
      PROVE  EthernetInv'
  <2>f. f.to \in Host
    BY DEF FrameOk
  <2>1. CASE /\ f.body.type = "request"
             /\ Transmit(f.to, f.from, arp_reply(f.to, f)) /\ UNCHANGED <<arp_cache, arp_index>>
    <3>1. f.from \in Host
      BY DEF FrameOk
    <3> DEFINE body == arp_reply(f.to, f)
    <3>2. body.type = "answer" /\ body.sender_pa = f.to /\ body.sender_ha = f.to
      BY DEF arp_reply, Arp
    <3> HIDE DEF body
    <3>3. Transmit(f.to, f.from, body)
      BY <2>1 DEF body
    <3> QED BY <1>w, <2>1, <2>f, <3>1, <3>2, <3>3, TransmitOk
  <2>2. CASE /\ f.body.type = "answer" /\ UNCHANGED wire
             /\ arp_update(f.to, f.body.sender_pa, f.body.sender_ha)
    <3>1. f.body.sender_pa \in Host /\ f.body.sender_ha = f.body.sender_pa
      BY <2>2 DEF FrameOk
    <3> QED BY <2>2, <2>f, <3>1, UpdateKeeps
  <2> QED BY <1>2, <2>1, <2>2 DEF eth_recv
<1>3. ASSUME NEW f \in wire, Lose(f)
      PROVE  EthernetInv'
  BY <1>3, <1>w DEF Lose
<1>4. CASE UNCHANGED netVars
  BY <1>4, <1>w DEF netVars
<1> QED BY <1>1, <1>2, <1>3, <1>4 DEF EthernetNext

(* A packet for one host only goes to that host, and no address is in a     *)
(* cache twice: for any hosts and size of the cache, and whatever becomes   *)
(* of the frames.                                                           *)
THEOREM PacketsArrive == EthernetSpec => []PacketsGoToTheirHost
<1>1. EthernetInv => PacketsGoToTheirHost
  <2> SUFFICES ASSUME EthernetInv
               PROVE  PacketsGoToTheirHost
    OBVIOUS
  <2>1. \A f \in wire : f.body.type = "ip" => f.body.dst \in {f.to, Broadcast}
    BY DEF EthernetInv, FrameOk
  <2>2. ASSUME NEW n \in Host, NEW ip \in Host
        PROVE  Cardinality(Holding(n, ip)) <= 1
    <3>1. CASE Holding(n, ip) = {}
      BY <3>1, FS_EmptySet
    <3>2. CASE Holding(n, ip) # {}
      <4>1. PICK i \in Entries : i \in Holding(n, ip)
        BY <3>2 DEF Holding
      <4>2. ip # NoHost
        BY EthernetAssumption DEF NoHost
      <4>3. \A j \in Holding(n, ip) : j = i
        BY <4>1, <4>2 DEF Holding, EthernetInv
      <4>4. Holding(n, ip) = {i}
        BY <4>1, <4>3
      <4>5. Cardinality({i}) = 1
        BY FS_Singleton, Zenon
      <4> QED BY <4>4, <4>5
    <3> QED BY <3>1, <3>2
  <2> QED BY <2>1, <2>2 DEF PacketsGoToTheirHost
<1> QED BY <1>1, EthernetInitInv, EthernetNextInv, PTL DEF EthernetSpec

-----------------------------------------------------------------------------
(* The clock.                                                               *)

(* What the theorem asks of the target: no SysTick comes into a _read_us.   *)
ReadAtomic == ~SysTickInRead

UpTypes ==
  /\ hw \in Nat /\ lastTick \in Nat
  /\ tval2 \in Nat /\ tref \in 0 .. LowMod - 1
  /\ reading \in [by : Readers \cup {"nobody"},
                  at : {"done", "start", "low", "check", "carry", "store"},
                  hi : Nat, lo : 0 .. LowMod - 1, start : Nat, val : Nat]

(* The carries counted in software are those of the hardware up to the last *)
(* call, which is less than a turn of the hardware ago.                     *)
CarriesKnown ==
  "CNT" \in Readers =>
    /\ hw <= lastTick + SysTick
    /\ reading.at # "store" => lastTick <= Join(tval2, tref) /\ Join(tval2, tref) <= hw

(* What the next steps of the call will return was the time, or its low     *)
(* half was, at a moment of this call.                                      *)
ReadSoFar ==
  /\ reading.at # "done" => reading.start <= hw
  /\ reading.at = "low" => reading.hi <= HwHigh
  /\ reading.at = "check" =>
       \E s \in reading.start .. hw : reading.lo = s % LowMod /\ reading.hi <= s \div LowMod
  /\ LET between(time) == reading.start <= time /\ time <= hw /\ lastTick <= time
     IN /\ reading.at = "carry" => between(Join(tval2 + Carry(reading.lo), reading.lo))
        /\ reading.at = "store" => between(Join(tval2, reading.lo))

UpInv == UpTypes /\ CarriesKnown /\ ReadSoFar /\ ReadsTheTime

LEMMA HalvesJoin ==
  ASSUME NEW time \in Nat
  PROVE  /\ time \div LowMod \in Nat /\ time % LowMod \in 0 .. LowMod - 1
         /\ time = Join(time \div LowMod, time % LowMod)
BY UptimeAssumption DEF Join

LEMMA HighGrows ==
  ASSUME NEW s \in Nat, NEW time \in Nat, s <= time
  PROVE  s \div LowMod <= time \div LowMod
<1> DEFINE p == s \div LowMod
           q == time \div LowMod
<1>1. /\ s \in p * LowMod .. p * LowMod + LowMod - 1
      /\ time \in q * LowMod .. q * LowMod + LowMod - 1
      /\ p \in Nat /\ q \in Nat /\ LowMod \in Nat \ {0}
  <2>1. p \in Nat /\ s % LowMod \in 0 .. LowMod - 1 /\ s = p * LowMod + (s % LowMod)
    BY HalvesJoin DEF Join
  <2>2. q \in Nat /\ time % LowMod \in 0 .. LowMod - 1 /\ time = q * LowMod + (time % LowMod)
    BY HalvesJoin DEF Join
  <2> HIDE DEF p, q
  <2>3. p * LowMod \in Nat /\ q * LowMod \in Nat
    BY <2>1, <2>2, UptimeAssumption
  <2> QED BY <2>1, <2>2, <2>3, UptimeAssumption
<1> HIDE DEF p, q
<1>2. ASSUME p >= q + 1
      PROVE  FALSE
  <2>1. p * LowMod >= (q + 1) * LowMod
    BY <1>1, <1>2
  <2>2. (q + 1) * LowMod = q * LowMod + LowMod
    BY <1>1
  <2> QED BY <1>1, <2>1, <2>2
<1>3. p <= q
  BY <1>1, <1>2
<1> QED BY <1>3 DEF p, q

(* A wrap of the hardware since the last call shows in its count, as there  *)
(* was at most one.                                                         *)
LEMMA CarryIsExact ==
  ASSUME UpTypes, Join(tval2, tref) <= hw, hw < Join(tval2, tref) + LowMod
  PROVE  Join(tval2 + Carry(HwLow), HwLow) = hw
<1> DEFINE q == HwHigh
           lo == HwLow
           d == q - tval2
<1>1. /\ q \in Nat /\ lo \in 0 .. LowMod - 1 /\ hw = q * LowMod + lo
      /\ tval2 \in Nat /\ tref \in 0 .. LowMod - 1 /\ LowMod \in Nat \ {0}
  BY HalvesJoin, UptimeAssumption DEF UpTypes, Join, HwHigh, HwLow
<1>2. d \in Int /\ q = tval2 + d
  BY <1>1
<1> HIDE DEF q, lo, d
<1>3. q * LowMod = tval2 * LowMod + d * LowMod
  BY <1>1, <1>2
<1>4. 0 <= d * LowMod + lo - tref /\ d * LowMod + lo - tref < LowMod
  <2>1. d * LowMod \in Int /\ tval2 * LowMod \in Int
    BY <1>1, <1>2
  <2> QED BY <1>1, <1>3, <2>1 DEF Join
<1>5. d \in {0, 1}
  <2>1. d * LowMod < 2 * LowMod /\ -1 * LowMod < d * LowMod
    <3>1. d * LowMod \in Int
      BY <1>1, <1>2
    <3> QED BY <1>1, <1>4, <3>1
  <2>2. d < 2
    BY <1>1, <1>2, <2>1
  <2>3. -1 < d
    BY <1>1, <1>2, <2>1
  <2> QED BY <1>2, <2>2, <2>3
<1>6. d = IF lo < tref THEN 1 ELSE 0
  BY <1>1, <1>4, <1>5
<1>7. q = tval2 + Carry(lo)
  BY <1>2, <1>6 DEF Carry
<1> QED BY <1>1, <1>7 DEF Join, q, lo

LEMMA UpInitInv == UpInit => UpInv
<1> SUFFICES ASSUME UpInit
             PROVE  UpInv
  OBVIOUS
<1> USE UptimeAssumption DEF UpInit, NotReading
<1>1. UpTypes
  BY DEF UpTypes
<1>2. Join(tval2, tref) = 0
  BY DEF Join
<1>3. CarriesKnown /\ ReadsTheTime
  BY <1>2 DEF CarriesKnown, ReadsTheTime
<1>4. ReadSoFar
  BY DEF ReadSoFar
<1> QED BY <1>1, <1>3, <1>4 DEF UpInv

LEMMA JoinType ==
  ASSUME NEW hi \in Nat, NEW lo \in 0 .. LowMod - 1
  PROVE  Join(hi, lo) \in Nat
BY UptimeAssumption DEF Join

LEMMA HwRunsKeeps == UpInv /\ HwRuns => UpInv'
<1> SUFFICES ASSUME UpInv, HwRuns
             PROVE  UpInv'
  OBVIOUS
<1> USE DEF UpInv
<1>1. /\ hw' = hw + 1 /\ hw \in Nat /\ UNCHANGED <<reading, tval2, tref, lastTick>>
      /\ "CNT" \in Readers => hw - lastTick < SysTick
  BY DEF HwRuns, UpTypes
<1>2. UpTypes'
  BY <1>1 DEF UpTypes
<1>3. CarriesKnown'
  <2>1. Join(tval2, tref) \in Nat /\ lastTick \in Nat /\ SysTick \in Nat
    BY JoinType, UptimeAssumption DEF UpTypes
  <2>2. "CNT" \in Readers =>
          /\ hw + 1 <= lastTick + SysTick
          /\ reading.at # "store" => lastTick <= Join(tval2, tref) /\ Join(tval2, tref) <= hw + 1
    BY <1>1, <2>1 DEF CarriesKnown
  <2> QED BY <1>1, <2>2 DEF CarriesKnown
<1>4. ReadSoFar'
  <2>t. /\ reading.start \in Nat /\ reading.hi \in Nat /\ reading.lo \in 0 .. LowMod - 1
        /\ tval2 \in Nat /\ tval2 + Carry(reading.lo) \in Nat
    BY DEF UpTypes, Carry
  <2>1. reading'.at # "done" => reading'.start <= hw'
    BY <1>1, <2>t DEF ReadSoFar
  <2>2. reading'.at = "low" => reading'.hi <= HwHigh'
    <3>1. HwHigh <= HwHigh' /\ HwHigh \in Nat /\ HwHigh' \in Nat
      <4>1. hw \div LowMod <= hw' \div LowMod
        BY <1>1, HighGrows
      <4>2. hw \div LowMod \in Nat /\ hw' \div LowMod \in Nat
        BY <1>1, HalvesJoin
      <4> QED BY <4>1, <4>2 DEF HwHigh
    <3> QED BY <1>1, <2>t, <3>1 DEF ReadSoFar
  <2>3. reading'.at = "check" =>
          \E s \in reading'.start .. hw' : reading'.lo = s % LowMod /\ reading'.hi <= s \div LowMod
    <3>1. \A s \in reading.start .. hw : s \in reading.start .. hw + 1
      BY <1>1, <2>t
    <3> QED BY <1>1, <3>1 DEF ReadSoFar
  <2>4. ASSUME NEW time \in Nat, reading.start <= time /\ time <= hw /\ lastTick <= time
        PROVE  reading'.start <= time /\ time <= hw' /\ lastTick' <= time
    BY <1>1, <2>4
  <2>5. reading'.at = "carry" =>
          /\ reading'.start <= Join(tval2 + Carry(reading.lo), reading.lo)
          /\ Join(tval2 + Carry(reading.lo), reading.lo) <= hw'
          /\ lastTick' <= Join(tval2 + Carry(reading.lo), reading.lo)
    <3>1. Join(tval2 + Carry(reading.lo), reading.lo) \in Nat
      BY <2>t, JoinType
    <3> QED BY <1>1, <2>4, <3>1 DEF ReadSoFar
  <2>6. reading'.at = "store" =>
          /\ reading'.start <= Join(tval2, reading.lo)
          /\ Join(tval2, reading.lo) <= hw' /\ lastTick' <= Join(tval2, reading.lo)
    <3>1. Join(tval2, reading.lo) \in Nat
      BY <2>t, JoinType
    <3> QED BY <1>1, <2>4, <3>1 DEF ReadSoFar
  <2>7. Carry(reading.lo)' = Carry(reading.lo)
    BY <1>1 DEF Carry
  <2> QED BY <1>1, <2>1, <2>2, <2>3, <2>5, <2>6, <2>7 DEF ReadSoFar
<1>5. ReadsTheTime'
  <2>1. reading.start \in Nat /\ reading.val \in Nat
    BY DEF UpTypes
  <2> QED BY <1>1, <2>1 DEF ReadsTheTime
<1> QED BY <1>2, <1>3, <1>4, <1>5

(* A step of a call changes reading; what it leaves alone.                  *)
LEMMA ReadingStep ==
  ASSUME UpInv, UNCHANGED <<hw, lastTick>>, UpTypes',
         UNCHANGED <<tval2, tref>>, reading'.at # "store", reading.at # "store",
         ReadSoFar', ReadsTheTime'
  PROVE  UpInv'
BY DEF UpInv, CarriesKnown

LEMMA CallKeeps ==
  ASSUME UpInv, NEW by \in Readers, Call(by)
  PROVE  UpInv'
<1> USE DEF UpInv
<1>1. /\ reading' = [by |-> by, at |-> "start", hi |-> 0, lo |-> 0, start |-> hw, val |-> 0]
      /\ reading.at = "done" /\ hw \in Nat
      /\ UNCHANGED <<hw, tval2, tref, lastTick>>
  BY DEF Call, UpTypes, NotReading
<1>2. UpTypes'
  BY <1>1, UptimeAssumption DEF UpTypes
<1>3. ReadSoFar' /\ ReadsTheTime'
  BY <1>1 DEF ReadSoFar, ReadsTheTime
<1> QED BY <1>1, <1>2, <1>3, ReadingStep

LEMMA MtimeKeeps == UpInv /\ mtime_r => UpInv'
<1> SUFFICES ASSUME UpInv, mtime_r
             PROVE  UpInv'
  OBVIOUS
<1> USE DEF UpInv
<1>t. /\ hw \in Nat /\ reading.hi \in Nat /\ reading.lo \in 0 .. LowMod - 1
      /\ reading.start \in Nat
      /\ HwHigh \in Nat /\ HwLow \in 0 .. LowMod - 1
  BY HalvesJoin DEF UpTypes, HwHigh, HwLow
<1>u. UNCHANGED <<hw, tval2, tref, lastTick>> /\ HwHigh' = HwHigh /\ HwLow' = HwLow
  BY DEF mtime_r, Reads, HwHigh, HwLow
<1>1. CASE Reads("mtime_r", "start", [reading EXCEPT !.at = "low", !.hi = HwHigh])
  <2> DEFINE high == HwHigh
  <2>1. reading.at = "start" /\ reading' = [reading EXCEPT !.at = "low", !.hi = high]
    BY <1>1 DEF Reads
  <2>2. high \in Nat /\ high = HwHigh
    BY <1>t
  <2> HIDE DEF high
  <2>3. UpTypes'
    BY <1>u, <2>1, <2>2 DEF UpTypes
  <2>4. ReadSoFar' /\ ReadsTheTime'
    BY <1>t, <1>u, <2>1, <2>2 DEF ReadSoFar, ReadsTheTime, UpTypes
  <2> QED BY <1>u, <2>1, <2>3, <2>4, ReadingStep DEF UpTypes
<1>2. CASE Reads("mtime_r", "low", [reading EXCEPT !.at = "check", !.lo = HwLow])
  <2> DEFINE low == HwLow
  <2>1. reading.at = "low" /\ reading' = [reading EXCEPT !.at = "check", !.lo = low]
    BY <1>2 DEF Reads
  <2>2. low \in 0 .. LowMod - 1 /\ low = hw % LowMod
    BY <1>t DEF HwLow
  <2> HIDE DEF low
  <2>3. UpTypes'
    BY <1>u, <2>1, <2>2 DEF UpTypes
  <2>4. /\ reading'.at = "check" /\ reading'.start = reading.start
        /\ reading'.lo = low /\ reading'.hi = reading.hi
    BY <2>1 DEF UpTypes
  <2>5. /\ hw \in reading'.start .. hw' /\ reading'.lo = hw % LowMod
        /\ reading'.hi <= hw \div LowMod
    BY <1>t, <1>u, <2>1, <2>2, <2>4 DEF ReadSoFar, HwHigh
  <2>6. ReadSoFar' /\ ReadsTheTime'
    BY <1>t, <1>u, <2>4, <2>5 DEF ReadSoFar, ReadsTheTime
  <2> QED BY <1>u, <2>1, <2>3, <2>4, <2>6, ReadingStep
<1>3. CASE Reads("mtime_r", "check", CheckHigh(reading))
  <2>1. reading.at = "check" /\ reading' = CheckHigh(reading)
    BY <1>3 DEF Reads
  <2>2. PICK s \in reading.start .. hw :
          reading.lo = s % LowMod /\ reading.hi <= s \div LowMod
    BY <2>1 DEF ReadSoFar
  <2>3. CASE reading.hi = HwHigh
    <3> DEFINE val == Join(reading.hi, reading.lo)
    <3>1. reading' = [reading EXCEPT !.at = "done", !.val = val]
      BY <2>1, <2>3 DEF CheckHigh, Returns
    <3>2. s \in Nat /\ s <= hw
      BY <1>t, <2>2
    <3>3. s \div LowMod <= hw \div LowMod /\ s \div LowMod \in Nat
      BY <1>t, <3>2, HighGrows, HalvesJoin
    <3>4. s \div LowMod = reading.hi
      BY <1>t, <2>2, <2>3, <3>3 DEF HwHigh
    <3>5. val = s
      BY <2>2, <3>2, <3>4, HalvesJoin
    <3> HIDE DEF val
    <3>6. /\ reading'.at = "done" /\ reading'.start = reading.start /\ reading'.val = s
      BY <3>1, <3>5 DEF UpTypes
    <3>7. UpTypes'
      BY <1>u, <3>1, <3>2, <3>5 DEF UpTypes
    <3>8. ReadSoFar' /\ ReadsTheTime'
      BY <1>t, <1>u, <2>2, <3>2, <3>6 DEF ReadSoFar, ReadsTheTime
    <3> QED BY <1>u, <2>1, <3>6, <3>7, <3>8, ReadingStep
  <2>4. CASE reading.hi # HwHigh
    <3>1. reading' = [reading EXCEPT !.at = "start"]
      BY <2>1, <2>4 DEF CheckHigh
    <3>2. UpTypes'
      BY <1>u, <3>1 DEF UpTypes
    <3>3. ReadSoFar' /\ ReadsTheTime'
      BY <1>t, <1>u, <2>1, <3>1 DEF ReadSoFar, ReadsTheTime, UpTypes
    <3> QED BY <1>u, <2>1, <3>1, <3>2, <3>3, ReadingStep DEF UpTypes
  <2> QED BY <2>3, <2>4
<1> QED BY <1>1, <1>2, <1>3 DEF mtime_r

LEMMA ReadUsKeeps == UpInv /\ _read_us => UpInv'
<1> SUFFICES ASSUME UpInv, _read_us
             PROVE  UpInv'
  OBVIOUS
<1> USE DEF UpInv
<1>t. /\ hw \in Nat /\ reading.lo \in 0 .. LowMod - 1 /\ reading.start \in Nat
      /\ tval2 \in Nat /\ tref \in 0 .. LowMod - 1 /\ lastTick \in Nat
      /\ HwLow \in 0 .. LowMod - 1
      /\ LowMod \in Nat \ {0} /\ SysTick \in 1 .. LowMod - 1
  BY HalvesJoin, UptimeAssumption DEF UpTypes, HwLow
<1>u. UNCHANGED <<hw, lastTick>>
  BY DEF _read_us, Reads
<1>1. CASE /\ Reads("CNT", "start", [reading EXCEPT !.at = "carry", !.lo = HwLow])
           /\ UNCHANGED <<tval2, tref>>
  <2> DEFINE low == HwLow
  <2>1. /\ reading.by = "CNT" /\ reading.at = "start"
        /\ reading' = [reading EXCEPT !.at = "carry", !.lo = low]
    BY <1>1 DEF Reads
  <2>2. low \in 0 .. LowMod - 1 /\ low = HwLow
    BY <1>t
  <2> HIDE DEF low
  <2>3. "CNT" \in Readers
    BY <2>1 DEF UpTypes
  <2>4. UpTypes'
    BY <1>1, <1>u, <2>1, <2>2 DEF UpTypes
  <2>5. /\ reading'.at = "carry" /\ reading'.start = reading.start /\ reading'.lo = low
    BY <2>1 DEF UpTypes
  <2>6. Join(tval2 + Carry(low), low) = hw
    <3>1. Join(tval2, tref) <= hw /\ lastTick <= Join(tval2, tref) /\ hw <= lastTick + SysTick
      BY <2>1, <2>3 DEF CarriesKnown
    <3>2. Join(tval2, tref) \in Nat
      BY <1>t, JoinType
    <3>3. hw < Join(tval2, tref) + LowMod
      BY <1>t, <3>1, <3>2
    <3> QED BY <2>2, <3>1, <3>3, CarryIsExact
  <2>7. lastTick <= hw
    <3>1. Join(tval2, tref) \in Nat
      BY <1>t, JoinType
    <3> QED BY <1>t, <2>1, <2>3, <3>1 DEF CarriesKnown
  <2>8. Carry(reading.lo)' = Carry(low)
    BY <1>1, <2>5 DEF Carry
  <2>9. ReadSoFar' /\ ReadsTheTime'
    <3>1. reading.start <= hw
      BY <2>1 DEF ReadSoFar
    <3>2. Join(tval2' + Carry(reading.lo)', reading'.lo) = hw
      BY <1>1, <2>5, <2>6, <2>8
    <3>3. reading'.start <= hw' /\ hw <= hw' /\ lastTick' <= hw
      BY <1>t, <1>u, <2>5, <2>7, <3>1
    <3> QED BY <1>t, <1>u, <2>5, <3>2, <3>3 DEF ReadSoFar, ReadsTheTime
  <2> QED BY <1>1, <1>u, <2>1, <2>4, <2>5, <2>9, ReadingStep
<1>2. CASE /\ Reads("CNT", "carry", [reading EXCEPT !.at = "store"])
           /\ tval2' = tval2 + Carry(reading.lo) /\ UNCHANGED tref
  <2>1. reading.at = "carry" /\ reading' = [reading EXCEPT !.at = "store"]
    BY <1>2 DEF Reads
  <2>2. tval2' \in Nat
    BY <1>2, <1>t DEF Carry
  <2>3. UpTypes'
    BY <1>2, <1>u, <2>1, <2>2 DEF UpTypes
  <2>4. reading'.at = "store" /\ reading'.start = reading.start /\ reading'.lo = reading.lo
    BY <2>1 DEF UpTypes
  <2>5. CarriesKnown'
    BY <1>u, <2>4 DEF CarriesKnown
  <2>6. Join(tval2, reading.lo)' = Join(tval2 + Carry(reading.lo), reading.lo)
    BY <1>2, <2>4
  <2>7. ReadSoFar' /\ ReadsTheTime'
    BY <1>u, <2>1, <2>4, <2>6 DEF ReadSoFar, ReadsTheTime
  <2> QED BY <2>3, <2>5, <2>7
<1>3. CASE /\ Reads("CNT", "store", Returns(reading, Join(tval2, reading.lo)))
           /\ tref' = reading.lo /\ UNCHANGED tval2
  <2> DEFINE val == Join(tval2, reading.lo)
  <2>1. reading.at = "store" /\ reading' = [reading EXCEPT !.at = "done", !.val = val]
    BY <1>3 DEF Reads, Returns
  <2>2. val \in Nat
    BY <1>t, JoinType
  <2>3. reading.start <= val /\ val <= hw /\ lastTick <= val
    BY <2>1 DEF ReadSoFar
  <2>4. Join(tval2, tref)' = val
    BY <1>3
  <2> HIDE DEF val
  <2>5. reading'.at = "done" /\ reading'.start = reading.start /\ reading'.val = val
    BY <2>1 DEF UpTypes
  <2>6. UpTypes'
    BY <1>3, <1>t, <1>u, <2>1, <2>2 DEF UpTypes
  <2>7. CarriesKnown'
    BY <1>u, <2>3, <2>4 DEF CarriesKnown
  <2>8. ReadSoFar' /\ ReadsTheTime'
    BY <1>u, <2>3, <2>5 DEF ReadSoFar, ReadsTheTime
  <2> QED BY <2>6, <2>7, <2>8
<1> QED BY <1>1, <1>2, <1>3 DEF _read_us

LEMMA SysTickKeeps == ReadAtomic /\ UpInv /\ SysTick_Handler => UpInv'
<1> SUFFICES ASSUME ReadAtomic, UpInv, SysTick_Handler
             PROVE  UpInv'
  OBVIOUS
<1> USE DEF UpInv
<1>1. /\ reading.at = "done" /\ "CNT" \in Readers
      /\ tval2' = tval2 + Carry(HwLow) /\ tref' = HwLow /\ lastTick' = hw
      /\ UNCHANGED <<hw, reading>>
  BY DEF SysTick_Handler, ReadAtomic
<1>t. /\ hw \in Nat /\ tval2 \in Nat /\ tref \in 0 .. LowMod - 1 /\ lastTick \in Nat
      /\ HwLow \in 0 .. LowMod - 1 /\ LowMod \in Nat \ {0} /\ SysTick \in 1 .. LowMod - 1
  BY HalvesJoin, UptimeAssumption DEF UpTypes, HwLow
<1>2. tval2' \in Nat
  BY <1>1, <1>t DEF Carry
<1>3. UpTypes'
  BY <1>1, <1>2, <1>t DEF UpTypes
<1>4. Join(tval2, tref)' = hw
  <2>1. Join(tval2, tref) <= hw /\ lastTick <= Join(tval2, tref) /\ hw <= lastTick + SysTick
    BY <1>1 DEF CarriesKnown
  <2>2. Join(tval2, tref) \in Nat
    BY <1>t, JoinType
  <2>3. hw < Join(tval2, tref) + LowMod
    BY <1>t, <2>1, <2>2
  <2> QED BY <1>1, <2>1, <2>3, CarryIsExact
<1>5. CarriesKnown'
  BY <1>1, <1>t, <1>4 DEF CarriesKnown
<1>6. ReadSoFar' /\ ReadsTheTime'
  BY <1>1 DEF ReadSoFar, ReadsTheTime
<1> QED BY <1>3, <1>5, <1>6

(* What a reader returns was the time at some moment of its call, for every *)
(* width of the counter and every pace of the SysTick that is below its     *)
(* period: the repeated high half and the carries counted in software are   *)
(* both enough, on a target where no SysTick interrupts _read_us.           *)
THEOREM TheTimeIsRead ==
  ASSUME ReadAtomic
  PROVE  UpSpec => []ReadsTheTime
<1>1. ASSUME UpInv, [UpNext]_upVars
      PROVE  UpInv'
  <2>1. CASE UNCHANGED upVars
    BY <1>1, <2>1 DEF upVars, UpInv, UpTypes, CarriesKnown, ReadSoFar, ReadsTheTime,
                      HwHigh, Carry
  <2>2. CASE HwRuns
    BY <1>1, <2>2, HwRunsKeeps
  <2>3. CASE mtime_r
    BY <1>1, <2>3, MtimeKeeps
  <2>4. CASE _read_us
    BY <1>1, <2>4, ReadUsKeeps
  <2>5. CASE SysTick_Handler
    BY <1>1, <2>5, SysTickKeeps
  <2>6. CASE \E by \in Readers : Call(by)
    BY <1>1, <2>6, CallKeeps
  <2> QED BY <1>1, <2>1, <2>2, <2>3, <2>4, <2>5, <2>6 DEF UpNext
<1>2. UpInv => ReadsTheTime
  BY DEF UpInv
<1>3. UpInv /\ [UpNext]_upVars => UpInv'
  BY <1>1
<1> QED BY <1>2, <1>3, UpInitInv, PTL DEF UpSpec

-----------------------------------------------------------------------------
(* The pipe.                                                                *)

(* What the theorem asks: the smearing of bits finds the power of two (TLC  *)
(* evaluates that for every size, MCServices!EverySizeRounds), and the bytes *)
(* sent are those that a char of the target returns as they are.            *)
RoundsUp == PipeSize = Asked
BytesFitChar == Byte \subseteq 0 .. CharMax /\ CharMax \in Nat

PipeInv ==
  /\ pipe \in [data : [0 .. PipeSize - 1 -> Octet], head : 0 .. PipeSize - 1,
               tail : 0 .. PipeSize - 1, size : Int, live : BOOLEAN]
  /\ pipe.size = Distance(pipe.head, pipe.tail, PipeSize)
  /\ PipeContents \in Seq(Byte)
  /\ \A t \in Task : call[t].op # "none" => pipe.live

LEMMA PipeRing ==
  /\ PipeContents = RingOf(pipe.data, pipe.head, pipe.size, PipeSize)
  /\ PipeContents' = RingOf(pipe'.data, pipe'.head, pipe'.size, PipeSize)
BY DEF PipeContents, RingOf, PipeWrap

LEMMA NoContents ==
  /\ pipe.size = 0 => PipeContents = << >>
  /\ pipe'.size = 0 => PipeContents' = << >>
<1>1. ASSUME NEW b, NEW h, NEW n
      PROVE  RingOf(b, h, 0, n) = << >>
  <2>1. RingOf(b, h, 0, n) \in [1 .. 0 -> {}]
    BY DEF RingOf
  <2> QED BY <2>1
<1> QED BY <1>1, PipeRing

LEMMA ContentsCount ==
  ASSUME PipeInv
  PROVE  /\ pipe.size \in 0 .. PipeSize - 1
         /\ Len(PipeContents) = pipe.size
         /\ PipeContents = << >> <=> Empty
         /\ pipe.size = PipeSize - 1 <=> Full
<1>t. /\ PipeSize \in Nat \ {0, 1}
      /\ pipe.head \in 0 .. PipeSize - 1 /\ pipe.tail \in 0 .. PipeSize - 1
      /\ pipe.size = Distance(pipe.head, pipe.tail, PipeSize)
  BY PipeAssumption DEF PipeInv
<1>1. pipe.size \in 0 .. PipeSize - 1 /\ (pipe.size = 0 <=> Empty)
  BY <1>t DEF Distance, Empty
<1>2. Len(PipeContents) = pipe.size
  BY <1>1 DEF PipeContents, PipeInv
<1>3. pipe.size = PipeSize - 1 <=> Full
  <2>1. pipe.tail + 1 \in 0 .. 2 * PipeSize - 1
    BY <1>t
  <2>2. (pipe.tail + 1) % PipeSize = Wrapped(pipe.tail + 1, PipeSize)
    BY ONLY <1>t, <2>1, WrapsOnce
  <2> QED BY <1>t, <2>2 DEF Full, PipeWrap, Wrapped, Distance
<1>4. PipeContents = << >> <=> pipe.size = 0
  BY <1>1, <1>2, NoContents DEF PipeInv
<1> QED BY <1>1, <1>2, <1>3, <1>4

LEMMA PipeInitInv == PipeInit => PipeInv /\ PF!Init
<1> SUFFICES ASSUME PipeInit
             PROVE  PipeInv /\ PF!Init
  OBVIOUS
<1>1. /\ pipe.size = 0 /\ pipe.head = 0 /\ pipe.tail = 0 /\ pipe.live = FALSE
      /\ \A t \in Task : call[t].op = "none"
      /\ pres = <<"none">>
  BY DEF PipeInit, Idle
<1>2. PipeContents = << >>
  BY <1>1, NoContents
<1>3. PipeSize \in Nat \ {0, 1}
  BY PipeAssumption
<1>4. pipe \in [data : [0 .. PipeSize - 1 -> Octet], head : 0 .. PipeSize - 1,
                tail : 0 .. PipeSize - 1, size : Int, live : BOOLEAN]
  <2> DEFINE data == [s \in 0 .. PipeSize - 1 |-> 0]
  <2>1. pipe = [data |-> data, head |-> 0, tail |-> 0, size |-> 0, live |-> FALSE]
    BY DEF PipeInit
  <2>2. data \in [0 .. PipeSize - 1 -> Octet]
    BY <1>3 DEF Octet
  <2> HIDE DEF data
  <2> QED BY <1>3, <2>1, <2>2
<1> QED BY <1>1, <1>2, <1>4 DEF PipeInv, Distance, PF!Init

(* A byte goes in.                                                          *)
LEMMA PutStep ==
  ASSUME RoundsUp, PipeInv, NEW t \in Task, Put(t)
  PROVE  PipeInv' /\ PF!Next
<1> USE DEF PipeInv
<1>l. pipe.live
  BY DEF Put
<1>t. /\ PipeSize \in Nat \ {0, 1}
      /\ pipe.data \in [0 .. PipeSize - 1 -> Octet]
      /\ pipe.head \in 0 .. PipeSize - 1 /\ pipe.tail \in 0 .. PipeSize - 1
      /\ pipe.size = Distance(pipe.head, pipe.tail, PipeSize)
      /\ PipeContents \in Seq(Byte)
  BY PipeAssumption
<1>c. /\ pipe.size \in 0 .. PipeSize - 1 /\ Len(PipeContents) = pipe.size
      /\ pipe.size = PipeSize - 1 <=> Full
  BY ContentsCount
<1>1. CASE Full
  <2>1. pipe' = pipe /\ pres' = <<"enqueue", "full">>
    BY <1>1 DEF Put
  <2>2. PipeContents' = PipeContents
    BY <2>1 DEF PipeContents
  <2>3. \A u \in Task : call'[u].op # "none" => pipe'.live
    BY <1>l, <2>1
  <2>4. PipeContents[1] \in Byte
    BY <1>t, <1>c, <1>1
  <2>5. ~(Len(PipeContents) < Asked - 1)
    BY <1>t, <1>c, <1>1 DEF RoundsUp
  <2>6. PF!Enqueue(PipeContents[1])
    BY <1>l, <2>1, <2>2, <2>5 DEF PF!Enqueue
  <2> QED BY <2>1, <2>2, <2>3, <2>4, <2>6 DEF PF!Next
<1>2. CASE ~Full
  <2>1. PICK byte \in Byte :
          /\ pipe' = [pipe EXCEPT !.data[pipe.tail] = byte,
                                  !.tail = PipeWrap(@ + 1), !.size = @ + 1]
          /\ pres' = <<"enqueue", "ok">>
    BY <1>2 DEF Put
  <2> DEFINE b == [pipe.data EXCEPT ![pipe.tail] = byte]
             e == (pipe.tail + 1) % PipeSize
  <2>2. pipe' = [data |-> b, head |-> pipe.head, tail |-> e, size |-> pipe.size + 1,
                 live |-> pipe.live]
    BY <2>1 DEF PipeWrap
  <2>3. byte \in Octet /\ e # pipe.head
    BY <1>2, PipeAssumption DEF Full, PipeWrap
  <2>4. b \in [0 .. PipeSize - 1 -> Octet]
    BY ONLY <1>t, <2>3
  <2>p. PutsLast(PipeSize, pipe.head, pipe.tail, pipe.data, byte)
    BY ONLY <1>t, <2>3, RingPut
  <2>5. /\ RingOf(b, pipe.head, pipe.size + 1, PipeSize)
             = Append(RingOf(pipe.data, pipe.head, pipe.size, PipeSize), byte)
        /\ e \in 0 .. PipeSize - 1
        /\ Distance(pipe.head, e, PipeSize) = pipe.size + 1
    BY ONLY <1>t, <2>p DEF PutsLast
  <2> HIDE DEF b, e
  <2>6. /\ pipe'.data = b /\ pipe'.head = pipe.head /\ pipe'.tail = e
        /\ pipe'.size = pipe.size + 1 /\ pipe'.live = pipe.live
    BY <2>2
  <2>7. PipeContents' = Append(PipeContents, byte)
    BY ONLY <2>5, <2>6, PipeRing
  <2>8. PipeContents' \in Seq(Byte)
    BY <1>t, <2>7
  <2>9. pipe' \in [data : [0 .. PipeSize - 1 -> Octet], head : 0 .. PipeSize - 1,
                   tail : 0 .. PipeSize - 1, size : Int, live : BOOLEAN]
    BY <1>l, <1>t, <1>c, <2>2, <2>4, <2>5
  <2>10. pipe'.live /\ pipe'.size = Distance(pipe'.head, pipe'.tail, PipeSize)
    BY <1>l, <2>5, <2>6
  <2>11. Len(PipeContents) < Asked - 1
    BY <1>t, <1>c, <1>2 DEF RoundsUp
  <2>12. PF!Enqueue(byte)
    BY <1>l, <2>1, <2>6, <2>7, <2>11 DEF PF!Enqueue
  <2> QED BY <2>8, <2>9, <2>10, <2>12 DEF PF!Next
<1> QED BY <1>1, <1>2

(* A byte comes out.                                                        *)
LEMMA GetStep ==
  ASSUME BytesFitChar, PipeInv, NEW t \in Task, Get(t)
  PROVE  PipeInv' /\ PF!Next
<1> USE DEF PipeInv
<1>l. pipe.live
  BY DEF Get
<1>t. /\ PipeSize \in Nat \ {0, 1}
      /\ pipe.data \in [0 .. PipeSize - 1 -> Octet]
      /\ pipe.head \in 0 .. PipeSize - 1 /\ pipe.tail \in 0 .. PipeSize - 1
      /\ pipe.size = Distance(pipe.head, pipe.tail, PipeSize)
      /\ PipeContents \in Seq(Byte)
  BY PipeAssumption
<1>c. /\ pipe.size \in 0 .. PipeSize - 1 /\ Len(PipeContents) = pipe.size
      /\ PipeContents = << >> <=> Empty
  BY ContentsCount
<1>1. CASE Empty
  <2>1. pipe' = pipe /\ pres' = <<"dequeue", NoByte>>
    BY <1>1 DEF Get
  <2>2. PipeContents' = PipeContents
    BY <2>1 DEF PipeContents
  <2>3. PF!Dequeue
    BY <1>c, <1>l, <1>1, <2>1, <2>2 DEF PF!Dequeue
  <2> QED BY <1>l, <2>1, <2>2, <2>3 DEF PF!Next
<1>2. CASE ~Empty
  <2> DEFINE byte == pipe.data[pipe.head]
             g == (pipe.head + 1) % PipeSize
  <2>1. /\ pipe' = [pipe EXCEPT !.head = PipeWrap(@ + 1), !.size = @ - 1]
        /\ pres' = <<"dequeue", AsInt(byte)>>
    BY <1>2 DEF Get
  <2>2. pipe' = [data |-> pipe.data, head |-> g, tail |-> pipe.tail, size |-> pipe.size - 1,
                 live |-> pipe.live]
    BY <2>1 DEF PipeWrap
  <2>n. pipe.head # pipe.tail
    BY <1>2 DEF Empty
  <2>p. TakesFirst(Octet, PipeSize, pipe.head, pipe.tail, pipe.data)
    BY ONLY <1>t, <2>n, RingGet
  <2>3. /\ RingOf(pipe.data, g, pipe.size - 1, PipeSize)
             = Tail(RingOf(pipe.data, pipe.head, pipe.size, PipeSize))
        /\ byte = Head(RingOf(pipe.data, pipe.head, pipe.size, PipeSize))
        /\ g \in 0 .. PipeSize - 1
        /\ Distance(g, pipe.tail, PipeSize) = pipe.size - 1
    BY ONLY <1>t, <2>p DEF TakesFirst
  <2> HIDE DEF byte, g
  <2>4. /\ pipe'.data = pipe.data /\ pipe'.head = g /\ pipe'.tail = pipe.tail
        /\ pipe'.size = pipe.size - 1 /\ pipe'.live = pipe.live
    BY <2>2
  <2>5. PipeContents' = Tail(PipeContents) /\ byte = Head(PipeContents)
    BY ONLY <2>3, <2>4, PipeRing
  <2>6. PipeContents # << >>
    BY <1>c, <1>2
  <2>7. PipeContents' \in Seq(Byte) /\ byte \in Byte
    BY <1>t, <2>5, <2>6
  <2>8. AsInt(byte) = byte
    <3>1. byte \in 0 .. CharMax /\ CharMax \in Nat
      BY <2>7 DEF BytesFitChar
    <3> QED BY ONLY <3>1 DEF AsInt
  <2>9. pipe' \in [data : [0 .. PipeSize - 1 -> Octet], head : 0 .. PipeSize - 1,
                   tail : 0 .. PipeSize - 1, size : Int, live : BOOLEAN]
    <3> DEFINE data == pipe.data
               count == pipe.size - 1
    <3>1. pipe' = [data |-> data, head |-> g, tail |-> pipe.tail, size |-> count,
                   live |-> pipe.live]
      BY <2>2
    <3>2. data \in [0 .. PipeSize - 1 -> Octet] /\ count \in Int
      BY <1>t, <1>c
    <3>3. pipe.live \in BOOLEAN
      OBVIOUS
    <3> HIDE DEF data, count
    <3> QED BY ONLY <1>t, <2>3, <3>1, <3>2, <3>3
  <2>10. pipe'.live /\ pipe'.size = Distance(pipe'.head, pipe'.tail, PipeSize)
    BY <1>l, <2>3, <2>4
  <2>11. PF!Dequeue
    BY <1>l, <2>1, <2>4, <2>5, <2>6, <2>8 DEF PF!Dequeue
  <2> QED BY <2>7, <2>9, <2>10, <2>11 DEF PF!Next
<1> QED BY <1>1, <1>2

LEMMA PipeStep ==
  ASSUME RoundsUp, BytesFitChar, PipeInv, [PipeNext]_pipeVars
  PROVE  PipeInv' /\ [PF!Next]_(PF!fifoVars)
<1> USE DEF PipeInv
<1>t. /\ PipeSize \in Nat \ {0, 1} /\ << >> \in Seq(Byte)
      /\ pipe.size = Distance(pipe.head, pipe.tail, PipeSize)
  BY PipeAssumption
<1>e. ASSUME pipe' = [pipe EXCEPT !.head = 0, !.tail = 0, !.size = 0, !.live = TRUE]
             \/ pipe' = [pipe EXCEPT !.head = 0, !.tail = 0, !.size = 0]
             \/ pipe' = [pipe EXCEPT !.live = FALSE, !.head = 0, !.tail = 0, !.size = 0],
             \A t \in Task : call'[t].op # "none" => pipe'.live
      PROVE  PipeInv' /\ PipeContents' = << >>
  <2>0. pipe \in [data : [0 .. PipeSize - 1 -> Octet], head : 0 .. PipeSize - 1,
                  tail : 0 .. PipeSize - 1, size : Int, live : BOOLEAN]
    OBVIOUS
  <2>1. \E l \in BOOLEAN :
          pipe' = [data |-> pipe.data, head |-> 0, tail |-> 0, size |-> 0, live |-> l]
    BY ONLY <1>e, <2>0
  <2>2. /\ pipe' \in [data : [0 .. PipeSize - 1 -> Octet], head : 0 .. PipeSize - 1,
                      tail : 0 .. PipeSize - 1, size : Int, live : BOOLEAN]
        /\ pipe'.head = 0 /\ pipe'.tail = 0 /\ pipe'.size = 0
    BY <1>t, <2>1
  <2>3. PipeContents' = << >>
    BY <2>2, NoContents
  <2> QED BY <1>e, <1>t, <2>2, <2>3 DEF Distance
<1>s. ASSUME pipe' = pipe, \A t \in Task : call'[t].op # "none" => pipe'.live
      PROVE  PipeInv' /\ PipeContents' = PipeContents
  <2>1. PipeContents' = PipeContents
    BY <1>s DEF PipeContents
  <2> QED BY <1>s, <2>1
<1>1. CASE ucx_pipe_create
  <2>1. CASE /\ pipe' = [pipe EXCEPT !.head = 0, !.tail = 0, !.size = 0, !.live = TRUE]
             /\ pres' = <<"create", "ok">>
    <3>1. pipe'.live
      BY <2>1
    <3>2. PipeInv' /\ PipeContents' = << >>
      BY <1>e, <2>1, <3>1
    <3>3. PF!Create
      BY <1>1, <2>1, <3>1, <3>2 DEF ucx_pipe_create, PF!Create
    <3> QED BY <3>2, <3>3 DEF PF!Next
  <2>2. CASE pipe' = pipe /\ pres' = <<"create", "no memory">>
    <3>1. PipeInv' /\ PipeContents' = PipeContents
      BY <1>1, <1>s, <2>2 DEF ucx_pipe_create
    <3>2. PF!Create
      BY <1>1, <2>2, <3>1 DEF ucx_pipe_create, PF!Create
    <3> QED BY <3>1, <3>2 DEF PF!Next
  <2> QED BY <1>1, <2>1, <2>2 DEF ucx_pipe_create
<1>2. CASE ucx_pipe_destroy
  <2>1. PipeInv' /\ PipeContents' = << >>
    BY <1>2, <1>e DEF ucx_pipe_destroy, Idle
  <2>2. PF!Discard
    BY <1>2, <2>1 DEF ucx_pipe_destroy, PF!Discard
  <2> QED BY <2>1, <2>2 DEF PF!Next
<1>3. CASE ucx_pipe_flush
  <2>1. pipe'.live = pipe.live
    BY <1>3 DEF ucx_pipe_flush
  <2>2. PipeInv' /\ PipeContents' = << >>
    BY <1>3, <1>e, <2>1 DEF ucx_pipe_flush
  <2>3. PF!Flush
    BY <1>3, <2>1, <2>2 DEF ucx_pipe_flush, PF!Flush
  <2> QED BY <2>2, <2>3 DEF PF!Next
<1>4. CASE ucx_pipe_size
  <2>1. PipeInv' /\ PipeContents' = PipeContents
    BY <1>4, <1>s DEF ucx_pipe_size
  <2>2. PF!Count
    BY <1>4, <2>1, ContentsCount DEF ucx_pipe_size, PF!Count
  <2> QED BY <2>1, <2>2 DEF PF!Next
<1>5. ASSUME NEW t \in Task, Get(t)
      PROVE  PipeInv' /\ PF!Next
  BY <1>5, GetStep
<1>6. ASSUME NEW t \in Task, Put(t)
      PROVE  PipeInv' /\ PF!Next
  BY <1>6, PutStep
<1>7. ASSUME NEW t \in Task, NEW op, Enter(t, op)
      PROVE  PipeInv' /\ UNCHANGED PF!fifoVars
  <2>1. PipeInv' /\ PipeContents' = PipeContents
    BY <1>7, <1>s DEF Enter
  <2> QED BY <1>7, <2>1 DEF Enter, PF!fifoVars
<1>8. CASE UNCHANGED pipeVars
  <2>1. PipeInv' /\ PipeContents' = PipeContents
    BY <1>8, <1>s DEF pipeVars
  <2> QED BY <1>8, <2>1 DEF pipeVars, PF!fifoVars
<1> QED BY <1>1, <1>2, <1>3, <1>4, <1>5, <1>6, <1>7, <1>8 DEF PipeNext, Move

(* A pipe is a bounded FIFO: whichever tasks read, write and flush, in      *)
(* calls that overlap byte by byte, and whatever the number of slots.       *)
THEOREM PipeIsABuffer ==
  ASSUME RoundsUp, BytesFitChar
  PROVE  PipeSpec => PipeIsFifo
<1>1. PipeInv /\ [PipeNext]_pipeVars => PipeInv' /\ [PF!Next]_(PF!fifoVars)
  BY PipeStep
<1> QED BY <1>1, PipeInitInv, PTL DEF PipeSpec, PipeIsFifo, PF!Spec

-----------------------------------------------------------------------------
(* The software timers.                                                     *)

(* Counters that wrap: the next one, and how far two are apart.             *)
LEMMA NextWraps ==
  ASSUME NEW n \in Nat \ {0}, NEW c \in Nat
  PROVE  c % n \in 0 .. n - 1 /\ (c + 1) % n = Wrapped((c % n) + 1, n)
<1> DEFINE q == c \div n
           r == c % n
           p == (c + 1) \div n
           s == (c + 1) % n
<1>1. /\ q \in Nat /\ r \in 0 .. n - 1 /\ c = n * q + r
      /\ p \in Nat /\ s \in 0 .. n - 1 /\ c + 1 = n * p + s
  OBVIOUS
<1> HIDE DEF q, r, p, s
<1>2. n * (p - q) = n * p - n * q /\ n * p \in Nat /\ n * q \in Nat
  BY <1>1
<1>3. n * (p - q) = r + 1 - s
  BY <1>1, <1>2
<1>4. p - q \in {0, 1}
  <2>1. p - q \in Int /\ n * (p - q) < n * 2 /\ n * (p - q) > n * (-1)
    BY <1>1, <1>3
  <2>2. p - q < 2
    BY <1>1, <2>1
  <2>3. p - q > -1
    BY <1>1, <2>1
  <2> QED BY <2>1, <2>2, <2>3
<1>5. s = Wrapped(r + 1, n)
  BY <1>1, <1>3, <1>4 DEF Wrapped
<1> QED BY <1>1, <1>5 DEF r, s

LEMMA ApartWraps ==
  ASSUME NEW n \in Nat \ {0}, NEW i \in 0 .. n - 1, NEW l \in 0 .. n - 1
  PROVE  (i - l) % n = Distance(l, i, n)
<1>1. CASE i >= l
  <2>1. i - l \in 0 .. 2 * n - 1 /\ i - l < n
    BY <1>1
  <2> QED BY <1>1, <2>1, WrapsOnce DEF Wrapped, Distance
<1>2. CASE i < l
  <2> DEFINE d == (i - l) \div n
             e == (i - l) % n
  <2>1. d \in Int /\ e \in 0 .. n - 1 /\ i - l = n * d + e
    OBVIOUS
  <2> HIDE DEF d, e
  <2>2. n * d < 0 /\ n * d > n * (-2)
    BY <1>2, <2>1
  <2>3. d < 0 /\ d > -2
    BY <2>1, <2>2
  <2>4. d = -1
    BY <2>1, <2>3
  <2>5. e = i - l + n
    BY <2>1, <2>4
  <2> QED BY <1>2, <2>5 DEF Distance, e
<1> QED BY <1>1, <1>2

(* The ticks since the last walk, at the handler and when time passes.      *)
LEMMA TicksApart ==
  ASSUME clock \in Nat, last_tick \in 0 .. TickMod - 1
  PROVE  /\ Ticks \in 0 .. TickMod - 1
         /\ TickDiff = Distance(last_tick, Ticks, TickMod)
         /\ TickDiff \in 0 .. TickMod - 1
<1>1. TickMod \in Nat \ {0}
  BY TimerAssumption
<1>2. Ticks \in 0 .. TickMod - 1
  BY <1>1, NextWraps DEF Ticks
<1>3. TickDiff = Distance(last_tick, Ticks, TickMod)
  BY <1>1, <1>2, ApartWraps DEF TickDiff
<1> QED BY <1>1, <1>2, <1>3 DEF Distance

LEMMA NoTicksYet ==
  ASSUME clock \in Nat, clock' = clock, last_tick' = Ticks
  PROVE  TickDiff' = 0
<1>1. TickMod \in Nat \ {0}
  BY TimerAssumption
<1>2. Ticks \in 0 .. TickMod - 1 /\ Ticks' = Ticks
  BY <1>1, NextWraps DEF Ticks
<1>3. TickDiff' = (Ticks - Ticks) % TickMod
  BY <1>2 DEF TickDiff
<1>4. TickDiff' = Distance(Ticks, Ticks, TickMod)
  BY <1>1, <1>2, <1>3, ApartWraps
<1> QED BY <1>2, <1>4 DEF Distance

LEMMA OneTickMore ==
  ASSUME clock \in Nat, last_tick \in 0 .. TickMod - 1, TickDiff < HandlerEvery,
         clock' = clock + 1, last_tick' = last_tick
  PROVE  TickDiff' = TickDiff + 1
<1>1. TickMod \in Nat \ {0} /\ HandlerEvery \in Nat /\ TickMod > HandlerEvery
  BY TimerAssumption
<1>2. /\ Ticks \in 0 .. TickMod - 1
      /\ TickDiff = Distance(last_tick, Ticks, TickMod)
  BY TicksApart
<1>3. Ticks' = Wrapped(Ticks + 1, TickMod) /\ Ticks' \in 0 .. TickMod - 1
  <2>1. Ticks' = (clock + 1) % TickMod
    BY DEF Ticks
  <2>2. Ticks' = Wrapped(Ticks + 1, TickMod)
    BY <1>1, <2>1, NextWraps DEF Ticks
  <2> QED BY <1>1, <1>2, <2>2 DEF Wrapped
<1>4. TickDiff' = (Ticks' - last_tick) % TickMod
  BY DEF TickDiff
<1>5. TickDiff' = Distance(last_tick, Ticks', TickMod)
  BY <1>1, <1>3, <1>4, ApartWraps
<1> QED BY <1>1, <1>2, <1>3, <1>5 DEF Distance, Wrapped

(* The inductive invariant.                                                 *)

(* The time up to which the handler of ticks has charged the countdowns, or *)
(* will have with the walk under way.                                       *)
Noted == IF last_tick = 0 THEN clock ELSE clock - TickDiff

Systick == handler = "systick"
InCallback(id) == walk.cb /\ walk.cur = id
Ahead(id) ==
  walk.cur # 0 /\ IF walk.cb THEN Place(id) > Place(walk.cur) ELSE Place(id) >= Place(walk.cur)

(* When the handler would call back at the earliest.                        *)
DueBy(id) ==
  IF Systick THEN Noted + timer[id].countdown - (IF Ahead(id) THEN walk.arg ELSE 0)
             ELSE timer[id].timecmp
DueAgain(id) == timer[id].time + (IF Systick THEN Noted ELSE timer[id].timecmp)

Kept(id) ==
  IF InCallback(id)
    THEN timer[id].mode = "AUTORELOAD" =>
           asked[id].mode = "AUTORELOAD" /\ asked[id].due - Early <= DueAgain(id)
    ELSE timer[id].mode # "DISABLED" =>
           asked[id].mode = timer[id].mode /\ asked[id].due - Early <= DueBy(id)

Mode == {"DISABLED", "ONESHOT", "AUTORELOAD"}
TimerTypes ==
  /\ handler \in {"systick", "uptime"}
  /\ clock \in Nat /\ last_tick \in 0 .. TickMod - 1
  /\ timer \in [Timers -> [mode : Mode, time : Nat, countdown : Int, timecmp : Int]]
  /\ asked \in [Timers -> [mode : Mode, due : Int]]
  /\ walk \in [cur : Timers \cup {0}, cb : BOOLEAN, arg : Nat]

(* A list names a timer once, and has the timers that run and the one the   *)
(* walk is at.                                                              *)
ListOk ==
  /\ timer_lst # NoLst => timer_lst \in Seq(Timers) /\ IsInjective(timer_lst)
  /\ timer_lst = NoLst => last_tick = 0
  /\ \A id \in Timers : timer[id].mode # "DISABLED" \/ walk.cur = id => Listed(id)
  /\ walk.cur = 0 => walk = Resting

InTime ==
  /\ Systick /\ last_tick # 0 => TickDiff <= HandlerEvery
  /\ Systick => walk.arg <= HandlerEvery
  /\ ~Systick => last_tick = 0 /\ walk.arg <= clock

TimerInv ==
  /\ TimerTypes /\ ListOk /\ InTime
  /\ \A id \in Timers : Kept(id)
-----------------------------------------------------------------------------
(* The list of timers.                                                      *)

PlaceIn(s, id) == CHOOSE k \in DOMAIN s : s[k] = id
NewPlace(k, gone) == IF k < gone THEN k ELSE k - 1

LEMMA PlaceIs ==
  ASSUME NEW s \in Seq(Timers), IsInjective(s)
  PROVE  /\ \A k \in 1 .. Len(s) : PlaceIn(s, s[k]) = k
         /\ \A id : Contains(s, id) =>
              PlaceIn(s, id) \in 1 .. Len(s) /\ s[PlaceIn(s, id)] = id
<1>1. \A k, l \in 1 .. Len(s) : s[k] = s[l] => k = l
  BY DEF IsInjective
<1>2. DOMAIN s = 1 .. Len(s)
  OBVIOUS
<1> QED BY <1>1, <1>2, Zenon DEF PlaceIn, Contains

LEMMA AppendedLast ==
  ASSUME NEW s \in Seq(Timers), IsInjective(s), NEW e \in Timers, ~Contains(s, e)
  PROVE  /\ Append(s, e) \in Seq(Timers) /\ IsInjective(Append(s, e))
         /\ \A id : Contains(Append(s, e), id) <=> Contains(s, id) \/ id = e
         /\ \A id : Contains(s, id) => PlaceIn(Append(s, e), id) = PlaceIn(s, id)
<1> DEFINE r == Append(s, e)
<1>1. /\ r \in Seq(Timers) /\ Len(r) = Len(s) + 1 /\ Len(s) \in Nat
      /\ \A k \in 1 .. Len(s) : r[k] = s[k]
      /\ r[Len(s) + 1] = e
  OBVIOUS
<1>2. \A k, l \in 1 .. Len(s) : s[k] = s[l] => k = l
  BY DEF IsInjective
<1>3. \A k \in 1 .. Len(s) : s[k] # e
  BY DEF Contains
<1> HIDE DEF r
<1>4. \A k \in 1 .. Len(r) : k \in 1 .. Len(s) \/ k = Len(s) + 1
  BY <1>1
<1>5. IsInjective(r)
  BY <1>1, <1>2, <1>3, <1>4 DEF IsInjective
<1>6. \A id : Contains(r, id) <=> Contains(s, id) \/ id = e
  <2>1. \A k \in 1 .. Len(s) : k \in 1 .. Len(r)
    BY <1>1
  <2>2. Len(s) + 1 \in 1 .. Len(r)
    BY <1>1
  <2> QED BY <1>1, <1>4, <2>1, <2>2 DEF Contains
<1>7. ASSUME NEW id, Contains(s, id)
      PROVE  PlaceIn(r, id) = PlaceIn(s, id)
  <2>1. PlaceIn(s, id) \in 1 .. Len(s) /\ s[PlaceIn(s, id)] = id
    BY <1>7, PlaceIs
  <2>2. PlaceIn(s, id) \in 1 .. Len(r) /\ r[PlaceIn(s, id)] = id
    BY <1>1, <2>1
  <2> QED BY <1>1, <1>5, <2>2, PlaceIs
<1> QED BY <1>1, <1>5, <1>6, <1>7 DEF r

LEMMA RemovedKeepsOrder ==
  ASSUME NEW s \in Seq(Timers), IsInjective(s), NEW e, Contains(s, e)
  PROVE  /\ RemoveFirst(s, e) \in Seq(Timers) /\ IsInjective(RemoveFirst(s, e))
         /\ \A id : Contains(RemoveFirst(s, e), id) <=> Contains(s, id) /\ id # e
         /\ \A id : Contains(s, id) /\ id # e =>
              PlaceIn(RemoveFirst(s, e), id) = NewPlace(PlaceIn(s, id), PlaceIn(s, e))
<1> DEFINE m == PlaceIn(s, e)
           r == RemoveFirst(s, e)
<1>1. m \in 1 .. Len(s) /\ s[m] = e /\ Len(s) \in Nat
  BY PlaceIs
<1>2. \A k, l \in 1 .. Len(s) : s[k] = s[l] => k = l
  BY DEF IsInjective
<1> HIDE DEF m
<1>3. SelectInSeq(s, LAMBDA v : v = e) = m
  <2> DEFINE I == {i \in 1 .. Len(s) : s[i] = e}
  <2>1. I = {m}
    BY <1>1, <1>2
  <2>2. Min({m}) = m
    BY <1>1 DEF Min
  <2>3. SelectInSeq(s, LAMBDA v : v = e) = IF I # {} THEN Min(I) ELSE 0
    BY DEF SelectInSeq
  <2> QED BY <2>1, <2>2, <2>3
<1>4. r = SubSeq(s, 1, m - 1) \o SubSeq(s, m + 1, Len(s))
  BY <1>1, <1>3 DEF RemoveFirst, RemoveAt
<1>5. /\ r \in Seq(Timers) /\ Len(r) = Len(s) - 1
      /\ \A k \in 1 .. Len(s) - 1 : r[k] = IF k < m THEN s[k] ELSE s[k + 1]
  <2> DEFINE a == SubSeq(s, 1, m - 1)
             b == SubSeq(s, m + 1, Len(s))
  <2>1. /\ a \in Seq(Timers) /\ Len(a) = m - 1
        /\ \A k \in 1 .. m - 1 : a[k] = s[k]
    BY <1>1
  <2>2. /\ b \in Seq(Timers) /\ Len(b) = Len(s) - m
        /\ \A k \in 1 .. Len(s) - m : b[k] = s[k + m]
    BY <1>1
  <2> HIDE DEF a, b
  <2>c. a \in Seq(Timers) /\ b \in Seq(Timers)
    BY <2>1, <2>2
  <2>3. /\ a \o b \in Seq(Timers) /\ Len(a \o b) = Len(a) + Len(b)
        /\ \A k \in 1 .. Len(a) + Len(b) :
             (a \o b)[k] = IF k <= Len(a) THEN a[k] ELSE b[k - Len(a)]
    BY ONLY <2>c
  <2>4. Len(a) + Len(b) = Len(s) - 1
    BY <1>1, <2>1, <2>2
  <2>5. ASSUME NEW k \in 1 .. Len(s) - 1
        PROVE  (a \o b)[k] = IF k < m THEN s[k] ELSE s[k + 1]
    <3>1. CASE k < m
      BY <1>1, <2>1, <2>3, <2>4, <3>1
    <3>2. CASE k >= m
      <4>1. k - (m - 1) \in 1 .. Len(s) - m /\ (k - (m - 1)) + m = k + 1 /\ ~(k <= m - 1)
        BY <1>1, <3>2
      <4>2. (a \o b)[k] = b[k - (m - 1)]
        BY <1>1, <2>1, <2>3, <2>4, <4>1
      <4>3. b[k - (m - 1)] = s[k + 1]
        BY <2>2, <4>1
      <4> QED BY <3>2, <4>2, <4>3, <1>1
    <3>3. k < m \/ k >= m
      BY <1>1
    <3> QED BY <3>1, <3>2, <3>3
  <2> QED BY <1>4, <2>3, <2>4, <2>5 DEF a, b
<1> HIDE DEF r
<1>6. ASSUME NEW k \in 1 .. Len(s), k # m
      PROVE  NewPlace(k, m) \in 1 .. Len(r) /\ r[NewPlace(k, m)] = s[k]
  <2>1. CASE k < m
    BY <1>1, <1>5, <2>1 DEF NewPlace
  <2>2. CASE k > m
    <3>1. /\ k - 1 \in 1 .. Len(s) - 1 /\ ~(k - 1 < m) /\ (k - 1) + 1 = k
          /\ NewPlace(k, m) = k - 1
      BY <1>1, <2>2 DEF NewPlace
    <3>2. r[k - 1] = s[(k - 1) + 1]
      BY <1>5, <3>1
    <3> QED BY <1>5, <3>1, <3>2
  <2> QED BY <1>1, <1>6, <2>1, <2>2
<1>7. ASSUME NEW k \in 1 .. Len(r)
      PROVE  \E l \in 1 .. Len(s) : l # m /\ k = NewPlace(l, m) /\ r[k] = s[l]
  <2> DEFINE l == IF k < m THEN k ELSE k + 1
  <2>1. l \in 1 .. Len(s) /\ l # m /\ k = NewPlace(l, m)
    BY <1>1, <1>5 DEF NewPlace
  <2>2. r[k] = s[l]
    BY <1>1, <1>5
  <2> QED BY <2>1, <2>2
<1>8. IsInjective(r)
  <2> SUFFICES ASSUME NEW i \in 1 .. Len(r), NEW j \in 1 .. Len(r), r[i] = r[j]
               PROVE  i = j
    BY <1>5 DEF IsInjective
  <2> QED BY <1>2, <1>7
<1>9. ASSUME NEW id
      PROVE  Contains(r, id) <=> Contains(s, id) /\ id # e
  <2>1. ASSUME NEW k \in 1 .. Len(r), r[k] = id
        PROVE  (\E i \in 1 .. Len(s) : s[i] = id) /\ id # e
    BY <1>1, <1>2, <1>7, <2>1
  <2>2. ASSUME NEW i \in 1 .. Len(s), s[i] = id, id # e
        PROVE  \E k \in 1 .. Len(r) : r[k] = id
    BY <1>1, <1>6, <2>2
  <2> QED BY <2>1, <2>2 DEF Contains
<1>10. ASSUME NEW id, Contains(s, id), id # e
       PROVE  PlaceIn(r, id) = NewPlace(PlaceIn(s, id), m)
  <2>1. PlaceIn(s, id) \in 1 .. Len(s) /\ s[PlaceIn(s, id)] = id
    BY <1>10, PlaceIs
  <2>2. PlaceIn(s, id) # m
    BY <1>1, <1>10, <2>1
  <2>3. NewPlace(PlaceIn(s, id), m) \in 1 .. Len(r) /\ r[NewPlace(PlaceIn(s, id), m)] = id
    BY <1>6, <2>1, <2>2
  <2> QED BY <1>5, <1>8, <2>3, PlaceIs
<1> QED BY <1>5, <1>8, <1>9, <1>10 DEF r, m

-----------------------------------------------------------------------------
LEMMA NotedIs ==
  ASSUME TimerTypes
  PROVE  Noted \in Int /\ Noted <= clock /\ TickDiff \in Nat /\ clock - TickDiff <= Noted
BY TicksApart DEF TimerTypes, Noted

LEMMA EarlyIs ==
  /\ Early \in Nat /\ HandlerEvery \in Nat
  /\ Systick => Early = 2 * HandlerEvery
  /\ ~Systick => Early = 0
BY TimerAssumption DEF Early, Systick

LEMMA DueTypes ==
  ASSUME TimerTypes, NEW id \in Timers
  PROVE  DueBy(id) \in Int /\ DueAgain(id) \in Int
<1>1. Noted \in Int
  BY NotedIs
<1>2. /\ timer[id].countdown \in Int /\ timer[id].timecmp \in Int /\ timer[id].time \in Nat
      /\ walk.arg \in Nat
  BY DEF TimerTypes
<1> QED BY <1>1, <1>2 DEF DueBy, DueAgain

LEMMA NotFarBehind ==
  ASSUME TimerInv, Systick
  PROVE  /\ clock \in Nat /\ Noted \in Int /\ clock - HandlerEvery <= Noted
         /\ walk.arg <= HandlerEvery
<1>1. clock \in Nat /\ TickDiff \in Nat /\ Noted \in Int
  BY NotedIs DEF TimerInv, TimerTypes
<1>2. /\ last_tick # 0 => TickDiff <= HandlerEvery
      /\ walk.arg <= HandlerEvery
  BY DEF TimerInv, InTime
<1>3. Noted = IF last_tick = 0 THEN clock ELSE clock - TickDiff
  BY DEF Noted
<1> QED BY <1>1, <1>2, <1>3, EarlyIs

(* A timer that a step leaves alone is kept: the handler comes to it no     *)
(* earlier than before.                                                     *)
LEMMA LeftAlone ==
  ASSUME TimerTypes, TimerTypes', handler' = handler,
         NEW id \in Timers, timer'[id] = timer[id], asked'[id] = asked[id],
         InCallback(id)' <=> InCallback(id),
         Systick => Noted' >= Noted,
         Systick => \/ Ahead(id)' => Ahead(id) /\ walk'.arg = walk.arg
                    \/ ~Ahead(id) /\ Noted' - walk'.arg >= Noted,
         Kept(id)
  PROVE  Kept(id)'
<1>1. /\ Noted \in Int /\ Noted' \in Int
      /\ timer[id].countdown \in Int /\ timer[id].timecmp \in Int /\ timer[id].time \in Nat
      /\ walk.arg \in Nat /\ walk'.arg \in Nat
  <2>1. Noted \in Int
    BY NotedIs
  <2>2. Noted' \in Int
    <3>1. clock' \in Nat /\ last_tick' \in 0 .. TickMod - 1
      BY DEF TimerTypes
    <3>2. TickMod \in Nat \ {0}
      BY TimerAssumption
    <3>3. Ticks' \in 0 .. TickMod - 1
      BY <3>1, <3>2, NextWraps DEF Ticks
    <3>4. TickDiff' \in Int
      BY <3>1, <3>2, <3>3 DEF TickDiff
    <3> QED BY <3>1, <3>4 DEF Noted
  <2> QED BY <2>1, <2>2 DEF TimerTypes
<1>2. DueAgain(id)' >= DueAgain(id) /\ DueAgain(id) \in Int /\ DueAgain(id)' \in Int
  BY <1>1 DEF DueAgain, Systick
<1>3. DueBy(id)' >= DueBy(id) /\ DueBy(id) \in Int /\ DueBy(id)' \in Int
  <2>1. CASE Systick
    <3>1. /\ DueBy(id) = Noted + timer[id].countdown - (IF Ahead(id) THEN walk.arg ELSE 0)
          /\ DueBy(id)' = Noted' + timer[id].countdown - (IF Ahead(id)' THEN walk'.arg ELSE 0)
      BY <2>1 DEF DueBy, Systick
    <3> HIDE DEF DueBy, Ahead, Noted
    <3> QED BY <1>1, <2>1, <3>1
  <2>2. CASE ~Systick
    BY <1>1, <2>2 DEF DueBy, Systick
  <2> QED BY <2>1, <2>2
<1>4. asked[id].due - Early \in Int /\ Early' = Early
  <2>1. asked[id].due \in Int
    BY DEF TimerTypes
  <2> QED BY <2>1, EarlyIs DEF Early
<1> HIDE DEF DueBy, DueAgain
<1>5. asked[id].due - Early <= DueBy(id) => asked[id].due - Early <= DueBy(id)'
  BY <1>3, <1>4
<1>6. asked[id].due - Early <= DueAgain(id) => asked[id].due - Early <= DueAgain(id)'
  BY <1>2, <1>4
<1> QED BY <1>4, <1>5, <1>6 DEF Kept

LEMMA TimerInitInv == TimerInit => TimerInv
<1> SUFFICES ASSUME TimerInit PROVE TimerInv
  OBVIOUS
<1>1. /\ clock = 0 /\ last_tick = 0 /\ timer_lst = NoLst /\ walk = Resting
      /\ handler \in {"systick", "uptime"}
      /\ \A id \in Timers : /\ timer[id] = [mode |-> "DISABLED", time |-> 0, countdown |-> 0, timecmp |-> 0]
                            /\ asked[id] = NotAsked
  BY TimerAssumption DEF TimerInit
<1>2. TimerTypes
  <2>1. walk \in [cur : Timers \cup {0}, cb : BOOLEAN, arg : Nat]
    BY <1>1 DEF Resting
  <2>2. timer \in [Timers -> [mode : Mode, time : Nat, countdown : Int, timecmp : Int]]
    BY DEF TimerInit, Mode
  <2>3. asked \in [Timers -> [mode : Mode, due : Int]]
    BY DEF TimerInit, NotAsked, Mode
  <2>4. 0 \in 0 .. TickMod - 1
    BY TimerAssumption
  <2> QED BY <1>1, <2>1, <2>2, <2>3, <2>4 DEF TimerTypes
<1>3. ListOk
  <2>1. walk.cur = 0
    BY <1>1 DEF Resting
  <2> QED BY <1>1, <2>1, TimerAssumption DEF ListOk
<1>4. InTime
  BY <1>1, TimerAssumption DEF InTime, Resting, TickDiff, Ticks
<1>5. \A id \in Timers : Kept(id)
  BY <1>1 DEF Kept, InCallback, Resting
<1> QED BY <1>2, <1>3, <1>4, <1>5 DEF TimerInv

LEMMA TimePassesKeeps ==
  ASSUME TimerInv, TimePasses
  PROVE  TimerInv'
<1>1. /\ clock' = clock + 1 /\ clock \in Nat
      /\ UNCHANGED <<handler, timer_lst, timer, last_tick, walk, asked>>
  BY DEF TimePasses, TimerInv, TimerTypes
<1>2. TimerTypes /\ TimerTypes'
  BY <1>1 DEF TimerInv, TimerTypes
<1>3. ListOk'
  BY <1>1 DEF TimerInv, ListOk, Listed
<1>4. Systick /\ last_tick # 0 => TickDiff < HandlerEvery /\ TickDiff' = TickDiff + 1
  <2> SUFFICES ASSUME Systick, last_tick # 0
               PROVE  TickDiff < HandlerEvery /\ TickDiff' = TickDiff + 1
    OBVIOUS
  <2>1. timer_lst # NoLst
    BY DEF TimerInv, ListOk
  <2>2. TickDiff < HandlerEvery
    BY <2>1 DEF TimePasses, Systick
  <2> QED BY <1>1, <1>2, <2>2, OneTickMore DEF TimerTypes
<1>5. Systick => Noted' >= Noted /\ (last_tick # 0 => TickDiff' <= HandlerEvery)
  <2>1. TickDiff \in Nat /\ HandlerEvery \in Nat
    BY <1>2, NotedIs, TimerAssumption
  <2> QED BY <1>1, <1>4, <2>1 DEF Noted
<1>6. InTime'
  <2>1. ~Systick => walk.arg <= clock + 1
    BY <1>1 DEF TimerInv, InTime, TimerTypes
  <2> QED BY <1>1, <1>5, <2>1 DEF TimerInv, InTime, Systick
<1>7. ASSUME NEW id \in Timers
      PROVE  Kept(id)'
  <2>1. /\ InCallback(id)' <=> InCallback(id)
        /\ Ahead(id)' <=> Ahead(id)
    BY <1>1 DEF InCallback, Ahead, Place
  <2>2. Kept(id)
    BY DEF TimerInv
  <2> QED BY <1>1, <1>2, <1>5, <2>1, <2>2, LeftAlone
<1> QED BY <1>2, <1>3, <1>6, <1>7 DEF TimerInv

-----------------------------------------------------------------------------
(* The list as the walk sees it.                                            *)

LEMMA ListFacts ==
  ASSUME TimerInv
  PROVE  \A id \in Timers : Listed(id) =>
           /\ timer_lst \in Seq(Timers) /\ IsInjective(timer_lst)
           /\ Contains(timer_lst, id)
           /\ Place(id) \in 1 .. Len(timer_lst) /\ timer_lst[Place(id)] = id
<1> SUFFICES ASSUME NEW id \in Timers, Listed(id)
             PROVE  /\ timer_lst \in Seq(Timers) /\ IsInjective(timer_lst)
                    /\ Contains(timer_lst, id)
                    /\ Place(id) \in 1 .. Len(timer_lst) /\ timer_lst[Place(id)] = id
  OBVIOUS
<1>1. /\ timer_lst \in Seq(Timers) /\ IsInjective(timer_lst) /\ Contains(timer_lst, id)
  BY DEF TimerInv, ListOk, Listed
<1>2. Place(id) = PlaceIn(timer_lst, id)
  BY DEF Place, PlaceIn
<1> QED BY <1>1, <1>2, PlaceIs

LEMMA WalkBegins ==
  ASSUME TimerInv, timer_lst # NoLst, NEW arg \in Nat, walk' = At(FirstTimer, arg)
  PROVE  /\ walk' \in [cur : Timers \cup {0}, cb : BOOLEAN, arg : Nat]
         /\ ~walk'.cb /\ walk'.arg <= arg
         /\ walk'.cur = 0 => walk' = Resting
         /\ \A id \in Timers : walk'.cur = id => Listed(id)
<1>1. timer_lst \in Seq(Timers)
  BY DEF TimerInv, ListOk
<1>2. CASE timer_lst = << >>
  <2>1. walk' = Resting
    BY <1>2 DEF At, FirstTimer
  <2> QED BY <2>1, TimerAssumption DEF Resting
<1>3. CASE timer_lst # << >>
  <2>1. FirstTimer = timer_lst[1] /\ timer_lst[1] \in Timers /\ 1 \in 1 .. Len(timer_lst)
    BY <1>1, <1>3 DEF FirstTimer
  <2>2. Listed(timer_lst[1]) /\ timer_lst[1] # 0
    BY <2>1, TimerAssumption DEF Listed, Contains
  <2> DEFINE first == timer_lst[1]
  <2>3. walk' = [cur |-> first, cb |-> FALSE, arg |-> arg]
    BY <2>1, <2>2 DEF At
  <2>4. first \in Timers /\ first # 0 /\ Listed(first) /\ arg <= arg
    BY <2>1, <2>2
  <2> HIDE DEF first
  <2> QED BY <2>3, <2>4
<1> QED BY <1>2, <1>3

LEMMA WalkGoesOn ==
  ASSUME TimerInv, walk.cur # 0, timer_lst' = timer_lst,
         walk' = At(NextTimer(walk.cur), walk.arg)
  PROVE  /\ walk' \in [cur : Timers \cup {0}, cb : BOOLEAN, arg : Nat]
         /\ ~walk'.cb /\ walk'.arg \in {0, walk.arg}
         /\ walk'.cur = 0 => walk' = Resting
         /\ \A id \in Timers : walk'.cur = id => Listed(id)
         /\ \A id \in Timers : Ahead(id)' =>
              walk'.arg = walk.arg /\ (Listed(id) => Place(id) > Place(walk.cur))
<1> DEFINE here == walk.cur
<1>1. here \in Timers /\ walk.arg \in Nat
  BY DEF TimerInv, TimerTypes
<1>2. Listed(here)
  BY <1>1 DEF TimerInv, ListOk
<1>3. /\ timer_lst \in Seq(Timers) /\ IsInjective(timer_lst)
      /\ Place(here) \in 1 .. Len(timer_lst) /\ Len(timer_lst) \in Nat
  BY <1>1, <1>2, ListFacts
<1>4. \A id : Place(id)' = Place(id)
  BY DEF Place
<1>5. CASE Place(here) = Len(timer_lst)
  <2>1. walk' = Resting
    BY <1>5 DEF At, NextTimer
  <2>2. \A id \in Timers : ~Ahead(id)'
    BY <2>1 DEF Ahead, Resting
  <2> QED BY <2>1, <2>2, TimerAssumption DEF Resting
<1>6. CASE Place(here) # Len(timer_lst)
  <2> DEFINE k == Place(here) + 1
             next == timer_lst[k]
  <2>1. k \in 1 .. Len(timer_lst) /\ next \in Timers /\ next # 0
    BY <1>3, <1>6, TimerAssumption
  <2>2. walk' = [cur |-> next, cb |-> FALSE, arg |-> walk.arg]
    BY <1>6, <2>1 DEF At, NextTimer
  <2>3. Place(next) = k /\ Listed(next)
    <3>1. PlaceIn(timer_lst, next) = k
      BY <1>3, <2>1, PlaceIs
    <3>2. Contains(timer_lst, next)
      BY <2>1 DEF Contains
    <3> QED BY <1>2, <3>1, <3>2 DEF Place, PlaceIn, Listed
  <2>4. \A id \in Timers : Ahead(id)' => Place(id) >= k
    BY <1>4, <2>2, <2>3 DEF Ahead
  <2>5. \A id \in Timers : Listed(id) /\ Place(id) >= k => Place(id) > Place(here)
    <3>1. \A id \in Timers : Listed(id) => Place(id) \in Nat
      BY ListFacts
    <3> QED BY <1>3, <3>1
  <2> HIDE DEF next, k
  <2> QED BY <1>1, <2>1, <2>2, <2>3, <2>4, <2>5
<1> QED BY <1>5, <1>6

(* timer_handler_systick *)
LEMMA SystickKeeps ==
  ASSUME TimerInv, timer_handler_systick
  PROVE  TimerInv'
<1>1. /\ Systick /\ walk = Resting /\ timer_lst # NoLst /\ last_tick' = Ticks
      /\ UNCHANGED <<handler, clock, timer_lst, timer, asked>>
  BY DEF timer_handler_systick, Systick
<1>2. /\ TimerTypes /\ Noted \in Int /\ Noted <= clock /\ TickDiff \in Nat /\ clock \in Nat
      /\ Ticks \in 0 .. TickMod - 1
  BY NotedIs, TicksApart DEF TimerInv, TimerTypes
<1>3. TickDiff' = 0 /\ Noted' = clock
  <2>1. TickDiff' = 0
    BY <1>1, <1>2, NoTicksYet
  <2> QED BY <1>1, <1>2, <2>1 DEF Noted
<1>4. /\ walk' \in [cur : Timers \cup {0}, cb : BOOLEAN, arg : Nat]
      /\ ~walk'.cb
      /\ walk'.cur = 0 => walk' = Resting
      /\ \A id \in Timers : walk'.cur = id => Listed(id)
      /\ walk'.arg <= clock - Noted /\ walk'.arg <= HandlerEvery
  <2>1. CASE last_tick = 0
    <3>1. walk' = Resting
      BY <1>1, <2>1 DEF timer_handler_systick
    <3> QED BY <1>2, <2>1, <3>1, EarlyIs, TimerAssumption DEF Resting, Noted
  <2>2. CASE last_tick # 0
    <3>1. walk' = At(FirstTimer, TickDiff) /\ clock - Noted = TickDiff
      BY <1>2, <2>2 DEF timer_handler_systick, Noted
    <3>2. TickDiff <= HandlerEvery
      BY <1>1, <2>2 DEF TimerInv, InTime
    <3>3. walk' \in [cur : Timers \cup {0}, cb : BOOLEAN, arg : Nat] /\ walk'.arg <= TickDiff
      BY <1>1, <1>2, <3>1, WalkBegins
    <3>4. walk'.arg \in Nat
      BY <3>3
    <3>5. walk'.arg <= HandlerEvery
      BY <1>2, <3>2, <3>3, <3>4, EarlyIs
    <3> QED BY <1>1, <1>2, <3>1, <3>5, WalkBegins
  <2> QED BY <2>1, <2>2
<1>5. TimerTypes'
  BY <1>1, <1>2, <1>4 DEF TimerTypes
<1>6. ListOk' /\ InTime'
  <2>1. ListOk'
    BY <1>1, <1>4 DEF TimerInv, ListOk, Listed
  <2> QED BY <1>1, <1>3, <1>4, <2>1, TimerAssumption DEF InTime, Systick
<1>7. ASSUME NEW id \in Timers
      PROVE  Kept(id)'
  <2>1. ~InCallback(id) /\ ~InCallback(id)' /\ ~Ahead(id)
    BY <1>1, <1>4 DEF InCallback, Ahead, Resting
  <2>2. Noted' >= Noted /\ Noted' - walk'.arg >= Noted
    <3>1. walk'.arg \in Nat
      BY <1>4
    <3> QED BY <1>2, <1>3, <1>4, <3>1
  <2> QED BY <1>1, <1>2, <1>5, <2>1, <2>2, LeftAlone DEF TimerInv
<1> QED BY <1>5, <1>6, <1>7 DEF TimerInv

LEMMA RestIsLess ==
  ASSUME NEW c \in Nat, NEW n \in Nat \ {0}
  PROVE  c % n \in Nat /\ c % n <= c
<1> DEFINE q == c \div n
           r == c % n
<1>1. q \in Nat /\ r \in Nat /\ c = n * q + r
  OBVIOUS
<1> HIDE DEF q, r
<1>2. n * q \in Nat
  BY <1>1
<1>3. r \in Nat /\ r <= c
  BY <1>1, <1>2
<1> QED BY <1>3 DEF r

(* timer_handler *)
LEMMA HandlerKeeps ==
  ASSUME TimerInv, timer_handler
  PROVE  TimerInv'
<1>1. /\ ~Systick /\ walk = Resting /\ timer_lst # NoLst
      /\ walk' = At(FirstTimer, AsArg(clock))
      /\ UNCHANGED <<handler, clock, timer_lst, timer, last_tick, asked>>
  BY DEF timer_handler, Systick
<1>2. TimerTypes /\ clock \in Nat /\ AsArg(clock) \in Nat /\ AsArg(clock) <= clock
  BY RestIsLess, TimerAssumption DEF TimerInv, TimerTypes, AsArg
<1>3. /\ walk' \in [cur : Timers \cup {0}, cb : BOOLEAN, arg : Nat]
      /\ ~walk'.cb /\ walk'.arg <= AsArg(clock)
      /\ walk'.cur = 0 => walk' = Resting
      /\ \A id \in Timers : walk'.cur = id => Listed(id)
  BY <1>1, <1>2, WalkBegins
<1>4. TimerTypes'
  BY <1>1, <1>2, <1>3 DEF TimerTypes
<1>5. walk'.arg <= clock
  <2>1. walk'.arg \in Nat
    BY <1>3
  <2> QED BY <1>2, <1>3, <2>1
<1>6. ListOk' /\ InTime'
  BY <1>1, <1>3, <1>5 DEF TimerInv, ListOk, Listed, InTime, Systick
<1>7. ASSUME NEW id \in Timers
      PROVE  Kept(id)'
  <2>1. ~InCallback(id) /\ ~InCallback(id)'
    BY <1>1, <1>3 DEF InCallback, Resting
  <2> QED BY <1>1, <1>2, <1>4, <2>1, LeftAlone DEF TimerInv
<1> QED BY <1>4, <1>6, <1>7 DEF TimerInv

-----------------------------------------------------------------------------
(* The walk.                                                                *)

LEMMA AtTheTimer ==
  ASSUME TimerInv, walk.cur # 0
  PROVE  /\ walk.cur \in Timers /\ Listed(walk.cur)
         /\ Place(walk.cur) \in Nat
         /\ \A id \in Timers : Listed(id) /\ id # walk.cur =>
              Place(id) \in Nat /\ Place(id) # Place(walk.cur)
<1>1. walk.cur \in Timers
  BY DEF TimerInv, TimerTypes
<1>2. Listed(walk.cur)
  BY <1>1 DEF TimerInv, ListOk
<1> QED BY <1>1, <1>2, ListFacts

(* When it comes to a callback the time of the timer is over.               *)
LEMMA DueIsOver ==
  ASSUME TimerInv, Visit, walk'.cb
  PROVE  LET id == walk.cur
         IN /\ id \in Timers /\ timer[id].mode # "DISABLED"
            /\ asked[id].mode = timer[id].mode
            /\ clock >= asked[id].due - Early
            /\ Systick => timer' = [timer EXCEPT ![id].countdown = 0]
            /\ ~Systick => timer' = timer
            /\ walk' = [walk EXCEPT !.cb = TRUE]
            /\ asked' = [asked EXCEPT ![id] = Served(id)]
<1> DEFINE id == walk.cur
           left == timer[id].countdown - walk.arg
<1>1. id # 0 /\ ~walk.cb /\ TimerTypes
  BY DEF Visit, TimerInv
<1>2. id \in Timers /\ Listed(id) /\ Place(id) \in Nat
  BY <1>1, AtTheTimer
<1>3. ~At(NextTimer(id), walk.arg).cb
  BY DEF At, Resting
<1>4. /\ timer[id].mode # "DISABLED"
      /\ IF Systick THEN left <= 0 ELSE walk.arg > timer[id].timecmp
      /\ walk' = [walk EXCEPT !.cb = TRUE] /\ asked' = [asked EXCEPT ![id] = Served(id)]
      /\ timer' = IF Systick THEN [timer EXCEPT ![id].countdown = IF left <= 0 THEN 0 ELSE left]
                  ELSE timer
  BY <1>3 DEF Visit, Systick
<1>5. asked[id].mode = timer[id].mode /\ asked[id].due - Early <= DueBy(id)
  BY <1>1, <1>2, <1>4 DEF TimerInv, Kept, InCallback
<1>6. /\ clock \in Nat /\ Noted \in Int /\ Noted <= clock
      /\ timer[id].countdown \in Int /\ timer[id].timecmp \in Int /\ walk.arg \in Nat
      /\ asked[id].due - Early \in Int
  <2>1. asked[id].due \in Int
    BY <1>1, <1>2 DEF TimerTypes
  <2>2. asked[id].due - Early \in Int
    BY <2>1, EarlyIs
  <2> QED BY <1>1, <1>2, <2>2, NotedIs DEF TimerTypes
<1>7. Ahead(id)
  BY <1>1, <1>2 DEF Ahead
<1>8. clock >= asked[id].due - Early
  <2>1. CASE Systick
    <3>1. DueBy(id) = Noted + timer[id].countdown - walk.arg
      BY <1>7, <2>1 DEF DueBy
    <3>2. timer[id].countdown - walk.arg <= 0
      BY <1>4, <2>1
    <3> QED BY <1>5, <1>6, <3>1, <3>2
  <2>2. CASE ~Systick
    <3>1. DueBy(id) = timer[id].timecmp /\ walk.arg > timer[id].timecmp /\ walk.arg <= clock
      BY <1>4, <2>2 DEF DueBy, TimerInv, InTime
    <3> QED BY <1>5, <1>6, <3>1
  <2> QED BY <2>1, <2>2
<1>9. Systick => timer' = [timer EXCEPT ![id].countdown = 0]
  BY <1>4
<1> QED BY <1>2, <1>4, <1>5, <1>8, <1>9

LEMMA CalledKeeps ==
  ASSUME TimerInv, Visit, walk'.cb
  PROVE  TimerInv'
<1>0. PICK id \in Timers : id = walk.cur
  BY DueIsOver
<1>1. /\ id # 0 /\ ~walk.cb /\ TimerTypes
      /\ UNCHANGED <<handler, clock, timer_lst, last_tick>>
  BY <1>0 DEF Visit, TimerInv
<1>2. /\ id \in Timers /\ timer[id].mode # "DISABLED" /\ asked[id].mode = timer[id].mode
      /\ Systick => timer' = [timer EXCEPT ![id].countdown = 0]
      /\ ~Systick => timer' = timer
      /\ walk' = [walk EXCEPT !.cb = TRUE]
      /\ asked' = [asked EXCEPT ![id] = Served(id)]
  BY <1>0, DueIsOver
<1>3. /\ Place(id) \in Nat /\ Listed(id)
      /\ \A j \in Timers : Listed(j) /\ j # id => Place(j) \in Nat /\ Place(j) # Place(id)
  BY <1>0, <1>1, AtTheTimer
<1>4. /\ walk'.cur = id /\ walk'.cb /\ walk'.arg = walk.arg
      /\ walk' \in [cur : Timers \cup {0}, cb : BOOLEAN, arg : Nat]
  BY <1>0, <1>1, <1>2 DEF TimerTypes
<1>5. /\ timer' \in [Timers -> [mode : Mode, time : Nat, countdown : Int, timecmp : Int]]
      /\ timer'[id].mode = timer[id].mode /\ timer'[id].time = timer[id].time
      /\ timer'[id].timecmp = timer[id].timecmp
      /\ \A j \in Timers : j # id => timer'[j] = timer[j]
      /\ \A j \in Timers : timer'[j].mode = timer[j].mode
  <2>1. CASE Systick
    <3>1. timer[id] \in [mode : Mode, time : Nat, countdown : Int, timecmp : Int]
      BY <1>1 DEF TimerTypes
    <3>2. timer' = [timer EXCEPT ![id] = [timer[id] EXCEPT !.countdown = 0]]
      BY <1>2, <2>1
    <3>3. [timer[id] EXCEPT !.countdown = 0]
            \in [mode : Mode, time : Nat, countdown : Int, timecmp : Int]
      BY <3>1
    <3>4. timer'[id] = [timer[id] EXCEPT !.countdown = 0]
      BY <1>1, <3>2 DEF TimerTypes
    <3> QED BY <1>1, <3>1, <3>2, <3>3, <3>4 DEF TimerTypes
  <2>2. CASE ~Systick
    BY <1>1, <1>2, <2>2 DEF TimerTypes
  <2> QED BY <2>1, <2>2
<1>6. /\ Noted \in Int /\ clock - TickDiff <= Noted /\ TickDiff \in Nat /\ clock \in Nat
      /\ timer[id].time \in Nat /\ timer[id].timecmp \in Int /\ asked[id].due \in Int
  BY <1>1, <1>2, NotedIs DEF TimerTypes
<1>7. /\ Served(id) \in [mode : Mode, due : Int]
      /\ timer[id].mode = "AUTORELOAD" =>
           /\ Served(id).mode = "AUTORELOAD"
           /\ Systick => Served(id).due = timer[id].time + clock
           /\ ~Systick => Served(id).due = timer[id].time + asked[id].due
  <2>1. CASE asked[id].mode # "AUTORELOAD"
    BY <1>2, <2>1 DEF Served, NotAsked, Mode
  <2>2. CASE asked[id].mode = "AUTORELOAD"
    <3>1. asked[id] \in [mode : Mode, due : Int]
      BY <1>1, <1>2 DEF TimerTypes
    <3> DEFINE d == timer[id].time + IF Systick THEN clock ELSE asked[id].due
    <3>2. Served(id) = [asked[id] EXCEPT !.due = d]
      BY <2>2 DEF Served, Systick
    <3>3. d \in Int
      BY <1>6
    <3>4. /\ Systick => d = timer[id].time + clock
          /\ ~Systick => d = timer[id].time + asked[id].due
      OBVIOUS
    <3> HIDE DEF d
    <3> QED BY <2>2, <3>1, <3>2, <3>3, <3>4
  <2> QED BY <2>1, <2>2
<1>8. asked' \in [Timers -> [mode : Mode, due : Int]]
  BY <1>1, <1>2, <1>7 DEF TimerTypes
<1>9. TimerTypes'
  BY <1>1, <1>4, <1>5, <1>8 DEF TimerTypes
<1>10. ListOk'
  BY <1>0, <1>1, <1>3, <1>4, <1>5 DEF TimerInv, ListOk, Listed
<1>11. Noted' = Noted /\ TickDiff' = TickDiff /\ InTime'
  BY <1>1, <1>4 DEF TimerInv, InTime, Systick, Noted, TickDiff, Ticks
<1>e. Early' = Early
  BY <1>1 DEF Early
<1>12. Kept(id)'
  <2>1. InCallback(id)' /\ asked'[id] = Served(id)
    BY <1>1, <1>2, <1>4 DEF InCallback, TimerTypes
  <2>2. SUFFICES ASSUME timer[id].mode = "AUTORELOAD"
                 PROVE  asked'[id].mode = "AUTORELOAD" /\ asked'[id].due - Early <= DueAgain(id)'
    BY <1>5, <1>e, <2>1 DEF Kept
  <2>3. CASE Systick
    <3>1. DueAgain(id)' = timer[id].time + Noted
      BY <1>1, <1>5, <1>11, <2>3 DEF DueAgain, Systick
    <3>2. clock - HandlerEvery <= Noted
      BY <2>3, NotFarBehind
    <3>3. asked'[id].due = timer[id].time + clock /\ asked'[id].mode = "AUTORELOAD"
      BY <1>7, <2>1, <2>2, <2>3
    <3>4. Early = 2 * HandlerEvery /\ HandlerEvery \in Nat
      BY <2>3, EarlyIs
    <3>5. (timer[id].time + clock) - Early <= timer[id].time + Noted
      BY <1>6, <3>2, <3>4
    <3> QED BY <3>1, <3>3, <3>5
  <2>4. CASE ~Systick
    <3>1. DueAgain(id)' = timer[id].time + timer[id].timecmp
      BY <1>1, <1>5, <2>4 DEF DueAgain, Systick
    <3>2. asked[id].due - Early <= timer[id].timecmp /\ Early = 0
      BY <1>1, <1>2, <2>4, EarlyIs DEF TimerInv, Kept, InCallback, DueBy
    <3> QED BY <1>6, <1>7, <2>1, <2>2, <2>4, <3>1, <3>2
  <2> QED BY <2>3, <2>4
<1>13. ASSUME NEW j \in Timers, j # id
       PROVE  Kept(j)'
  <2>1. CASE timer[j].mode = "DISABLED"
    BY <1>1, <1>4, <1>5, <1>13, <2>1 DEF Kept, InCallback
  <2>2. CASE timer[j].mode # "DISABLED"
    <3>1. Listed(j) /\ Place(j) \in Nat /\ Place(j) # Place(id)
      BY <1>3, <1>13, <2>2 DEF TimerInv, ListOk
    <3>2. Ahead(j)' => Ahead(j)
      BY <1>0, <1>1, <1>3, <1>4, <3>1 DEF Ahead, Place
    <3>3. ~InCallback(j)' /\ ~InCallback(j)
      BY <1>0, <1>1, <1>4, <1>13 DEF InCallback
    <3>4. timer'[j] = timer[j] /\ asked'[j] = asked[j]
      BY <1>1, <1>2, <1>5, <1>13 DEF TimerTypes
    <3>5. Kept(j)
      BY DEF TimerInv
    <3> QED BY <1>1, <1>4, <1>6, <1>9, <1>11, <3>2, <3>3, <3>4, <3>5, LeftAlone
  <2> QED BY <2>1, <2>2
<1> QED BY <1>9, <1>10, <1>11, <1>12, <1>13 DEF TimerInv

(* It passes by a timer that is not due, whose countdown it brings up to    *)
(* date.                                                                    *)
LEMMA PassedKeeps ==
  ASSUME TimerInv, Visit, ~walk'.cb
  PROVE  TimerInv'
<1>0. PICK id \in Timers : id = walk.cur
  BY AtTheTimer DEF Visit
<1> DEFINE left == timer[id].countdown - walk.arg
<1>1. /\ id # 0 /\ ~walk.cb /\ TimerTypes
      /\ UNCHANGED <<handler, clock, timer_lst, last_tick>>
  BY <1>0 DEF Visit, TimerInv
<1>2. /\ walk' = At(NextTimer(id), walk.arg) /\ asked' = asked
      /\ \/ timer' = timer /\ (Systick => timer[id].mode = "DISABLED")
         \/ Systick /\ timer' = [timer EXCEPT ![id].countdown = left]
  <2>1. ~([walk EXCEPT !.cb = TRUE] = walk')
    BY <1>1 DEF TimerTypes
  <2>2. walk' = At(NextTimer(id), walk.arg) /\ asked' = asked
    BY <1>0, <2>1 DEF Visit
  <2>3. \/ timer[id].mode = "DISABLED"
        \/ ~(IF Systick THEN left <= 0 ELSE walk.arg > timer[id].timecmp)
    BY <1>0, <2>1 DEF Visit, Systick
  <2>4. timer' = IF timer[id].mode # "DISABLED" /\ Systick
                   THEN [timer EXCEPT ![id].countdown = IF left <= 0 THEN 0 ELSE left]
                   ELSE timer
    BY <1>0 DEF Visit, Systick
  <2> HIDE DEF left
  <2>5. CASE timer[id].mode # "DISABLED" /\ Systick
    <3>1. timer' = [timer EXCEPT ![id].countdown = left]
      BY <2>3, <2>4, <2>5
    <3> QED BY <2>2, <2>5, <3>1
  <2>6. CASE ~(timer[id].mode # "DISABLED" /\ Systick)
    BY <2>2, <2>4, <2>6
  <2> QED BY <2>5, <2>6
<1>3. /\ walk' \in [cur : Timers \cup {0}, cb : BOOLEAN, arg : Nat]
      /\ ~walk'.cb /\ walk'.arg \in {0, walk.arg}
      /\ walk'.cur = 0 => walk' = Resting
      /\ \A j \in Timers : walk'.cur = j => Listed(j)
      /\ \A j \in Timers : Ahead(j)' =>
           walk'.arg = walk.arg /\ (Listed(j) => Place(j) > Place(id))
  BY <1>0, <1>1, <1>2, WalkGoesOn
<1>4. /\ Place(id) \in Nat /\ Listed(id)
      /\ \A j \in Timers : Listed(j) /\ j # id => Place(j) \in Nat /\ Place(j) # Place(id)
  BY <1>0, <1>1, AtTheTimer
<1>5. left \in Int
  BY <1>1 DEF TimerTypes
<1>6. /\ timer' \in [Timers -> [mode : Mode, time : Nat, countdown : Int, timecmp : Int]]
      /\ \A j \in Timers : j # id => timer'[j] = timer[j]
      /\ \A j \in Timers : timer'[j].mode = timer[j].mode
      /\ timer'[id].timecmp = timer[id].timecmp
      /\ Systick /\ timer[id].mode # "DISABLED" => timer'[id].countdown = left
  <2>1. CASE timer' = timer /\ (Systick => timer[id].mode = "DISABLED")
    BY <1>1, <2>1 DEF TimerTypes
  <2>2. CASE timer' = [timer EXCEPT ![id].countdown = left]
    <3> HIDE DEF left
    <3>1. timer[id] \in [mode : Mode, time : Nat, countdown : Int, timecmp : Int]
      BY <1>1 DEF TimerTypes
    <3>2. timer' = [timer EXCEPT ![id] = [timer[id] EXCEPT !.countdown = left]]
      BY <2>2
    <3>3. [timer[id] EXCEPT !.countdown = left]
            \in [mode : Mode, time : Nat, countdown : Int, timecmp : Int]
      BY <1>5, <3>1
    <3>4. timer'[id] = [timer[id] EXCEPT !.countdown = left]
      BY <1>1, <3>2 DEF TimerTypes
    <3> QED BY <1>1, <3>1, <3>2, <3>3, <3>4 DEF TimerTypes
  <2> QED BY <1>2, <2>1, <2>2
<1>7. TimerTypes'
  BY <1>1, <1>2, <1>3, <1>6 DEF TimerTypes
<1>8. ListOk'
  BY <1>1, <1>3, <1>6 DEF TimerInv, ListOk, Listed
<1>9. Noted' = Noted /\ TickDiff' = TickDiff /\ Noted \in Int
  BY <1>1, NotedIs DEF Noted, TickDiff, Ticks
<1>10. InTime'
  <2>1. walk.arg \in Nat /\ clock \in Nat
    BY <1>1 DEF TimerTypes
  <2> QED BY <1>1, <1>3, <1>9, <2>1, EarlyIs DEF TimerInv, InTime, Systick
<1>11. Kept(id)'
  <2>1. ~InCallback(id)' /\ ~InCallback(id) /\ Kept(id)
    BY <1>1, <1>3 DEF InCallback, TimerInv
  <2>2. SUFFICES ASSUME timer[id].mode # "DISABLED"
                 PROVE  DueBy(id)' = DueBy(id)
    <3>1. Early' = Early
      BY <1>1 DEF Early
    <3> QED BY <1>2, <1>6, <2>1, <3>1 DEF Kept
  <2>3. ~Ahead(id)' /\ Ahead(id)
    BY <1>0, <1>1, <1>3, <1>4 DEF Ahead
  <2>4. CASE Systick
    <3>1. DueBy(id)' = Noted' + timer'[id].countdown
      BY <1>1, <1>3, <1>7, <1>9, <2>3, <2>4 DEF DueBy, Systick, TimerTypes
    <3>2. DueBy(id) = Noted + left
      BY <1>1, <1>9, <2>3, <2>4 DEF DueBy, TimerTypes
    <3>3. timer'[id].countdown = left
      BY <1>6, <2>2, <2>4
    <3> QED BY <1>9, <3>1, <3>2, <3>3
  <2>5. CASE ~Systick
    BY <1>1, <1>6, <2>5 DEF DueBy, Systick
  <2> QED BY <2>4, <2>5
<1>12. ASSUME NEW j \in Timers, j # id
       PROVE  Kept(j)'
  <2>1. CASE timer[j].mode = "DISABLED"
    BY <1>3, <1>6, <2>1 DEF Kept, InCallback
  <2>2. CASE timer[j].mode # "DISABLED"
    <3>1. Listed(j) /\ Place(j) \in Nat
      BY <1>4, <1>12, <2>2 DEF TimerInv, ListOk
    <3>2. Ahead(j)' => Ahead(j) /\ walk'.arg = walk.arg
      BY <1>0, <1>1, <1>3, <1>4, <3>1 DEF Ahead
    <3>3. ~InCallback(j)' /\ ~InCallback(j)
      BY <1>1, <1>3 DEF InCallback
    <3>4. timer'[j] = timer[j] /\ asked'[j] = asked[j] /\ Kept(j)
      BY <1>2, <1>6, <1>12 DEF TimerInv
    <3> QED BY <1>1, <1>7, <1>9, <3>2, <3>3, <3>4, LeftAlone
  <2> QED BY <2>1, <2>2
<1> QED BY <1>7, <1>8, <1>10, <1>11, <1>12 DEF TimerInv

(* A callback returns: a one-shot timer stops, another one counts anew.     *)
LEMMA ReturnedKeeps ==
  ASSUME TimerInv, CallbackReturns
  PROVE  TimerInv'
<1>0. PICK id \in Timers : id = walk.cur
  <2>1. walk # Resting
    BY DEF CallbackReturns, Resting
  <2> QED BY <2>1, AtTheTimer DEF TimerInv, ListOk
<1>1. /\ id # 0 /\ walk.cb /\ TimerTypes
      /\ UNCHANGED <<handler, clock, timer_lst, last_tick, asked>>
      /\ walk' = At(NextTimer(id), walk.arg)
  BY <1>0, TimerAssumption DEF CallbackReturns, TimerInv
<1> DEFINE old == timer[id]
           new == IF old.mode # "AUTORELOAD" THEN [old EXCEPT !.mode = "DISABLED"]
                  ELSE IF Systick THEN [old EXCEPT !.countdown = old.time]
                  ELSE [old EXCEPT !.timecmp = old.timecmp + old.time]
<1>2. timer' = [timer EXCEPT ![id] = new]
  BY <1>0 DEF CallbackReturns, Systick
<1>3. /\ walk' \in [cur : Timers \cup {0}, cb : BOOLEAN, arg : Nat]
      /\ ~walk'.cb /\ walk'.arg \in {0, walk.arg}
      /\ walk'.cur = 0 => walk' = Resting
      /\ \A j \in Timers : walk'.cur = j => Listed(j)
      /\ \A j \in Timers : Ahead(j)' =>
           walk'.arg = walk.arg /\ (Listed(j) => Place(j) > Place(id))
  BY <1>0, <1>1, WalkGoesOn
<1>4. /\ Place(id) \in Nat /\ Listed(id)
      /\ \A j \in Timers : Listed(j) /\ j # id => Place(j) \in Nat /\ Place(j) # Place(id)
  BY <1>0, <1>1, AtTheTimer
<1>5. /\ new \in [mode : Mode, time : Nat, countdown : Int, timecmp : Int]
      /\ old.mode # "AUTORELOAD" => new.mode = "DISABLED"
      /\ old.mode = "AUTORELOAD" =>
           /\ new.mode = "AUTORELOAD"
           /\ Systick => new.countdown = old.time
           /\ ~Systick => new.timecmp = old.timecmp + old.time
  <2>1. old \in [mode : Mode, time : Nat, countdown : Int, timecmp : Int]
    BY <1>1 DEF TimerTypes
  <2> HIDE DEF old
  <2>2. CASE old.mode # "AUTORELOAD"
    BY <2>1, <2>2 DEF Mode
  <2>3. CASE old.mode = "AUTORELOAD" /\ Systick
    BY <2>1, <2>3
  <2>4. CASE old.mode = "AUTORELOAD" /\ ~Systick
    <3>1. old.timecmp + old.time \in Int
      BY <2>1
    <3> QED BY <2>1, <2>4, <3>1
  <2> QED BY <2>2, <2>3, <2>4
<1> HIDE DEF new
<1>6. /\ timer' \in [Timers -> [mode : Mode, time : Nat, countdown : Int, timecmp : Int]]
      /\ timer'[id] = new
      /\ \A j \in Timers : j # id => timer'[j] = timer[j]
  BY <1>1, <1>2, <1>5 DEF TimerTypes
<1>7. TimerTypes'
  BY <1>1, <1>3, <1>6 DEF TimerTypes
<1>8. ListOk'
  BY <1>0, <1>1, <1>3, <1>4, <1>6 DEF TimerInv, ListOk, Listed
<1>9. Noted' = Noted /\ TickDiff' = TickDiff /\ Noted \in Int
  BY <1>1, NotedIs DEF Noted, TickDiff, Ticks
<1>10. InTime'
  <2>1. walk.arg \in Nat /\ clock \in Nat
    BY <1>1 DEF TimerTypes
  <2> QED BY <1>1, <1>3, <1>9, <2>1, EarlyIs DEF TimerInv, InTime, Systick
<1>11. Kept(id)'
  <2>1. ~InCallback(id)' /\ InCallback(id) /\ Kept(id)
    BY <1>0, <1>1, <1>3 DEF InCallback, TimerInv
  <2>2. CASE old.mode # "AUTORELOAD"
    BY <1>5, <1>6, <2>1, <2>2 DEF Kept
  <2>3. CASE old.mode = "AUTORELOAD"
    <3>0. Early' = Early
      BY <1>1 DEF Early
    <3>1. asked[id].mode = "AUTORELOAD" /\ asked[id].due - Early <= DueAgain(id)
      BY <2>1, <2>3 DEF Kept
    <3>2. DueBy(id)' = DueAgain(id)
      <4>1. ~Ahead(id)'
        BY <1>3, <1>4 DEF Ahead
      <4>2. old.time \in Nat /\ old.timecmp \in Int
        BY <1>1 DEF TimerTypes
      <4>3. CASE Systick
        <5>1. DueBy(id)' = Noted + old.time - 0
          BY <1>1, <1>5, <1>6, <1>9, <2>3, <4>1, <4>3 DEF DueBy, Systick
        <5> QED BY <1>9, <4>2, <4>3, <5>1 DEF DueAgain
      <4>4. CASE ~Systick
        BY <1>1, <1>5, <1>6, <2>3, <4>2, <4>4 DEF DueBy, DueAgain, Systick
      <4> QED BY <4>3, <4>4
    <3> QED BY <1>1, <1>5, <1>6, <2>1, <2>3, <3>0, <3>1, <3>2 DEF Kept
  <2> QED BY <2>2, <2>3
<1>12. ASSUME NEW j \in Timers, j # id
       PROVE  Kept(j)'
  <2>1. CASE timer[j].mode = "DISABLED"
    BY <1>3, <1>6, <1>12, <2>1 DEF Kept, InCallback
  <2>2. CASE timer[j].mode # "DISABLED"
    <3>1. Listed(j) /\ Place(j) \in Nat
      BY <1>4, <1>12, <2>2 DEF TimerInv, ListOk
    <3>2. Ahead(j)' => Ahead(j) /\ walk'.arg = walk.arg
      BY <1>0, <1>1, <1>3, <3>1 DEF Ahead
    <3>3. ~InCallback(j)' /\ ~InCallback(j)
      BY <1>0, <1>1, <1>3, <1>12 DEF InCallback
    <3>4. timer'[j] = timer[j] /\ asked'[j] = asked[j] /\ Kept(j)
      BY <1>1, <1>6, <1>12 DEF TimerInv
    <3> QED BY <1>1, <1>7, <1>9, <3>2, <3>3, <3>4, LeftAlone
  <2> QED BY <2>1, <2>2
<1> QED BY <1>7, <1>8, <1>10, <1>11, <1>12 DEF TimerInv

-----------------------------------------------------------------------------
(* The calls.                                                               *)

LEMMA ListIsThere ==
  /\ \A s \in Seq(Timers) : s # NoLst
  /\ << >> \in Seq(Timers) /\ IsInjective(<< >>) /\ \A id : ~Contains(<< >>, id)
<1>1. ASSUME NEW s \in Seq(Timers), s = NoLst
      PROVE  FALSE
  <2>1. Len(s) = 1 /\ s[1] = 0
    BY <1>1 DEF NoLst
  <2>2. s[1] \in Timers
    BY <2>1
  <2> QED BY <2>1, <2>2, TimerAssumption
<1> QED BY <1>1 DEF IsInjective, Contains

(* A call that changes nothing but timers and what is asked of them: one    *)
(* timer is as the call leaves it, the others are as before.                *)
LEMMA OneTimerSet ==
  ASSUME TimerInv, NEW id \in Timers,
         UNCHANGED <<handler, clock, timer_lst, last_tick, walk>>,
         timer' \in [Timers -> [mode : Mode, time : Nat, countdown : Int, timecmp : Int]],
         asked' \in [Timers -> [mode : Mode, due : Int]],
         \A j \in Timers : j # id => timer'[j] = timer[j] /\ asked'[j] = asked[j],
         timer'[id].mode # "DISABLED" => Listed(id),
         Kept(id)'
  PROVE  TimerInv'
<1>1. TimerTypes /\ TimerTypes'
  BY DEF TimerInv, TimerTypes
<1>2. ListOk'
  BY DEF TimerInv, ListOk, Listed
<1>3. Noted' = Noted /\ TickDiff' = TickDiff /\ Noted \in Int
  BY <1>1, NotedIs DEF Noted, TickDiff, Ticks
<1>4. InTime'
  BY <1>3 DEF TimerInv, InTime, Systick
<1>5. ASSUME NEW j \in Timers, j # id
      PROVE  Kept(j)'
  <2>1. (InCallback(j)' <=> InCallback(j)) /\ (Ahead(j)' <=> Ahead(j))
    BY DEF InCallback, Ahead, Place
  <2>2. Kept(j) /\ timer'[j] = timer[j] /\ asked'[j] = asked[j]
    BY <1>5 DEF TimerInv
  <2> QED BY <1>1, <1>3, <2>1, <2>2, LeftAlone
<1> QED BY <1>1, <1>2, <1>4, <1>5 DEF TimerInv

LEMMA CancelKeeps ==
  ASSUME TimerInv, NEW id \in Timers, ucx_timer_cancel(id)
  PROVE  TimerInv'
<1>1. /\ UNCHANGED <<handler, clock, timer_lst, last_tick, walk>>
      /\ timer' = [timer EXCEPT ![id].mode = "DISABLED"]
      /\ asked' = [asked EXCEPT ![id] = NotAsked] /\ TimerTypes
  BY DEF ucx_timer_cancel, TimerInv
<1>2. /\ timer' \in [Timers -> [mode : Mode, time : Nat, countdown : Int, timecmp : Int]]
      /\ timer'[id].mode = "DISABLED"
      /\ \A j \in Timers : j # id => timer'[j] = timer[j]
  <2>1. timer[id] \in [mode : Mode, time : Nat, countdown : Int, timecmp : Int]
    BY <1>1 DEF TimerTypes
  <2> DEFINE new == [timer[id] EXCEPT !.mode = "DISABLED"]
  <2>2. timer' = [timer EXCEPT ![id] = new]
    BY <1>1
  <2>3. /\ new \in [mode : Mode, time : Nat, countdown : Int, timecmp : Int]
        /\ new.mode = "DISABLED"
    BY <2>1 DEF Mode
  <2> HIDE DEF new
  <2> QED BY <1>1, <2>2, <2>3 DEF TimerTypes
<1>3. /\ asked' \in [Timers -> [mode : Mode, due : Int]]
      /\ \A j \in Timers : j # id => asked'[j] = asked[j]
  BY <1>1 DEF TimerTypes, NotAsked, Mode
<1>4. Kept(id)'
  BY <1>2 DEF Kept
<1> QED BY <1>1, <1>2, <1>3, <1>4, OneTimerSet

(* ucx_timer_start: what the walk under way and the next one take off at    *)
(* once is no more than Early.                                              *)
LEMMA StartKeeps ==
  ASSUME TimerInv, NEW id \in Timers, NEW mode \in {"ONESHOT", "AUTORELOAD"},
         ucx_timer_start(id, mode)
  PROVE  TimerInv'
<1> DEFINE time == timer[id].time
           new == [mode |-> mode, time |-> time, countdown |-> time, timecmp |-> clock + time]
           due == clock + time
<1>1. /\ UNCHANGED <<handler, clock, timer_lst, last_tick, walk>>
      /\ MayCall /\ Listed(id) /\ TimerTypes
      /\ timer' = [timer EXCEPT ![id] = new]
      /\ asked' = [asked EXCEPT ![id] = [mode |-> mode, due |-> due]]
  BY DEF ucx_timer_start, Start, TimerInv
<1>2. /\ time \in Nat /\ clock \in Nat /\ TickDiff \in Nat /\ walk.arg \in Nat
      /\ Noted \in Int /\ walk.cb \in BOOLEAN
  BY <1>1, NotedIs DEF TimerTypes
<1>3. Systick => clock - HandlerEvery <= Noted /\ walk.arg <= HandlerEvery
  BY NotFarBehind
<1>4. due \in Int /\ due = clock + time
  BY <1>2
<1>e. /\ Early' = Early /\ Early \in Nat /\ HandlerEvery \in Nat
      /\ Systick => Early = 2 * HandlerEvery
  <2>1. Early' = Early
    BY <1>1 DEF Early
  <2> QED BY <2>1, EarlyIs
<1> HIDE DEF due
<1>7. new \in [mode : Mode, time : Nat, countdown : Int, timecmp : Int]
  BY <1>2 DEF Mode
<1>8. /\ timer' \in [Timers -> [mode : Mode, time : Nat, countdown : Int, timecmp : Int]]
      /\ timer'[id] = new
      /\ \A j \in Timers : j # id => timer'[j] = timer[j]
  <2> HIDE DEF new
  <2> QED BY <1>1, <1>7 DEF TimerTypes
<1>9. /\ asked' \in [Timers -> [mode : Mode, due : Int]]
      /\ asked'[id] = [mode |-> mode, due |-> due]
      /\ \A j \in Timers : j # id => asked'[j] = asked[j]
  <2>1. [mode |-> mode, due |-> due] \in [mode : Mode, due : Int]
    BY <1>4 DEF Mode
  <2> QED BY <1>1, <2>1 DEF TimerTypes
<1>10. /\ timer'[id].mode = mode /\ timer'[id].time = time /\ timer'[id].countdown = time
       /\ timer'[id].timecmp = clock + time
       /\ asked'[id].mode = mode /\ asked'[id].due = due
  BY <1>8, <1>9
<1>11. Noted' = Noted
  BY <1>1 DEF Noted, TickDiff, Ticks
<1>12. Kept(id)'
  <2>1. CASE InCallback(id)'
    <3>1. due - Early <= DueAgain(id)'
      <4>1. CASE Systick
        <5>1. DueAgain(id)' = time + Noted
          BY <1>1, <1>10, <1>11, <4>1 DEF DueAgain, Systick
        <5> QED BY <1>2, <1>3, <1>4, <1>e, <4>1, <5>1
      <4>2. CASE ~Systick
        <5>1. DueAgain(id)' = time + (clock + time)
          BY <1>1, <1>10, <4>2 DEF DueAgain, Systick
        <5> QED BY <1>2, <1>4, <1>e, <5>1
      <4> QED BY <4>1, <4>2
    <3> QED BY <1>10, <1>e, <2>1, <3>1 DEF Kept
  <2>2. CASE ~InCallback(id)'
    <3>1. due - Early <= DueBy(id)'
      <4>1. CASE Systick
        <5>1. DueBy(id)' = Noted + time - IF Ahead(id)' THEN walk.arg ELSE 0
          BY <1>1, <1>10, <1>11, <4>1 DEF DueBy, Systick
        <5>2. DueBy(id)' >= Noted + time - walk.arg
          BY <1>2, <5>1
        <5>3. DueBy(id)' \in Int
          BY <1>2, <5>1
        <5> QED BY <1>2, <1>3, <1>4, <1>e, <4>1, <5>2, <5>3
      <4>2. CASE ~Systick
        <5>1. DueBy(id)' = clock + time
          BY <1>1, <1>10, <4>2 DEF DueBy, Systick
        <5> QED BY <1>2, <1>4, <1>e, <5>1
      <4> QED BY <4>1, <4>2
    <3> QED BY <1>10, <1>e, <2>2, <3>1 DEF Kept
  <2> QED BY <2>1, <2>2
<1> QED BY <1>1, <1>8, <1>9, <1>12, OneTimerSet

(* A list on which every timer that runs, and the one whose callback runs,  *)
(* is still there, in the same order.                                       *)
TheRestAreListed ==
  /\ \A j \in Timers : \/ timer'[j].mode = "DISABLED"
                       \/ timer'[j] = timer[j] /\ asked'[j] = asked[j] /\ Contains(timer_lst', j)
  /\ \A j \in Timers : walk.cur = j => Contains(timer_lst', j)
SameOrder ==
  \A j, k \in Timers :
    Listed(j) /\ Listed(k) /\ Contains(timer_lst', j) /\ Contains(timer_lst', k)
      => (PlaceIn(timer_lst', j) > PlaceIn(timer_lst', k) <=> Place(j) > Place(k))

LEMMA OtherListKeeps ==
  ASSUME TimerInv, MayCall, UNCHANGED <<handler, clock, last_tick, walk>>,
         timer_lst' \in Seq(Timers), IsInjective(timer_lst'), TimerTypes',
         TheRestAreListed, SameOrder
  PROVE  TimerInv'
<1> USE DEF TheRestAreListed, SameOrder
<1>1. TimerTypes /\ timer_lst' # NoLst
  BY ListIsThere DEF TimerInv
<1>2. ListOk'
  BY <1>1 DEF TimerInv, ListOk, Listed
<1>3. Noted' = Noted /\ TickDiff' = TickDiff /\ Noted \in Int
  BY <1>1, NotedIs DEF Noted, TickDiff, Ticks
<1>4. InTime'
  BY <1>3 DEF TimerInv, InTime, Systick
<1>5. ASSUME NEW j \in Timers
      PROVE  Kept(j)'
  <2>1. CASE timer'[j].mode = "DISABLED"
    BY <2>1 DEF Kept
  <2>2. CASE timer'[j].mode # "DISABLED"
    <3>1. /\ timer'[j] = timer[j] /\ asked'[j] = asked[j] /\ Contains(timer_lst', j)
          /\ Listed(j)
      BY <2>2 DEF TimerInv, ListOk
    <3>2. InCallback(j)' <=> InCallback(j)
      BY DEF InCallback
    <3>3. Ahead(j)' => Ahead(j)
      <4>1. CASE walk.cur = 0
        BY <4>1 DEF Ahead
      <4>2. CASE walk.cur # 0
        <5>1. PICK k \in Timers : k = walk.cur /\ Listed(k)
          BY <4>2, AtTheTimer
        <5>2. walk.cb /\ Contains(timer_lst', k)
          BY <4>2, <5>1 DEF MayCall, Resting
        <5>3. PlaceIn(timer_lst', j) > PlaceIn(timer_lst', k) <=> Place(j) > Place(k)
          BY <3>1, <5>1, <5>2
        <5>4. Ahead(j)' <=> PlaceIn(timer_lst', j) > PlaceIn(timer_lst', k)
          BY <4>2, <5>1, <5>2 DEF Ahead, Place, PlaceIn
        <5>5. Ahead(j) <=> Place(j) > Place(k)
          BY <4>2, <5>1, <5>2 DEF Ahead
        <5> QED BY <5>3, <5>4, <5>5
      <4> QED BY <4>1, <4>2
    <3> QED BY <1>1, <1>3, <3>1, <3>2, <3>3, LeftAlone DEF TimerInv
  <2> QED BY <2>1, <2>2
<1> QED BY <1>2, <1>4, <1>5 DEF TimerInv

LEMMA CreateKeeps ==
  ASSUME TimerInv, NEW id \in Timers, ucx_timer_create(id)
  PROVE  TimerInv'
<1> DEFINE lst == IF timer_lst = NoLst THEN << >> ELSE timer_lst
           new == [mode |-> "DISABLED", time |-> Period[id], countdown |-> Period[id], timecmp |-> 0]
<1>1. /\ UNCHANGED <<handler, clock, last_tick, walk, asked>>
      /\ MayCall /\ ~Listed(id) /\ TimerTypes
      /\ timer_lst' = Append(lst, id)
      /\ timer' = [timer EXCEPT ![id] = new]
  BY DEF ucx_timer_create, TimerInv
<1>2. /\ lst \in Seq(Timers) /\ IsInjective(lst)
      /\ \A j : Contains(lst, j) <=> Listed(j)
  BY ListIsThere DEF TimerInv, ListOk, Listed
<1>3. \A j \in Timers : Listed(j) => Place(j) = PlaceIn(lst, j)
  BY DEF Listed, Place, PlaceIn
<1> HIDE DEF lst
<1>4. /\ timer_lst' \in Seq(Timers) /\ IsInjective(timer_lst')
      /\ \A j : Contains(timer_lst', j) <=> Listed(j) \/ j = id
      /\ \A j \in Timers : Listed(j) => PlaceIn(timer_lst', j) = Place(j)
  BY <1>1, <1>2, <1>3, AppendedLast
<1>5. new \in [mode : Mode, time : Nat, countdown : Int, timecmp : Int] /\ new.mode = "DISABLED"
  <2>1. Period[id] \in Nat
    BY TimerAssumption
  <2> QED BY <2>1 DEF Mode
<1> HIDE DEF new
<1>6. /\ timer' \in [Timers -> [mode : Mode, time : Nat, countdown : Int, timecmp : Int]]
      /\ timer'[id].mode = "DISABLED"
      /\ \A j \in Timers : j # id => timer'[j] = timer[j]
  BY <1>1, <1>5 DEF TimerTypes
<1>7. TimerTypes'
  BY <1>1, <1>6 DEF TimerTypes
<1>8. ASSUME NEW j \in Timers
      PROVE  \/ timer'[j].mode = "DISABLED"
             \/ timer'[j] = timer[j] /\ asked'[j] = asked[j] /\ Contains(timer_lst', j)
  BY <1>1, <1>4, <1>6 DEF TimerInv, ListOk
<1>9. \A j \in Timers : walk.cur = j => Contains(timer_lst', j)
  BY <1>4 DEF TimerInv, ListOk
<1>10. TheRestAreListed
  BY <1>8, <1>9 DEF TheRestAreListed
<1>11. SameOrder
  BY <1>4 DEF SameOrder
<1> QED BY <1>1, <1>4, <1>7, <1>10, <1>11, OtherListKeeps

LEMMA NoMemoryKeeps ==
  ASSUME TimerInv, CreateNoMemory
  PROVE  TimerInv'
<1>1. /\ UNCHANGED <<handler, clock, timer, last_tick, walk, asked>>
      /\ MayCall /\ timer_lst = NoLst /\ timer_lst' = << >>
  BY DEF CreateNoMemory
<1>2. TimerTypes'
  BY <1>1 DEF TimerInv, TimerTypes
<1>3. \A j \in Timers : ~Listed(j)
  BY <1>1 DEF Listed
<1>4. \A j \in Timers : timer'[j].mode = "DISABLED" /\ walk.cur # j
  BY <1>1, <1>3 DEF TimerInv, ListOk
<1>5. timer_lst' \in Seq(Timers) /\ IsInjective(timer_lst')
  BY <1>1, ListIsThere
<1>6. TheRestAreListed /\ SameOrder
  BY <1>3, <1>4 DEF TheRestAreListed, SameOrder
<1> QED BY <1>1, <1>2, <1>5, <1>6, OtherListKeeps

LEMMA DestroyKeeps ==
  ASSUME TimerInv, NEW id \in Timers, ucx_timer_destroy(id)
  PROVE  TimerInv'
<1> DEFINE new == [mode |-> "DISABLED", time |-> 0, countdown |-> 0, timecmp |-> 0]
<1>1. /\ UNCHANGED <<handler, clock, last_tick, walk>>
      /\ MayCall /\ Listed(id) /\ id # walk.cur /\ TimerTypes
      /\ timer_lst' = RemoveFirst(timer_lst, id)
      /\ timer' = [timer EXCEPT ![id] = new]
      /\ asked' = [asked EXCEPT ![id] = NotAsked]
  BY DEF ucx_timer_destroy, TimerInv
<1>2. /\ timer_lst \in Seq(Timers) /\ IsInjective(timer_lst)
      /\ \A j : Contains(timer_lst, j) <=> Listed(j)
      /\ \A j : Place(j) = PlaceIn(timer_lst, j)
  BY <1>1 DEF TimerInv, ListOk, Listed, Place, PlaceIn
<1>3. /\ timer_lst' \in Seq(Timers) /\ IsInjective(timer_lst')
      /\ \A j : Contains(timer_lst', j) <=> Listed(j) /\ j # id
      /\ \A j : Listed(j) /\ j # id =>
           PlaceIn(timer_lst', j) = NewPlace(Place(j), Place(id))
  BY <1>1, <1>2, RemovedKeepsOrder
<1>4. new \in [mode : Mode, time : Nat, countdown : Int, timecmp : Int] /\ new.mode = "DISABLED"
  BY DEF Mode
<1> HIDE DEF new
<1>5. /\ timer' \in [Timers -> [mode : Mode, time : Nat, countdown : Int, timecmp : Int]]
      /\ timer'[id].mode = "DISABLED"
      /\ \A j \in Timers : j # id => timer'[j] = timer[j]
  BY <1>1, <1>4 DEF TimerTypes
<1>6. /\ asked' \in [Timers -> [mode : Mode, due : Int]]
      /\ \A j \in Timers : j # id => asked'[j] = asked[j]
  BY <1>1 DEF TimerTypes, NotAsked, Mode
<1>7. TimerTypes'
  BY <1>1, <1>5, <1>6 DEF TimerTypes
<1>8. ASSUME NEW j \in Timers
      PROVE  \/ timer'[j].mode = "DISABLED"
             \/ timer'[j] = timer[j] /\ asked'[j] = asked[j] /\ Contains(timer_lst', j)
  BY <1>3, <1>5, <1>6 DEF TimerInv, ListOk
<1>9. \A j \in Timers : walk.cur = j => Contains(timer_lst', j)
  BY <1>1, <1>3 DEF TimerInv, ListOk
<1>10. ASSUME NEW j \in Timers, NEW k \in Timers, Listed(j), Listed(k),
              Contains(timer_lst', j), Contains(timer_lst', k)
       PROVE  PlaceIn(timer_lst', j) > PlaceIn(timer_lst', k) <=> Place(j) > Place(k)
  <2>1. /\ Place(j) \in Nat /\ Place(k) \in Nat /\ Place(id) \in Nat
        /\ timer_lst[Place(j)] = j /\ timer_lst[Place(k)] = k /\ timer_lst[Place(id)] = id
    BY <1>1, <1>10, ListFacts
  <2>2. Place(j) # Place(id) /\ Place(k) # Place(id)
    BY <1>3, <1>10, <2>1
  <2>3. /\ PlaceIn(timer_lst', j) = NewPlace(Place(j), Place(id))
        /\ PlaceIn(timer_lst', k) = NewPlace(Place(k), Place(id))
    BY <1>3, <1>10
  <2> QED BY <2>1, <2>2, <2>3 DEF NewPlace
<1>11. TheRestAreListed
  BY <1>8, <1>9 DEF TheRestAreListed
<1>12. SameOrder
  BY <1>10 DEF SameOrder
<1> QED BY <1>1, <1>3, <1>7, <1>11, <1>12, OtherListKeeps

LEMMA TimerNextInv == TimerInv /\ [TimerNext]_timerVars => TimerInv'
<1> SUFFICES ASSUME TimerInv, [TimerNext]_timerVars
             PROVE  TimerInv'
  OBVIOUS
<1>1. CASE TimePasses
  BY <1>1, TimePassesKeeps
<1>2. CASE timer_handler_systick
  BY <1>2, SystickKeeps
<1>3. CASE timer_handler
  BY <1>3, HandlerKeeps
<1>4. CASE Visit
  BY <1>4, CalledKeeps, PassedKeeps
<1>5. CASE CallbackReturns
  BY <1>5, ReturnedKeeps
<1>6. CASE CreateNoMemory
  BY <1>6, NoMemoryKeeps
<1>7. ASSUME NEW id \in Timers,
             \/ ucx_timer_create(id) \/ ucx_timer_cancel(id) \/ ucx_timer_destroy(id)
             \/ \E mode \in {"ONESHOT", "AUTORELOAD"} : ucx_timer_start(id, mode)
      PROVE  TimerInv'
  BY <1>7, CreateKeeps, CancelKeeps, DestroyKeeps, StartKeeps
<1>8. CASE UNCHANGED timerVars
  BY <1>8 DEF timerVars, TimerInv, TimerTypes, ListOk, InTime, Kept, Listed, InCallback,
              DueBy, DueAgain, Ahead, Place, Noted, TickDiff, Ticks, Systick, Early
<1> QED BY <1>1, <1>2, <1>3, <1>4, <1>5, <1>6, <1>7, <1>8 DEF TimerNext, Handling

(* Only the visit of a timer calls back. *)
LEMMA CallsBackWhenDue ==
  ASSUME TimerInv, [TimerNext]_timerVars, NEW id \in Timers, CalledBack(id)
  PROVE  asked[id].mode # "DISABLED" /\ clock >= asked[id].due - Early
<1>1. walk.cur = id /\ ~walk.cb /\ walk'.cb
  BY DEF CalledBack
<1>2. \A j, arg : ~At(j, arg).cb
  BY DEF At, Resting
<1>3. Visit
  BY <1>1, <1>2 DEF TimerNext, Handling, timerVars, TimePasses, CreateNoMemory,
       timer_handler_systick, timer_handler, CallbackReturns, ucx_timer_create,
       ucx_timer_cancel, ucx_timer_destroy, ucx_timer_start, Start
<1> QED BY <1>1, <1>3, DueIsOver

(* Neither handler calls back a timer that was not started, one that was    *)
(* cancelled, or a one-shot timer twice. The handler of the time calls none *)
(* before the time it was created with is over, and the handler of ticks,   *)
(* when it is called every HandlerEvery ticks, none more than twice as many *)
(* ticks too early: whatever the callbacks do to the list under the walk,   *)
(* however many timers there are and wherever the counter of ticks wraps.   *)
THEOREM TimersKeepTheirTime == TimerSpec => CalledAsAsked
<1>1. TimerInv /\ [TimerNext]_timerVars =>
        [\A id \in Timers : CalledBack(id) => /\ asked[id].mode # "DISABLED"
                                              /\ clock >= asked[id].due - Early]_timerVars
  BY CallsBackWhenDue
<1> QED BY <1>1, TimerInitInv, TimerNextInv, PTL DEF TimerSpec, CalledAsAsked

-----------------------------------------------------------------------------
(* The pages of an EEPROM.                                                  *)

Job == [buf : Buffers, done : Nat, size : Nat, calm : {"calm", "disturbed"}, page : Nat,
        first : Nat, pages : Nat, last : Nat,
        device : Nat, start : Nat, before : [0 .. ChipSize - 1 -> EByte]]

(* The place of byte i of the write in progress.                            *)
Spot(i) ==
  LET first == job.start % ChipSize
  IN first - (first % BlockSize) + ((first + i - 1) % BlockSize)

(* The first k bytes at their places, and nothing else.                     *)
Exact(g, k) ==
  \A a \in 0 .. ChipSize - 1 :
    /\ \A i \in 1 .. k : Spot(i) = a => g[a] = job.buf[i]
    /\ (\A i \in 1 .. k : Spot(i) # a) => g[a] = job.before[a]

(* At the first k places what was there, or a byte of the buffer that does  *)
(* not come later; nothing else.                                            *)
Garbled(g, k) ==
  \A a \in 0 .. ChipSize - 1 :
    g[a] = job.before[a]
      \/ \E i \in 1 .. k : Spot(i) = a /\ \E j \in 1 .. i : g[a] = job.buf[j]

(* The write in progress has come to the end of the pages before its page.  *)
(* Undisturbed, it has stored their bytes and counted them all.             *)
Writing ==
  LET rest == Len(job.buf) - job.first IN
  /\ job \in Job
  /\ job.device = Device(job.start)
  /\ job.first = FirstSize(job.start)
  /\ job.pages = IF rest > 0 THEN (rest \div PageSize) + 2 ELSE 1
  /\ job.last = IF rest > 0 THEN rest % PageSize ELSE Len(job.buf)
  /\ job.page \in 0 .. job.pages - 1
  /\ job.done = IF job.page = 0 THEN 0 ELSE job.first + (job.page - 1) * PageSize
  /\ pos = job.start + job.done
  /\ job.size <= job.done
  /\ job.calm = "calm" => job.size = job.done /\ Exact(chip, job.done)
  /\ Garbled(chip, job.done)

EepromInv ==
  /\ chip \in [0 .. ChipSize - 1 -> EByte] /\ pos \in Nat
  /\ Free \/ Writing

(* Division by the size of a page, of a block and of the chip.              *)
LEMMA Divided ==
  ASSUME NEW n \in Nat \ {0}, NEW i \in Nat
  PROVE  /\ i \div n \in Nat /\ i % n \in 0 .. n - 1
         /\ i = n * (i \div n) + (i % n)
OBVIOUS

LEMMA Remainder ==
  ASSUME NEW n \in Nat \ {0}, NEW q \in Nat, NEW r \in 0 .. n - 1
  PROVE  n * q + r \in Nat /\ (n * q + r) % n = r
<1> DEFINE i == n * q + r
           p == i \div n
           s == i % n
<1>1. n * q \in Nat
  OBVIOUS
<1>2. i \in Nat
  BY <1>1
<1>3. p \in Nat /\ s \in 0 .. n - 1 /\ i = n * p + s
  BY <1>2, Divided
<1>4. n * q + r = n * p + s
  BY <1>3
<1> HIDE DEF i, p, s
<1>5. n * (p - q) = n * p - n * q /\ n * p \in Nat
  BY <1>3
<1>6. n * (p - q) = r - s
  BY <1>1, <1>3, <1>4, <1>5
<1>7. n * (p - q) < n * 1 /\ n * (p - q) > n * (-1)
  BY <1>3, <1>6
<1>8. p - q < 1 /\ p - q > -1
  <2>1. p - q \in Int
    BY <1>3
  <2>2. p - q < 1
    BY <1>7, <2>1
  <2>3. p - q > -1
    BY <1>7, <2>1
  <2> QED BY <2>2, <2>3
<1>9. p = q
  BY <1>3, <1>8
<1>10. s = r
  BY <1>1, <1>3, <1>4, <1>9
<1> QED BY <1>2, <1>10 DEF i, s

(* The address of a position is the position modulo the size of the chip,   *)
(* and lies as far from the start of its page as the position.              *)
LEMMA AddressOf ==
  ASSUME NEW p \in Nat
  PROVE  /\ ChipSize \in Nat \ {0}
         /\ Device(p) \in 0 .. Blocks - 1
         /\ Address(Device(p), p) = p % ChipSize
         /\ (Device(p) + 1) * BlockSize <= ChipSize
         /\ Device(p) * BlockSize \in Nat
<1> DEFINE q == p \div BlockSize
           x == p % BlockSize
           d == q % Blocks
           e == q \div Blocks
<1>1. q \in Nat /\ x \in 0 .. BlockSize - 1 /\ p = BlockSize * q + x
  BY Divided, EepromAssumption
<1>2. e \in Nat /\ d \in 0 .. Blocks - 1 /\ q = Blocks * e + d
  BY <1>1, Divided, EepromAssumption
<1>3. Device(p) = d /\ Address(d, p) = d * BlockSize + x
  BY DEF Device, Address
<1> HIDE DEF q, x, d, e
<1>4. BlockSize \in Nat \ {0} /\ Blocks \in Nat \ {0}
  BY EepromAssumption
<1>5. ChipSize \in Nat \ {0}
  BY <1>4 DEF ChipSize
<1>6. (d + 1) * BlockSize <= ChipSize /\ d * BlockSize \in Nat
  BY <1>2, <1>4 DEF ChipSize
<1>7. d * BlockSize + x \in 0 .. ChipSize - 1
  <2>1. (d + 1) * BlockSize = d * BlockSize + BlockSize
    BY <1>2, <1>4
  <2> QED BY <1>1, <1>4, <1>5, <1>6, <2>1
<1>8. p = ChipSize * e + (d * BlockSize + x)
  <2>1. BlockSize * q = BlockSize * (Blocks * e) + BlockSize * d
    BY <1>2, <1>4
  <2>2. BlockSize * (Blocks * e) = (Blocks * BlockSize) * e /\ BlockSize * d = d * BlockSize
    BY <1>2, <1>4
  <2> QED BY <1>1, <1>2, <1>4, <1>6, <2>1, <2>2 DEF ChipSize
<1>9. p % ChipSize = d * BlockSize + x
  BY <1>2, <1>5, <1>7, <1>8, Remainder
<1> QED BY <1>2, <1>3, <1>5, <1>6, <1>9

LEMMA InPage ==
  ASSUME NEW d \in Nat, NEW x \in Nat
  PROVE  (d * BlockSize + x) % PageSize = x % PageSize
<1> DEFINE m == BlockSize \div PageSize
           y == x \div PageSize
           r == x % PageSize
<1>1. BlockSize \in Nat \ {0} /\ PageSize \in Nat \ {0} /\ BlockSize % PageSize = 0
  BY EepromAssumption
<1>2. m \in Nat /\ BlockSize = PageSize * m
  BY <1>1, Divided
<1>3. y \in Nat /\ r \in 0 .. PageSize - 1 /\ x = PageSize * y + r
  BY <1>1, Divided
<1> HIDE DEF m, y, r
<1>4. d * BlockSize = PageSize * (d * m) /\ d * m \in Nat
  BY <1>1, <1>2
<1>5. PageSize * (d * m) + PageSize * y = PageSize * (d * m + y) /\ d * m + y \in Nat
  BY <1>1, <1>3, <1>4
<1>6. d * BlockSize + x = PageSize * (d * m + y) + r
  <2>1. PageSize * (d * m) \in Nat /\ PageSize * y \in Nat
    BY <1>1, <1>3, <1>4
  <2> QED BY <1>3, <1>4, <1>5, <2>1
<1>7. (PageSize * (d * m + y) + r) % PageSize = r
  <2>1. d * m + y \in Nat /\ r \in 0 .. PageSize - 1 /\ PageSize \in Nat \ {0}
    BY <1>1, <1>3, <1>5
  <2> QED BY <2>1, Remainder
<1> QED BY <1>6, <1>7 DEF r

LEMMA FirstSizeIs ==
  ASSUME NEW p \in Nat
  PROVE  FirstSize(p) = PageSize - (p % PageSize)
<1> DEFINE y == p \div PageSize
           r == p % PageSize
           space == ((y + 1) * PageSize) - p
<1>1. /\ PageSize \in Nat \ {0} /\ y \in Nat /\ r \in 0 .. PageSize - 1
      /\ p = PageSize * y + r
  BY Divided, EepromAssumption
<1>2. FirstSize(p) = IF space % PageSize = 0 THEN PageSize ELSE space % PageSize
  BY DEF FirstSize
<1> HIDE DEF y, r
<1>3. space = PageSize - r
  <2>1. (y + 1) * PageSize = PageSize * y + PageSize /\ PageSize * y \in Nat
    BY <1>1
  <2> QED BY <1>1, <2>1
<1> HIDE DEF space
<1>4. CASE r = 0
  <2>1. space % PageSize = 0
    <3>1. (PageSize * 1 + 0) % PageSize = 0
      BY <1>1, Remainder
    <3> QED BY <1>1, <1>3, <1>4, <3>1
  <2> QED BY <1>1, <1>2, <1>4, <2>1 DEF r
<1>5. CASE r # 0
  <2>1. space % PageSize = PageSize - r
    <3>1. PageSize - r \in 0 .. PageSize - 1
      BY <1>1, <1>5
    <3>2. (PageSize * 0 + (PageSize - r)) % PageSize = PageSize - r
      BY <1>1, <3>1, Remainder
    <3> QED BY <1>1, <1>3, <3>1, <3>2
  <2> QED BY <1>1, <1>2, <1>5, <2>1 DEF r
<1> QED BY <1>4, <1>5

LEMMA PartOf ==
  ASSUME NEW D, NEW s \in Seq(D), NEW m \in Nat, NEW n \in Nat, m + n <= Len(s)
  PROVE  /\ Len(SubSeq(s, m + 1, m + n)) = n
         /\ \A i \in 1 .. n : SubSeq(s, m + 1, m + n)[i] = s[m + i]
OBVIOUS

(* Each transaction stays within one page and within the buffer, and the    *)
(* last one comes to its end.                                               *)
LEMMA PageFits ==
  ASSUME Writing, ~Free
  PROVE  /\ WriteSize \in Nat /\ job.done \in Nat
         /\ job.done + WriteSize <= Len(job.buf)
         /\ WriteSize <= PageSize - (pos % PageSize)
         /\ job.page = job.pages - 1 => job.done + WriteSize = Len(job.buf)
         /\ job.page # job.pages - 1 =>
              job.done + WriteSize = job.first + job.page * PageSize
<1> DEFINE y == job.start \div PageSize
           r == job.start % PageSize
           rest == Len(job.buf) - job.first
           full == rest \div PageSize
           odd == rest % PageSize
<1>1. PageSize \in Nat \ {0} /\ Len(job.buf) \in Nat /\ job.start \in Nat
  BY EepromAssumption DEF Writing, Job
<1>2. y \in Nat /\ r \in 0 .. PageSize - 1 /\ job.start = PageSize * y + r
  BY <1>1, Divided
<1>3. job.first = PageSize - r
  BY <1>1, FirstSizeIs DEF Writing
<1>r. pos % PageSize = IF pos = job.start THEN r ELSE pos % PageSize
  OBVIOUS
<1> HIDE DEF y, r
<1>f. rest \in Int
  BY <1>1, <1>2, <1>3
<1>4. rest > 0 => full \in Nat /\ odd \in 0 .. PageSize - 1 /\ rest = PageSize * full + odd
  <2> SUFFICES ASSUME rest > 0 PROVE full \in Nat /\ odd \in 0 .. PageSize - 1
                                     /\ rest = PageSize * full + odd
    OBVIOUS
  <2> HIDE DEF rest
  <2>1. rest \in Nat
    BY <1>f
  <2> QED BY <1>1, <2>1, Divided
<1>5. /\ job.pages = IF rest > 0 THEN full + 2 ELSE 1
      /\ job.last = IF rest > 0 THEN odd ELSE Len(job.buf)
      /\ job.page \in 0 .. job.pages - 1
      /\ job.done = IF job.page = 0 THEN 0 ELSE job.first + (job.page - 1) * PageSize
      /\ pos = job.start + job.done
  BY DEF Writing
<1> HIDE DEF full, odd
<1>6. CASE rest <= 0
  <2>1. job.page = 0 /\ job.pages = 1 /\ job.done = 0 /\ WriteSize = Len(job.buf)
    BY <1>1, <1>2, <1>3, <1>5, <1>6 DEF WriteSize
  <2>2. pos % PageSize = r
    BY <1>1, <1>5, <1>r, <2>1
  <2> HIDE DEF WriteSize
  <2> QED BY <1>1, <1>2, <1>3, <1>6, <2>1, <2>2
<1>7. CASE rest > 0 /\ job.page = 0
  <2>1. job.pages >= 2 /\ job.done = 0 /\ WriteSize = job.first
    BY <1>4, <1>5, <1>7 DEF WriteSize
  <2>2. pos % PageSize = r /\ 0 * PageSize = 0
    BY <1>1, <1>5, <1>r, <2>1
  <2> QED BY <1>1, <1>2, <1>3, <1>7, <2>1, <2>2
<1>8. CASE rest > 0 /\ job.page # 0
  <2>1. /\ full \in Nat /\ odd \in 0 .. PageSize - 1 /\ rest = PageSize * full + odd
        /\ job.page \in 1 .. full + 1 /\ job.pages = full + 2
        /\ job.done = job.first + (job.page - 1) * PageSize
        /\ WriteSize = IF job.page = full + 1 THEN odd ELSE PageSize
    BY <1>4, <1>5, <1>8 DEF WriteSize
  <2>2. /\ job.first \in Nat /\ (job.page - 1) * PageSize \in Nat
        /\ job.done \in Nat /\ WriteSize \in Nat
    <3>1. job.first \in Nat /\ PageSize \in Nat
      BY <1>1, <1>2, <1>3
    <3>2. job.page - 1 \in Nat
      BY <2>1
    <3>3. (job.page - 1) * PageSize \in Nat
      BY <3>1, <3>2
    <3> QED BY <2>1, <3>1, <3>3
  <2>3. pos % PageSize = 0
    <3>1. pos = PageSize * y + PageSize + (job.page - 1) * PageSize
      <4>1. PageSize * y \in Nat
        BY <1>1, <1>2
      <4> QED BY <1>1, <1>2, <1>3, <1>5, <2>1, <2>2, <4>1
    <3>2. PageSize * y + PageSize + (job.page - 1) * PageSize = PageSize * (y + job.page) + 0
      BY <1>1, <1>2, <2>1
    <3>3. y + job.page \in Nat
      <4>1. y \in Nat /\ job.page \in Nat
        BY <1>2, <2>1
      <4> QED BY <4>1
    <3>4. 0 \in 0 .. PageSize - 1
      BY <1>1
    <3>5. (PageSize * (y + job.page) + 0) % PageSize = 0
      BY <1>1, <3>3, <3>4, Remainder
    <3> QED BY <3>1, <3>2, <3>5
  <2>4. (job.page - 1) * PageSize + PageSize = job.page * PageSize
    BY <1>1, <2>1
  <2>5. CASE job.page = full + 1
    <3>1. (job.page - 1) * PageSize = PageSize * full
      BY <1>1, <2>1, <2>5
    <3>2. job.done + WriteSize = Len(job.buf)
      <4>1. PageSize * full \in Nat
        BY <1>1, <2>1
      <4> QED BY <1>1, <1>2, <1>3, <2>1, <2>2, <2>5, <3>1, <4>1
    <3> QED BY <1>1, <2>1, <2>2, <2>3, <2>5, <3>2
  <2>6. CASE job.page # full + 1
    <3>1. job.done + WriteSize = job.first + job.page * PageSize
      <4>1. job.done = job.first + (job.page - 1) * PageSize /\ WriteSize = PageSize
        BY <2>1, <2>6
      <4>2. job.first \in Nat /\ (job.page - 1) * PageSize \in Nat /\ PageSize \in Nat
        BY <1>1, <2>2
      <4> QED BY <2>4, <4>1, <4>2
    <3>2. job.page * PageSize <= PageSize * full
      BY <1>1, <2>1, <2>6
    <3>3. job.page * PageSize \in Nat /\ PageSize * full \in Nat
      BY <1>1, <2>1
    <3>4. job.done + WriteSize <= Len(job.buf)
      <4>1. rest = PageSize * full + odd /\ odd >= 0 /\ odd \in Int
        BY <1>1, <2>1
      <4>2. job.page * PageSize <= rest
        BY <3>2, <3>3, <4>1
      <4> QED BY <1>1, <2>2, <3>1, <3>3, <4>2
    <3> QED BY <1>1, <2>1, <2>2, <2>3, <2>6, <3>1, <3>4
  <2> QED BY <2>5, <2>6
<1> QED BY <1>1, <1>2, <1>3, <1>6, <1>7, <1>8

LEMMA TurnsDropOut ==
  ASSUME NEW n \in Nat \ {0}, NEW q \in Nat, NEW z \in Nat
  PROVE  (n * q + z) % n = z % n
<1> DEFINE p == z \div n
           r == z % n
<1>1. p \in Nat /\ r \in 0 .. n - 1 /\ z = n * p + r
  BY Divided
<1> HIDE DEF p, r
<1>2. n * q + z = n * (q + p) + r
  <2>1. n * (q + p) = n * q + n * p /\ n * q \in Nat /\ n * p \in Nat
    BY <1>1
  <2> QED BY <1>1, <2>1
<1>3. (n * (q + p) + r) % n = r
  <2>1. q + p \in Nat
    BY <1>1
  <2> QED BY <1>1, <2>1, Remainder
<1> QED BY <1>2, <1>3 DEF r

(* The places of a write lie in one block, and no two of them are the same. *)
LEMMA PlaceOf ==
  ASSUME Writing, NEW i \in Nat \ {0}
  PROVE  /\ job.start % BlockSize \in Nat /\ job.device * BlockSize \in Nat
         /\ Spot(i) = job.device * BlockSize + (((job.start % BlockSize) + i - 1) % BlockSize)
<1> DEFINE x == job.start % BlockSize
           d == job.device
           f == job.start % ChipSize
           B == d * BlockSize
           z == x + i - 1
           r == z % BlockSize
<1>1. job.start \in Nat /\ BlockSize \in Nat \ {0} /\ d = Device(job.start)
  BY EepromAssumption DEF Writing, Job
<1>2. d \in 0 .. Blocks - 1 /\ B \in Nat /\ f = B + x
  BY <1>1, AddressOf DEF Address
<1>3. x \in 0 .. BlockSize - 1
  BY <1>1, Divided
<1>d. d \in Nat
  BY <1>2, EepromAssumption
<1>b. B = BlockSize * d
  BY <1>1, <1>d
<1>a. Spot(i) = f - (f % BlockSize) + ((f + i - 1) % BlockSize)
  BY DEF Spot
<1>5. z \in Nat
  BY <1>1, <1>3
<1>7. r \in 0 .. BlockSize - 1
  BY <1>1, <1>5, Divided
<1>6. (BlockSize * d + z) % BlockSize = r
  BY <1>1, <1>5, <1>d, TurnsDropOut
<1>9. x \in Nat
  BY <1>1, <1>3
<1>4. (BlockSize * d + x) % BlockSize = x
  BY <1>1, <1>3, <1>d, Remainder
<1>e. f + i - 1 = BlockSize * d + z /\ f = BlockSize * d + x
  BY <1>1, <1>2, <1>9, <1>b
<1>f. (f + i - 1) % BlockSize = r /\ f % BlockSize = x
  BY <1>4, <1>6, <1>e
<1> HIDE DEF x, f, B, d, z, r
<1>8. Spot(i) = B + r
  <2>1. Spot(i) = f - x + r
    BY <1>a, <1>f
  <2>2. r \in Int
    BY <1>1, <1>7
  <2> QED BY <1>2, <1>9, <2>1, <2>2
<1> QED BY <1>2, <1>8, <1>9 DEF B, x, d, r, z

LEMMA PlacesDiffer ==
  ASSUME Writing, NEW i \in 1 .. BlockSize, NEW j \in 1 .. BlockSize, Spot(i) = Spot(j)
  PROVE  i = j
<1> DEFINE x == job.start % BlockSize
           p == (x + i - 1) \div BlockSize
           q == (x + j - 1) \div BlockSize
           r == (x + i - 1) % BlockSize
           s == (x + j - 1) % BlockSize
           B == job.device * BlockSize
<1>1. BlockSize \in Nat \ {0} /\ i \in Nat \ {0} /\ j \in Nat \ {0}
  BY EepromAssumption
<1>2. x \in Nat /\ B \in Nat /\ Spot(i) = B + r /\ Spot(j) = B + s
  BY <1>1, PlaceOf
<1>3. x + i - 1 \in Nat /\ x + j - 1 \in Nat
  <2> HIDE DEF x
  <2> QED BY <1>1, <1>2
<1>4. /\ p \in Nat /\ r \in 0 .. BlockSize - 1 /\ x + i - 1 = BlockSize * p + r
      /\ q \in Nat /\ s \in 0 .. BlockSize - 1 /\ x + j - 1 = BlockSize * q + s
  BY <1>1, <1>3, Divided
<1> HIDE DEF p, q, r, s, x, B
<1>5. r = s
  <2>1. r \in Int /\ s \in Int
    BY <1>1, <1>4
  <2>2. B + r = B + s
    BY <1>2
  <2> QED BY <1>2, <2>1, <2>2
<1>6. BlockSize * (p - q) = BlockSize * p - BlockSize * q /\ BlockSize * p \in Nat
      /\ BlockSize * q \in Nat
  BY <1>1, <1>4
<1>7. BlockSize * (p - q) = i - j
  BY <1>1, <1>2, <1>4, <1>5, <1>6
<1>8. BlockSize * (p - q) < BlockSize * 1 /\ BlockSize * (p - q) > BlockSize * (-1)
  BY <1>1, <1>7
<1>9. p - q < 1 /\ p - q > -1
  <2>1. p - q \in Int
    BY <1>4
  <2>2. p - q < 1
    BY <1>1, <1>8, <2>1
  <2>3. p - q > -1
    BY <1>1, <1>8, <2>1
  <2> QED BY <2>2, <2>3
<1>10. p = q
  BY <1>4, <1>9
<1> QED BY <1>1, <1>6, <1>7, <1>10

(* Within a page the chip puts a byte where the driver means it to go.      *)
LEMMA DestIs ==
  ASSUME Writing, ~Free, NEW n \in Nat, n <= WriteSize, NEW j \in 1 .. n
  PROVE  LET a == Address(job.device, pos) IN
         a - (a % PageSize) + ((a + j - 1) % PageSize) = Spot(job.done + j)
<1> DEFINE a == Address(job.device, pos)
           w == pos % BlockSize
           r == pos % PageSize
           d == job.device
           x == job.start % BlockSize
           q0 == job.start \div BlockSize
           q1 == pos \div BlockSize
           y == a \div PageSize
           m == BlockSize \div PageSize
           v == w \div PageSize
           B == d * BlockSize
<1>1. /\ BlockSize \in Nat \ {0} /\ PageSize \in Nat \ {0} /\ BlockSize % PageSize = 0
      /\ job.start \in Nat /\ job.done \in Nat /\ pos = job.start + job.done
      /\ d = Device(job.start) /\ j \in Nat \ {0} /\ j <= n
  BY EepromAssumption DEF Writing, Job
<1>2. WriteSize \in Nat /\ WriteSize <= PageSize - r
  BY PageFits
<1>p. pos \in Nat
  BY <1>1
<1>3. w \in 0 .. BlockSize - 1 /\ q1 \in Nat /\ pos = BlockSize * q1 + w
  BY <1>1, <1>p, Divided
<1>4. x \in 0 .. BlockSize - 1 /\ q0 \in Nat /\ job.start = BlockSize * q0 + x
  BY <1>1, Divided
<1>5. d \in Nat /\ B \in Nat
  <2>1. d \in 0 .. Blocks - 1 /\ B \in Nat
    BY <1>1, AddressOf
  <2> QED BY <2>1, EepromAssumption
<1>6. a = B + w
  BY DEF Address
<1>w. w \in Nat /\ x \in Nat
  <2> HIDE DEF w, x
  <2> QED BY <1>1, <1>3, <1>4
<1>7. w % PageSize = r
  <2>1. pos = q1 * BlockSize + w
    BY <1>1, <1>3
  <2> HIDE DEF w, q1
  <2> QED BY <1>3, <1>w, <2>1, InPage
<1>8. a % PageSize = r
  <2> HIDE DEF w
  <2> QED BY <1>5, <1>6, <1>7, <1>w, InPage
<1>a. a \in Nat
  <2> HIDE DEF w, a, B
  <2> QED BY <1>5, <1>6, <1>w
<1>9. y \in Nat /\ r \in 0 .. PageSize - 1 /\ a = PageSize * y + r
  <2>1. y \in Nat /\ a % PageSize \in 0 .. PageSize - 1 /\ a = PageSize * y + (a % PageSize)
    <3> HIDE DEF a
    <3> QED BY <1>1, <1>a, Divided DEF y
  <2> HIDE DEF a, r, y
  <2> QED BY <1>8, <2>1
<1>10. m \in Nat /\ BlockSize = PageSize * m
  <2>1. m \in Nat /\ BlockSize = PageSize * m + (BlockSize % PageSize)
    BY <1>1, Divided
  <2> HIDE DEF m
  <2> QED BY <1>1, <2>1
<1>11. v \in Nat /\ w = PageSize * v + r
  <2>1. v \in Nat /\ w = PageSize * v + (w % PageSize)
    <3> HIDE DEF w
    <3> QED BY <1>1, <1>w, Divided DEF v
  <2> HIDE DEF w, r, v
  <2> QED BY <1>7, <2>1
<1>c. Spot(job.done + j) = B + ((x + (job.done + j) - 1) % BlockSize)
  <2>1. job.done + j \in Nat \ {0}
    BY <1>1
  <2> QED BY <2>1, PlaceOf
<1> HIDE DEF a, w, r, d, x, q0, q1, y, m, v, B
<1>12. r + j - 1 \in 0 .. PageSize - 1
  BY <1>1, <1>2, <1>9
<1>13. (a + j - 1) % PageSize = r + j - 1
  <2>1. a + j - 1 = PageSize * y + (r + j - 1)
    <3>1. PageSize * y \in Nat
      BY <1>1, <1>9
    <3> QED BY <1>1, <1>9, <3>1
  <2>2. (PageSize * y + (r + j - 1)) % PageSize = r + j - 1
    BY <1>1, <1>9, <1>12, Remainder
  <2> DEFINE p == a + j - 1
             o == r + j - 1
  <2>3. p = PageSize * y + o /\ (PageSize * y + o) % PageSize = o
    BY <2>1, <2>2
  <2> HIDE DEF p, o
  <2>4. p % PageSize = o
    BY ONLY <2>3
  <2> QED BY <2>4 DEF p, o
<1>14. a - (a % PageSize) + ((a + j - 1) % PageSize) = B + (w + j - 1)
  BY <1>1, <1>5, <1>6, <1>8, <1>9, <1>13, <1>w
<1>15. w + j - 1 \in 0 .. BlockSize - 1
  <2>1. v < m
    <3>1. PageSize * v <= w
      <4>1. PageSize * v \in Nat
        BY <1>1, <1>11
      <4> QED BY <1>1, <1>9, <1>11, <4>1
    <3>2. PageSize * v < PageSize * m
      <4>1. PageSize * v \in Nat /\ PageSize * m \in Nat
        BY <1>1, <1>10, <1>11
      <4> QED BY <1>1, <1>3, <1>10, <3>1, <4>1
    <3> QED BY <1>1, <1>10, <1>11, <3>2
  <2>2. PageSize * (v + 1) <= PageSize * m
    BY <1>1, <1>10, <1>11, <2>1
  <2>3. PageSize * (v + 1) = PageSize * v + PageSize /\ PageSize * v \in Nat
    BY <1>1, <1>11
  <2>4. w + j - 1 = PageSize * v + (r + j - 1)
    BY <1>1, <1>9, <1>11, <2>3
  <2> QED BY <1>1, <1>10, <1>12, <2>2, <2>3, <2>4, <1>w
<1>16. (x + (job.done + j) - 1) % BlockSize = w + j - 1
  <2> DEFINE u == q1 - q0
  <2>1. x + job.done = BlockSize * u + w
    <3>1. BlockSize * u = BlockSize * q1 - BlockSize * q0
          /\ BlockSize * q1 \in Nat /\ BlockSize * q0 \in Nat
      BY <1>1, <1>3, <1>4
    <3> QED BY <1>1, <1>3, <1>4, <1>w, <3>1
  <2>u. u \in Int
    BY <1>3, <1>4
  <2> HIDE DEF u
  <2>2. u \in Nat
    <3>1. BlockSize * u > BlockSize * (-1)
      <4>1. BlockSize * u \in Int
        BY <1>1, <2>u
      <4> QED BY <1>1, <1>3, <1>w, <2>1, <4>1
    <3>2. u > -1
      BY <1>1, <2>u, <3>1
    <3> QED BY <2>u, <3>2
  <2>3. x + (job.done + j) - 1 = BlockSize * u + (w + j - 1)
    <3>1. BlockSize * u \in Nat
      BY <1>1, <2>2
    <3> QED BY <1>1, <1>w, <2>1, <3>1
  <2>4. (BlockSize * u + (w + j - 1)) % BlockSize = w + j - 1
    BY <1>1, <1>15, <2>2, Remainder
  <2> DEFINE p == x + (job.done + j) - 1
             o == w + j - 1
  <2>5. p = BlockSize * u + o /\ (BlockSize * u + o) % BlockSize = o
    BY <2>3, <2>4
  <2> HIDE DEF p, o
  <2>6. p % BlockSize = o
    BY ONLY <2>5
  <2> QED BY <2>6 DEF p, o
<1>17. a - (a % PageSize) + ((a + j - 1) % PageSize) = Spot(job.done + j)
  BY <1>14, <1>16, <1>c
<1> QED BY <1>17 DEF a

(* What the chip holds when it has stored some bytes of a page.             *)
LEMMA PageStored ==
  ASSUME Writing, ~Free, NEW n \in Nat, n <= WriteSize, NEW bytes, Len(bytes) = n,
         NEW c \in 0 .. ChipSize - 1
  PROVE  LET g == Programmed(Address(job.device, pos), bytes) IN
         /\ \A j \in 1 .. n : Spot(job.done + j) = c => g[c] = bytes[j]
         /\ (\A j \in 1 .. n : Spot(job.done + j) # c) => g[c] = chip[c]
<1> DEFINE a == Address(job.device, pos)
           dest(i) == a - (a % PageSize) + ((a + i - 1) % PageSize)
           at == {i \in 1 .. Len(bytes) : dest(i) = c}
<1>1. Programmed(a, bytes)[c] = IF at = {} THEN chip[c] ELSE bytes[Max(at)]
  BY DEF Programmed
<1>2. \A i \in 1 .. n : dest(i) = Spot(job.done + i)
  BY DestIs
<1>3. at = {i \in 1 .. n : Spot(job.done + i) = c}
  BY <1>2
<1>4. ASSUME NEW j \in 1 .. n, Spot(job.done + j) = c
      PROVE  at = {j}
  <2>1. /\ job.done \in Nat /\ WriteSize \in Nat /\ job.done + WriteSize <= Len(job.buf)
        /\ Len(job.buf) \in Nat /\ BlockSize \in Nat /\ Len(job.buf) <= BlockSize
    <3>1. job.buf \in Buffers
      BY DEF Writing, Job
    <3> QED BY <3>1, PageFits, EepromAssumption
  <2>2. ASSUME NEW i \in 1 .. n, Spot(job.done + i) = c
        PROVE  i = j
    <3> HIDE DEF at
    <3>1. job.done + i \in 1 .. BlockSize /\ job.done + j \in 1 .. BlockSize
      BY <2>1
    <3>2. job.done + i = job.done + j
      BY <1>4, <2>2, <3>1, PlacesDiffer
    <3> QED BY <2>1, <3>2
  <2> HIDE DEF at
  <2> QED BY <1>3, <1>4, <2>2
<1> HIDE DEF at
<1>5. ASSUME NEW j \in 1 .. n, Spot(job.done + j) = c
      PROVE  Programmed(a, bytes)[c] = bytes[j]
  <2>1. at = {j}
    BY <1>4, <1>5
  <2>2. Max({j}) = j
    BY DEF Max
  <2> QED BY <1>1, <2>1, <2>2
<1>6. (\A j \in 1 .. n : Spot(job.done + j) # c) => Programmed(a, bytes)[c] = chip[c]
  BY <1>1, <1>3
<1> QED BY <1>5, <1>6 DEF a

LEMMA EepromInitInv == EepromInit => EepromInv /\ EF!Init
<1> SUFFICES ASSUME EepromInit PROVE EepromInv /\ EF!Init
  OBVIOUS
<1>1. Free /\ pos = 0 /\ eout = <<"none">> /\ chip \in [0 .. ChipSize - 1 -> EByte]
  BY DEF EepromInit, Free
<1> QED BY <1>1 DEF EepromInv, EF!Init

LEMMA WriteStartsKeeps ==
  ASSUME EepromInv, NEW b \in Buffers, WriteStarts(b)
  PROVE  EepromInv' /\ UNCHANGED EF!fileVars
<1> DEFINE first == FirstSize(pos)
           rest == Len(b) - first
<1>1. /\ Free
      /\ job' = [buf |-> b, done |-> 0, size |-> 0, calm |-> "calm", page |-> 0,
                 first |-> first,
                 pages |-> IF rest > 0 THEN (rest \div PageSize) + 2 ELSE 1,
                 last |-> IF rest > 0 THEN rest % PageSize ELSE Len(b),
                 device |-> Device(pos), start |-> pos, before |-> chip]
      /\ UNCHANGED <<chip, pos, bus, eout>>
  BY DEF WriteStarts
<1>2. job'.page = 0 /\ NoJob.page = -1
  BY <1>1 DEF NoJob
<1>3. ~Free'
  BY <1>2 DEF Free, NoJob
<1>4. pos \in Nat /\ chip \in [0 .. ChipSize - 1 -> EByte] /\ Len(b) \in Nat
  BY EepromAssumption DEF EepromInv
<1>5. first \in Nat
  <2>1. first = PageSize - (pos % PageSize)
    BY <1>4, FirstSizeIs
  <2>2. pos % PageSize \in 0 .. PageSize - 1 /\ PageSize \in Nat \ {0}
    BY <1>4, Divided, EepromAssumption
  <2> QED BY <2>1, <2>2
<1>6. job'.pages \in Nat \ {0}
  <2> HIDE DEF first
  <2>1. CASE rest > 0
    <3>1. rest \in Nat
      BY <1>4, <1>5, <2>1
    <3>2. rest \div PageSize \in Nat
      BY <3>1, Divided, EepromAssumption
    <3> QED BY <1>1, <2>1, <3>2
  <2>2. CASE ~(rest > 0)
    BY <1>1, <2>2
  <2> QED BY <2>1, <2>2
<1>l. job'.last \in Nat
  <2> HIDE DEF first
  <2>1. CASE rest > 0
    <3>1. rest \in Nat
      BY <1>4, <1>5, <2>1
    <3>2. rest % PageSize \in 0 .. PageSize - 1 /\ PageSize \in Nat
      BY <3>1, Divided, EepromAssumption
    <3>3. rest % PageSize \in Nat
      <4> HIDE DEF rest
      <4> QED BY <3>2
    <3> QED BY <1>1, <2>1, <3>3
  <2>2. CASE ~(rest > 0)
    BY <1>1, <1>4, <2>2
  <2> QED BY <2>1, <2>2
<1>d. job'.device \in Nat
  BY <1>1, <1>4, AddressOf, EepromAssumption
<1> HIDE DEF first
<1>7. Exact(chip, 0)' /\ Garbled(chip, 0)'
  BY <1>1 DEF Exact, Garbled
<1>8. Writing'
  <2>j. job' \in Job
    <3> DEFINE pages == IF rest > 0 THEN (rest \div PageSize) + 2 ELSE 1
               last == IF rest > 0 THEN rest % PageSize ELSE Len(b)
    <3>1. job'.pages = pages /\ job'.last = last /\ job'.device = Device(pos)
      BY <1>1
    <3>2. job' = [buf |-> b, done |-> 0, size |-> 0, calm |-> "calm", page |-> 0,
                  first |-> first, pages |-> pages, last |-> last,
                  device |-> Device(pos), start |-> pos, before |-> chip]
      BY <1>1
    <3>3. pages \in Nat /\ last \in Nat /\ Device(pos) \in Nat
      BY <1>6, <1>l, <1>d, <3>1
    <3> HIDE DEF pages, last, rest
    <3> QED BY <1>4, <1>5, <3>2, <3>3 DEF Job
  <2>1. /\ job'.device = Device(job'.start)
        /\ job'.first = FirstSize(job'.start)
    BY <1>1, <1>4 DEF first
  <2>2. /\ job'.pages = IF Len(job'.buf) - job'.first > 0
                          THEN ((Len(job'.buf) - job'.first) \div PageSize) + 2 ELSE 1
        /\ job'.last = IF Len(job'.buf) - job'.first > 0
                         THEN (Len(job'.buf) - job'.first) % PageSize ELSE Len(job'.buf)
    BY <1>1
  <2>3. /\ job'.page \in 0 .. job'.pages - 1 /\ job'.page = 0 /\ job'.done = 0
        /\ pos' = job'.start + job'.done /\ job'.size = 0
    BY <1>1, <1>4, <1>6
  <2>4. Exact(chip, job.done)' /\ Garbled(chip, job.done)'
    BY <1>7, <2>3 DEF Exact, Garbled
  <2> QED BY <2>j, <2>1, <2>2, <2>3, <2>4 DEF Writing
<1>9. EepromInv'
  BY <1>1, <1>4, <1>8 DEF EepromInv
<1> QED BY <1>1, <1>3, <1>9 DEF EF!fileVars

(* What is stored exactly is what the file has of the write.                *)
LEMMA ExactIsPrefix ==
  ASSUME ~Free, NEW k \in Nat, NEW g \in [0 .. ChipSize - 1 -> EByte], Exact(g, k)
  PROVE  LET at(a) == {i \in 1 .. k : EF!WritePlace(i) = a} IN
         g = [a \in 0 .. ChipSize - 1 |->
                IF at(a) = {} THEN job.before[a] ELSE job.buf[CHOOSE i \in at(a) : TRUE]]
<1> DEFINE at(a) == {i \in 1 .. k : EF!WritePlace(i) = a}
<1>1. \A i : EF!WritePlace(i) = Spot(i)
  BY DEF EF!WritePlace, Spot
<1>2. ASSUME NEW a \in 0 .. ChipSize - 1
      PROVE  g[a] = IF at(a) = {} THEN job.before[a] ELSE job.buf[CHOOSE i \in at(a) : TRUE]
  <2>1. at(a) = {i \in 1 .. k : Spot(i) = a}
    BY <1>1
  <2>2. CASE at(a) = {}
    <3>1. \A i \in 1 .. k : Spot(i) # a
      BY <2>1, <2>2
    <3> QED BY <2>2, <3>1 DEF Exact
  <2>3. CASE at(a) # {}
    <3> DEFINE i == CHOOSE i \in at(a) : TRUE
    <3>1. i \in at(a)
      BY <2>3
    <3> HIDE DEF i
    <3>2. i \in 1 .. k /\ Spot(i) = a
      BY <2>1, <3>1
    <3>3. g[a] = job.buf[i]
      BY <3>2 DEF Exact
    <3> QED BY <2>3, <3>3 DEF i
  <2> QED BY <2>2, <2>3
<1> HIDE DEF at
<1>3. g = [a \in 0 .. ChipSize - 1 |-> g[a]]
  OBVIOUS
<1>4. g = [a \in 0 .. ChipSize - 1 |->
             IF at(a) = {} THEN job.before[a] ELSE job.buf[CHOOSE i \in at(a) : TRUE]]
  BY <1>2, <1>3
<1> QED BY <1>4 DEF at

(* A write that ends after k of its places is a write of the file, exact or *)
(* disturbed.                                                               *)
LEMMA WriteEnds ==
  ASSUME EepromInv, ~Free, NEW k \in 0 .. Len(job.buf), job \in Job, job' = NoJob,
         chip' \in [0 .. ChipSize - 1 -> EByte], pos' = job.start + k,
         NEW n \in 0 .. k, NEW calm \in {"calm", "disturbed"}, eout' = <<"write", n, calm>>,
         Garbled(chip', k),
         calm = "calm" => Exact(chip', k) /\ (n = 0 \/ (n = k /\ k = Len(job.buf)))
  PROVE  EepromInv' /\ EF!Next
<1>1. Free' /\ job.buf \in Buffers /\ job.start \in Nat /\ k \in Nat /\ n \in Nat
  <2>1. job.buf \in Buffers /\ job.start \in Nat
    BY DEF Job
  <2>2. Len(job.buf) \in Nat
    BY <2>1, EepromAssumption
  <2> QED BY <2>1, <2>2 DEF Free
<1>2. \A i : EF!WritePlace(i) = Spot(i)
  BY DEF EF!WritePlace, Spot
<1>f. /\ (IF Free THEN pos ELSE job.start)' = (IF Free THEN pos ELSE job.start) + k
      /\ (IF Free THEN chip ELSE job.before) = job.before
      /\ (IF Free THEN chip ELSE job.before)' = chip'
  BY <1>1
<1>3. CASE calm = "calm"
  <2> DEFINE at(a) == {i \in 1 .. k : EF!WritePlace(i) = a}
  <2>1. chip' = [a \in 0 .. ChipSize - 1 |->
                   IF at(a) = {} THEN job.before[a] ELSE job.buf[CHOOSE i \in at(a) : TRUE]]
    BY <1>1, <1>3, ExactIsPrefix
  <2>2. \/ eout' = <<"write", 0, "calm">>
        \/ k = Len(job.buf) /\ eout' = <<"write", k, "calm">>
    BY <1>3
  <2>3. (IF Free THEN chip ELSE job.before)' =
          [a \in 0 .. ChipSize - 1 |->
             IF at(a) = {} THEN (IF Free THEN chip ELSE job.before)[a]
             ELSE job.buf[CHOOSE i \in at(a) : TRUE]]
    BY <1>f, <2>1
  <2>4. EF!Write(job.buf)
    BY <1>f, <2>2, <2>3, Zenon DEF EF!Write
  <2> QED BY <1>1, <2>4 DEF EF!Next, EepromInv
<1>4. CASE calm = "disturbed"
  <2> DEFINE at(a) == {i \in 1 .. k : EF!WritePlace(i) = a}
  <2>1. \A a \in 0 .. ChipSize - 1 :
          chip'[a] = job.before[a] \/ \E i \in at(a) : \E j \in 1 .. i : chip'[a] = job.buf[j]
    BY <1>2 DEF Garbled
  <2>2. \E m \in 0 .. k : eout' = <<"write", m, "disturbed">>
    BY <1>4
  <2>3. EF!Write(job.buf)
    BY <1>1, <2>1, <2>2 DEF EF!Write
  <2> QED BY <1>1, <2>3 DEF EF!Next, EepromInv
<1> QED BY <1>3, <1>4

(* The chip after a transaction.                                            *)
LEMMA TransferStores ==
  ASSUME EepromInv, Writing, ~Free,
         NEW kept \in 0 .. WriteSize, NEW sent \in kept .. WriteSize, Transfer(kept, sent)
  PROVE  /\ chip' \in [0 .. ChipSize - 1 -> EByte]
         /\ Garbled(chip', job.done + WriteSize)
         /\ job.calm = "calm" /\ kept = WriteSize => Exact(chip', job.done + WriteSize)
<1> DEFINE n == WriteSize
           k == job.done + n
           bytes == SubSeq(job.buf, job.size + 1, job.size + kept)
<1>1. /\ job.buf \in Seq(EByte) /\ Len(job.buf) \in Nat /\ Len(job.buf) <= BlockSize
      /\ job.done \in Nat /\ job.size \in Nat /\ job.size <= job.done
      /\ job.before \in [0 .. ChipSize - 1 -> EByte] /\ BlockSize \in Nat
  <2>1. job \in Job /\ job.size <= job.done
    BY DEF Writing
  <2>2. /\ job.buf \in Buffers /\ job.done \in Nat /\ job.size \in Nat
        /\ job.before \in [0 .. ChipSize - 1 -> EByte]
    BY <2>1 DEF Job
  <2>3. BlockSize \in Nat /\ job.buf \in Seq(EByte) /\ Len(job.buf) <= BlockSize
    BY <2>2, EepromAssumption
  <2>4. Len(job.buf) \in Nat
    BY <2>3
  <2> QED BY <2>1, <2>2, <2>3, <2>4
<1>2. n \in Nat /\ k <= Len(job.buf)
  BY PageFits
<1>3. chip' = Programmed(Address(job.device, pos), bytes)
  BY DEF Transfer
<1> HIDE DEF n
<1>4. kept \in Nat /\ kept <= n /\ k \in Nat
  BY <1>1, <1>2 DEF n
<1>s. job.size + kept <= Len(job.buf)
  BY <1>1, <1>2, <1>4
<1>5. Len(bytes) = kept /\ \A j \in 1 .. kept : bytes[j] = job.buf[job.size + j]
  <2> DEFINE b == job.buf
             m == job.size
  <2>1. b \in Seq(EByte) /\ m \in Nat /\ m + kept <= Len(b)
    BY <1>1, <1>s
  <2>2. /\ Len(SubSeq(b, m + 1, m + kept)) = kept
        /\ \A i \in 1 .. kept : SubSeq(b, m + 1, m + kept)[i] = b[m + i]
    <3> HIDE DEF b, m
    <3> QED BY <1>4, <2>1, PartOf
  <2> QED BY <2>2
<1> HIDE DEF bytes
<1>6. ASSUME NEW c \in 0 .. ChipSize - 1
      PROVE  /\ \A j \in 1 .. kept : Spot(job.done + j) = c => chip'[c] = job.buf[job.size + j]
             /\ (\A j \in 1 .. kept : Spot(job.done + j) # c) => chip'[c] = chip[c]
  BY <1>3, <1>4, <1>5, PageStored DEF n
<1>7. ASSUME NEW c \in 0 .. ChipSize - 1
      PROVE  \/ chip'[c] = job.before[c]
             \/ \E i \in 1 .. k : Spot(i) = c /\ \E j \in 1 .. i : chip'[c] = job.buf[j]
  <2>1. CASE \E j \in 1 .. kept : Spot(job.done + j) = c
    <3>1. PICK j \in 1 .. kept : Spot(job.done + j) = c
      BY <2>1
    <3>2. chip'[c] = job.buf[job.size + j]
      BY <1>6, <3>1
    <3>3. job.done + j \in 1 .. k /\ job.size + j \in 1 .. (job.done + j)
      <4> DEFINE d == job.done
                 m == job.size
      <4>1. /\ d \in Nat /\ m \in Nat /\ m <= d /\ kept \in Nat /\ kept <= n /\ n \in Nat
            /\ j \in Nat /\ j >= 1 /\ j <= kept
        BY <1>1, <1>2, <1>4
      <4> HIDE DEF d, m
      <4>2. d + j \in 1 .. (d + n) /\ m + j \in 1 .. (d + j)
        BY ONLY <4>1
      <4> QED BY <4>2 DEF d, m
    <3> QED BY <3>1, <3>2, <3>3
  <2>2. CASE \A j \in 1 .. kept : Spot(job.done + j) # c
    <3>1. chip'[c] = chip[c]
      BY <1>6, <2>2
    <3>2. \/ chip[c] = job.before[c]
          \/ \E i \in 1 .. job.done : Spot(i) = c /\ \E j \in 1 .. i : chip[c] = job.buf[j]
      BY DEF Writing, Garbled
    <3>3. \A i \in 1 .. job.done : i \in 1 .. k
      BY <1>1, <1>2
    <3> QED BY <3>1, <3>2, <3>3
  <2> QED BY <2>1, <2>2
<1>8. ASSUME job.calm = "calm", kept = n, NEW c \in 0 .. ChipSize - 1
      PROVE  /\ \A i \in 1 .. k : Spot(i) = c => chip'[c] = job.buf[i]
             /\ (\A i \in 1 .. k : Spot(i) # c) => chip'[c] = job.before[c]
  <2>1. /\ \A i \in 1 .. job.done : Spot(i) = c => chip[c] = job.buf[i]
        /\ (\A i \in 1 .. job.done : Spot(i) # c) => chip[c] = job.before[c]
        /\ job.size = job.done
    BY <1>8 DEF Writing, Exact
  <2>2. ASSUME NEW i \in 1 .. k, Spot(i) = c
        PROVE  chip'[c] = job.buf[i]
    <3>1. CASE i <= job.done
      <4>1. i \in 1 .. job.done
        BY <1>1, <3>1
      <4>2. ASSUME NEW j \in 1 .. kept, Spot(job.done + j) = c
            PROVE  FALSE
        <5>1. i \in 1 .. BlockSize /\ job.done + j \in 1 .. BlockSize
          <6> HIDE DEF k
          <6>1. k <= BlockSize /\ job.done + kept <= k
            BY <1>1, <1>2, <1>4 DEF k
          <6> QED BY <1>1, <1>4, <6>1
        <5>2. i = job.done + j
          BY <2>2, <4>2, <5>1, PlacesDiffer
        <5> QED BY <1>1, <1>4, <4>1, <5>2
      <4> QED BY <1>6, <2>1, <2>2, <4>1, <4>2
    <3>2. CASE i > job.done
      <4>1. i - job.done \in 1 .. kept /\ job.done + (i - job.done) = i
        BY <1>1, <1>2, <1>4, <1>8, <3>2
      <4>2. chip'[c] = job.buf[job.size + (i - job.done)]
        BY <1>6, <2>2, <4>1
      <4> QED BY <2>1, <4>1, <4>2
    <3> QED BY <1>1, <3>1, <3>2
  <2>3. ASSUME \A i \in 1 .. k : Spot(i) # c
        PROVE  chip'[c] = job.before[c]
    <3>1. \A i \in 1 .. job.done : i \in 1 .. k
      BY <1>1, <1>2
    <3>2. \A j \in 1 .. kept : job.done + j \in 1 .. k
      BY <1>1, <1>2, <1>4
    <3> QED BY <1>6, <2>1, <2>3, <3>1, <3>2
  <2> QED BY <2>2, <2>3
<1>9. chip' \in [0 .. ChipSize - 1 -> EByte]
  <2>1. ASSUME NEW c \in 0 .. ChipSize - 1 PROVE chip'[c] \in EByte
    <3>1. CASE chip'[c] = job.before[c]
      BY <1>1, <3>1
    <3>2. CASE \E i \in 1 .. k : Spot(i) = c /\ \E j \in 1 .. i : chip'[c] = job.buf[j]
      <4>1. PICK i \in 1 .. k : \E j \in 1 .. i : chip'[c] = job.buf[j]
        BY <3>2
      <4>2. PICK j \in 1 .. i : chip'[c] = job.buf[j]
        BY <4>1
      <4>3. j \in 1 .. Len(job.buf)
        BY <1>1, <1>2, <1>4
      <4> QED BY <1>1, <4>2, <4>3
    <3> QED BY <1>7, <3>1, <3>2
  <2>2. chip' = [c \in 0 .. ChipSize - 1 |-> chip'[c]]
    BY <1>3 DEF Programmed
  <2> QED BY <2>1, <2>2
<1> QED BY <1>7, <1>8, <1>9 DEF Garbled, Exact, n

LEMMA PageKeeps ==
  ASSUME EepromInv, WritePage
  PROVE  EepromInv' /\ (EF!Next \/ UNCHANGED EF!fileVars)
<1> DEFINE n == WriteSize
           k == job.done + n
<1>1. ~Free /\ Writing
  BY DEF EepromInv, WritePage
<1>2. /\ n \in Nat /\ job.done \in Nat /\ k <= Len(job.buf) /\ k \in Nat
      /\ job.page = job.pages - 1 => k = Len(job.buf)
      /\ job.page # job.pages - 1 => k = job.first + job.page * PageSize
  <2>1. /\ n \in Nat /\ job.done \in Nat /\ k <= Len(job.buf)
        /\ job.page = job.pages - 1 => k = Len(job.buf)
        /\ job.page # job.pages - 1 => k = job.first + job.page * PageSize
    BY <1>1, PageFits
  <2> HIDE DEF n
  <2> QED BY <2>1
<1>3. /\ job \in Job /\ job.start \in Nat /\ pos = job.start + job.done
      /\ Len(job.buf) \in Nat /\ chip \in [0 .. ChipSize - 1 -> EByte]
      /\ job.size \in Nat /\ job.size <= job.done /\ job.calm \in {"calm", "disturbed"}
      /\ Garbled(chip, job.done)
      /\ job.calm = "calm" => job.size = job.done /\ Exact(chip, job.done)
  <2>1. /\ job \in Job /\ pos = job.start + job.done /\ job.size <= job.done
        /\ Garbled(chip, job.done)
        /\ job.calm = "calm" => job.size = job.done /\ Exact(chip, job.done)
    BY <1>1 DEF Writing
  <2>2. chip \in [0 .. ChipSize - 1 -> EByte]
    BY DEF EepromInv
  <2>3. /\ job.start \in Nat /\ job.size \in Nat /\ job.calm \in {"calm", "disturbed"}
        /\ job.buf \in Seq(EByte)
    BY <2>1, EepromAssumption DEF Job
  <2>4. Len(job.buf) \in Nat
    BY <2>3
  <2> QED BY <2>1, <2>2, <2>3, <2>4
<1>4. ASSUME NEW kept \in 0 .. n, NEW sent \in kept .. n, Transfer(kept, sent)
      PROVE  EepromInv' /\ (EF!Next \/ UNCHANGED EF!fileVars)
  <2> DEFINE calm == IF kept = n THEN job.calm ELSE "disturbed"
             size == job.size + sent
  <2>1. /\ pos' = pos + n
        /\ IF job.page = job.pages - 1
             THEN job' = NoJob /\ eout' = <<"write", size, calm>>
             ELSE /\ job' = [job EXCEPT !.done = @ + n, !.size = @ + sent,
                                         !.calm = calm, !.page = @ + 1]
                  /\ UNCHANGED eout
    BY <1>4 DEF Transfer
  <2>2. /\ chip' \in [0 .. ChipSize - 1 -> EByte] /\ Garbled(chip', k)
        /\ job.calm = "calm" /\ kept = n => Exact(chip', k)
    BY <1>1, <1>4, TransferStores
  <2> HIDE DEF n
  <2>3. /\ size \in Nat /\ size <= k /\ calm \in {"calm", "disturbed"}
        /\ calm = "calm" => job.calm = "calm" /\ kept = n /\ size = k
    BY <1>2, <1>3, <1>4
  <2>4. pos' = job.start + k /\ pos' \in Nat
    BY <1>2, <1>3, <2>1
  <2> HIDE DEF k, size, calm
  <2>5. CASE job.page = job.pages - 1
    <3>1. job' = NoJob /\ eout' = <<"write", size, calm>> /\ k = Len(job.buf)
      BY <1>2, <2>1, <2>5
    <3>2. k \in 0 .. Len(job.buf) /\ size \in 0 .. k
      BY <1>2, <1>3, <2>3
    <3> QED BY <1>1, <1>3, <2>2, <2>3, <2>4, <3>1, <3>2, WriteEnds
  <2>6. CASE job.page # job.pages - 1
    <3>1. /\ job' = [job EXCEPT !.done = k, !.size = size, !.calm = calm, !.page = job.page + 1]
          /\ UNCHANGED eout
      BY <2>1, <2>6 DEF k, size
    <3>2. job.page + 1 \in Nat
      BY <1>3 DEF Job
    <3>3. /\ job'.done = k /\ job'.size = size /\ job'.calm = calm
          /\ job'.page = job.page + 1 /\ job'.buf = job.buf
          /\ job'.first = job.first /\ job'.pages = job.pages /\ job'.last = job.last
          /\ job'.device = job.device /\ job'.start = job.start
          /\ job'.before = job.before /\ job' \in Job
      BY <1>2, <1>3, <2>3, <3>1, <3>2 DEF Job
    <3>4. job.page \in Nat /\ job.pages \in Nat /\ job.page <= job.pages - 1
      BY <1>1, <1>3 DEF Writing, Job
    <3>5. ~Free'
      <4>1. job'.page # -1
        BY <3>3, <3>4
      <4> QED BY <4>1 DEF Free, NoJob
    <3>6. /\ job.device = Device(job.start) /\ job.first = FirstSize(job.start)
          /\ job.pages = IF Len(job.buf) - job.first > 0
               THEN ((Len(job.buf) - job.first) \div PageSize) + 2 ELSE 1
          /\ job.last = IF Len(job.buf) - job.first > 0
               THEN (Len(job.buf) - job.first) % PageSize ELSE Len(job.buf)
      BY <1>1 DEF Writing
    <3>7. job'.page \in 0 .. job'.pages - 1
      BY <2>6, <3>3, <3>4
    <3>8. job'.done = IF job'.page = 0 THEN 0
                        ELSE job'.first + (job'.page - 1) * PageSize
      <4>1. job'.page # 0 /\ job'.page - 1 = job.page
        BY <3>3, <3>4
      <4> QED BY <1>2, <2>6, <3>3, <4>1
    <3>9. \A i : Spot(i)' = Spot(i)
      BY <3>3 DEF Spot
    <3>10. /\ Garbled(chip, job.done)'
           /\ (job.calm = "calm")' => (job.size = job.done)' /\ Exact(chip, job.done)'
      <4>1. Garbled(chip, job.done)'
        BY <2>2, <3>3, <3>9 DEF Garbled
      <4>2. ASSUME calm = "calm" PROVE Exact(chip, job.done)'
        <5>1. Exact(chip', k)
          BY <2>2, <2>3, <4>2
        <5> QED BY <3>3, <3>9, <5>1 DEF Exact
      <4> QED BY <2>3, <3>3, <4>1, <4>2
    <3>11. Writing'
      BY <2>3, <2>4, <3>3, <3>6, <3>7, <3>8, <3>10 DEF Writing
    <3>12. EepromInv'
      BY <2>2, <2>4, <3>11 DEF EepromInv
    <3> QED BY <1>1, <3>1, <3>3, <3>5, <3>12 DEF EF!fileVars
  <2> QED BY <2>5, <2>6
<1>5. CASE OpenFails /\ job' = NoJob /\ eout' = <<"write", 0, job.calm>> /\ UNCHANGED <<chip, pos>>
  <2>1. job.done \in 0 .. Len(job.buf) /\ 0 \in 0 .. job.done
    BY <1>2, <1>3
  <2> QED BY <1>1, <1>3, <1>5, <2>1, WriteEnds
<1> QED BY <1>4, <1>5 DEF WritePage

LEMMA ReadKeeps ==
  ASSUME EepromInv, NEW n \in 1 .. MaxRead, eeprom_24lc_driver_read(n)
  PROVE  EepromInv' /\ EF!Read(n)
<1>1. /\ Free /\ UNCHANGED <<chip, job>> /\ pos \in Nat
      /\ chip \in [0 .. ChipSize - 1 -> EByte]
  BY DEF EepromInv, eeprom_24lc_driver_read
<1>2. Free'
  BY <1>1 DEF Free
<1>3. CASE OpenFails /\ eout' = <<"read", << >>, "calm">> /\ UNCHANGED pos
  BY <1>1, <1>2, <1>3 DEF EepromInv, EF!Read
<1>5. CASE /\ \E bytes \in [1 .. n -> EByte] : eout' = <<"read", bytes, "disturbed">>
           /\ pos' = pos + n
  <2>1. pos' \in Nat
    BY <1>1, <1>5
  <2> QED BY <1>1, <1>2, <1>5, <2>1 DEF EepromInv, EF!Read
<1>4. CASE eout' = <<"read", Bytes(n), "calm">> /\ pos' = pos + n
  <2>1. \A i \in 1 .. n : (Address(Device(pos), pos) + i - 1) % ChipSize = EF!ReadPlace(i)
    <3> TAKE i \in 1 .. n
    <3> DEFINE q == pos \div ChipSize
               r == pos % ChipSize
    <3>1. ChipSize \in Nat \ {0} /\ Address(Device(pos), pos) = r
      BY <1>1, AddressOf
    <3>2. q \in Nat /\ r \in 0 .. ChipSize - 1 /\ pos = ChipSize * q + r
      BY <1>1, <3>1, Divided
    <3> HIDE DEF q, r
    <3>3. r + i - 1 \in Nat
      BY <3>1, <3>2
    <3>4. pos + i - 1 = ChipSize * q + (r + i - 1)
      <4>1. ChipSize * q \in Nat
        BY <3>1, <3>2
      <4> QED BY <3>1, <3>2, <4>1
    <3>5. (pos + i - 1) % ChipSize = (r + i - 1) % ChipSize
      <4>1. (ChipSize * q + (r + i - 1)) % ChipSize = (r + i - 1) % ChipSize
        BY <3>1, <3>2, <3>3, TurnsDropOut
      <4> QED BY <3>4, <4>1
    <3>6. EF!ReadPlace(i) = (pos + i - 1) % ChipSize
      BY <1>1 DEF EF!ReadPlace
    <3> QED BY <3>1, <3>5, <3>6
  <2>2. eout' = <<"read", [i \in 1 .. n |-> chip[EF!ReadPlace(i)]], "calm">>
    BY <1>4, <2>1 DEF Bytes
  <2>3. EF!Read(n)
    BY <1>1, <1>2, <1>4, <2>2 DEF EF!Read
  <2>4. pos' \in Nat
    BY <1>1, <1>4
  <2> QED BY <1>1, <1>2, <2>3, <2>4 DEF EepromInv
<1> QED BY <1>3, <1>4, <1>5 DEF eeprom_24lc_driver_read

LEMMA EepromStep ==
  ASSUME EepromInv, [EepromNext]_eepromVars
  PROVE  EepromInv' /\ [EF!Next]_(EF!fileVars)
<1>1. ASSUME NEW p \in Seeks, eeprom_24lc_driver_seek(p)
      PROVE  EepromInv' /\ EF!Next
  <2>1. /\ Free /\ pos' = p /\ eout' = <<"seek", p>> /\ UNCHANGED <<chip, job>>
        /\ p \in Nat /\ chip \in [0 .. ChipSize - 1 -> EByte]
    BY <1>1, EepromAssumption DEF eeprom_24lc_driver_seek, EepromInv
  <2>2. Free'
    BY <2>1 DEF Free
  <2>3. EF!Seek(p)
    BY <2>1, <2>2 DEF EF!Seek
  <2> QED BY <2>1, <2>2, <2>3 DEF EepromInv, EF!Next
<1>2. ASSUME NEW n \in 1 .. MaxRead, eeprom_24lc_driver_read(n)
      PROVE  EepromInv' /\ EF!Next
  BY <1>2, ReadKeeps DEF EF!Next
<1>3. ASSUME NEW b \in Buffers, WriteStarts(b)
      PROVE  EepromInv' /\ UNCHANGED EF!fileVars
  BY <1>3, WriteStartsKeeps
<1>4. CASE WritePage
  BY <1>4, PageKeeps
<1>5. CASE UNCHANGED <<chip, pos, job, eout>>
  <2>1. EepromInv'
    BY <1>5 DEF EepromInv, Free, Writing, Spot, Exact, Garbled
  <2>2. UNCHANGED EF!fileVars
    BY <1>5 DEF EF!fileVars, Free
  <2> QED BY <2>1, <2>2
<1>6. OtherOpens \/ OtherCloses \/ UNCHANGED eepromVars => UNCHANGED <<chip, pos, job, eout>>
  BY DEF OtherOpens, OtherCloses, eepromVars
<1> QED BY <1>1, <1>2, <1>3, <1>4, <1>5, <1>6 DEF EepromNext

(* The EEPROM is an array of bytes for every size of its pages, blocks and  *)
(* chip, every position and every buffer no longer than a block, with the   *)
(* bus taken between any two pages and any transaction disturbed: an        *)
(* undisturbed write stores the bytes it was given, or the first of them,   *)
(* at their places; a disturbed one changes nothing but those places.       *)
THEOREM EepromIsAFile == EepromSpec => EepromIsFile
<1>1. EepromInv /\ [EepromNext]_eepromVars => EepromInv' /\ [EF!Next]_(EF!fileVars)
  BY EepromStep
<1> QED BY <1>1, EepromInitInv, PTL DEF EepromSpec, EepromIsFile, EF!Spec
=============================================================================
