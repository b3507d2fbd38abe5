---------------------------- MODULE LibraryProofs ----------------------------
(***************************************************************************)
(* The ring of lib/queue.c is a bounded FIFO, for every ring size: the     *)
(* element count always agrees with the two indices, and every operation   *)
(* is the corresponding operation of Fifo. A message queue of              *)
(* kernel/message.c is one too. The heap of lib/malloc.c for every size of *)
(* the zone, all requests that leave room for a header in a size_t and     *)
(* every sequence of calls, in both allocators: the blocks tile the zone,  *)
(* what is handed out is disjoint, and a search from the start overlooks   *)
(* no room.                                                                *)
(***************************************************************************)
EXTENDS MessageQueue, Heap, BasicProofs

-----------------------------------------------------------------------------
(* The ring and the message queue.                                          *)

(* An index advances by one, or wraps to 0 from the last slot. *)
LEMMA WrapStep ==
  ASSUME NEW i \in Slots
  PROVE  Wrap(i + 1) = IF i = Size - 1 THEN 0 ELSE i + 1
<1>1. CASE i = Size - 1
  BY <1>1, SizeAssumption DEF Wrap, Slots
<1>2. CASE i # Size - 1
  <2>1. i + 1 \in 0 .. Size - 1
    BY <1>2, SizeAssumption DEF Slots
  <2>2. (i + 1) % Size = i + 1
    BY <2>1, SizeAssumption
  <2> QED BY <1>2, <2>2 DEF Wrap
<1> QED BY <1>1, <1>2

Inv == TypeInv /\ CountMatchesRing

(* The type invariant and the agreement of elem with head and tail are      *)
(* inductive together, and bound elem by the Size - 1 usable slots.         *)
LEMMA InvBounds ==
  ASSUME Inv
  PROVE  /\ elem \in 0 .. Size - 1
         /\ elem = 0 <=> head = tail
         /\ elem = Size - 1 <=> Wrap(tail + 1) = head
<1>1. Wrap(tail + 1) = IF tail = Size - 1 THEN 0 ELSE tail + 1
  BY WrapStep DEF Inv, TypeInv
<1> QED BY <1>1, SizeAssumption DEF Inv, TypeInv, CountMatchesRing, Slots

LEMMA InitInv == Init => Inv
<1> SUFFICES ASSUME Init PROVE Inv
  OBVIOUS
<1>1. live \in BOOLEAN
  BY DEF Init
<1>2. /\ pdata \in [Slots -> Data]
      /\ head \in Slots /\ tail \in Slots /\ elem \in Int
      /\ CountMatchesRing
  BY SizeAssumption DEF Init, CountMatchesRing, Slots
<1> QED BY <1>1, <1>2 DEF Inv, TypeInv

LEMMA NextInv == Inv /\ [Next]_queueVars => Inv'
<1> SUFFICES ASSUME Inv, [Next]_queueVars PROVE Inv'
  OBVIOUS
<1> USE SizeAssumption DEF Inv
<1>h. Wrap(head + 1) = IF head = Size - 1 THEN 0 ELSE head + 1
  BY WrapStep DEF TypeInv
<1>t. Wrap(tail + 1) = IF tail = Size - 1 THEN 0 ELSE tail + 1
  BY WrapStep DEF TypeInv
<1>1. CASE queue_create
  <2>1. live' \in BOOLEAN
    BY <1>1 DEF queue_create, TypeInv
  <2>2. \/ pdata' \in [Slots -> Data] /\ head' = 0 /\ tail' = 0 /\ elem' = 0
        \/ UNCHANGED <<pdata, head, tail, elem>>
    BY <1>1 DEF queue_create
  <2>3. /\ pdata' \in [Slots -> Data]
        /\ head' \in Slots /\ tail' \in Slots /\ elem' \in Int
        /\ CountMatchesRing'
    BY <2>2 DEF TypeInv, CountMatchesRing, Slots
  <2> QED BY <2>1, <2>3 DEF TypeInv
<1>2. CASE queue_destroy
  BY <1>2 DEF queue_destroy, TypeInv, CountMatchesRing, Slots
<1>3. CASE queue_count
  BY <1>3 DEF queue_count, TypeInv, CountMatchesRing, Slots
<1>4. ASSUME NEW data \in Data, queue_enqueue(data) PROVE Inv'
  <2>1. CASE Wrap(tail + 1) = head
    BY <1>4, <2>1 DEF queue_enqueue, TypeInv, CountMatchesRing, Slots
  <2>2. CASE Wrap(tail + 1) # head
    <3>1. /\ pdata' = [pdata EXCEPT ![tail] = data]
          /\ tail' = Wrap(tail + 1) /\ elem' = elem + 1
          /\ UNCHANGED <<head, live>>
      BY <1>4, <2>2 DEF queue_enqueue
    <3>2. pdata' \in [Slots -> Data]
      BY <1>4, <3>1 DEF TypeInv
    <3>3. /\ head \in 0 .. Size - 1 /\ tail \in 0 .. Size - 1 /\ elem \in Int
          /\ live \in BOOLEAN
      BY DEF TypeInv, Slots
    <3>4. tail' \in Slots /\ CountMatchesRing'
      BY <1>t, <2>2, <3>1, <3>3 DEF CountMatchesRing, Slots
    <3> QED BY <3>1, <3>2, <3>3, <3>4 DEF TypeInv, Slots
  <2> QED BY <2>1, <2>2
<1>5. CASE queue_dequeue
  <2>1. CASE head = tail
    BY <1>5, <2>1 DEF queue_dequeue, TypeInv, CountMatchesRing, Slots
  <2>2. CASE head # tail
    BY <1>5, <1>h, <2>2 DEF queue_dequeue, TypeInv, CountMatchesRing, Slots
  <2> QED BY <2>1, <2>2
<1>6. CASE queue_peek
  BY <1>6 DEF queue_peek, TypeInv, CountMatchesRing, Slots
<1>7. CASE UNCHANGED queueVars
  BY <1>7 DEF queueVars, TypeInv, CountMatchesRing, Slots
<1> QED BY <1>1, <1>2, <1>3, <1>4, <1>5, <1>6, <1>7 DEF Next

(* For every ring size the count of elements, which queue_count reports     *)
(* and queue_destroy tests, agrees with the distance from head to tail.     *)
THEOREM CountIsExact == Spec => [](TypeInv /\ CountMatchesRing)
<1>1. Inv => TypeInv /\ CountMatchesRing
  BY DEF Inv
<1> QED BY <1>1, InitInv, NextInv, PTL DEF Spec

-----------------------------------------------------------------------------
(* The refinement: one lemma per operation that changes the contents. *)

LEMMA ContentsLen ==
  ASSUME Inv
  PROVE  /\ Contents \in Seq(Data)
         /\ Len(Contents) = elem
         /\ Contents = << >> <=> elem = 0
<1>1. elem \in 0 .. Size - 1
  BY InvBounds
<1>2. ASSUME NEW i \in 1 .. elem PROVE pdata[SlotOf(i)] \in Data
  BY <1>1, <1>2, SizeAssumption DEF Inv, TypeInv, SlotOf, Slots
<1>3. Contents \in [1 .. elem -> Data]
  BY <1>2 DEF Contents
<1>4. Contents \in Seq(Data) /\ Len(Contents) = elem
  BY <1>1, <1>3
<1> QED BY <1>1, <1>4

LEMMA EnqueueAppends ==
  ASSUME Inv, NEW data \in Data, queue_enqueue(data), Wrap(tail + 1) # head
  PROVE  Contents' = Append(Contents, data)
<1> USE SizeAssumption
<1>1. elem \in 0 .. Size - 1 /\ elem' = elem + 1 /\ elem + 1 <= Size - 1
  <2>1. elem \in 0 .. Size - 1 /\ elem # Size - 1
    BY InvBounds
  <2> QED BY <2>1 DEF queue_enqueue
<1>2. head' = head /\ pdata' = [pdata EXCEPT ![tail] = data]
  BY DEF queue_enqueue
<1>3. SlotOf(elem + 1) = tail
  BY <1>1 DEF Inv, TypeInv, CountMatchesRing, SlotOf, Slots
<1>4. ASSUME NEW i \in 1 .. elem
      PROVE  SlotOf(i) # tail /\ SlotOf(i) \in Slots
  BY <1>1 DEF Inv, TypeInv, CountMatchesRing, SlotOf, Slots
<1>5. ASSUME NEW i \in 1 .. elem + 1
      PROVE  pdata'[SlotOf(i)'] = IF i = elem + 1 THEN data ELSE pdata[SlotOf(i)]
  <2>1. SlotOf(i)' = SlotOf(i)
    BY <1>2 DEF SlotOf
  <2>2. CASE i = elem + 1
    BY <1>2, <1>3, <2>1, <2>2 DEF Inv, TypeInv
  <2>3. CASE i # elem + 1
    <3>1. i \in 1 .. elem
      BY <1>1, <2>3
    <3> QED BY <1>1, <1>2, <1>4, <2>1, <2>3, <3>1 DEF Inv, TypeInv
  <2> QED BY <2>2, <2>3
<1>6. Contents' = [i \in 1 .. elem + 1 |->
                     IF i = elem + 1 THEN data ELSE pdata[SlotOf(i)]]
  BY <1>1, <1>5 DEF Contents
<1>7. Contents \in Seq(Data) /\ Len(Contents) = elem
  BY ContentsLen
<1>8. Append(Contents, data) = [i \in 1 .. elem + 1 |->
                     IF i = elem + 1 THEN data ELSE pdata[SlotOf(i)]]
  BY <1>1, <1>7 DEF Contents
<1> QED BY <1>6, <1>8

LEMMA DequeueTakesHead ==
  ASSUME Inv, queue_dequeue, head # tail
  PROVE  /\ Contents # << >>
         /\ Contents' = Tail(Contents)
         /\ pdata[head] = Head(Contents)
<1> USE SizeAssumption
<1>1. elem \in 1 .. Size - 1 /\ elem' = elem - 1
  <2>1. elem \in 0 .. Size - 1 /\ elem # 0
    BY InvBounds
  <2> QED BY <2>1 DEF queue_dequeue
<1>2. pdata' = pdata /\ head' = IF head = Size - 1 THEN 0 ELSE head + 1
  BY WrapStep DEF queue_dequeue, Inv, TypeInv
<1>3. Contents \in Seq(Data) /\ Len(Contents) = elem /\ Contents # << >>
  BY <1>1, ContentsLen
<1>4. pdata[head] = Contents[1]
  BY <1>1 DEF Contents, SlotOf, Inv, TypeInv, Slots
<1>5. ASSUME NEW i \in 1 .. elem - 1
      PROVE  SlotOf(i)' = SlotOf(i + 1)
  BY <1>1, <1>2 DEF SlotOf, Inv, TypeInv, Slots
<1>6. Contents' = [i \in 1 .. elem - 1 |-> pdata[SlotOf(i + 1)]]
  BY <1>1, <1>2, <1>5 DEF Contents
<1>7. Tail(Contents) = [i \in 1 .. elem - 1 |-> pdata[SlotOf(i + 1)]]
  BY <1>1, <1>3 DEF Contents
<1> QED BY <1>3, <1>4, <1>6, <1>7

LEMMA StepRefines == Inv /\ [Next]_queueVars => [F!Next]_(F!fifoVars)
<1> SUFFICES ASSUME Inv, [Next]_queueVars PROVE [F!Next]_(F!fifoVars)
  OBVIOUS
<1> USE SizeAssumption
<1>c. /\ Contents \in Seq(Data) /\ Len(Contents) = elem
      /\ Contents = << >> <=> elem = 0
  BY ContentsLen
<1>b. /\ elem \in 0 .. Size - 1
      /\ elem = 0 <=> head = tail
      /\ elem = Size - 1 <=> Wrap(tail + 1) = head
  BY InvBounds
<1>s. ASSUME UNCHANGED <<pdata, head, elem>> PROVE Contents' = Contents
  BY <1>s DEF Contents, SlotOf
<1>1. CASE queue_create
  <2>1. CASE UNCHANGED <<pdata, head, tail, elem, live>>
             /\ out' = <<"create", "no memory">>
    <3>1. Contents' = Contents
      BY <1>s, <2>1
    <3> QED BY <1>1, <2>1, <3>1 DEF queue_create, F!Next, F!Create
  <2>2. CASE live' = TRUE /\ out' = <<"create", "ok">> /\ elem' = 0
    <3>1. Contents' \in [1 .. 0 -> Data]
      BY <2>2 DEF Contents
    <3>2. Contents' = << >>
      BY <3>1
    <3> QED BY <1>1, <2>2, <3>2 DEF queue_create, F!Next, F!Create
  <2> QED BY <1>1, <2>1, <2>2 DEF queue_create
<1>2. CASE queue_destroy
  <2>1. Contents' = Contents
    BY <1>2, <1>s DEF queue_destroy
  <2>2. CASE head = tail /\ elem = 0
    BY <1>2, <1>c, <2>1, <2>2 DEF queue_destroy, F!Next, F!Destroy
  <2>3. CASE ~(head = tail /\ elem = 0)
    BY <1>2, <1>b, <1>c, <2>1, <2>3 DEF queue_destroy, F!Next, F!Destroy
  <2> QED BY <2>2, <2>3
<1>3. CASE queue_count
  <2>1. Contents' = Contents
    BY <1>3, <1>s DEF queue_count
  <2> QED BY <1>3, <1>c, <2>1 DEF queue_count, F!Next, F!Count
<1>4. ASSUME NEW data \in Data, queue_enqueue(data)
      PROVE  F!Next
  <2>1. CASE Wrap(tail + 1) = head
    <3>1. Contents' = Contents
      BY <1>4, <1>s, <2>1 DEF queue_enqueue
    <3>2. F!Enqueue(data)
      BY <1>4, <1>b, <1>c, <2>1, <3>1 DEF queue_enqueue, F!Enqueue
    <3> QED BY <3>2 DEF F!Next
  <2>2. CASE Wrap(tail + 1) # head
    <3>1. Contents' = Append(Contents, data)
      BY <1>4, <2>2, EnqueueAppends
    <3>2. F!Enqueue(data)
      BY <1>4, <1>b, <1>c, <2>2, <3>1 DEF queue_enqueue, F!Enqueue
    <3> QED BY <3>2 DEF F!Next
  <2> QED BY <2>1, <2>2
<1>5. CASE queue_dequeue
  <2>1. CASE head = tail
    <3>1. Contents' = Contents
      BY <1>5, <1>s, <2>1 DEF queue_dequeue
    <3> QED BY <1>5, <1>b, <1>c, <2>1, <3>1 DEF queue_dequeue, F!Next, F!Dequeue
  <2>2. CASE head # tail
    BY <1>5, <2>2, DequeueTakesHead DEF queue_dequeue, F!Next, F!Dequeue
  <2> QED BY <2>1, <2>2
<1>6. CASE queue_peek
  <2>1. Contents' = Contents
    BY <1>6, <1>s DEF queue_peek
  <2>2. head # tail => Contents[1] = pdata[head]
    BY <1>b DEF Contents, SlotOf, Inv, TypeInv, Slots
  <2>3. Head(Contents) = Contents[1]
    BY <1>c
  <2> QED BY <1>6, <1>b, <1>c, <2>1, <2>2, <2>3 DEF queue_peek, F!Next, F!Peek
<1>7. CASE UNCHANGED queueVars
  <2>1. Contents' = Contents
    BY <1>7, <1>s DEF queueVars
  <2> QED BY <1>7, <2>1 DEF queueVars, F!fifoVars
<1> QED BY <1>1, <1>2, <1>3, <1>4, <1>5, <1>6, <1>7 DEF Next

LEMMA InitRefines == Init => F!Init
<1> SUFFICES ASSUME Init PROVE F!Init
  OBVIOUS
<1>1. Contents \in [1 .. 0 -> Data]
  BY DEF Init, Contents
<1>2. Contents = << >>
  BY <1>1
<1> QED BY <1>2 DEF Init, F!Init

(* The queue of lib/queue.c is a bounded FIFO with room for Size - 1        *)
(* elements: whatever the ring size and the order of the calls, each call   *)
(* returns what the FIFO returns.                                           *)
THEOREM QueueIsFifo == Spec => ImplementsFifo
<1>1. Inv /\ Inv' /\ [Next]_queueVars => [F!Next]_(F!fifoVars)
  BY StepRefines
<1> QED BY <1>1, InitInv, NextInv, InitRefines, PTL DEF Spec, ImplementsFifo, F!Spec

-----------------------------------------------------------------------------
(* The message queue over the ring. *)

(* Each call on a message queue is a call on the ring below it, or none.    *)
LEMMA MqStep == [MqNext]_mqVars => [Next]_queueVars
<1> SUFFICES ASSUME [MqNext]_mqVars PROVE [Next]_queueVars
  OBVIOUS
<1>1. CASE ucx_mq_create
  BY <1>1 DEF ucx_mq_create, Next
<1>2. CASE ucx_mq_destroy
  BY <1>2 DEF ucx_mq_destroy, MqTest, MqFree, Next
<1>3. CASE ucx_mq_dequeue \/ ucx_mq_peek \/ ucx_mq_items
  BY <1>3 DEF ucx_mq_dequeue, ucx_mq_peek, ucx_mq_items, Next
<1>4. ASSUME NEW m \in Data, ucx_mq_enqueue(m) PROVE [Next]_queueVars
  BY <1>4 DEF ucx_mq_enqueue, Next
<1>5. CASE UNCHANGED mqVars
  BY <1>5 DEF mqVars
<1> QED BY <1>1, <1>2, <1>3, <1>4, <1>5 DEF MqNext

LEMMA MqRefinesQueue == MqSpec => Spec
<1>1. MqInit => Init
  BY DEF MqInit
<1> QED BY <1>1, MqStep, PTL DEF MqSpec, Spec

(* Messages come out of kernel/message.c in the order they went in, each    *)
(* one once, for every size and every order of the calls.                   *)
THEOREM MessagesAreFifo == MqSpec => ImplementsFifo
BY MqRefinesQueue, QueueIsFifo, PTL

-----------------------------------------------------------------------------
(* The heap.                                                                *)

(* The inductive invariant. *)

Block == [next : Nat, size : Nat, used : BOOLEAN]
Blocks(m) == DOMAIN m \ {HeapTail}

(* The blocks tile the zone: each one ends where the next one starts, and a *)
(* used block has the size it says. The block before the tail is free: were *)
(* it used, the search would run into the tail, give it the size -Hdr,      *)
(* taken for a huge one, and hand out memory beyond the zone.               *)
Chain(m) ==
  /\ m \in [DOMAIN m -> Block]
  /\ HeapBase \in DOMAIN m /\ HeapTail \in DOMAIN m
  /\ DOMAIN m \subseteq HeapBase .. HeapTail
  /\ \A a \in Blocks(m) :
       /\ m[a].next \in DOMAIN m /\ m[a].next >= a + Hdr
       /\ \A b \in DOMAIN m : b > a => b >= m[a].next
       /\ m[a].used => m[a].next = a + Hdr + m[a].size /\ m[a].next # HeapTail
  /\ m[HeapTail].next = 0 /\ m[HeapTail].size = 0 /\ ~m[HeapTail].used

(* What the other allocator keeps and the default one does not: the size of *)
(* a free block is right, and no two free blocks are neighbours.            *)
Healed(m) ==
  \A a \in Blocks(m) : ~m[a].used =>
    /\ m[a].size = m[a].next - a - Hdr
    /\ m[m[a].next].used \/ m[a].next = HeapTail

(* What the application holds is what is marked used. *)
OwnsUsed(m, o) ==
  /\ DOMAIN o = {a + Hdr : a \in {b \in DOMAIN m : m[b].used}}
  /\ \A a \in DOMAIN m : m[a].used => o[a + Hdr] = m[a].size

HeapInv ==
  /\ Chain(mem) /\ OwnsUsed(mem, owned)
  /\ last_free \in Blocks(mem)
  /\ allocator = "alt" => Healed(mem)

LEMMA PutValues ==
  ASSUME NEW f, NEW a, NEW v
  PROVE  /\ DOMAIN Put(f, a, v) = DOMAIN f \cup {a}
         /\ Put(f, a, v)[a] = v
         /\ \A x \in DOMAIN f \ {a} : Put(f, a, v)[x] = f[x]
BY DEF Put

-----------------------------------------------------------------------------
(* Runs of free blocks. *)

LEMMA RunEndIs ==
  ASSUME NEW m, Chain(m), NEW a \in DOMAIN m
  PROVE  /\ RunEnd(m, a) \in DOMAIN m /\ RunEnd(m, a) >= a
         /\ RunEnd(m, a) # HeapTail => m[RunEnd(m, a)].used
         /\ \A b \in DOMAIN m : b >= a /\ (m[b].used \/ b = HeapTail) => b >= RunEnd(m, a)
<1> DEFINE S == {b \in DOMAIN m : b >= a /\ (m[b].used \/ m[b].next = 0)}
<1>1. DOMAIN m \subseteq Nat /\ HeapTail \in S
  BY HeapAssumption DEF Chain, HeapBase, HeapTail, Hdr
<1>2. \A b \in Blocks(m) : m[b].next # 0
  BY <1>1 DEF Chain, Blocks, Hdr
<1>3. Min(S) \in S /\ \A y \in S : Min(S) <= y
  <2>1. S \subseteq Nat /\ S # {}
    BY <1>1
  <2> HIDE DEF S
  <2> QED BY <2>1, SmallestOf
<1>4. RunEnd(m, a) = Min(S)
  BY DEF RunEnd
<1>5. \A b \in DOMAIN m : b >= a /\ (m[b].used \/ b = HeapTail) => b \in S
  BY DEF Chain
<1> QED BY <1>1, <1>2, <1>3, <1>4, <1>5 DEF Blocks

LEMMA RunOfFree ==
  ASSUME NEW m, Chain(m), NEW a \in Blocks(m), ~m[a].used
  PROVE  /\ RunEnd(m, a) >= m[a].next /\ RunEnd(m, a) >= a + Hdr
         /\ RunSize(m, a) = RunEnd(m, a) - a - Hdr
<1>1. /\ RunEnd(m, a) \in DOMAIN m /\ RunEnd(m, a) >= a
      /\ RunEnd(m, a) # HeapTail => m[RunEnd(m, a)].used
  BY RunEndIs DEF Blocks
<1>2. RunEnd(m, a) # a
  BY <1>1 DEF Blocks
<1>3. /\ a \in HeapBase .. HeapTail /\ RunEnd(m, a) \in HeapBase .. HeapTail
      /\ m[a].next \in HeapBase .. HeapTail /\ m[a].next >= a + Hdr
  BY <1>1 DEF Chain, Blocks
<1>4. HeapBase \in Nat /\ HeapTail \in Nat /\ HeapTail < WordMod /\ WordMod \in Nat /\ Hdr \in Nat
  <2>1. HeapLen \in Nat /\ HeapLen >= 2 * Hdr /\ HeapLen < WordMod - 2 * Hdr
    BY HeapAssumption
  <2>2. WordMod \in Nat
    BY SMT DEF WordMod
  <2> QED BY <2>1, <2>2 DEF HeapBase, HeapTail, Hdr
<1>5. RunEnd(m, a) >= m[a].next
  BY <1>1, <1>2, <1>3, <1>4 DEF Chain, Blocks
<1>6. RunEnd(m, a) - a - Hdr \in 0 .. WordMod - 1
  BY <1>3, <1>4, <1>5
<1> QED BY <1>3, <1>4, <1>5, <1>6 DEF RunSize

LEMMA RunStartsAreApart ==
  ASSUME NEW m, Chain(m), NEW from \in Blocks(m), NEW r \in RunStarts(m, from)
  PROVE  /\ r \in Blocks(m) /\ ~m[r].used /\ r >= from
         /\ \A s \in RunStarts(m, from) : ~(s < r /\ r < RunEnd(m, s))
<1>1. r \in DOMAIN m /\ ~m[r].used /\ r >= from
  BY DEF RunStarts
<1>2. r # HeapTail
  BY DEF RunStarts, Chain, Blocks
<1>3. ASSUME NEW s \in RunStarts(m, from), s < r, r < RunEnd(m, s)
      PROVE  FALSE
  <2>1. s \in DOMAIN m /\ s >= from /\ DOMAIN m \subseteq Int
    BY DEF RunStarts, Chain, HeapBase
  <2>2. PICK b \in DOMAIN m : m[b].used /\ m[b].next = r
    BY <1>1, <1>3, <2>1 DEF RunStarts, Blocks
  <2>3. b # HeapTail /\ b >= s
    BY <1>1, <1>3, <2>1, <2>2 DEF Chain, Blocks
  <2>4. b >= RunEnd(m, s) /\ RunEnd(m, s) \in DOMAIN m
    BY <2>1, <2>2, <2>3, RunEndIs
  <2>5. r > b
    BY <2>1, <2>2, <2>3 DEF Chain, Blocks, Hdr
  <2> QED BY <1>1, <1>3, <2>1, <2>4, <2>5
<1> QED BY <1>1, <1>2, <1>3 DEF Blocks

-----------------------------------------------------------------------------
(* Merging runs keeps the chain, every used block, and the start of every   *)
(* run, merged or not.                                                      *)

Dropped(m, starts, b) == \E s \in starts : s < b /\ b < RunEnd(m, s)

LEMMA MergedValues ==
  ASSUME NEW m, NEW starts
  PROVE  /\ DOMAIN Merged(m, starts) = {b \in DOMAIN m : ~Dropped(m, starts, b)}
         /\ \A a \in DOMAIN Merged(m, starts) :
              Merged(m, starts)[a] =
                IF a \in starts
                  THEN [next |-> RunEnd(m, a), size |-> RunSize(m, a), used |-> FALSE]
                  ELSE m[a]
BY DEF Merged, Dropped

LEMMA MergedKeeps ==
  ASSUME NEW m, Chain(m), NEW from \in Blocks(m),
         NEW starts, starts \subseteq RunStarts(m, from)
  PROVE  /\ \A r \in RunStarts(m, from) : r \in Blocks(Merged(m, starts))
         /\ from \in Blocks(Merged(m, starts))
         /\ \A b \in DOMAIN m : m[b].used \/ b = HeapTail \/ b < from =>
              /\ b \in DOMAIN Merged(m, starts)
              /\ b \notin starts => Merged(m, starts)[b] = m[b]
         /\ \A s \in starts : s \in Blocks(m) /\ ~m[s].used /\ s >= from
<1>1. \A s \in starts : s \in Blocks(m) /\ ~m[s].used /\ s >= from
  BY RunStartsAreApart
<1>2. DOMAIN m \subseteq Int
  BY DEF Chain, HeapBase
<1>3. \A r \in RunStarts(m, from) : r \in Blocks(m) /\ ~Dropped(m, starts, r)
  BY RunStartsAreApart DEF Dropped
<1>4. ASSUME NEW b \in DOMAIN m, m[b].used \/ b = HeapTail \/ b < from \/ b = from
      PROVE  ~Dropped(m, starts, b)
  <2> SUFFICES ASSUME NEW s \in starts, s < b, b < RunEnd(m, s)
               PROVE  FALSE
    BY DEF Dropped
  <2>1. s >= from /\ s \in DOMAIN m /\ from \in DOMAIN m
    BY <1>1 DEF Blocks
  <2>2. RunEnd(m, s) \in DOMAIN m
    BY <2>1, RunEndIs
  <2>3. m[b].used \/ b = HeapTail
    BY <1>2, <1>4, <2>1
  <2>4. b >= RunEnd(m, s)
    BY <1>2, <2>1, <2>3, RunEndIs
  <2> QED BY <1>2, <2>2, <2>4
<1>5. from # HeapTail /\ from \in DOMAIN m
  BY DEF Blocks
<1>6. /\ DOMAIN Merged(m, starts) = {b \in DOMAIN m : ~Dropped(m, starts, b)}
      /\ \A a \in DOMAIN Merged(m, starts) : a \notin starts => Merged(m, starts)[a] = m[a]
  BY DEF Merged, Dropped
<1>7. /\ from \in Blocks(Merged(m, starts))
      /\ \A r \in RunStarts(m, from) : r \in Blocks(Merged(m, starts))
  BY <1>3, <1>4, <1>5, <1>6 DEF Blocks
<1>8. \A b \in DOMAIN m : m[b].used \/ b = HeapTail \/ b < from =>
        /\ b \in DOMAIN Merged(m, starts)
        /\ b \notin starts => Merged(m, starts)[b] = m[b]
  BY <1>4, <1>6
<1> QED BY <1>1, <1>7, <1>8

LEMMA MergedChain ==
  ASSUME NEW m, Chain(m), NEW from \in Blocks(m),
         NEW starts, starts \subseteq RunStarts(m, from)
  PROVE  /\ Chain(Merged(m, starts))
         /\ \A b \in DOMAIN Merged(m, starts) :
              Merged(m, starts)[b].used => m[b].used /\ b \notin starts
<1> DEFINE g == Merged(m, starts)
<1>1. /\ DOMAIN g = {b \in DOMAIN m : ~Dropped(m, starts, b)}
      /\ \A a \in DOMAIN g \cap starts :
           g[a] = [next |-> RunEnd(m, a), size |-> RunSize(m, a), used |-> FALSE]
      /\ \A a \in DOMAIN g \ starts : g[a] = m[a]
  BY MergedValues
<1>2. /\ from \in DOMAIN g /\ \A s \in starts : s \in Blocks(m) /\ ~m[s].used /\ s >= from
      /\ \A b \in DOMAIN m : m[b].used \/ b = HeapTail \/ b < from =>
           /\ b \in DOMAIN g
           /\ b \notin starts => g[b] = m[b]
  BY MergedKeeps DEF Blocks
<1>f. g = [a \in DOMAIN g |-> g[a]]
  BY DEF Merged
<1> HIDE DEF g
<1>3. DOMAIN m \subseteq Nat /\ DOMAIN m \subseteq HeapBase .. HeapTail /\ Hdr \in Nat
  BY HeapAssumption DEF Chain, HeapBase, Hdr, HeapTail
<1>4. ASSUME NEW a \in Blocks(g), a \in starts
      PROVE  /\ g[a].next \in DOMAIN g /\ g[a].next >= a + Hdr
             /\ \A b \in DOMAIN g : b > a => b >= g[a].next
             /\ ~g[a].used /\ g[a] \in Block
  <2>1. a \in Blocks(m) /\ ~m[a].used
    BY <1>2, <1>4
  <2>2. /\ RunEnd(m, a) >= a + Hdr /\ RunSize(m, a) = RunEnd(m, a) - a - Hdr
        /\ RunEnd(m, a) \in DOMAIN m
        /\ RunEnd(m, a) # HeapTail => m[RunEnd(m, a)].used
    BY <2>1, RunOfFree, RunEndIs DEF Blocks
  <2>3. g[a].next = RunEnd(m, a) /\ g[a].size = RunSize(m, a) /\ ~g[a].used
    BY <1>1, <1>4 DEF Blocks
  <2>4. RunEnd(m, a) \in DOMAIN g
    BY <1>2, <2>2
  <2>5. \A b \in DOMAIN g : b > a => b >= RunEnd(m, a)
    BY <1>1, <1>3, <1>4, <2>2 DEF Dropped, Blocks
  <2>6. g[a] \in Block
    <3>1. RunEnd(m, a) \in Nat /\ RunSize(m, a) \in Nat /\ a \in Nat
      BY <1>3, <2>1, <2>2 DEF Blocks
    <3>2. \A e, z \in Nat : [next |-> e, size |-> z, used |-> FALSE] \in Block
      BY DEF Block
    <3>3. g[a] = [next |-> RunEnd(m, a), size |-> RunSize(m, a), used |-> FALSE]
      BY <1>1, <1>4 DEF Blocks
    <3> QED BY <3>1, <3>2, <3>3
  <2> QED BY <2>2, <2>3, <2>4, <2>5, <2>6
<1>5. ASSUME NEW a \in Blocks(g), a \notin starts
      PROVE  /\ g[a].next \in DOMAIN g /\ g[a].next >= a + Hdr
             /\ \A b \in DOMAIN g : b > a => b >= g[a].next
             /\ g[a].used => /\ m[a].used
                             /\ g[a].next = a + Hdr + g[a].size /\ g[a].next # HeapTail
             /\ g[a] \in Block
  <2>1. a \in Blocks(m) /\ a \in DOMAIN g /\ g[a] = m[a]
    BY <1>1, <1>5 DEF Blocks
  <2>2. m[a].next \in DOMAIN m /\ m[a].next >= a + Hdr
    BY <2>1 DEF Chain
  <2>3. ~Dropped(m, starts, m[a].next)
    <3> SUFFICES ASSUME NEW s \in starts, s < m[a].next, m[a].next < RunEnd(m, s)
                 PROVE  FALSE
      BY DEF Dropped
    <3>1. s \in DOMAIN m /\ RunEnd(m, s) \in DOMAIN m
      BY <1>2, RunEndIs DEF Blocks
    <3>2. s <= a
      BY <1>3, <2>1, <3>1 DEF Chain, Blocks
    <3>3. s # a
      BY <1>5
    <3>4. a < RunEnd(m, s)
      BY <1>3, <2>1, <2>2, <3>1 DEF Blocks
    <3>5. Dropped(m, starts, a)
      BY <1>3, <2>1, <3>1, <3>2, <3>3, <3>4 DEF Dropped, Blocks
    <3> QED BY <1>1, <2>1, <3>5
  <2>4. g[a].next \in DOMAIN g
    BY <1>1, <2>1, <2>2, <2>3
  <2>5. g[a] \in Block
    BY <2>1 DEF Chain, Blocks
  <2> QED BY <1>1, <2>1, <2>2, <2>4, <2>5 DEF Chain
<1>6. HeapBase \in DOMAIN g /\ HeapTail \in DOMAIN g /\ g[HeapTail] = m[HeapTail]
  <2>1. HeapBase = from \/ HeapBase < from
    BY <1>3 DEF Blocks, HeapBase
  <2>2. HeapTail \notin starts
    BY <1>2 DEF Blocks
  <2> QED BY <1>2, <2>1, <2>2 DEF Chain
<1>7. g \in [DOMAIN g -> Block]
  <2>1. \A a \in DOMAIN g : g[a] \in Block
    BY <1>4, <1>5, <1>6 DEF Blocks, Chain
  <2> QED BY <1>f, <2>1
<1>8. \A b \in DOMAIN g : g[b].used => m[b].used /\ b \notin starts
  BY <1>4, <1>5, <1>6 DEF Blocks, Chain
<1>9. DOMAIN g \subseteq HeapBase .. HeapTail
  BY <1>1, <1>3
<1>10. g[HeapTail].next = 0 /\ g[HeapTail].size = 0 /\ ~g[HeapTail].used
  BY <1>6 DEF Chain
<1>11. \A a \in Blocks(g) :
         /\ g[a].next \in DOMAIN g /\ g[a].next >= a + Hdr
         /\ \A b \in DOMAIN g : b > a => b >= g[a].next
         /\ g[a].used => g[a].next = a + Hdr + g[a].size /\ g[a].next # HeapTail
  BY <1>4, <1>5
<1>12. Chain(g)
  BY <1>6, <1>7, <1>9, <1>10, <1>11 DEF Chain
<1> QED BY <1>8, <1>12 DEF g

-----------------------------------------------------------------------------
(* Splitting a free block that has room for a header more keeps the chain.  *)

IsSplit(g, m, p, n, rest) ==
  /\ DOMAIN g = DOMAIN m \cup {p, p + Hdr + n}
  /\ g[p] = [next |-> p + Hdr + n, size |-> n, used |-> TRUE]
  /\ g[p + Hdr + n] = [next |-> m[p].next, size |-> rest, used |-> FALSE]
  /\ \A a \in DOMAIN m \ {p, p + Hdr + n} : g[a] = m[a]

LEMMA SplitValues ==
  ASSUME NEW m, NEW p \in Nat, NEW n \in Nat, NEW rest
  PROVE  IsSplit(Split(m, p, n, rest), m, p, n, rest)
<1> DEFINE r == p + Hdr + n
           v == [next |-> m[p].next, size |-> rest, used |-> FALSE]
           f == Put(m, r, v)
           h == [next |-> r, size |-> n, used |-> TRUE]
<1>1. p # r
  BY DEF Hdr
<1>2. Split(m, p, n, rest) = Put(f, p, h)
  BY DEF Split
<1> HIDE DEF h, v, r
<1>3. /\ DOMAIN f = DOMAIN m \cup {r} /\ f[r] = v
      /\ \A a \in DOMAIN m \ {r} : f[a] = m[a]
  BY DEF Put
<1> HIDE DEF f
<1>4. /\ DOMAIN Put(f, p, h) = DOMAIN f \cup {p} /\ Put(f, p, h)[p] = h
      /\ \A a \in DOMAIN f \ {p} : Put(f, p, h)[a] = f[a]
  BY DEF Put
<1>5. /\ DOMAIN Split(m, p, n, rest) = DOMAIN m \cup {p, r}
      /\ Split(m, p, n, rest)[p] = h /\ Split(m, p, n, rest)[r] = v
      /\ \A a \in DOMAIN m \ {p, r} : Split(m, p, n, rest)[a] = m[a]
  BY <1>1, <1>2, <1>3, <1>4
<1> QED BY <1>5 DEF r, v, h, IsSplit

LEMMA SplitChain ==
  ASSUME NEW m, Chain(m), NEW p \in Blocks(m), NEW n \in Nat, NEW rest \in Nat,
         m[p].next >= p + n + 2 * Hdr
  PROVE  /\ Chain(Split(m, p, n, rest))
         /\ p + Hdr + n \notin DOMAIN m
<1> DEFINE g == Split(m, p, n, rest)
           r == p + Hdr + n
<1>1. DOMAIN m \subseteq Nat /\ DOMAIN m \subseteq HeapBase .. HeapTail /\ Hdr \in Nat /\ Hdr > 0
  BY HeapAssumption DEF Chain, HeapBase, Hdr, HeapTail
<1>2. /\ p \in Nat /\ p \in DOMAIN m /\ p # HeapTail
      /\ m[p].next \in DOMAIN m /\ m[p].next \in Nat /\ m[p].next \in HeapBase .. HeapTail
      /\ \A b \in DOMAIN m : b > p => b >= m[p].next
  BY <1>1 DEF Chain, Blocks
<1>3. r \in Nat /\ r > p /\ r >= p + Hdr /\ m[p].next >= r + Hdr /\ r < m[p].next
  BY <1>1, <1>2
<1>4. r \notin DOMAIN m
  BY <1>1, <1>2, <1>3
<1>5. /\ DOMAIN g = DOMAIN m \cup {p, r}
      /\ g[p] = [next |-> r, size |-> n, used |-> TRUE]
      /\ g[r] = [next |-> m[p].next, size |-> rest, used |-> FALSE]
      /\ \A a \in DOMAIN m \ {p, r} : g[a] = m[a]
  <2>1. IsSplit(g, m, p, n, rest)
    BY <1>2, SplitValues
  <2> QED BY <2>1 DEF IsSplit
<1>f. g = [a \in DOMAIN g |-> g[a]]
  BY DEF Split, Put
<1> HIDE DEF g
<1>6. /\ g[p].next = r /\ g[p].size = n /\ g[p].used
      /\ g[r].next = m[p].next /\ ~g[r].used
  BY <1>5
<1>7. HeapTail \in DOMAIN m /\ HeapBase \in DOMAIN m /\ HeapTail # r /\ r \in HeapBase .. HeapTail
  BY <1>1, <1>2, <1>3, <1>4 DEF Chain
<1>8. DOMAIN g \subseteq HeapBase .. HeapTail /\ HeapTail \in DOMAIN g /\ HeapBase \in DOMAIN g
  BY <1>1, <1>2, <1>5, <1>7
<1>9. g[HeapTail].next = 0 /\ g[HeapTail].size = 0 /\ ~g[HeapTail].used
  BY <1>2, <1>5, <1>7 DEF Chain
<1>10. ASSUME NEW a \in Blocks(g)
       PROVE  /\ g[a].next \in DOMAIN g /\ g[a].next >= a + Hdr
              /\ \A b \in DOMAIN g : b > a => b >= g[a].next
              /\ g[a].used => g[a].next = a + Hdr + g[a].size /\ g[a].next # HeapTail
  <2>1. CASE a = p
    BY <1>1, <1>2, <1>3, <1>5, <1>6, <1>7, <2>1
  <2>2. CASE a = r
    BY <1>1, <1>2, <1>3, <1>5, <1>6, <2>2
  <2>3. CASE a # p /\ a # r
    <3>1. a \in Blocks(m) /\ g[a] = m[a] /\ a \in Nat
      BY <1>1, <1>5, <2>3 DEF Blocks
    <3>2. /\ m[a].next \in DOMAIN m /\ m[a].next >= a + Hdr
          /\ \A b \in DOMAIN m : b > a => b >= m[a].next
          /\ m[a].used => m[a].next = a + Hdr + m[a].size /\ m[a].next # HeapTail
      BY <3>1 DEF Chain
    <3>3. r > a => r >= m[a].next
      <4>1. CASE a < p
        BY <1>1, <1>2, <1>3, <3>1, <3>2, <4>1
      <4>2. CASE a > p
        BY <1>1, <1>2, <1>3, <1>4, <3>1, <4>2 DEF Blocks
      <4> QED BY <1>2, <2>3, <3>1, <4>1, <4>2
    <3> QED BY <1>2, <1>5, <3>1, <3>2, <3>3
  <2> QED BY <2>1, <2>2, <2>3
<1>11. g \in [DOMAIN g -> Block]
  <2>1. g[p] \in Block /\ g[r] \in Block
    BY <1>2, <1>3, <1>5 DEF Block
  <2>2. \A a \in DOMAIN m \ {p, r} : g[a] \in Block
    BY <1>5 DEF Chain
  <2>3. \A a \in DOMAIN g : g[a] \in Block
    BY <1>5, <2>1, <2>2
  <2> QED BY <1>f, <2>3
<1>12. Chain(g)
  BY <1>8, <1>9, <1>10, <1>11 DEF Chain
<1> QED BY <1>4, <1>12 DEF g

-----------------------------------------------------------------------------
(* Every address that belongs to no used block lies in a run.               *)

LEMMA FreeAddressInRun ==
  ASSUME NEW m, Chain(m), NEW x \in Nat, x >= HeapBase, x < HeapTail,
         \A b \in Blocks(m) : m[b].used => ~(b <= x /\ x < m[b].next)
  PROVE  \E s \in RunStarts(m, HeapBase) : s <= x /\ x < RunEnd(m, s)
<1> DEFINE U == {b \in DOMAIN m : m[b].used /\ b <= x}
<1>1. DOMAIN m \subseteq Nat /\ HeapBase \in DOMAIN m /\ HeapBase \in Nat
      /\ HeapTail \in Nat /\ \A b \in DOMAIN m : b >= HeapBase
  BY HeapAssumption DEF Chain, HeapBase, HeapTail, Hdr
<1>2. ASSUME NEW s \in RunStarts(m, HeapBase), s <= x, \A b \in U : b < s
      PROVE  x < RunEnd(m, s)
  <2>1. s \in DOMAIN m /\ s >= HeapBase
    BY DEF RunStarts
  <2>2. /\ RunEnd(m, s) \in DOMAIN m /\ RunEnd(m, s) >= s
        /\ RunEnd(m, s) # HeapTail => m[RunEnd(m, s)].used
    BY <2>1, RunEndIs
  <2>3. RunEnd(m, s) \notin U
    BY <1>1, <1>2, <2>1, <2>2
  <2> QED BY <1>1, <2>2, <2>3
<1>3. CASE U = {}
  <2>1. HeapBase \in RunStarts(m, HeapBase)
    BY <1>1, <1>3 DEF RunStarts
  <2> QED BY <1>2, <1>3, <2>1
<1>4. CASE U # {}
  <2>1. U \subseteq 0 .. x
    BY <1>1
  <2>2. PICK u \in U : \A y \in U : y <= u
    <3> HIDE DEF U
    <3> QED BY <1>4, <2>1, LargestOf
  <2>3. u \in Blocks(m) /\ m[u].used /\ u <= x /\ u \in Nat
    BY <1>1, <2>2 DEF Blocks, Chain
  <2>4. m[u].next \in DOMAIN m /\ m[u].next > u /\ m[u].next <= x /\ m[u].next \in Nat
    BY <1>1, <2>3 DEF Chain, Hdr
  <2>5. ~m[m[u].next].used
    BY <1>1, <2>2, <2>3, <2>4
  <2>6. m[u].next \in RunStarts(m, HeapBase)
    BY <1>1, <2>3, <2>4, <2>5 DEF RunStarts, Blocks
  <2>7. \A b \in U : b < m[u].next
    BY <1>1, <2>2, <2>3, <2>4
  <2> QED BY <1>2, <2>4, <2>6, <2>7
<1> QED BY <1>3, <1>4

-----------------------------------------------------------------------------
(* The steps of the calls.                                                  *)

LEMMA MergedKeepsUsed ==
  ASSUME NEW m, Chain(m), NEW from \in Blocks(m), NEW b \in DOMAIN m, m[b].used,
         NEW starts, starts \subseteq RunStarts(m, from)
  PROVE  b \in DOMAIN Merged(m, starts) /\ Merged(m, starts)[b] = m[b]
<1>1. b \notin starts
  BY RunStartsAreApart
<1>2. /\ b \in DOMAIN Merged(m, starts)
      /\ b \notin starts => Merged(m, starts)[b] = m[b]
  BY MergedKeeps
<1> QED BY <1>1, <1>2

LEMMA MergedOwns ==
  ASSUME NEW m, Chain(m), NEW from \in Blocks(m), NEW o, OwnsUsed(m, o),
         NEW starts, starts \subseteq RunStarts(m, from)
  PROVE  OwnsUsed(Merged(m, starts), o)
<1> DEFINE g == Merged(m, starts)
<1>1. \A b \in DOMAIN m : m[b].used => b \in DOMAIN g /\ g[b] = m[b]
  BY MergedKeepsUsed
<1>2. \A b \in DOMAIN g : g[b].used => b \in DOMAIN m /\ m[b].used
  <2>1. DOMAIN g \subseteq DOMAIN m
    BY DEF Merged
  <2>2. \A b \in DOMAIN g : g[b].used => m[b].used
    BY MergedChain
  <2> QED BY <2>1, <2>2
<1> HIDE DEF g
<1>3. {b \in DOMAIN m : m[b].used} = {b \in DOMAIN g : g[b].used}
  BY <1>1, <1>2
<1>4. OwnsUsed(g, o)
  BY <1>1, <1>2, <1>3 DEF OwnsUsed
<1> QED BY <1>4 DEF g

(* What the theorems ask of the application: no request wraps around.      *)
NoWrap == \A n \in Requests : ~Wraps(n)

LEMMA FitsPlainly ==
  ASSUME NEW n \in Nat, ~Wraps(n), NEW size
  PROVE  Fits(size, n) <=> size >= n + Hdr
<1>1. (n + Hdr) % WordMod = n + Hdr
  <2>1. n + Hdr \in Nat /\ n + Hdr < WordMod /\ WordMod \in Nat
    BY SMT DEF Wraps, Hdr, WordMod
  <2> QED BY <2>1
<1> QED BY <1>1 DEF Fits

LEMMA GrantedKeeps ==
  ASSUME NEW m, Chain(m), OwnsUsed(m, owned), NEW p \in Blocks(m), ~m[p].used,
         NEW n \in Nat, ~Wraps(n), NEW rest \in Nat, m[p].next >= p + n + 2 * Hdr,
         Granted(m, p, n, rest)
  PROVE  Chain(mem') /\ OwnsUsed(mem', owned') /\ last_free' \in Blocks(mem')
<1> DEFINE r == p + Hdr + n
<1>1. mem' = Split(m, p, n, rest) /\ last_free' = p /\ owned' = Put(owned, p + Hdr, n)
  BY DEF Granted
<1>2. Chain(mem') /\ r \notin DOMAIN m
  BY <1>1, SplitChain
<1>3. DOMAIN m \subseteq Nat /\ p \in DOMAIN m /\ p # HeapTail /\ p \in Nat /\ Hdr \in Nat
  BY DEF Chain, HeapBase, Blocks, Hdr
<1>4. /\ DOMAIN mem' = DOMAIN m \cup {p, r}
      /\ mem'[p].used /\ mem'[p].size = n /\ ~mem'[r].used
      /\ \A a \in DOMAIN m \ {p, r} : mem'[a] = m[a]
  <2>1. IsSplit(mem', m, p, n, rest)
    BY <1>1, <1>3, SplitValues
  <2> QED BY <2>1 DEF IsSplit
<1>5. /\ DOMAIN owned' = DOMAIN owned \cup {p + Hdr} /\ owned'[p + Hdr] = n
      /\ \A x \in DOMAIN owned \ {p + Hdr} : owned'[x] = owned[x]
  BY <1>1 DEF Put
<1> HIDE DEF r
<1>6. {b \in DOMAIN mem' : mem'[b].used} = {b \in DOMAIN m : m[b].used} \cup {p}
  BY <1>2, <1>4
<1>7. ASSUME NEW a \in DOMAIN mem', mem'[a].used
      PROVE  owned'[a + Hdr] = mem'[a].size
  <2>1. CASE a = p
    BY <1>4, <1>5, <2>1
  <2>2. CASE a # p
    <3>1. a \in DOMAIN m /\ m[a].used /\ mem'[a] = m[a] /\ a \in Nat
      BY <1>2, <1>3, <1>4, <1>7, <2>2
    <3>2. a + Hdr \in DOMAIN owned /\ owned[a + Hdr] = m[a].size
      BY <3>1 DEF OwnsUsed
    <3>3. a + Hdr # p + Hdr
      BY <1>3, <2>2, <3>1
    <3> QED BY <1>5, <3>1, <3>2, <3>3
  <2> QED BY <2>1, <2>2
<1>8. OwnsUsed(mem', owned')
  BY <1>5, <1>6, <1>7 DEF OwnsUsed
<1>9. last_free' \in Blocks(mem')
  BY <1>1, <1>3, <1>4 DEF Blocks
<1> QED BY <1>2, <1>8, <1>9

LEMMA RunGranted ==
  ASSUME Chain(mem), OwnsUsed(mem, owned), last_free \in Blocks(mem),
         NEW starts, starts \subseteq RunStarts(mem, last_free), NEW p \in starts,
         NEW n \in Nat, ~Wraps(n), NEW rest \in Nat, Fits(RunSize(mem, p), n),
         Granted(Merged(mem, starts), p, n, rest)
  PROVE  Chain(mem') /\ OwnsUsed(mem', owned') /\ last_free' \in Blocks(mem')
<1> DEFINE m == Merged(mem, starts)
<1>1. DOMAIN mem \subseteq Nat
  BY DEF Chain, HeapBase
<1>2. p \in Blocks(mem) /\ ~mem[p].used /\ p \in Nat /\ p \in DOMAIN mem
  BY <1>1, RunStartsAreApart DEF Blocks
<1>3. p \in Blocks(m) /\ Chain(m) /\ OwnsUsed(m, owned)
  <2>1. Chain(m)
    BY MergedChain
  <2>2. OwnsUsed(m, owned)
    BY MergedOwns
  <2>3. p \in Blocks(m)
    BY MergedKeeps
  <2> QED BY <2>1, <2>2, <2>3
<1>4. ~m[p].used /\ m[p].next = RunEnd(mem, p)
  <2>1. m[p] = [next |-> RunEnd(mem, p), size |-> RunSize(mem, p), used |-> FALSE]
    BY <1>3 DEF Merged, Blocks
  <2> QED BY <2>1
<1>5. RunSize(mem, p) = RunEnd(mem, p) - p - Hdr /\ RunEnd(mem, p) \in Nat
  BY <1>1, <1>2, RunOfFree, RunEndIs
<1> HIDE DEF m
<1>6. m[p].next >= p + n + 2 * Hdr
  BY <1>2, <1>4, <1>5, FitsPlainly DEF Hdr
<1>7. Granted(m, p, n, rest)
  BY DEF m
<1> QED BY <1>3, <1>4, <1>6, <1>7, GrantedKeeps

LEMMA DefaultKeeps ==
  ASSUME HeapInv, NEW n \in Nat, ~Wraps(n), malloc_default(n), UNCHANGED allocator
  PROVE  HeapInv'
<1> DEFINE runs == RunStarts(mem, last_free)
           fit == {a \in runs : Fits(RunSize(mem, a), n)}
<1>1. /\ allocator = "default" /\ Chain(mem) /\ OwnsUsed(mem, owned)
      /\ last_free \in Blocks(mem)
  BY DEF malloc_default, HeapInv
<1>2. CASE fit = {}
  <2>1. mem' = Merged(mem, runs) /\ UNCHANGED <<last_free, owned>>
    BY <1>2 DEF malloc_default, Refused
  <2>2. Chain(mem')
    BY <1>1, <2>1, MergedChain
  <2>3. OwnsUsed(mem', owned')
    BY <1>1, <2>1, MergedOwns
  <2>4. last_free' \in Blocks(mem')
    BY <1>1, <2>1, MergedKeeps
  <2> QED BY <1>1, <2>2, <2>3, <2>4 DEF HeapInv
<1>3. CASE fit # {}
  <2>1. Granted(Merged(mem, {a \in runs : a <= Min(fit)}), Min(fit), n,
                (n - n - Hdr) % WordMod)
    BY <1>3 DEF malloc_default
  <2>2. (n - n - Hdr) % WordMod \in Nat
    <3>1. WordMod \in Nat /\ WordMod > 0
      BY SMT DEF WordMod
    <3>2. n - n - Hdr \in Int
      BY DEF Hdr
    <3> QED BY <3>1, <3>2
  <2>3. runs \subseteq Nat
    BY <1>1 DEF Chain, HeapBase, RunStarts
  <2>4. fit \subseteq Nat
    BY <2>3
  <2> HIDE DEF fit
  <2>5. Min(fit) \in fit
    BY <1>3, <2>4, SmallestOf
  <2>6. Min(fit) \in runs /\ Fits(RunSize(mem, Min(fit)), n) /\ Min(fit) \in Nat
    BY <2>3, <2>5 DEF fit
  <2>7. Min(fit) \in {a \in runs : a <= Min(fit)}
    BY <2>6
  <2>8. Chain(mem') /\ OwnsUsed(mem', owned') /\ last_free' \in Blocks(mem')
    <3> DEFINE starts == {a \in runs : a <= Min(fit)}
    <3>1. starts \subseteq RunStarts(mem, last_free)
      OBVIOUS
    <3> HIDE DEF starts
    <3> QED BY <1>1, <2>1, <2>2, <2>6, <2>7, <3>1, RunGranted DEF starts
  <2> QED BY <1>1, <2>8 DEF HeapInv
<1> QED BY <1>2, <1>3

LEMMA AltKeeps ==
  ASSUME HeapInv, NEW n \in Nat, ~Wraps(n), malloc_alt(n), UNCHANGED allocator
  PROVE  HeapInv'
<1> DEFINE fit == {a \in DOMAIN mem : a >= last_free /\ ~mem[a].used /\ Fits(mem[a].size, n)}
           p == Min(fit)
<1>1. /\ Chain(mem) /\ OwnsUsed(mem, owned) /\ last_free \in Blocks(mem) /\ Healed(mem)
      /\ DOMAIN mem \subseteq Nat
  BY DEF malloc_alt, HeapInv, Chain, HeapBase
<1>2. CASE fit = {}
  <2>1. UNCHANGED <<mem, last_free, owned>>
    BY <1>2 DEF malloc_alt, Refused, Astray
  <2> QED BY <1>1, <2>1 DEF HeapInv
<1>3. CASE fit # {}
  <2>1. Granted(mem, p, n, mem[p].size - n - Hdr)
    BY <1>3 DEF malloc_alt
  <2>2. p \in fit
    <3>1. fit \subseteq Nat
      BY <1>1
    <3> HIDE DEF fit
    <3> QED BY <1>3, <3>1, SmallestOf
  <2>3. p \in DOMAIN mem /\ ~mem[p].used /\ Fits(mem[p].size, n) /\ p \in Nat
    BY <1>1, <2>2
  <2> HIDE DEF p
  <2>4. p \in Blocks(mem)
    BY <1>1, <2>3, FitsPlainly DEF Chain, Blocks, Hdr
  <2>5. /\ mem[p].size = mem[p].next - p - Hdr /\ mem[p].next \in DOMAIN mem
        /\ mem[mem[p].next].used \/ mem[p].next = HeapTail
        /\ mem[p].size \in Nat /\ mem[p].next \in Nat
    BY <1>1, <2>3, <2>4 DEF Healed, Chain, Block
  <2>6. /\ mem[p].size - n - Hdr \in Nat
        /\ mem[p].next >= p + n + 2 * Hdr
    BY <2>3, <2>5, FitsPlainly DEF Hdr
  <2>7. Chain(mem') /\ OwnsUsed(mem', owned') /\ last_free' \in Blocks(mem')
    BY <1>1, <2>1, <2>3, <2>4, <2>6, GrantedKeeps
  <2>8. Healed(mem')
    <3> DEFINE r == p + Hdr + n
               g == mem'
    <3>1. mem' = Split(mem, p, n, mem[p].size - n - Hdr)
      BY <2>1 DEF Granted
    <3>2. IsSplit(g, mem, p, n, mem[p].size - n - Hdr)
      BY <2>3, <3>1, SplitValues
    <3>3. /\ DOMAIN g = DOMAIN mem \cup {p, r}
          /\ g[p].used /\ ~g[r].used
          /\ g[r].next = mem[p].next /\ g[r].size = mem[p].size - n - Hdr
          /\ \A a \in DOMAIN mem \ {p, r} : g[a] = mem[a]
      BY <3>2 DEF IsSplit
    <3>4. r \notin DOMAIN mem
      BY <1>1, <2>4, <2>6, SplitChain
    <3>5. ASSUME NEW a \in Blocks(g), ~g[a].used
          PROVE  /\ g[a].size = g[a].next - a - Hdr
                 /\ g[g[a].next].used \/ g[a].next = HeapTail
      <4>1. CASE a = r
        <5>1. g[a].next # p /\ g[a].next # r
          BY <2>3, <2>4, <2>5, <3>3, <3>4, <4>1 DEF Blocks
        <5>2. g[a].size = g[a].next - a - Hdr
          BY <2>3, <2>5, <3>3, <4>1 DEF Hdr
        <5> QED BY <2>5, <3>3, <4>1, <5>1, <5>2
      <4>2. CASE a # r
        <5>1. a \in Blocks(mem) /\ ~mem[a].used /\ g[a] = mem[a]
          BY <3>3, <3>5, <4>2 DEF Blocks
        <5>2. /\ mem[a].size = mem[a].next - a - Hdr /\ mem[a].next \in DOMAIN mem
              /\ mem[mem[a].next].used \/ mem[a].next = HeapTail
          BY <1>1, <5>1 DEF Healed, Chain
        <5>3. mem[a].next # p /\ mem[a].next # r
          BY <2>3, <2>4, <3>4, <5>2 DEF Blocks
        <5> QED BY <3>3, <5>1, <5>2, <5>3
      <4> QED BY <4>1, <4>2
    <3> QED BY <3>5 DEF Healed
  <2> QED BY <2>7, <2>8 DEF HeapInv
<1> QED BY <1>2, <1>3

-----------------------------------------------------------------------------
LEMMA FreedChain ==
  ASSUME HeapInv, NEW ptr, ucx_free(ptr),
         NEW m, m = [mem EXCEPT ![ptr - Hdr].used = FALSE]
  PROVE  Chain(m) /\ OwnsUsed(m, owned')
<1>1. /\ Chain(mem) /\ OwnsUsed(mem, owned) /\ ptr \in DOMAIN owned
      /\ owned' = [x \in DOMAIN owned \ {ptr} |-> owned[x]]
  BY DEF ucx_free, HeapInv
<1>2. PICK a \in DOMAIN mem : mem[a].used /\ ptr = a + Hdr
  BY <1>1 DEF OwnsUsed
<1>3. DOMAIN mem \subseteq Nat /\ Hdr \in Nat
  BY <1>1 DEF Chain, HeapBase, Hdr
<1>4. a = ptr - Hdr /\ mem \in [DOMAIN mem -> Block] /\ mem[a] \in Block
  BY <1>1, <1>2, <1>3 DEF Chain
<1>5. /\ DOMAIN m = DOMAIN mem /\ ~m[a].used /\ m[a] \in Block
      /\ m[a].next = mem[a].next /\ m[a].size = mem[a].size
      /\ \A b \in DOMAIN mem \ {a} : m[b] = mem[b]
      /\ m \in [DOMAIN mem -> Block]
  BY <1>2, <1>4 DEF Block
<1>6. a # HeapTail
  BY <1>1, <1>2 DEF Chain
<1>7. Chain(m)
  <2>1. ASSUME NEW b \in Blocks(m)
        PROVE  /\ m[b].next \in DOMAIN m /\ m[b].next >= b + Hdr
               /\ \A c \in DOMAIN m : c > b => c >= m[b].next
               /\ m[b].used => m[b].next = b + Hdr + m[b].size /\ m[b].next # HeapTail
    <3>1. b \in Blocks(mem) /\ m[b].next = mem[b].next /\ m[b].size = mem[b].size
          /\ (m[b].used => mem[b].used)
      BY <1>2, <1>5 DEF Blocks
    <3>2. /\ mem[b].next \in DOMAIN mem /\ mem[b].next >= b + Hdr
          /\ \A c \in DOMAIN mem : c > b => c >= mem[b].next
          /\ mem[b].used => mem[b].next = b + Hdr + mem[b].size /\ mem[b].next # HeapTail
      BY <1>1, <3>1 DEF Chain
    <3> QED BY <1>5, <3>1, <3>2
  <2>2. /\ HeapBase \in DOMAIN m /\ HeapTail \in DOMAIN m
        /\ DOMAIN m \subseteq HeapBase .. HeapTail
        /\ m[HeapTail].next = 0 /\ m[HeapTail].size = 0 /\ ~m[HeapTail].used
    BY <1>1, <1>5, <1>6 DEF Chain
  <2> QED BY <1>5, <2>1, <2>2 DEF Chain
<1>8. {b \in DOMAIN m : m[b].used} = {b \in DOMAIN mem : mem[b].used} \ {a}
  BY <1>5
<1>9. DOMAIN owned' = {b + Hdr : b \in {c \in DOMAIN m : m[c].used}}
  <2>1. DOMAIN owned' = DOMAIN owned \ {a + Hdr}
    BY <1>1, <1>2
  <2>2. \A b \in DOMAIN mem : b + Hdr = a + Hdr <=> b = a
    BY <1>3
  <2>3. DOMAIN owned = {b + Hdr : b \in {c \in DOMAIN mem : mem[c].used}}
    BY <1>1 DEF OwnsUsed
  <2>4. \A x : x \in DOMAIN owned' <=>
                 \E b \in DOMAIN mem : mem[b].used /\ b # a /\ x = b + Hdr
    BY <2>1, <2>2, <2>3
  <2> QED BY <1>8, <2>4
<1>10. \A b \in DOMAIN m : m[b].used => owned'[b + Hdr] = m[b].size
  BY <1>1, <1>2, <1>3, <1>5, <1>8 DEF OwnsUsed
<1> QED BY <1>7, <1>9, <1>10 DEF OwnsUsed

LEMMA MergedHeals ==
  ASSUME NEW m, Chain(m)
  PROVE  Healed(Merged(m, RunStarts(m, HeapBase)))
<1> DEFINE starts == RunStarts(m, HeapBase)
           g == Merged(m, starts)
<1>1. HeapBase \in Blocks(m) /\ DOMAIN m \subseteq Nat /\ DOMAIN m \subseteq HeapBase .. HeapTail
      /\ HeapBase \in Nat /\ HeapTail \in Nat
  BY HeapAssumption DEF Chain, Blocks, HeapBase, HeapTail, Hdr
<1>2. /\ DOMAIN g = {b \in DOMAIN m : ~Dropped(m, starts, b)}
      /\ \A a \in DOMAIN g \cap starts :
           g[a] = [next |-> RunEnd(m, a), size |-> RunSize(m, a), used |-> FALSE]
      /\ \A a \in DOMAIN g \ starts : g[a] = m[a]
  BY DEF Merged, Dropped
<1> HIDE DEF g
<1>3. SUFFICES ASSUME NEW a \in Blocks(g), ~g[a].used
               PROVE  /\ g[a].size = g[a].next - a - Hdr
                      /\ g[g[a].next].used \/ g[a].next = HeapTail
  BY DEF Healed, g
<1>4. a \in Blocks(m) /\ a \in DOMAIN m /\ a \in Nat /\ ~Dropped(m, starts, a)
  BY <1>1, <1>2, <1>3 DEF Blocks
<1>5. a \in starts
  <2> SUFFICES ASSUME a \notin starts
               PROVE  FALSE
    OBVIOUS
  <2>1. ~m[a].used
    BY <1>2, <1>3 DEF Blocks
  <2>2. \A b \in Blocks(m) : m[b].used => ~(b <= a /\ a < m[b].next)
    <3> SUFFICES ASSUME NEW b \in Blocks(m), m[b].used, b <= a, a < m[b].next
                 PROVE  FALSE
      OBVIOUS
    <3>1. b # a /\ b \in Nat /\ m[b].next \in Nat
      BY <1>1, <2>1 DEF Blocks, Chain
    <3>2. a >= m[b].next
      BY <1>4, <3>1 DEF Chain
    <3> QED BY <1>4, <3>1, <3>2
  <2>3. a >= HeapBase /\ a < HeapTail
    BY <1>1, <1>4 DEF Blocks
  <2>4. PICK s \in starts : s <= a /\ a < RunEnd(m, s)
    BY <1>4, <2>2, <2>3, FreeAddressInRun
  <2>5. s < a
    BY <1>1, <1>4, <2>4 DEF RunStarts
  <2> QED BY <1>4, <2>4, <2>5 DEF Dropped
<1>6. ~m[a].used /\ g[a].next = RunEnd(m, a) /\ g[a].size = RunSize(m, a)
  BY <1>2, <1>3, <1>5 DEF Blocks, RunStarts
<1>7. g[a].size = g[a].next - a - Hdr
  BY <1>4, <1>6, RunOfFree
<1>8. ASSUME g[a].next # HeapTail
      PROVE  g[g[a].next].used
  <2>1. g[a].next \in DOMAIN m /\ m[g[a].next].used
    BY <1>4, <1>6, <1>8, RunEndIs
  <2>2. g[g[a].next] = m[g[a].next]
    BY <1>1, <2>1, MergedKeepsUsed DEF g
  <2> QED BY <2>1, <2>2
<1> QED BY <1>7, <1>8

LEMMA FreeKeeps ==
  ASSUME HeapInv, NEW ptr, ucx_free(ptr)
  PROVE  HeapInv'
<1> DEFINE m == [mem EXCEPT ![ptr - Hdr].used = FALSE]
<1>1. Chain(m) /\ OwnsUsed(m, owned')
  BY FreedChain
<1>2. /\ mem' = IF allocator = "alt" THEN Merged(m, RunStarts(m, HeapBase)) ELSE m
      /\ last_free' = HeapBase /\ UNCHANGED allocator
  BY DEF ucx_free
<1> HIDE DEF m
<1>3. HeapBase \in Blocks(m)
  BY <1>1, HeapAssumption DEF Chain, Blocks, HeapBase, HeapTail, Hdr
<1>4. CASE allocator # "alt"
  BY <1>1, <1>2, <1>3, <1>4 DEF HeapInv
<1>5. CASE allocator = "alt"
  <2>1. mem' = Merged(m, RunStarts(m, HeapBase))
    BY <1>2, <1>5
  <2>2. Chain(mem')
    BY <1>1, <1>3, <2>1, MergedChain
  <2>3. OwnsUsed(mem', owned')
    BY <1>1, <1>3, <2>1, MergedOwns
  <2>4. last_free' \in Blocks(mem')
    BY <1>1, <1>2, <1>3, <2>1, MergedKeeps
  <2>5. Healed(mem')
    BY <1>1, <2>1, MergedHeals
  <2> QED BY <2>2, <2>3, <2>4, <2>5 DEF HeapInv
<1> QED BY <1>4, <1>5

LEMMA HeapInitInv == HeapInit => HeapInv
<1> SUFFICES ASSUME HeapInit
             PROVE  HeapInv
  OBVIOUS
<1>1. HeapLen \in Nat /\ HeapLen >= 2 * Hdr /\ Hdr = 2 /\ HeapBase = 1
      /\ HeapTail = HeapLen - 1 /\ HeapBase # HeapTail
      /\ HeapTail \in Nat /\ HeapTail >= HeapBase + Hdr
  BY HeapAssumption DEF Hdr, HeapBase, HeapTail
<1>2. /\ DOMAIN mem = {HeapBase, HeapTail} /\ last_free = HeapBase /\ owned = << >>
      /\ mem = [a \in DOMAIN mem |-> mem[a]]
      /\ mem[HeapBase] = [next |-> HeapTail, size |-> HeapLen - 2 * Hdr, used |-> FALSE]
      /\ mem[HeapTail] = [next |-> 0, size |-> 0, used |-> FALSE]
  BY <1>1 DEF HeapInit
<1>3. mem[HeapBase] \in Block /\ mem[HeapTail] \in Block
  BY <1>1, <1>2 DEF Block
<1>4. mem \in [DOMAIN mem -> Block]
  BY <1>2, <1>3
<1>5. Chain(mem) /\ last_free \in Blocks(mem)
  BY <1>1, <1>2, <1>4 DEF Chain, Blocks
<1>6. Healed(mem)
  BY <1>1, <1>2 DEF Healed, Blocks
<1>7. OwnsUsed(mem, owned)
  BY <1>2 DEF OwnsUsed
<1> QED BY <1>5, <1>6, <1>7 DEF HeapInv

LEMMA HeapNextInv ==
  ASSUME NoWrap, HeapInv, [HeapNext]_heapVars
  PROVE  HeapInv'
<1>1. CASE UNCHANGED heapVars
  BY <1>1 DEF heapVars, HeapInv
<1>2. ASSUME NEW n \in Requests, ucx_malloc(n)
      PROVE  HeapInv'
  <2>1. n \in Nat /\ ~Wraps(n)
    BY HeapAssumption DEF NoWrap
  <2> QED BY <1>2, <2>1, DefaultKeeps, AltKeeps DEF ucx_malloc
<1>3. ASSUME NEW ptr \in DOMAIN owned, ucx_free(ptr)
      PROVE  HeapInv'
  BY <1>3, FreeKeeps
<1> QED BY <1>1, <1>2, <1>3 DEF HeapNext, heapVars

-----------------------------------------------------------------------------
LEMMA HeapInvDisjoint ==
  ASSUME HeapInv
  PROVE  BlocksDisjoint
<1>1. /\ Chain(mem) /\ OwnsUsed(mem, owned) /\ Hdr \in Nat
      /\ HeapBase \in Nat /\ HeapTail \in Nat /\ DOMAIN mem \subseteq HeapBase .. HeapTail
  BY HeapAssumption DEF HeapInv, HeapBase, HeapTail, Hdr, Chain
<1>2. ASSUME NEW p \in DOMAIN owned
      PROVE  /\ p - Hdr \in Blocks(mem) /\ p - Hdr \in Nat /\ mem[p - Hdr].used
             /\ Extent(p) = (p - Hdr) .. (mem[p - Hdr].next - 1)
             /\ mem[p - Hdr].next \in DOMAIN mem /\ mem[p - Hdr].next \in Nat
  <2>1. PICK a \in DOMAIN mem : mem[a].used /\ p = a + Hdr
    BY <1>1 DEF OwnsUsed
  <2>2. a \in Nat /\ a = p - Hdr /\ a \in Blocks(mem)
    BY <1>1, <2>1 DEF Chain, Blocks
  <2>3. mem[a].next = a + Hdr + mem[a].size /\ mem[a].next \in DOMAIN mem
        /\ mem[a].size \in Nat
    BY <1>1, <2>1, <2>2 DEF Chain, Block
  <2>4. owned[p] = mem[a].size
    BY <1>1, <2>1 DEF OwnsUsed
  <2>5. p + owned[p] - 1 = mem[a].next - 1
    BY <1>1, <2>1, <2>2, <2>3, <2>4
  <2> QED BY <1>1, <2>1, <2>2, <2>3, <2>5 DEF Extent
<1>3. ASSUME NEW p \in DOMAIN owned, NEW q \in DOMAIN owned, p - Hdr < q - Hdr
      PROVE  Extent(p) \cap Extent(q) = {}
  <2>1. mem[p - Hdr].next <= q - Hdr
    BY <1>1, <1>2, <1>3 DEF Chain, Blocks
  <2> QED BY <1>2, <2>1
<1>4. ASSUME NEW p \in DOMAIN owned
      PROVE  Extent(p) \subseteq HeapBase .. HeapTail - 1
  BY <1>1, <1>2 DEF Blocks
<1>5. ASSUME NEW p \in DOMAIN owned, NEW q \in DOMAIN owned \ {p}
      PROVE  Extent(p) \cap Extent(q) = {}
  <2>1. p \in Int /\ q \in Int
    BY <1>1 DEF OwnsUsed
  <2>2. p - Hdr < q - Hdr \/ q - Hdr < p - Hdr
    BY <1>1, <2>1
  <2> QED BY <1>3, <2>2
<1> QED BY <1>4, <1>5 DEF BlocksDisjoint

-----------------------------------------------------------------------------
(* A gap is part of a run that is big enough.                               *)
LEMMA GapInRun ==
  ASSUME HeapInv, NEW n \in Nat, ~Wraps(n), GapFits(n)
  PROVE  \E s \in RunStarts(mem, HeapBase) : Fits(RunSize(mem, s), n)
<1>1. /\ Chain(mem) /\ OwnsUsed(mem, owned) /\ Hdr \in Nat /\ Hdr > 0
      /\ HeapBase \in Nat /\ HeapTail \in Nat /\ DOMAIN mem \subseteq HeapBase .. HeapTail
  BY HeapAssumption DEF HeapInv, HeapBase, HeapTail, Hdr, Chain
<1>2. PICK a \in HeapBase .. HeapTail - (n + 2 * Hdr) :
        \A p \in DOMAIN owned : Extent(p) \cap a .. (a + n + 2 * Hdr - 1) = {}
  BY DEF GapFits
<1>3. a \in Nat /\ a >= HeapBase /\ a < HeapTail /\ a + n + 2 * Hdr <= HeapTail
  BY <1>1
<1>4. ASSUME NEW b \in Blocks(mem), mem[b].used, NEW x \in Nat, b <= x, x < mem[b].next
      PROVE  ~(a <= x /\ x < a + n + 2 * Hdr)
  <2>1. b + Hdr \in DOMAIN owned /\ owned[b + Hdr] = mem[b].size
    BY <1>1, <1>4 DEF OwnsUsed, Blocks
  <2>2. mem[b].next = b + Hdr + mem[b].size /\ b \in Nat /\ mem[b].size \in Nat
    BY <1>1, <1>4 DEF Chain, Blocks, Block
  <2>3. x \in Extent(b + Hdr)
    BY <1>1, <1>4, <2>1, <2>2 DEF Extent
  <2>4. x \notin a .. (a + n + 2 * Hdr - 1)
    BY <1>2, <2>1, <2>3
  <2> QED BY <1>1, <1>3, <2>4
<1>5. PICK s \in RunStarts(mem, HeapBase) : s <= a /\ a < RunEnd(mem, s)
  <2>1. \A b \in Blocks(mem) : mem[b].used => ~(b <= a /\ a < mem[b].next)
    BY <1>1, <1>3, <1>4
  <2> QED BY <1>1, <1>3, <2>1, FreeAddressInRun
<1>6. s \in DOMAIN mem /\ ~mem[s].used /\ s \in Nat
  BY <1>1 DEF RunStarts
<1>7. /\ RunEnd(mem, s) \in DOMAIN mem /\ RunEnd(mem, s) \in Nat
      /\ RunEnd(mem, s) # HeapTail => mem[RunEnd(mem, s)].used
  BY <1>1, <1>6, RunEndIs
<1>8. RunEnd(mem, s) >= a + n + 2 * Hdr
  <2>1. CASE RunEnd(mem, s) = HeapTail
    BY <1>3, <2>1
  <2>2. CASE RunEnd(mem, s) # HeapTail
    <3>1. RunEnd(mem, s) \in Blocks(mem) /\ mem[RunEnd(mem, s)].used
      BY <1>7, <2>2 DEF Blocks
    <3>2. RunEnd(mem, s) < mem[RunEnd(mem, s)].next
      BY <1>1, <1>7, <3>1 DEF Chain
    <3>3. ~(a <= RunEnd(mem, s) /\ RunEnd(mem, s) < a + n + 2 * Hdr)
      BY <1>4, <1>7, <3>1, <3>2
    <3> QED BY <1>1, <1>3, <1>5, <1>7, <3>3
  <2> QED BY <2>1, <2>2
<1>9. s \in Blocks(mem)
  BY <1>1, <1>3, <1>5, <1>6 DEF Blocks
<1>10. RunSize(mem, s) = RunEnd(mem, s) - s - Hdr
  BY <1>1, <1>6, <1>9, RunOfFree
<1>11. Fits(RunSize(mem, s), n)
  BY <1>1, <1>3, <1>5, <1>6, <1>7, <1>8, <1>10, FitsPlainly
<1> QED BY <1>11

LEMMA RefusedFitsNowhere ==
  ASSUME HeapInv, NEW n \in Nat, ~Wraps(n), ucx_malloc(n), Refused(n), last_free = HeapBase
  PROVE  ~GapFits(n)
<1> SUFFICES ASSUME GapFits(n)
             PROVE  FALSE
  OBVIOUS
<1>1. PICK s \in RunStarts(mem, HeapBase) : Fits(RunSize(mem, s), n)
  BY GapInRun
<1>2. Chain(mem) /\ HeapBase \in Blocks(mem) /\ DOMAIN mem \subseteq Nat
  BY DEF HeapInv, Chain, HeapBase
<1>3. s \in Blocks(mem) /\ s \in DOMAIN mem /\ ~mem[s].used /\ s >= last_free
  BY <1>2, RunStartsAreApart DEF Blocks
<1>r. hres' = <<"malloc", n, 0>>
  BY DEF Refused
<1>g. ASSUME NEW m, NEW p \in Nat, NEW rest, Granted(m, p, n, rest)
      PROVE  FALSE
  <2>1. hres'[3] = p + Hdr /\ p + Hdr # 0
    BY <1>g DEF Granted, Hdr
  <2> QED BY <1>r, <2>1
<1>4. CASE malloc_default(n)
  <2> DEFINE fit == {a \in RunStarts(mem, last_free) : Fits(RunSize(mem, a), n)}
  <2>1. s \in fit
    BY <1>1
  <2>2. fit \subseteq Nat
    BY <1>2 DEF RunStarts
  <2>3. Granted(Merged(mem, {a \in RunStarts(mem, last_free) : a <= Min(fit)}), Min(fit), n,
                (n - n - Hdr) % WordMod)
    BY <1>4, <2>1 DEF malloc_default
  <2>4. Min(fit) \in Nat
    <3> HIDE DEF fit
    <3> QED BY <2>1, <2>2, SmallestOf
  <2> HIDE DEF fit
  <2> QED BY <1>g, <2>3, <2>4
<1>5. CASE malloc_alt(n)
  <2> DEFINE fit == {a \in DOMAIN mem : a >= last_free /\ ~mem[a].used /\ Fits(mem[a].size, n)}
  <2>1. Healed(mem)
    BY <1>5 DEF malloc_alt, HeapInv
  <2>2. mem[s].size = mem[s].next - s - Hdr /\ mem[s].next \in DOMAIN mem
        /\ (mem[mem[s].next].used \/ mem[s].next = HeapTail) /\ mem[s].next >= s
    BY <1>2, <1>3, <2>1 DEF Healed, Chain, Hdr
  <2>3. RunEnd(mem, s) = mem[s].next
    <3>1. mem[s].next >= RunEnd(mem, s) /\ RunEnd(mem, s) \in DOMAIN mem
      BY <1>2, <1>3, <2>2, RunEndIs
    <3>2. RunEnd(mem, s) >= mem[s].next
      BY <1>2, <1>3, RunOfFree
    <3> QED BY <1>2, <2>2, <3>1, <3>2
  <2>4. mem[s].size = RunSize(mem, s)
    BY <1>2, <1>3, <2>2, <2>3, RunOfFree
  <2>5. s \in fit
    BY <1>1, <1>3, <2>4
  <2>6. fit \subseteq Nat
    BY <1>2
  <2>7. Granted(mem, Min(fit), n, mem[Min(fit)].size - n - Hdr)
    BY <1>5, <2>5 DEF malloc_alt
  <2>8. Min(fit) \in Nat
    <3> HIDE DEF fit
    <3> QED BY <2>5, <2>6, SmallestOf
  <2> HIDE DEF fit
  <2> QED BY <1>g, <2>7, <2>8
<1> QED BY <1>4, <1>5 DEF ucx_malloc

LEMMA StepSearchesAll ==
  ASSUME NoWrap, HeapInv, FreshSearchComplete, [HeapNext]_heapVars
  PROVE  FreshSearchComplete'
<1>1. CASE UNCHANGED heapVars
  BY <1>1 DEF heapVars, FreshSearchComplete, GapFits, Extent
<1> SUFFICES ASSUME HeapNext, ~UNCHANGED heapVars, NEW n \in Requests,
                    hres' = <<"malloc", n, 0>>, last_free' = HeapBase
             PROVE  ~GapFits(n)'
  BY <1>1 DEF FreshSearchComplete
<1>2. n \in Nat /\ ~Wraps(n)
  BY HeapAssumption DEF NoWrap
<1>a. ~Astray
  <2>1. hres' # <<"astray">>
    OBVIOUS
  <2> QED BY <2>1 DEF Astray
<1>3. ASSUME NEW ptr, ucx_free(ptr)
      PROVE  FALSE
  <2>1. hres'[1] = "free"
    BY <1>3 DEF ucx_free
  <2>2. hres'[1] = "malloc"
    OBVIOUS
  <2> QED BY <2>1, <2>2
<1>4. ASSUME NEW k \in Requests, ucx_malloc(k)
      PROVE  ~GapFits(n)'
  <2>1. Refused(k)
    <3>1. ASSUME NEW m, NEW p \in Nat, NEW rest, Granted(m, p, k, rest)
          PROVE  FALSE
      <4>1. hres'[3] = p + Hdr /\ p + Hdr # 0
        BY <3>1 DEF Granted, Hdr
      <4>2. hres'[3] = 0
        OBVIOUS
      <4> QED BY <4>1, <4>2
    <3>2. DOMAIN mem \subseteq Nat
      BY DEF HeapInv, Chain, HeapBase
    <3>3. CASE malloc_default(k)
      <4> DEFINE fit == {a \in RunStarts(mem, last_free) : Fits(RunSize(mem, a), k)}
      <4>1. fit # {} => Granted(Merged(mem, {a \in RunStarts(mem, last_free) : a <= Min(fit)}),
                                Min(fit), k, (k - k - Hdr) % WordMod)
        BY <3>3 DEF malloc_default
      <4>2. fit \subseteq Nat
        BY <3>2 DEF RunStarts
      <4>3. fit = {} => Refused(k)
        BY <3>3 DEF malloc_default
      <4> HIDE DEF fit
      <4>4. fit # {} => Min(fit) \in Nat
        BY <4>2, SmallestOf
      <4> QED BY <3>1, <4>1, <4>3, <4>4
    <3>4. CASE malloc_alt(k)
      <4> DEFINE fit == {a \in DOMAIN mem :
                           a >= last_free /\ ~mem[a].used /\ Fits(mem[a].size, k)}
      <4>1. fit # {} => Granted(mem, Min(fit), k, mem[Min(fit)].size - k - Hdr)
        BY <3>4 DEF malloc_alt
      <4>2. fit \subseteq Nat
        BY <3>2
      <4>3. fit = {} => Refused(k)
        BY <3>4, <1>a DEF malloc_alt
      <4> HIDE DEF fit
      <4>4. fit # {} => Min(fit) \in Nat
        BY <4>2, SmallestOf
      <4> QED BY <3>1, <4>1, <4>3, <4>4
    <3> QED BY <1>4, <3>3, <3>4 DEF ucx_malloc
  <2>2. hres' = <<"malloc", k, 0>> /\ UNCHANGED <<last_free, owned>>
    BY <2>1 DEF Refused
  <2>3. k = n
    <3>1. hres'[2] = k /\ hres'[2] = n
      BY <2>2
    <3> QED BY <3>1
  <2>4. ~GapFits(n)
    BY <1>2, <1>4, <2>1, <2>2, <2>3, RefusedFitsNowhere
  <2> QED BY <2>2, <2>4 DEF GapFits, Extent
<1> QED BY <1>3, <1>4 DEF HeapNext

-----------------------------------------------------------------------------
LEMMA HeapInvariance ==
  ASSUME NoWrap
  PROVE  HeapSpec => []HeapInv
<1>1. HeapInv /\ [HeapNext]_heapVars => HeapInv'
  BY HeapNextInv
<1> QED BY <1>1, HeapInitInv, PTL DEF HeapSpec

(* Memory that ucx_malloc handed out and that was not freed is the          *)
(* application's alone, in a zone of any size and after any calls in which  *)
(* request and header do not wrap around: the blocks stay a chain that      *)
(* tiles the zone, although the default allocator writes wrong sizes into   *)
(* the headers of what it splits off. Requests of 0 and of more than the    *)
(* zone are among them.                                                     *)
THEOREM AllocationsAreDisjoint ==
  ASSUME NoWrap
  PROVE  HeapSpec => []BlocksDisjoint
<1>1. HeapInv => BlocksDisjoint
  BY HeapInvDisjoint
<1> QED BY <1>1, HeapInvariance, PTL

(* ucx_malloc refuses, when it starts at the first block, only what fits    *)
(* between no two allocated blocks: merging on the way heals every size     *)
(* before it is looked at. (For requests that do not wrap around.)          *)
THEOREM NoRoomIsOverlooked ==
  ASSUME NoWrap
  PROVE  HeapSpec => []FreshSearchComplete
<1>1. HeapInit => FreshSearchComplete
  <2> SUFFICES ASSUME HeapInit, NEW n \in Requests, hres = <<"malloc", n, 0>>
               PROVE  FALSE
    BY DEF FreshSearchComplete
  <2>1. hres[1] = "init" /\ hres[1] = "malloc"
    BY DEF HeapInit
  <2> QED BY <2>1
<1>2. HeapInv /\ FreshSearchComplete /\ [HeapNext]_heapVars => FreshSearchComplete'
  BY StepSearchesAll
<1> QED BY <1>1, <1>2, HeapInvariance, PTL DEF HeapSpec
=============================================================================
