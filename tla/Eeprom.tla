------------------------------- MODULE Eeprom -------------------------------
(***************************************************************************)
(* drivers/device/24lcxxx/24lcxxx.c over drivers/bus/i2c/i2c_bitbang.c: an *)
(* EEPROM behind a bus that other tasks use too. The chip stores what one  *)
(* transaction writes into one page, where addresses wrap around, so the   *)
(* driver cuts a write at the page boundaries, and opens and closes the    *)
(* bus for each page. The address of a transaction has as many bits as     *)
(* make a block; the block number is part of the device's own address, and *)
(* is chosen once for a call.                                              *)
(*                                                                         *)
(* Another master, or a task whose dev_open fails (it sends its start all  *)
(* the same, i2c_bitbang.c:269), may disturb a transaction. The driver     *)
(* looks at no result of the bus: it counts the bytes that the bus says    *)
(* were sent, but moves the position by the part it meant to send.         *)
(***************************************************************************)
EXTENDS Integers, Sequences, FiniteSetsExt

CONSTANTS
  PageSize,       \* data->page_size
  BlockSize,      \* 256 or 65536, or the chip when it is smaller
  Blocks,         \* blocks of the chip
  EByte, Buffers, \* bytes, and what is written
  Seeks,          \* positions the application seeks
  MaxRead, MaxPos

ASSUME EepromAssumption ==
  /\ PageSize \in Nat \ {0} /\ Blocks \in Nat \ {0}
  /\ BlockSize \in Nat \ {0} /\ BlockSize % PageSize = 0
  /\ Seeks \subseteq Nat /\ Buffers \subseteq {b \in Seq(EByte) : Len(b) <= BlockSize}

VARIABLES
  chip,           \* what it stores
  pos,            \* data->pos
  job,            \* the write in progress
  bus,            \* who has set busy of the bus: "free", "other", or "lost"
  eout            \* the last call and its result

eepromVars == <<chip, pos, job, bus, eout>>

ChipSize == Blocks * BlockSize
NoJob == [page |-> -1]
Free == job = NoJob

(* The chip may hold anything; erased, it holds the same byte everywhere.   *)
EepromInit ==
  /\ chip \in {[a \in 0 .. ChipSize - 1 |-> byte] : byte \in EByte}
  /\ pos = 0 /\ job = NoJob /\ bus = "free" /\ eout = <<"none">>

(* eeprom_24lc_select: the block is chosen by the position at the call.     *)
Device(p) == (p \div BlockSize) % Blocks
Address(device, p) == (device * BlockSize) + (p % BlockSize)

eeprom_24lc_driver_seek(p) ==
  /\ Free
  /\ pos' = p /\ eout' = <<"seek", p>>
  /\ UNCHANGED <<chip, job, bus>>

(* dev_open of the bus sets busy and then starts; a start that loses the    *)
(* arbitration fails and leaves busy set, with nobody to close the bus.     *)
Opens == bus = "free" /\ UNCHANGED bus
OpenFails == IF bus = "free" THEN bus' = "lost" ELSE UNCHANGED bus

Bytes(n) == [i \in 1 .. n |-> chip[(Address(Device(pos), pos) + i - 1) % ChipSize]]

(* i2c_driver_read always answers as many bytes as it was asked for.        *)
eeprom_24lc_driver_read(n) ==
  /\ Free
  /\ \/ /\ Opens
        /\ \/ eout' = <<"read", Bytes(n), "calm">>
           \/ \E bytes \in [1 .. n -> EByte] : eout' = <<"read", bytes, "disturbed">>
        /\ pos' = pos + n
     \/ OpenFails /\ eout' = <<"read", << >>, "calm">> /\ UNCHANGED pos
  /\ UNCHANGED <<chip, job>>

(* slip: the first page is taken to be empty *)
WholePageFirst(p) == PageSize
(* page_space, first_write_size                                             *)
FirstSize(p) ==
  LET page_space == (((p \div PageSize) + 1) * PageSize) - p
      partial == page_space % PageSize
  IN IF partial = 0 THEN PageSize ELSE partial

(* last_write_size and num_writes. When the rest fills its pages the last   *)
(* write has no bytes: its transaction only restarts the bus.               *)
WriteStarts(b) ==
  LET first == FirstSize(pos)
      rest == Len(b) - first
  IN /\ Free
     /\ job' = [buf |-> b, done |-> 0, size |-> 0, calm |-> "calm", page |-> 0,
                first |-> first,
                pages |-> IF rest > 0 THEN (rest \div PageSize) + 2 ELSE 1,
                last |-> IF rest > 0 THEN rest % PageSize ELSE Len(b),
                device |-> Device(pos), start |-> pos, before |-> chip]
     /\ UNCHANGED <<chip, pos, bus, eout>>

WriteSize ==
  IF job.page = job.pages - 1 THEN job.last
  ELSE IF job.page = 0 THEN job.first ELSE PageSize

(* The chip: byte i of a transaction goes to its place in the page of the   *)
(* first one.                                                               *)
Programmed(a, bytes) ==
  LET dest(i) == a - (a % PageSize) + ((a + i - 1) % PageSize)
      at(c) == {i \in 1 .. Len(bytes) : dest(i) = c}
  IN [c \in 0 .. ChipSize - 1 |-> IF at(c) = {} THEN chip[c] ELSE bytes[Max(at(c))]]

(* In one transaction the chip stores the first kept bytes and the bus says *)
(* sent of them were sent. i2c_driver_write breaks off when it loses the    *)
(* arbitration and counts the byte it lost; after a disturbed address, or a *)
(* start of another task, the chip listens to nothing.                      *)
Transfer(kept, sent) ==
  /\ chip' = Programmed(Address(job.device, pos),
                        SubSeq(job.buf, job.size + 1, job.size + kept))
  /\ pos' = pos + WriteSize
  /\ LET calm == IF kept = WriteSize THEN job.calm ELSE "disturbed" IN
     IF job.page = job.pages - 1
       THEN job' = NoJob /\ eout' = <<"write", job.size + sent, calm>>
       ELSE /\ job' = [job EXCEPT !.done = @ + WriteSize, !.size = @ + sent,
                                   !.calm = calm, !.page = @ + 1]
            /\ UNCHANGED eout

WritePage ==
  /\ ~Free
  /\ \/ Opens /\ \E kept \in 0 .. WriteSize : \E sent \in kept .. WriteSize : Transfer(kept, sent)
     \/ OpenFails /\ job' = NoJob /\ eout' = <<"write", 0, job.calm>> /\ UNCHANGED <<chip, pos>>

(* Between two pages, and while the driver waits for the chip, other tasks  *)
(* use the bus for their own devices.                                       *)
OtherOpens == bus = "free" /\ bus' = "other" /\ UNCHANGED <<chip, pos, job, eout>>
OtherCloses == bus = "other" /\ bus' = "free" /\ UNCHANGED <<chip, pos, job, eout>>

EepromNext ==
  \/ \E p \in Seeks : eeprom_24lc_driver_seek(p)
  \/ pos <= MaxPos /\ \E n \in 1 .. MaxRead : eeprom_24lc_driver_read(n)
  \/ pos <= MaxPos /\ \E b \in Buffers : WriteStarts(b)
  \/ WritePage \/ OtherOpens \/ OtherCloses

EepromSpec == EepromInit /\ [][EepromNext]_eepromVars

-----------------------------------------------------------------------------
(* Behind its pages, transactions and failures the EEPROM is an array of    *)
(* bytes: a write that succeeds puts every byte at its place and disturbs   *)
(* no other, one whose dev_open fails half-way leaves a prefix, and reads   *)
(* see it. A write that the bus disturbs may leave old bytes, and move up   *)
(* those that follow, but only at its own places. The places of a write     *)
(* are those of a file as far as the end of its block, and go on at the     *)
(* start of that block.                                                     *)
EF == INSTANCE File WITH FileSize <- ChipSize, SegmentSize <- BlockSize, FileByte <- EByte,
        Positions <- Seeks, Lengths <- 1 .. MaxRead, Contents <- Buffers,
        file <- IF Free THEN chip ELSE job.before,
        fpos <- IF Free THEN pos ELSE job.start, fout <- eout
EepromIsFile == EF!Spec
=============================================================================
