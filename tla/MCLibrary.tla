----------------------------- MODULE MCLibrary ------------------------------
(* Instances of the modules below and beside the task core: the ring under  *)
(* lib/queue.c, used bare (as the semaphores do) and by a message queue,    *)
(* the two heaps, both kinds of lists, and of the drivers an EEPROM, the    *)
(* receiver of a UART, and the address resolution of the network. They      *)
(* share no state, so one behaviour exercises one of them, the part that    *)
(* its first state chooses.                                                 *)
(*                                                                         *)
(* The ring has four slots, three usable, so that head and tail wrap        *)
(* independently, and three data of which one is NULL, which                *)
(* app/messages.c really enqueues.                                          *)
EXTENDS MessageQueue, Heap, List, DList, Eeprom, Uart, Ethernet, TLC

CONSTANTS a, b, h1, Parts

VARIABLE part

MCData == {a, b, Null}
(* No ring and no list looks at what it holds.                              *)
EitherDatum == Permutations({a, b})
(* A transaction of one page, and one of three pages wherever it starts.    *)
MCBuffers == {<<0, 1>>, <<1, 0, 1, 1>>}

deviceVars == <<eepromVars, uartVars, netVars>>
LibVars == <<part, mqVars, heapVars, listVars, dlistVars, deviceVars>>

LibInit ==
  /\ part \in Parts
  /\ MqInit /\ HeapInit /\ ListInit /\ DListInit
  /\ EepromInit /\ UartInit /\ EthernetInit
  /\ part \notin {"queue", "mq"} => pdata = [s \in Slots |-> Null]
  /\ part # "heap" => allocator = "default"
  /\ part # "eeprom" => chip[0] = 0

LibNext ==
  /\ UNCHANGED part
  /\ \/ /\ UNCHANGED deviceVars
        /\ \/ part = "queue" /\ Next /\ UNCHANGED <<mq, heapVars, listVars, dlistVars>>
           \/ part = "mq" /\ MqNext /\ UNCHANGED <<heapVars, listVars, dlistVars>>
           \/ part = "heap" /\ HeapNext /\ UNCHANGED <<mqVars, listVars, dlistVars>>
           \/ part = "list" /\ ListNext /\ UNCHANGED <<mqVars, heapVars, dlistVars>>
           \/ part = "dlist" /\ DListNext /\ UNCHANGED <<mqVars, heapVars, listVars>>
     \/ /\ UNCHANGED <<mqVars, heapVars, listVars, dlistVars>>
        /\ \/ part = "eeprom" /\ EepromNext /\ UNCHANGED <<uartVars, netVars>>
           \/ part = "uart" /\ UartNext /\ UNCHANGED <<eepromVars, netVars>>
           \/ part = "ethernet" /\ EthernetNext /\ UNCHANGED <<eepromVars, uartVars>>

LibSpec == LibInit /\ [][LibNext]_LibVars
=============================================================================
