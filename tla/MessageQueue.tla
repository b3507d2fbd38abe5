---------------------------- MODULE MessageQueue ----------------------------
(***************************************************************************)
(* kernel/message.c: a message queue is a queue of lib/queue.c behind the  *)
(* critical section. Each call is one step, except ucx_mq_destroy, which   *)
(* looks at the number of messages before it enters the section in which   *)
(* it frees the queue.                                                     *)
(***************************************************************************)
EXTENDS Queue

CONSTANT MqPreempted  \* other tasks run between the two halves of destroy:
                      \* they cannot in cooperative mode

ASSUME MqAssumption == MqPreempted \in BOOLEAN

VARIABLE mq           \* "none", "open", or "tested": found empty by destroy

mqVars == <<queueVars, mq>>

MqInit == Init /\ mq = "none"

(* The structure or its queue may find no memory; what was had is freed.    *)
ucx_mq_create ==
  /\ mq = "none" /\ queue_create
  /\ mq' = IF live' THEN "open" ELSE "none"

MqTest == mq = "open" /\ queue_count /\ mq' = IF elem # 0 THEN "open" ELSE "tested"

(* What queue_destroy answers is not looked at: the structure goes anyway.  *)
MqFree == mq = "tested" /\ queue_destroy /\ mq' = "none"

ucx_mq_destroy == MqTest \/ MqFree

MqUsable == mq = "open" \/ (MqPreempted /\ mq = "tested")

ucx_mq_enqueue(m) == MqUsable /\ queue_enqueue(m) /\ UNCHANGED mq
ucx_mq_dequeue == MqUsable /\ queue_dequeue /\ UNCHANGED mq
ucx_mq_peek == MqUsable /\ queue_peek /\ UNCHANGED mq
ucx_mq_items == MqUsable /\ queue_count /\ UNCHANGED mq

MqNext == \/ ucx_mq_create \/ ucx_mq_destroy
          \/ ucx_mq_dequeue \/ ucx_mq_peek \/ ucx_mq_items
          \/ \E m \in Data : ucx_mq_enqueue(m)

MqSpec == MqInit /\ [][MqNext]_mqVars

-----------------------------------------------------------------------------
(* ecodes.c: ERR_MQ_NOTEMPTY is "message queue not empty". The structure of *)
(* a message queue is not freed while messages are in it: its ring is freed *)
(* with it, and nothing is left behind that nobody can reach.               *)
NothingLeftBehind ==
  [][mq # "none" /\ mq' = "none" => ~live' /\ elem' = 0]_mqVars
=============================================================================
