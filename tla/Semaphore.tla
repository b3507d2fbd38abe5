----------------------------- MODULE Semaphore ------------------------------
(***************************************************************************)
(* kernel/semaphore.c over the task core: one counting semaphore whose     *)
(* waiting tasks are BLOCKED, with no delay running, and queued in a ring  *)
(* of pointers to control blocks (lib/queue.c, here the FIFO that module   *)
(* Queue shows it to be).                                                  *)
(***************************************************************************)
EXTENDS Kernel

CONSTANTS
  MaxTasks,     \* argument max_tasks of ucx_sem_create
  Value,        \* argument value of ucx_sem_create
  MaxCount      \* bound: no signal is sent to a semaphore this high

ASSUME SemaphoreAssumption ==
  MaxTasks \in UInt16 /\ Value \in Nat /\ MaxCount \in Nat

VARIABLES
  count,        \* s->count: the value, or minus the number of waiting tasks
  waitq,        \* s->sem_queue: control blocks, oldest first
  semLive       \* the semaphore exists

semVars == <<count, waitq, semLive>>
svars == <<vars, semVars>>

(* slip: the size is not rounded up *)
NotRounded == MaxTasks

(* queue_create rounds the size up to a power of two, at least 2, and the  *)
(* ring holds one element less than its size.                              *)
RingSize == CHOOSE s \in {2^k : k \in 1 .. 16} :
              s >= MaxTasks /\ \A k \in 1 .. 16 : 2^k >= MaxTasks => s <= 2^k
QueueRoom == RingSize - 1

ucx_sem_create(t) ==
  /\ MayCall(t, "sem_create") /\ ~semLive
  /\ count' = Value /\ waitq' = << >> /\ semLive' = TRUE
  /\ UNCHANGED vars

(* queue_destroy tests the ring outside any critical section: a tick may   *)
(* fall between the test and the release of the memory.                    *)
ucx_sem_destroy(t) ==
  /\ MayCall(t, "sem_destroy") /\ semLive
  /\ waitq = << >>
  /\ pc' = [pc EXCEPT ![t] = "call"]
  /\ UNCHANGED <<tasks, current, tcbVars, new, panic, semVars, preemptive>>
SemFreed(t) ==
  /\ panic = "none" /\ current = t /\ pc[t] = "call"
  /\ semLive' = FALSE
  /\ pc' = [pc EXCEPT ![t] = "run"]
  /\ UNCHANGED <<tasks, current, tcbVars, new, panic, count, waitq, preemptive>>

(* slip: the count is tested before it is decremented *)
WaitTestsFirst(t) ==
  /\ MayCall(t, "sem") /\ semLive
  /\ count' = count - 1
  /\ \/ /\ count >= 0
        /\ UNCHANGED <<state, pc, waitq, panic>>
     \/ /\ count < 0
        /\ Len(waitq) < QueueRoom
        /\ waitq' = Append(waitq, t)
        /\ state' = [state EXCEPT ![t] = "BLOCKED"]
        /\ pc' = [pc EXCEPT ![t] = "yield"]
        /\ UNCHANGED panic
  /\ UNCHANGED <<tasks, current, priority, delay, rtVars, new, semLive, preemptive>>

ucx_sem_wait(t) ==
  /\ MayCall(t, "sem") /\ semLive
  /\ count' = count - 1
  /\ \/ /\ count' >= 0
        /\ UNCHANGED <<state, pc, waitq, panic>>
     \/ /\ count' < 0
        /\ Len(waitq) = QueueRoom
        /\ panic' = "SEM_OPERATION"
        /\ UNCHANGED <<state, pc, waitq>>
     \/ /\ count' < 0
        /\ Len(waitq) < QueueRoom
        /\ waitq' = Append(waitq, t)
        /\ state' = [state EXCEPT ![t] = "BLOCKED"]
        /\ pc' = [pc EXCEPT ![t] = "yield"]
        /\ UNCHANGED panic
  /\ UNCHANGED <<tasks, current, priority, delay, rtVars, new, semLive, preemptive>>

ucx_sem_trywait(t) ==
  /\ MayCall(t, "trywait") /\ semLive
  /\ count > 0
  /\ count' = count - 1
  /\ UNCHANGED <<vars, waitq, semLive>>

(* slip: the count is tested for a waiting task before the increment *)
SignalTestsFirst(t) ==
  /\ MayCall(t, "sem") /\ semLive /\ count < MaxCount
  /\ count' = count + 1
  /\ \/ count >= 0 /\ UNCHANGED <<state, waitq, panic>>
     \/ count = -1 /\ UNCHANGED <<state, waitq, panic>>
     \/ /\ count < -1
        /\ state' = [state EXCEPT ![Head(waitq)] = "READY"]
        /\ waitq' = Tail(waitq)
        /\ UNCHANGED panic
  /\ UNCHANGED <<tasks, current, priority, delay, rtVars, pc, new, semLive, preemptive>>

(* slip: the oldest waiting task leaves the queue and stays BLOCKED *)
SignalDropsWaiter(t) ==
  /\ MayCall(t, "sem") /\ semLive /\ count < MaxCount
  /\ count' = count + 1
  /\ waitq' = IF count' <= 0 THEN Tail(waitq) ELSE waitq
  /\ UNCHANGED <<vars, semLive>>

ucx_sem_signal(t) ==
  /\ MayCall(t, "sem") /\ semLive /\ count < MaxCount
  /\ count' = count + 1
  /\ \/ /\ count' > 0
        /\ UNCHANGED <<state, waitq, panic>>
     \/ /\ count' <= 0
        /\ waitq = << >>
        /\ panic' = "SEM_OPERATION"
        /\ UNCHANGED <<state, waitq>>
     \/ /\ count' <= 0
        /\ waitq # << >>
        /\ state' = [state EXCEPT ![Head(waitq)] = "READY"]
        /\ waitq' = Tail(waitq)
        /\ UNCHANGED panic
  /\ UNCHANGED <<tasks, current, priority, delay, rtVars, pc, new, semLive, preemptive>>

-----------------------------------------------------------------------------
SemInit == Init /\ count = Value /\ waitq = << >> /\ semLive = TRUE

SemCall(t) ==
  \/ ucx_sem_create(t) \/ ucx_sem_destroy(t) \/ SemFreed(t)
  \/ ucx_sem_wait(t) \/ ucx_sem_trywait(t) \/ ucx_sem_signal(t)

SemNext == \/ Next /\ UNCHANGED semVars
           \/ \E t \in Tcb : SemCall(t)

SemSpec == SemInit /\ [][SemNext]_svars

(* A preemptive application destroys no semaphore that is in use, and       *)
(* nothing but the application can know that: here it destroys none.        *)
AppNext == SemNext /\ (preemptive => \A t \in Tcb : pc'[t] # "call")
AppSpec == SemInit /\ [][AppNext]_svars

-----------------------------------------------------------------------------
(* A negative count is exactly the number of queued tasks, and a task is    *)
(* queued only while the count is negative: no interleaving of waits,       *)
(* signals and failed trywaits makes the two disagree.                      *)
CountMatchesQueue ==
  panic = "none" => Len(waitq) = IF count < 0 THEN -count ELSE 0

(* The queue names each waiting task once, and a queued task is in the task *)
(* list, BLOCKED, without a delay that would wake it: only a signal does.   *)
WaitersBlocked ==
  /\ IsInjective(waitq)
  /\ \A i \in 1 .. Len(waitq) :
       /\ Listed(waitq[i])
       /\ state[waitq[i]] = "BLOCKED" /\ delay[waitq[i]] = 0

(* No lost wake-up: a task that is BLOCKED without a delay is in the queue, *)
(* where a signal finds it.                                                 *)
NoLostWaiter ==
  \A t \in Tcb : Listed(t) /\ state[t] = "BLOCKED" /\ delay[t] = 0 =>
    \E i \in 1 .. Len(waitq) : waitq[i] = t

(* The queue is never too small for the tasks of the application.           *)
QueueSuffices == panic # "SEM_OPERATION"

(* The semaphore implements Dijkstra's.                                     *)
D == INSTANCE Dijkstra WITH
       Task <- Tcb, Initial <- Value, waiting <- waitq, exists <- semLive,
       value <- IF count > 0 THEN count ELSE 0
ImplementsDijkstra == D!Spec
=============================================================================
