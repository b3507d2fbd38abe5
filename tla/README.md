# UCX/OS in TLA+

A verification development for the UCX/OS kernel: TLA+ models translated from
the C source, TLC configurations that check them on small instances, and proofs,
checked by TLAPS, that some of the properties hold for every instance.

Line numbers below refer to the repository's files. Where a module differs from
the code on purpose (an abstraction), this document says so.

## 1. The system

UCX/OS is a small preemptive or cooperative kernel for microcontrollers. Each
core has a kernel control block (`kcb`) with a list of task control blocks, a
current task and a mode; tasks share memory and synchronise through the objects
of the kernel. Everything that must be atomic is put between `CRITICAL_ENTER`
and `CRITICAL_LEAVE`.

| component | state | operations | hard behaviour | what makes it correct |
|---|---|---|---|---|
| task core (`kernel/ucx.c`) | `tasks`, `task_current`, `ticks`; per task `state`, `priority`, `delay`, `rt_prio` | spawn, cancel, yield, delay, suspend, resume, priority, rt_priority | ticks between any two steps; calls that block and yield in two steps; two schedulers; 16-bit priority arithmetic | only live, startable tasks run; one RUNNING task; no starvation; delays end; no false panic |
| critical sections (`include/kernel/kernel.h`, the HALs' `_interrupt_set`) | `int_status`, interrupt mask, `global_lock` | enter, leave, nested | ticks inside the bookkeeping; several cores on one counter | a section runs with interrupts off, and they come back on |
| queue (`lib/queue.c`) | ring, `head`, `tail`, `elem` | create, destroy, count, enqueue, dequeue, peek | wrapping, two counts, a slot that stays free | a bounded FIFO |
| semaphore (`kernel/semaphore.c`) | `count`, queue of waiting tasks | create, destroy, wait, trywait, signal | wake-ups racing the yield; cancelled waiters; destroy under use | no lost wake-up; Dijkstra's semaphore |
| spinlock (`kernel/spinlock.c`) | `locked`, `cpu` | init, acquire, release | reads of two fields by cores that race | mutual exclusion; a call does what it says |
| boot (`init/main.c`) | - | main, main1 | first task runs before any scheduling | a legal first state |
| message queue (`kernel/message.c`) | a queue | create, destroy, enqueue, dequeue, peek, items | destroy after a test outside the section | FIFO; nothing enqueued into a freed queue |
| pipe (`kernel/pipe.c`) | byte ring | create, destroy, flush, size, get, put, read, write, nbread, nbwrite | blocking loops with ticks between bytes | bytes in order, none lost |
| timers (`kernel/timer.c`) | list of timers, last tick | create, destroy, start, cancel, handler | callbacks that change the list being walked; narrow arithmetic | a started timer fires at its time |
| coroutines (`kernel/coroutine.c`) | ring of fibers, countdowns | ginit, add, cancel, schedule, destroy | cancelling while scheduling; priority 0 | every coroutine gets its turn |
| simple scheduler (`kernel/ucx.c`, CONFIG_SCHED_SIMPLE) | countdowns, current task | schedule | a walk that gives up after 10000 steps | no ready task is left out |
| clock (`_read_us`, `mtime_r`) | a hardware counter, its carries | read | a counter that runs while it is read in parts; an interrupt that reads it too | what is read was the time during the call |
| heap (`lib/malloc.c`) | list of blocks | malloc, free, init (two allocators) | coalescing, remainders | blocks tile the heap and never overlap |
| EEPROM driver (`drivers/device/24lcxxx`, `drivers/bus/i2c`) | position; the bus that is busy | seek, read, write | page writes that wrap around; a bus that others take between pages | an array of bytes |
| UART driver (`drivers/bus/uart`) | receive ring | open, close, read, interrupt | a test outside the section of the removal | what arrived is read once, in order |
| address resolution (`net/inet/arp.c`, `eth_netif.c`) | cache of addresses | send, receive, reply, update | lost, repeated and overtaken frames | packets go to their host |
| lists (`lib/list.c`) | sentinel lists | push, insert, remove, foreach (single and double) | removal during a walk | list order, length |

How they interact: semaphores, message queues, pipes and the heap call the
critical-section macros; a semaphore reads and writes the control block of the
current task and yields through the task core; the queue under a semaphore holds
pointers to control blocks; the timer interrupt enters at `_irq_handler`,
`krnl_dispatcher` and `dispatch`, which may run the application's real-time
scheduler; a multi-core section also takes a spinlock; the task core allocates
control blocks and stacks from the heap inside its sections, so sections nest;
the task, timer and coroutine lists are those of `lib/list.c`, and are walked with
callbacks; a timer handler reads `ticks`, or the clock, which the timer interrupt
keeps; the drivers open and close buses that tasks share.

Not part of the core logic, and listed in PROJECT.json with the reason: system
call wrappers, the C library, board code, examples, and most of the drivers and of
the network stack.

## 2. Modules

| module | models | role |
|---|---|---|
| `Fifo` | what a queue and a pipe promise | abstract specification |
| `Queue` | `lib/queue.c` | component; refines `Fifo` |
| `Kernel` | `kernel/ucx.c`, task core; the scheduler of `app/rtsched.c` | component |
| `SchedLoop` | the loops of `krnl_schedule` | algorithm against the definition `Kernel` uses |
| `Dijkstra` | what a semaphore promises | abstract specification |
| `Semaphore` | `kernel/semaphore.c` | extends `Kernel`; refines `Dijkstra` |
| `Mutex` | tasks of `app/mutex.c` | client that composes scheduler, yield and semaphore |
| `Spinlock` | `kernel/spinlock.c` | component, one step per memory access |
| `Critical` | `CRITICAL_ENTER/LEAVE`, `_interrupt_set` | component, one step per access |
| `MessageQueue` | `kernel/message.c` | extends `Queue` |
| `Pipe` | `kernel/pipe.c` | component; refines `Fifo` |
| `Timer` | `kernel/timer.c` | component: handler, callbacks and tasks interleaved |
| `Coroutine` | `kernel/coroutine.c` | component |
| `SchedSimple` | the scheduler of CONFIG_SCHED_SIMPLE | component, in place of the one in `Kernel` |
| `Uptime` | `mtime_r`, `_read_us`, `SysTick_Handler` | component, one step per access |
| `Heap` | `lib/malloc.c`, both allocators | component |
| `SeqLists` | what the lists promise | abstract specification |
| `List`, `DList` | `lib/list.c` | pointer structures; refine `SeqLists` |
| `File` | a memory with a position | abstract specification |
| `Eeprom` | `24lcxxx.c` over `i2c_bitbang.c` | component; refines `File` |
| `Uart` | receive side of `uart.c` | component, interrupt and readers interleaved |
| `Ethernet` | `arp.c`, `eth_netif.c` | hosts and a network that loses, repeats and reorders |
| `BasicProofs` | | lemmas the others share: least and greatest numbers, loops over a list, values put into and taken out of sequences |
| `KernelProofs` | `Kernel`, `SchedLoop` | theorems |
| `SemaphoreProofs` | `Semaphore`, `Mutex` | theorems |
| `SpinlockProofs`, `CriticalProofs` | the module of the name | theorems |
| `LibraryProofs` | `Queue`, `MessageQueue`, `Heap` | theorems |
| `ListProofs` | `List`, `DList` | theorems |
| `ServiceProofs` | `Pipe`, `Timer`, `Uptime`, `Uart`, `Ethernet`, `Eeprom` | theorems |
| `MC*` | | instances for TLC |

`MCLibrary` and `MCServices` hold several components each, whose variables are
disjoint: the first state chooses a *part*, and only that part moves. (The parts
share no state in the code either; composing them would multiply states without
adding an interaction.) `Parts` in the configuration says which are explored.

### How the state corresponds to the code

*Kernel.* A task is its control block: `tasks` is the list `kcb->tasks` as a
sequence, `current` is `kcb->task_current->data`, and `state`, `priority`,
`delay`, `rt` are fields of the block. `priority` keeps its 16 bits, base
priority in the high byte and countdown in the low one. `pc` says where each
task stands: in its own code, about to yield inside a call that blocked it,
spinning in `yield()`, or in `ucx_task_spawn` past its critical section. What is
between `CRITICAL_ENTER` and `CRITICAL_LEAVE` is one action; what follows is
another, so a tick fits between them. (That the macros give that atomicity is
not assumed lightly: it is what `Critical` is about, and sections 6 and 8 say
where it fails.) A step of a task requires it to be `current`, and nothing else:
the model lets a BLOCKED task execute if the code does, and
`StoppedTasksDoNotRun` is the claim that it does not get further than the yield.

`krnl_schedule` is a definition of what its first pass selects (`Eligible`,
`Selected`) and what the second subtracts (`Recounted`); `SchedLoop` writes the
loops down, in 16-bit arithmetic, and checks in every reachable state that they
compute it. The real-time scheduler belongs to
the application: `our_sched` is the one of `app/rtsched.c`, with its static
`task_node` and the credits left to each real-time task (`remaining`). It chooses among
READY tasks only when it searches; a task with credits left is set RUNNING
again in whatever state it is (`RtAgain`). Where its search runs past the end of the list,
or follows the node of a task that was cancelled, the code does not say what happens;
`RtAstray` halts the model there. `RtSched` says whether the application installed
it, `RtTasks` and `Credits` who has an RT priority at the start. Calls with an id that
names no task return an error and change nothing; they are stutters. Tasks in `Idle`
only yield and are named by no call.

`preemptive` is the mode `main` stores in the `kcb`; the runs start in both.

*Semaphore.* `waitq` is the queue as a sequence (module `Queue` justifies it),
`count` the signed count. A task that waits goes to `pc = "yield"`; the yield is
`Kernel`'s. `ucx_sem_destroy` is two steps, since its test is outside a section. What
comes in between with preemption is not followed: `AppSpec` assumes that a preemptive
application destroys no semaphore, an assumption of this model and not
something the documentation asks for.

*Queue.* `& mask` is `% Size`, `Size` being the rounded size; the slots of a
fresh ring hold anything. `out` records the result of the last call, so that the
refinement is about answers, not only about contents.

*Message queue.* `mq` says whether the structure exists; `"tested"` is the moment
between the test of `ucx_mq_destroy` and its section. `MqPreempted` lets other
calls in there; it is off for cooperative mode, where nothing yields in between;
section 6 says what happens when it is on.

*Pipe.* `call[t]` is the call a task is in and the byte it has come to. Each turn of
the loops is a section, so a step; everything may happen between two turns. The
bytes are those a caller passes; a result goes through a `char`, whose sign is
the target's: `CharMax`. `PipeSize` is the rounding of `ucx_pipe_create`,
computed by the code's shifts; the capacity that `PipeIsFifo` demands is defined
independently (`Asked`, the least power of two that is not smaller). That the two
agree for each size from 0 to 32768 is an assumption of `MCServices`
(`EverySizeRounds`), which TLC evaluates.

*Timer.* `walk` is the handler's position in the list and the argument it carries;
`walk.cb` says that a callback is running, and then any call may be made, on
any timer. Calls of other tasks are made while no walk is under way:
`kernel/timer.c` has no critical section, and applications make the calls before
the kernel starts or from callbacks (`app/timer_systick.c`, `app/timer_uptime.c`).
`asked` is no part of the code; it keeps what the application is owed: a timer that is
started is due when the time it was created with has gone by. The handler that counts
ticks may call back `Early`: it takes all ticks since its last walk from a countdown,
those included that had gone by before the start.

*Coroutine.* A coroutine runs to its next return within `ucx_cr_schedule`; `cres`
records whom the call ran. `fibers` starts as whatever the heap held
(`HeapGarbage`), since `ucx_cr_ginit` does not set it.

*SchedSimple.* Tasks are places in the list. `Winner` and `Iterations` say in
closed form what the loops compute; a task is READY or not, for whatever reason.

*Uptime.* `hw` is the hardware's time; a reader takes its two parts in steps
between which it runs on. `HwRuns` lets no carry go by without a SysTick.

*Heap.* Addresses and sizes are in words, and wrap around like `size_t`. `mem` holds
the headers on the chain, with the sizes the code writes, right or wrong:
the default allocator computes a remainder of minus one header and
repairs it when it merges. `owned` is what the application holds. The sum of a request
and a header is not checked in the code: a request for which it wraps around
(`Wraps`) is granted a small block, and writes a header over what is there. So
does the other allocator walk past its tail on a request of 0 that finds no room
(`Astray`). `Followed` is false after either, and the model stops.

*Lists.* Nodes are cells with `next`, `prev` and `data`, freed cells are marked;
the value of a list is read off the pointers (`Values`, `DValues`). That each call works
at its own end (`push` at the front, `pushback` at the back and so on) is part of
what `ListsAreSequences` and `DListsAreSequences` state. `dlist_rotate` answers the
value that was last, where `list_rotate` answers the one it moved.

*Eeprom.* A write is one step per page, `job` holding the local variables of the
driver; other tasks take and release the bus in between. `"lost"` is the bus
after a start that failed: the driver's `dev_open` leaves `busy` set. Another
master, or a task whose `dev_open` is refused but has sent its start, may disturb a
transaction: the chip then keeps only the first of its bytes and the bus counts any number from
there to all (`Transfer`). The driver adds what was counted to `size`, where it takes
the next bytes from, and the whole part to `pos`. `eout` says whether a transfer was
disturbed, which its caller is not told. The chip is
external: it stores a transaction into one page and wraps around inside it. The block
is chosen once, so that a write wraps around in its block; `File` says so with
`SegmentSize`.

*Uart.* The interrupt, and the test and the removal of each character, are steps.
`accepted` and `got` are history.

*Ethernet.* A frame in `wire` may be received any number of times, in any order, or
lost. A host's name stands for its IP and its MAC address.

*Spinlock.* Each read of `holding()`, the test-and-set, and each write is a
step; any core may call either function at any time.

*Critical.* Each of read and write of `int_status`, and the write of the mask,
is a step; `reg` is the register in between. `global_lock` is that of a multi-core
build (`Multicore`), taken after the mask and given back before the count; `Spinlock`
says how. `Tick` is possible only while the core's interrupts are on, and leaves them
on: the switch returns through `mret`, or through `csrs` for a task's first run. Tasks of one core take turns, which is
what the scheduler does with tasks of equal priority.

## 3. Runs

| run | asks | instance |
|---|---|---|
| `kernel_life` | what can interrupts and calls do to the tasks? | an idle task, a real-time task that only yields, two tasks, room for one more; delays 1 and 2; spawn, cancel, delay, suspend, resume; both modes |
| `kernel_priority` | priorities, and two schedulers that take turns: is one task RUNNING? do the loops of `krnl_schedule` compute what `Kernel` says? | three tasks, one with an RT priority and others that get one, two credits; levels 1, 3, 7, the idle task last in the list; both modes |
| `kernel_live` | starvation, delays | three tasks, levels 1, 3, 7, delays 1 and 2; both modes |
| `semaphore` | counts, wake-ups, refinement | an idle task and three users, `max_tasks` 3, value 1; both modes |
| `mutex` | exclusion, liveness of a whole application | three tasks of `app/mutex.c`, no idle task |
| `spinlock` | races on the lock | three cores |
| `critical` | do the cores stay out of each other's sections? | two cores with two tasks each, one caller of the kernel on each core, a multi-core build |
| `library` | ring, message queue, heaps, lists, EEPROM, UART, address resolution | 4 slots, two values and NULL; a heap of 18 words and requests of 0, 1, 4 and 20, both allocators; two lists of either kind over 5 nodes, two values; two blocks of two pages of 2 bytes; a receive ring of 4 and two tasks; a cache of 2 entries for 3 other hosts |
| `services` | pipe, timers, coroutines, clock, simple scheduler | a ring of 4 bytes, calls for 4, a blocking reader, a blocking writer and a task that does both without blocking; two timers of periods 1 and 4, both handlers; three coroutines, priorities 0, 2, 3; three tasks, priorities 1 to 3 |
| `find_no_tasks`, `find_cancel_waiter`, `find_lost_ticks` | section 6 | the task core with a first task that is not idle; a semaphore whose waiter is cancelled; one core with two callers of the kernel |

Why the bounds are enough. With three tasks the scheduler already has a first
task that is not ready, a ready task above it and one below it, and ties; levels
1, 3 and 7 give countdowns that divide unequally; a spare control block lets a
task be spawned, cancelled and its block reused. Delays of 1 and 2 separate "ends
on this tick" from "goes on". A ring of 4 slots wraps, fills and empties in every
position. Three waiting tasks fill the semaphore's queue exactly. In the pipe a call asks for one byte more than
the ring holds, so that blocking calls block; 18 words hold two or three blocks
with every pattern of holes, a request of 20 fits nowhere and one of 0 is a header alone; five nodes make two lists with one value more than
sentinels, and memory that runs out; four bytes from an odd place take a first, a whole
and a last page, and go beyond their block; periods of 1 and 4 are shorter and longer than
what a countdown may be early by; a cache smaller than the hosts replaces entries; three hosts to
ask for make answers overtake each other.

In `library` the two values are interchangeable (`SYMMETRY EitherDatum`): rings, message
queues and lists move them and never look at them, and the properties checked there
are safety properties.

The counters that would grow for ever are bounded by name: `MaxCount`
(no signal is sent above it), `Bound` in `Critical` (`int_status` is followed
between -3 and 3), `MaxClock` (the clock of the timers stops), `MaxHw` (the
hardware counter stops), `MaxCr` (coroutines), `MaxPos` (positions of the EEPROM
from which a transfer starts), `MaxReceived` (characters that arrive), `MaxFrames`
(frames in flight). Where the code's moduli would be out of reach they
are constants with the code's value in a comment: `TickMod`, `SizeMod`, `LowMod`,
`PcounterMod`, `FibersMod`, `ItMax`; small values make them wrap within the
bounds, except `SizeMod`, which stands for a `size_t` the time fits in.
`Kernel` keeps no `ticks`: a tick moves the waiting tasks on.

What the environment has to keep to is a constant, set in the configuration to
what the documentation, the examples or the mode guarantee: `MqPreempted`, `CharMax`,
`SelfStart`, `SysTickInRead`, `Openers`, `HandlerEvery` (the timer handler runs at
least once in so many ticks), `RtTasks` and `Calls` (what real-time tasks do),
`Callers` and `MaxNest` (who opens critical sections, and inside which). Section 6
says what happens with other values.

Every invariant and property of a passing run has a mutant in PROJECT.json: a
version of the code with a plausible slip, written beside the definition it
would replace (marked "slip"), under which TLC finds the property violated.

### Fairness

* `Kernel!Fairness`: the timer keeps interrupting in preemptive mode (hardware,
  re-armed at every interrupt), and in cooperative mode the current task keeps
  yielding, which is what the mode requires of applications.
* `Mutex`: a task that gets the processor again and again makes progress, since a
  quantum is longer than a step: strong fairness of each task's own steps.
* `Critical` (`LiveSpec`, for `find_lost_ticks`): each core's timer keeps interrupting
  while its interrupts are on, and a section that was opened is finished.
* `PipeFairness`: a task inside a call is scheduled again and again, which
  `NoStarvation` of `Kernel` shows. Nothing is assumed of calls being made, so
  `PairProgress` asks only that a reader and a writer which both wait do not wait
  for each other.
* `TimerFairness`: the clock goes on, and the task that calls the handler
  is scheduled and its callbacks return.
* `CrFairness`: the application calls `ucx_cr_schedule` in an endless loop, as
  every example does.
* `SimpleFairness`: the timer interrupt, or the yields, go on.

In `MCServices` each of these is conjoined with the part it belongs to. No
fairness is assumed of application calls otherwise.

## 4. What is proved

All theorems are in `*Proofs` modules, for every value of the constants that
meets the assumption of its module (`KernelAssumption`, `SizeAssumption`,
`NoneAssumption`, ...), which says no more than what the types, the boot code and
the settings of a target give: sizes are positive, a list of tasks names each one
once, a SysTick comes sooner than the hardware counter wraps. A theorem that
needs more of the application or of the target says so in its own hypotheses. Each
has a name and holds of the instance of the run that checks the property; section 6
says what goes wrong without it.

| theorem | states | asks for |
|---|---|---|
| `CountIsExact`, `QueueIsFifo` | `CountMatchesRing`, `ImplementsFifo` of `Queue` | |
| `MessagesAreFifo` | `ImplementsFifo` of `MessageQueue` | |
| `TypesAreKept`, `CurrentIsListed`, `AtMostOneRuns`, `SpawnIsInvisible`, `CountdownsStayWithinBase`, `IdleTaskPreventsPanic` | `TypeInv`, `CurrentListed`, `OneRunning`, `HalfBuiltNeverScheduled`, `CountdownWithinBase`, `NoFalsePanic` of `Kernel` | |
| `StoppedTasksStop` | `StoppedTasksDoNotRun`, `StoppedUntilWoken` | `RtOnlyYield` |
| `DelaysAreKept` | `DelayOnlyWhileBlocked` | `RtOnlyYield` |
| `LoopsSelect` | `LoopSelects` of `SchedLoop` | |
| `BasesAreKept` | only `ucx_task_priority`, spawn and cancel change a base priority | |
| `CountAgrees`, `WaitersStayBlocked` | `CountMatchesQueue`, `WaitersBlocked` | `RtOnlyYield`, `NoCancel` |
| `WakeUpsAreNotLost` | `NoLostWaiter` | `RtOnlyYield`, `NoCancel`, `NoZeroDelay` |
| `QueueNeverOverflows` | `QueueSuffices` | `RtOnlyYield`, `NoCancel`, `RoomForAll` |
| `SemaphoreIsDijkstra` | `ImplementsDijkstra` | `RtOnlyYield`, `NoCancel` |
| `TheMutexExcludes` | `MutualExclusion` of `Mutex` | `RtOnlyYield`, `NoCancel` |
| `LockExcludes`, `LockDelivers` | `MutualExclusion`, `CallsDeliver` of `Spinlock` | |
| `SectionsExclude` | `OneCoreInside` of `Critical` | `LockedSections` |
| `AllocationsAreDisjoint`, `NoRoomIsOverlooked` | `BlocksDisjoint`, `FreshSearchComplete` | `NoWrap` |
| `ListsRefineSequences`, `DListsRefineSequences` | `ListsAreSequences`, `DListsAreSequences` | |
| `PipeIsABuffer` | `PipeIsFifo` | `RoundsUp`, `BytesFitChar` |
| `TimersKeepTheirTime` | `CalledAsAsked` | |
| `TheTimeIsRead` | `ReadsTheTime` | `ReadAtomic` |
| `NothingReadTwice` | `ReadsWhatArrived` | `ReadersOpen` |
| `PacketsArrive` | `PacketsGoToTheirHost` | |
| `EepromIsAFile` | `EepromIsFile` | |

What is asked for: that the tasks with an RT priority only yield, as those of
`app/rtsched.c` do, since its scheduler sets a task that has credits left RUNNING in
whatever state it is (`RtOnlyYield`); that no task is cancelled, which would leave it
in the queue (`NoCancel`, `find_cancel_waiter`); that none is delayed by 0 ticks,
which blocks it for ever (`NoZeroDelay`); that the semaphore's queue was created for
all tasks that may wait (`RoomForAll`); that the kernel is built for several cores,
one task of each core opens sections, no section is opened inside another, and each
task is in the list of one core (`LockedSections`); that no request and its header add
up to more than a `size_t` holds, which `malloc.c` does not check (`NoWrap`); that
the size of a pipe is rounded as documented, which TLC evaluates for each size up to
32768 (`RoundsUp`), and that its bytes fit the `char` of the target
(`BytesFitChar`); that no interrupt handler reads the clock (`ReadAtomic`); that
tasks open the UART they read (`ReadersOpen`). The names of the bounds
(`MaxClock`, `MaxCount`, ...) are constants like any other: the theorems hold for
all their values.

The arguments, by module:

* `LibraryProofs`, the ring. The invariant is the type invariant with `CountMatchesRing`; the
  refinement adds one lemma for each call about what it does to `Contents`, with
  wrapping handled by a case split instead of modulo arithmetic. Every step of the
  message queue is a step of the ring under it or none, its destruction in two steps
  included, so that what holds of the ring holds of the messages.
* `KernelProofs`. The invariants share
  one inductive invariant, the conjunction of `TypeInv`, `CurrentListed`,
  `OneRunning`, `StoppedTasksDoNotRun`, `DelaysKept` (`DelayOnlyWhileBlocked` where
  RT tasks only yield), `HalfBuiltNeverScheduled`, `CountdownWithinBase`, `NoFalsePanic`
  and facts no run needs: `SpawnsDistinct` (two tasks never build the same control
  block), `IdleAlive` and `IdleAtFront` (idle tasks stay schedulable, and one at the
  front of the list stays there), `NodeIsRt` (the node `our_sched` keeps is that of a
  listed task with an RT priority) and `RtIsIdle` (where RT tasks only yield, they are
  idle tasks: no call stops them, so that `our_sched` may run them unseen). Why they have to go together: the subtraction stays in 16 bits
  because the selected countdown is the least of the READY ones that are not
  above the first task's, and every other countdown is no smaller than it only
  because of that selection and `CountdownWithinBase`; the scheduler finds a
  task because the idle task has a countdown not above itself; a freed task is
  never current because `ucx_task_cancel` refuses its caller, and it is
  never scheduled because it left the list; a half-built task is never scheduled
  because it is STOPPED and no call names it (its id has not been returned).
  The loops of `krnl_schedule` compute the selection (`LoopsCompute`): from the first
  eligible task on, the scan holds the last of the smallest counts it has passed; the
  second pass subtracts once from each READY task, since the list names none twice,
  and does not wrap by `CountdownWithinBase`; the byte of the selected task
  is 0 when the reset meets it, so that the OR copies the base. The inductions over the
  list run on sets of places (`UpTo`, `Iterates` of `BasicProofs`), as the
  theorems of the library that take a predicate cannot be used here.
* `SemaphoreProofs`. The invariant (`SInv`) is the one of `Kernel`, since a semaphore is
  only as good as the tasks' states, with: the count is minus the length of the
  queue, or the queue is empty; whoever is queued is queued once, listed, BLOCKED
  without a delay and not an idle task (which is what keeps resume, the end
  of a delay and the schedulers off it: a task leaves the queue only in a signal); while
  `ucx_sem_destroy` is between its test and its release, the destroyer runs
  cooperatively and the queue is empty. `NoLostWaiter` is shown of each
  step from there: what turns BLOCKED is in the queue or has a delay. The queue
  is large enough since it names each task once, and there are at most that many.
  Every call then maps to a step of `Dijkstra` on `count` and
  the queue, and every step of `Kernel` to a stutter.
  For `app/mutex.c`, exclusion needs to say to whom the semaphore belongs before the task
  runs: a `Holder` is a task that passed its wait or was taken out of the queue by a
  signal, however long ago. `OneHolder`: there is at most one, the count is at most 1,
  and it is 1 exactly while there is none.
* `SpinlockProofs`. The invariant is that
  the flag is set exactly while a core holds the lock, and that the `cpu` field
  names a core exactly while it holds a marked lock. This makes the two
  unsynchronised reads of `holding()` exact: another core can change both fields,
  but never to or from the reader's own number.
* `CriticalProofs`. From the end of its acquisition to its release a task finds its core
  in the global lock (`CriticalInv`): another core waits until the lock is free, and
  on its own core nobody else opens a section, nor closes an inner one, either of which
  would release the lock. The count that the cores race on, and with it the mask, plays
  no part, which is the point: the lock excludes whatever becomes of it.
* `LibraryProofs`, the heap. Blocks tile the zone (`Chain`), the application owns exactly what
  is marked used (`OwnsUsed`), and in the alternative allocator free blocks have
  their right size and no free neighbour (`Healed`). In the default one the size of a free
  block may be wrong, so the proof may not use it: a search merges the run of free blocks it is
  at and computes the size anew before it looks at it. One fact is not obvious from the
  code and carries the proof: the last block before the tail is free. Were
  it used, a search would take the size of the tail, minus one header, for a huge one.
  It is kept since a block is granted only where a remainder with a header
  is left: a request that fits a block exactly is refused it.
* `ListProofs`. The values of a list are read by a walk over the pointers, about which
  nothing can be said in a step that changes them. The invariant (`ListInv`) therefore says
  that some functions `len` and `at` exist such that the nodes of list l are `at[l][0]`,
  the head sentinel, to `at[l][len[l] + 1]`, the tail; that the successors follow them;
  that no node has two places; and that what is not free has one. Linking a
  node in, at any place or behind the tail, cutting one out, and creating or destroying an
  empty list change `len` and `at` at one place (`LinkedIn`, `LinkedOut`,
  `LinkedNew`, `LinkedGone`), and the *row* of the list, its values in their places, as
  an insertion or a removal changes a sequence. A walk visits the places in order
  and stops behind the tail, since the memory holds no more nodes than its size
  (`WalkIs`); what it reads is the row (`ValuesAre`). A move is a removal and an
  insertion of the same node. That a failed `malloc` leaves no half-built list
  is a case of `CreateStep`, and that each call works at its own end follows from where
  the first and the last place are (`EndsAreRight`). For the doubly linked lists the predecessors are chains
  as well, on the same places counted from the tail (`Back`), so that the same lemmas are used
  once for each direction; `LinkAfter` and the unlinking are shown to change both. The
  assumption is that memory is finite, and no node is the null pointer.
* `ServiceProofs`. The UART and the pipe are rings as in `LibraryProofs`; the UART adds
  that one task at a time has the device open and that the ring is not empty between
  its test and its removal, as nothing else removes. The pipe implements the FIFO,
  the loops of its calls being stutters between bytes. In the network every frame names its sender's own
  address, and no two entries of a cache name one host. Of the clock, the invariant
  says which part of what a reader holds is still true after the counter ran on:
  the low half belongs to a moment of the call, and the software's carries are those of the
  hardware up to its last call, which is less than a turn ago. Of timers (`TimerInv`):
  when the handler will call back (`DueBy`) is not before what the application is owed
  (`asked`), less `Early`. It depends on whether the walk under way has passed the
  timer (`Ahead`), on the ticks the handler has yet to take, and on wrapping;
  `Kept` has to say it of timers that are started, cancelled or moved in the list by a
  callback while the walk is at another. Of a write to the EEPROM in progress
  (`Writing`), the chip holds what it held before, but for the bytes stored so far
  at their places: each of them at its own while the write is calm (`Exact`), each place
  holding its old byte, its own, or one from further to the front of the buffer, once
  a transfer was disturbed (`Garbled`). A page's transaction stays inside its page
  because the first one is as long as the rest of its page, so that
  all others start at a boundary; a block is a whole number of pages, so that
  wrapping around in the block does not cut one.

Only model-checked:

* liveness (`NoStarvation`, `DelaysExpire`, `EveryoneEnters`,
  `PairProgress`, `StartedTimersFire`, `EveryCoroutineRuns`, `ReadyTasksAreChosen`):
  TLAPS has no rule for fairness here;
* that the shifts of `nextpowerof2` round every size from 0 to 32768 up
  (`EverySizeRounds`): there are few enough to evaluate all of them.

Every other property that a passing run checks is stated by a theorem.

## 5. What the checks show

The task core keeps its promises under interrupts at any point: a call that
blocks never returns early, delays and suspensions never interfere, a spawned
task is out of reach until it is complete, the countdown arithmetic is safe, and
no task starves. The semaphore is Dijkstra's, no wake-up is lost between the
block and the yield. The spinlock excludes although its test is not atomic. A
system with an idle task spawned first never panics for lack of tasks. The safety
of all this is proved beside the real-time scheduler of `app/rtsched.c` too, as long as
real-time tasks only yield (section 4 says which parts need that); that no task starves is
checked without it, as real-time tasks come before all others. Between cores, the global lock keeps sections apart that do not nest, with one task on each
core that opens them.

Above it: a pipe is a FIFO of bytes under any interleaving of blocking and
non-blocking calls and flushes, and a reader and a writer that both ask for more
than the ring holds do not deadlock. Timers that are started are called back, once
for each period, while callbacks start, cancel and destroy others
during the walk; the handler by system uptime is never early, the one that counts
ticks by at most twice the distance of two of its calls. Coroutines of any priority but 1 all run, even with priority 0
(whose count wraps to 255 and comes round) and with an 8-bit count that wraps.
The simple scheduler leaves no ready task out.

Below it: both allocators hand out disjoint blocks and, when they search from the
first block, refuse only what fits nowhere, although the default one writes wrong
remainder sizes, which its next search repairs. The lists are sequences although
their sentinels change places. The EEPROM driver's pages add up to the bytes of the
caller, as far as the block goes; a write that is refused the bus half-way stores a
prefix, and one that is disturbed changes no byte outside its own places. No character that the UART took is lost
or read twice by tasks that open it. No packet goes to another host for a stale
entry of the cache.

## 6. Where the code and its documentation disagree

The first three have a run that exhibits them (`expect: violation`), and an entry
under `findings` with the quoted line.

* `find_no_tasks`: `krnl_schedule` panics with "no tasks to run" although a task
  is ready, if the first task of the list is not ready and its countdown is
  smaller than that of every ready one. An idle task at the front prevents
  it (`IdleTaskPreventsPanic`), or equal countdowns.
* `find_cancel_waiter`: a cancelled task stays in the semaphore's queue.
* `find_lost_ticks`: the counter of `_interrupt_set` is updated while interrupts
  are on. A tick after the count was lowered and before the mask is written lets
  another task leave its own section with the count too low and interrupts off,
  and the yield that follows never ends (single core; riscv64-qemu and every port
  with the same function).

Others follow from the same modules and have no run of their own. Of `Critical`:

* Two updates of that counter that overlap lose one of them, after which the count is
  too high and a section runs with interrupts on (`SectionsUninterrupted` fails for
  `OneCore`, `TwoTasks`, `Callers = {a, b}`, `Multicore = FALSE`, `MaxNest = 2`), where `_di()` of the
  HAL is to disable them. In the multi-core build the counter is shared by all cores, so
  that a core that leaves its section while another is inside one keeps its interrupts
  off.
* A section inside another one, such as those of the heap inside those of the task
  core, ends by releasing the global lock while the outer one goes on
  (`include/kernel/kernel.h:57`): with `MaxNest = 2` in `MCCritical.cfg`,
  `OneCoreInside` fails.

Of `Kernel`:

* The scheduler of `app/rtsched.c` sets the task of `task_node` RUNNING while that has
  credits left, without a look at its state (lines 98-124). A real-time task that is
  suspended or blocked runs again without having been woken, where `README.md:140` says
  that a suspended task waits "until another tasks resumes it from this state": with an
  RT priority for a task that is not in `Idle` (`RtTasks = {b}`, `Calls = {"suspend",
  "resume"}`), `StoppedUntilWoken` fails. The tasks of the example only yield. Its first
  search (lines 88-91) runs past the end of the list when no real-time task is READY
  (`RtAstray`).
* `ucx_task_delay(0)` blocks for ever: put 0 in `Delays` and `DelaysExpire` fails.
* In cooperative mode `yield` never asks the real-time scheduler, so real-time tasks
  do not run.

Further disagreements that the modules describe, or show when a constant that
stands for an assumption is changed, without a run of their own:

* `ucx_sem_create(max_tasks, ...)`: the ring has `max_tasks` slots when that is a
  power of two, and one stays free; when task number `max_tasks` has to wait, the
  kernel panics (`kernel/semaphore.c:57`), where `README.md:217` lets a task block.
  Set `MaxTasks = 2` and `QueueSuffices` fails.
* `ucx_mq_destroy` (`MqPreempted = TRUE`): a message that is enqueued between the
  test and the section makes `queue_destroy` refuse; the structure is freed, the
  ring and the message stay behind (`NothingLeftBehind`).
* `ucx_pipe_read` where `char` is signed (`CharMax = 127`): a byte 0xff is taken for
  "empty"; it leaves the ring and is dropped (`PipeIsFifo`). Independently of that, a
  pipe of more than 32768 bytes has its size rounded to 65536 in 16 bits, which is 0
  (`kernel/pipe.c:35`).
* `ucx_cr_cancel` never finds a coroutine (`kernel/coroutine.c:72-74` takes the
  function for a control block), where `README.md:185` says "Removes a coroutine from
  a group context"; `CancelRemoves` states that. `ucx_cr_gdestroy` refuses for ever
  once a coroutine was added, as `fibers` is never lowered; and `ucx_cr_ginit` does
  not set it. A coroutine of priority 1 runs on every call and keeps those behind it
  from being counted: add 1 to `Priorities` and `EveryCoroutineRuns` fails.
* A one-shot timer that is started again in its own callback is disabled when the
  callback returns (`SelfStart = TRUE`, `StartedTimersFire`).
* `timer_handler` by ticks takes all the ticks since its last walk from every countdown,
  also from that of a timer that was started after some of them, in the callback of
  another timer for one (`kernel/timer.c:24-30`): it fires that much early. `Early` says
  by how much, and `CalledAsAsked` fails with less.
* The handler by system uptime casts the 64-bit time to a `size_t`
  (`kernel/timer.c:108`) and compares it with 64-bit times; `ucx_uptime` counts in
  milliseconds, so a `size_t` of 16 bits is exceeded after 65 seconds, and one of 32 after
  49 days. From then on `timer_update` finds no timer due that lies beyond
  (`SizeMod = 4`, `StartedTimersFire`).
* `_read_us` of riscv32-qemu reads the two halves of the time once, and may be
  torn (the mutant of `ReadsTheTime`). The one of stm32f401_blackpill is called by the
  SysTick handler, which may interrupt another call between its reads and writes of
  the static variables (`SysTickInRead = TRUE`): the time then jumps ahead by 65536 us.
* `lib/malloc.c:121-122` says free areas are "searched from the beginning of the
  heap"; the search starts at the last allocation, so a request can be refused
  although there is room in front (`SearchComplete`, with a `HeapLen` of 22).
* `ucx_malloc` adds a header to the size without a check (`lib/malloc.c:147-167`): a
  request for which the sum wraps around is granted a block that is smaller than asked
  for. A request of 0 that finds no room in the other allocator goes on behind the tail
  of the heap. `Heap` stops after either (`Followed`).
* `kernel/ucx.c:133-136` says the simple scheduler hangs if no task is ready; the
  code panics after 10000 steps, and does so too while tasks are ready, when the
  number of tasks times the least countdown is more than that: 40 tasks of base priority
  255 are enough (`ItMax = 4` in `MCServices.cfg`, `GiveUpMeansNoTasks`).
* A write to an EEPROM of several blocks (24LC04, 08, 16, 1024) that crosses
  the end of a block wraps around to the start of that block, since the block is
  selected once, before the pages are written; the position goes on into the next
  (`File` with a `SegmentSize` says so: with `SegmentSize <- ChipSize`, `EepromIsFile`
  fails). A write that another master disturbs, or a task whose refused open has sent a
  start, sends fewer bytes than a page takes; `24lcxxx.c:308` counts what was
  sent and moves on by the page, so that the pages that follow get the wrong bytes, and the
  answer does not say where the gap is. When the bytes fill their last page exactly, a further, empty
  transaction follows, and if the bus is taken then, the call answers 0 though all
  was written. A start that fails leaves the bus busy for good
  (`drivers/bus/i2c/i2c_bitbang.c:269-271`).
* A task that reads a UART without opening it may race another reader between the
  test and the removal, and gets a 0 that nobody sent (`Openers = {}`,
  `ReadsWhatArrived`). `uart_driver_deinit` frees a static buffer when
  `rx_buffer_size` is between 33 and 128 (`drivers/bus/uart/uart.c:92,123`).

## 7. Plan

Written so far: the task core, the objects it synchronises with, the services
above it, the library below it, and of drivers and network the parts with state
of their own. What is left, in this order:

1. Task ids and their wrap, the yield of the STM32 port.
2. A semaphore shared by two cores under `Critical` and `Spinlock`.
3. NOSCHED sections and the bit-banged I2C transfers under them; the configuration
   of an IP address by ping; the other devices.

## 8. What is not modelled, and why

Ids (tasks are named by control blocks; a call with a stale id is an error
return), stack overflow checks, `printf`, statistics, NOSCHED sections, the
alternative `_int_set` of the hf-risc ports, memory ordering beyond the barriers
of the spinlock, and the components listed as `not_modelled`. `Kernel` and `Semaphore` treat critical sections as
atomic. `Critical` shows that the HALs which count nested sections do not provide that
when two tasks make kernel calls (`find_lost_ticks`, section 6), so the results about
`Kernel` and `Semaphore` are about the code under a HAL whose sections are
atomic.

Of the modelled components: `CONFIG_POWER_ALLOC`, and `ucx_calloc` and
`ucx_realloc` beyond the `malloc` and `free` they call; the multi-core variants of
the timers' and the scheduler's lists; UARTs without interrupts and their
transmit side; initialisation and release of drivers; multicast, and hosts without
an IP address.

By far the most lines of the repository are register definitions of vendors
(`arch/common/stm32/cmsis` and its kind), start-up code and fonts and tables of
applications: they have no behaviour to model. The IP, ICMP and UDP layers fill in and
check headers and keep no state between packets; the C library, the fixed-point
and floating-point code compute and format.
