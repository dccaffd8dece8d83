# A verification project for the kernel and the key-value store of AliOS Things

This directory holds TLA+ models of the part of this repository that everything else runs
on, the Rhino real-time kernel (`src/Living_SDK/kernel/rhino/core`), and of the
key-value store that the SDK keeps its settings in (`src/Living_SDK/kernel/modules/fs/kv`). Every definition is
read off the C source; `PROJECT.json` names the lines each one stands for, the runs, the
theorems, the hazards and a plausible bug for every property.

Contents: [the system](#1-the-system), [the modules](#2-the-modules),
[the runs](#3-the-runs), [the proofs](#4-the-proofs), [what the project has
found](#5-findings), [what is not modelled](#6-what-is-not-modelled), [the plan](#7-the-plan).

## 1. The system

AliOS Things is an operating system and SDK for connected devices. From the bottom up:

| part | where (under `src/`) | state it keeps | how it meets the others |
|---|---|---|---|
| Rhino kernel | `Living_SDK/kernel/rhino` | tasks, ready queue, tick list, kernel objects | called by everything above; calls the CPU port to switch tasks |
| CPU ports, boards | `Living_SDK/platform`, `board`, `device` | registers | call `krhino_intrpt_enter/exit`, `krhino_tick_proc` |
| AOS calls | `Living_SDK/kernel/vcall` | none of its own | `aos_*` functions forward to Rhino |
| event loop | `Living_SDK/kernel/yloop` | a loop per task, event and call lists | Rhino queues, VFS polling |
| VFS, key-value store | `Living_SDK/kernel/vfs`, `kernel/modules/fs/kv` | inodes; a log in flash | mutexes and semaphores of Rhino |
| networks, radio | `Living_SDK/kernel/protocols` | lwIP, mesh, LoRaWAN | Rhino tasks and queues |
| Linkkit | `Living_SDK/framework/protocol` | MQTT, CoAP, device model | AOS calls |
| framework | `Living_SDK/framework` | network manager, OTA, sensors, AT parser | event loop, AOS calls |
| libraries | `Living_SDK/security`, `utility`, GUI, audio | | |
| products, services | `Products`, `Service` | applications | all of the above |

The kernel carries the control that the rest takes for granted, has no tests that
interleave anything (`kernel/rhino/test` calls one function after the other), and is small
enough to be modelled whole. The project therefore began there. The key-value store is the one part above it
that must survive a loss of power at any moment, and its tests never cut one short.

### The kernel's components

| component (`rhino/core`) | state | operations | what is hard | what makes it correct |
|---|---|---|---|---|
| scheduler `k_sched.c`, `k_sys.c` | ready queue, `g_active_task`, `g_sched_lock`, `g_intrpt_nested_level` | list insertion and removal, `core_sched`, interrupt entry and exit, lock | interrupts come between a critical section and the switch; the lock defers switches | the ready queue follows the task states; the most urgent ready task executes, and no other |
| tick `k_tick.c`, `k_time.c` | tick list, `g_tick_count` | insert, remove, update at a tick | timeouts race with wake-ups | nobody is woken late, twice or never |
| pend lists `k_pend.c` | `blk_list` of each object, `blk_obj`, `blk_state` | block, wake, time out, remove, sort again | a waiter is on two lists at once; its priority changes while it waits | a waiter is on the lists its state says; wakers take the most urgent one |
| tasks `k_task.c` | `task_state`, `prio`, `b_prio`, `suspend_count` | create, delete, sleep, yield, suspend, resume, priority, abort | any order of calls from tasks and interrupts | no illegal state; a suspension is undone once |
| semaphore `k_sem.c` | `count` | take, give, give all, set, delete | all of the above | it is a counting semaphore |
| mutex `k_mutex.c` | owner, nesting, list of held mutexes | lock, unlock, delete | inheritance along chains of owners, and its end | inheritance is exact; one owner; hand-over works |
| event flags `k_event.c` | `flags` | get, set | waiters clear flags that others wait for | a set wakes exactly the tasks whose requests are met, whatever their order |
| message queue `k_queue.c` | message count, ring buffer | send to one or all, receive, flush, delete | full and empty, messages handed past the buffer | no message lost, doubled or reordered; nobody waits beside one |
| ring buffer `k_ringbuf.c` | memory, head, tail, free size | push, pop, reset | messages and their lengths wrap around the end | messages come out whole and in order, every byte is usable |
| buffer queue `k_buf_queue.c` | both of the above | send, receive | as the two above | *(as the timers use it)* |
| timers `k_timer.c` | sorted timer list, command queue | start, stop, change, callbacks | commands race with expiry; the list is changed while it is walked; ticks pass meanwhile | the list holds the active timers; the task never sleeps past one; commands are carried out |
| work queues `k_workqueue.c` | list of works, `work_exit`, a semaphore | run, schedule, cancel, worker | a work runs while it is cancelled, moved or its timer expires | one unit per queued work; a queued work is called |
| memory pools `k_mm_blk.c`, deferred free `k_dyn_mem_proc.c` | free list | alloc, free | freeing one's own stack | *(planned)* |
| heap `k_mm.c` | segregated lists | malloc, free | address arithmetic | not planned |

### The key-value store

`kvmgr.c` keeps a log of items in a few flash blocks. An update appends an item that names
the position of the one it replaces (`origin_off`) and then marks that one deleted; a block with deleted
items is DIRTY. When space is short, a task `kv-gc` copies what is left of a DIRTY block to a CLEAN one
and erases it. `kv_init` reads all blocks after a restart, deletes items that are damaged or replaced, and decides
what to do with a CLEAN block that has items: the copy of a garbage collection that was cut short. All of it is in
flash, so the state is what was written; `g_kv_mgr` is in memory and is computed anew. Calls lock `kv_mutex`,
except that `aos_kv_set` first looks, without it, whether a collection is going on, and waits for its end. What is hard:
power may be lost between any two writes, also during recovery; a position may be used again; one block must stay
clean. What makes it correct: an acknowledged value is read until it is set or deleted again.

## 2. The modules

```
KList                  linked lists (k_list.h)
RhinoKernel            the kernel record and the internal functions (k_sched, k_pend, k_tick)
  RhinoSched           who runs: task switch, interrupts, tick, scheduler lock
    RhinoTask          the calls of k_task.c                     MCTask
      RhinoSem         semaphores     --implements-->  Semaphore  MCSem
      RhinoEvent       event flags    --implements-->  EventGroup MCEvent
      RhinoMutex       mutexes, and what task calls do for them  MCMutex
      RhinoQueue       message queues --implements-->  MessageQueue MCQueue
RhinoRingBuf           the ring buffer, bytes --implements-->  ByteFifo MCRingBuf
RhinoTimer             the timer task and its commands           MCTimer
RhinoWorkqueue         works, workers, their timers              MCWorkqueue
KvStore                the key-value store on flash              MCKv

KList_proofs           lemmas about lists and numbers
  RhinoTask_proofs     the internal functions, ready queue, pend lists and tick list; theorems about RhinoTask!Spec
    RhinoSem_proofs, RhinoQueue_proofs, RhinoEvent_proofs, RhinoMutex_proofs
                       theorems about each object's specification
  RhinoTimer_proofs    theorems about RhinoTimer!Spec
RhinoWorkqueue_proofs  theorems about RhinoWorkqueue!Spec
```

**State.** The kernel's globals and TCBs are one record `k` (`RhinoKernel!Kernel`), with
the C names for fields. The internal functions are operators from a record to a record, so
a call that composes several of them is one action that composes several operators. A
circular list with a `cur_list_item` pointer is a sequence that starts at the current
element.

**Steps.** A critical section (`RHINO_CRITICAL_ENTER` to `EXIT`) is one action, as
interrupts are off and there is one core. What the single-core build does *not* do in one
step is modelled: `RHINO_CRITICAL_EXIT_SCHED` enables interrupts first and then calls
`core_sched` (`include/k_critical.h:49-59`), so `pc[t]` records that a task is between the
two (`"sched"`, or `"block"` in a call that will return from `pend_state_end_proc`), and
ticks and interrupts come in between. Loops over several tasks that end with interrupts
off take one step per iteration when only the properties of a loop matter (`irq_off` names
the loop), and none of the others is enabled meanwhile. The tick interrupt is such a loop:
`tick_intrpt`, `tick_next` for each task that is due, `tick_end`. Its handler calls
`krhino_tick_proc` on entry, as the ports do (for example
`platform/arch/xtensa/lx106/port.c:161-166`). Where only the outcome of a loop
matters it is one step: a recursive function over the waiters (`end_pend_each`, `event_loop`), and over the owners of a chain of mutexes (`task_pri_change`).

**Interrupts.** Between `krhino_intrpt_enter` and `krhino_intrpt_exit` a handler may make
any call the code allows it (`AnyCalls`): suspend, resume, give, and yield, which has no check and rotates the list of
the task that was interrupted (`k_task.c:282`). Calls that check `INTRPT_NESTED_LEVEL_CHK` are for tasks (`TaskCalls`).

**Errors.** A call that returns an error and changes nothing is a stuttering step: its
early returns are the guards. `k_err_proc`, which stops the system, sets `fatal`.

**Data left out.** `tick_match` and `g_tick_count` are kept as their difference,
`tick_remain`, so that time is finite-state; names, stacks, user-info slots, statistics,
tracing and hooks are not there. `blk_obj` of a task that waits for nothing is `NoObj`; the
code leaves the old pointer in a deleted TCB, and nothing reads it before the TCB is
cleared. `RhinoTask` has no mutexes; `RhinoMutex` replaces the calls that do something for
mutexes (create, delete, priority change, wait abort, tick) and shares the rest
(`PlainNext`).

**One component on another.** `RhinoQueue` extends the whole of `RhinoTask`, as its calls block and wake tasks and
compete with timeouts, aborts and deletions. Its ring buffer is a sequence of messages; that the bytes of
`k_ringbuf.c` are one is what `RhinoRingBuf` shows, in which a byte has four values so that messages of five
bytes have lengths of one, two and three bytes. `RhinoTimer` and `RhinoWorkqueue` are about tasks that wait for one
queue or semaphore each, and take from the kernel only what the other modules show of it: a blocked receiver is
handed the message past the buffer, a unit wakes a taker. A step is a critical section, and what follows it is another
one. `RhinoWorkqueue` keeps of the timers only that an active one may pass; `RhinoTimer` keeps times as differences to the tick count.

**The key-value store.** A step writes to flash at most once, so that the loss of power, an action that is possible
at any time, falls between any two writes; a write of an item may also be cut short, which leaves an item whose CRC is wrong.
`kv_mutex` makes calls exclude each other, so the steps of one call interleave only with the unlocked part of others.
Items have the maximum length, so a position is a block and a slot. What is in `g_kv_mgr` and can be
computed from the flash (space, `write_pos`, block states after recovery) is; its counters are variables.
`allowed` is a history variable: what a reader may get, which is two values while a call is under way.

**Programs.** What applications do is left open: a task that runs may make any call at any
time, except that nobody uses a handle of an object while it does not exist, that the idle
task makes no calls, and that nobody deletes, suspends or re-prioritises the idle task (the
code refuses). `Victims`, `Suspendable`, `Movable` and so on say which tasks programs do
this to, so that a run can concentrate on one kind of interference.

## 3. The runs

| run | asks | instance | distinct states |
|---|---|---|---|
| `task` | do the lists follow the states and does the right task execute, whatever is called? | 2 tasks + idle, timeouts 1 and 2, nested suspension and locking up to 2 | 283 thousand |
| `task_rr` | does every sleep end, does the most urgent task get the core, and every task of its priority a turn? | 2 tasks, slices 1 and 2, priority changes, suspension, sleep | 33 thousand |
| `sem` | is it a counting semaphore, and does the most urgent waiter get the unit? | 1 semaphore, 3 tasks, one of which changes its priority; timeouts, deletion of task and semaphore | 1.4 million |
| `event` | is it a group of flags, whatever the order of the waiters? | 1 event, 2 flags, 2 tasks, requests for both and for any of the flags; timeouts, deletion of task and event | 0.76 million |
| `mutex` | is inheritance exact along chains of owners, with a loop that ends; does a mutex go to the right task, and is it that task's then? | 3 tasks, 2 mutexes, timeouts, one task is deleted and created again; chains of owners and deadlocks occur | 2.4 million |
| `mutex_calls` | does that survive deletions, aborts and priority changes, and does nobody but its owner release a mutex? | 2 tasks, 1 mutex that is also deleted, locked up to 2 deep and once more | 2.6 million |
| `queue` | is it a message queue? | 1 queue of 2 messages, 2 tasks, 2 interchangeable messages; timeouts, aborts, deletion of task and queue | 1.0 million |
| `ring` | do bytes come out as they went in? | variable lengths in 9 bytes, and blocks of 2 in 6 | 27 thousand |
| `timer` | does the timer task ever sleep too long, is every timer called and every command carried out, whenever ticks come? | 2 timers, once and periodic, 1 command in the queue, ticks at any step, timers up to 2 ticks late | 0.14 million |
| `workqueue` | do units and works match, is a queued work called? | 2 works (one delayed), 2 queues, 2 callers | 0.11 million |
| `kv` | do acknowledged values survive? | 2 blocks of 2 items, 2 keys, 2 values, 2 tasks, loss of power | 0.84 million |
| `kv_origin` | also if power is lost at *any* time? No: see [findings](#5-findings) | 1 task | a violation |

**What the properties say.** Each is stated beside its definition; in short:

- *Lists and states* (`ReadyListsOK`, `PendListsOK`, `TickListOK`): the code never reads a
  list to learn a task's state, so the two agree only if every call in every order changes
  them in pairs. `HighestPriOK`, the order in `TickListOK`, and `PendListsSorted` say that what is kept by
  increments is what a fresh computation would give.
- *Who executes* (`OnlyReadyExecutes`, `NoMissedSwitch`, `LockKeepsCore`): no step between
  a critical section and `core_sched` lets a blocked task run on, no wake-up is forgotten,
  and the scheduler lock holds.
- *Counts* (`SuspendCountOK`): nested suspensions neither wrap nor go below 0.
- *Semaphore*: `ImplementsSemaphore` is refinement of the module `Semaphore` (the mapping is `RhinoSem!Counting`; `Messages` and `Group` are those of queues and events), with the loops of
  give-all and delete taken one waiter at a time, so that no waiter is left on a semaphore that is deleted and
  created again; `NoWaiterBesideUnit` says that nobody sleeps beside a unit;
  `GrantsMostUrgent` that priority changes never make a waker pick the wrong task. The abstract outcome of a task that does not
  wait is left free, so refinement speaks of units while somebody waits and of the count, not of what a task does with
  `RHINO_SUCCESS` after its wait is over.
- *Event flags*: `ImplementsEventGroup` is refinement of `EventGroup`, in which a set wakes, at once, the set of all
  tasks whose requests are met, and clears flags only then. That the loop of `event_set`, which goes through the waiters
  by priority and clears flags on the way, amounts to this depends on `cur_event_flags` being read before the loop.
  Two waiters that clear the same flag are therefore both woken by one set: a flag is not a unit. `NoWaiterBesideFlags`
  says that nobody sleeps beside flags that meet its request.
- *Mutex*: `PriorityInherited` (the current priority is exactly the base or inherited one at
  every moment, for every task), `MutexListsOK`, `WaitersHaveOwner`, `LockSucceeds` (a lock
  call that reports success has the mutex, however long the task took to run),
  `OnlyOwnerReleases`, `HandsToMostUrgent` (a mutex that leaves its owner, by an unlock or by the owner's deletion, goes to
  the task that is the most urgent of the waiters *afterwards*, at priorities the step itself may have changed).
- *Message queue*: `ImplementsMessageQueue` is refinement of `MessageQueue`, in which a task that waits is handed the next
  message, which nothing takes away again while it waits. What it does with the message after that is its own, a send that finds the queue full
is a stutter, and the abstract inbox of a task that does not wait is left free. `NoReceiverBesideMessage` is what the shortcuts of `msg_send` rely on. `ImplementsByteFifo`
  is refinement of `ByteFifo`, with a history variable for the messages.
- *Timers*: `TimerListOK` (the list and `timer_state` agree, and the walk never leaves the list). Ticks come at every step of the timer
  task, whose interrupts are on, also between the computation of a delay and the wait. `SleepCoversTimers` says what is left then: a sleep ends
  when the timer is due, or later by those ticks and no more. `TimersInOrder`: each timer is behind all that are due before it. Both
  make one exception, for the timers that an insertion has *passed over* because the first of them was overdue, which an unsigned difference takes for
  far away ([disagreements](#disagreements)); the history variable `passed` keeps them until they are linked again. `DueTimerExpires`:
  a timer that is due is called or stopped, or passed over; `CommandsCarriedOut`, if the timer task keeps up with time in the end (`KeepsUp`: it
  sleeps again before the next tick). Without that, timers that are due at every tick starve the commands.
- *Work queues*: `UnitPerWork` counts, at every step, the works of a list against the units given, about to be given and taken;
  the worker, which does not look whether its list is empty, depends on it. `WorksQueuedOnce` says that `work_exit` and the lists
  agree, and that no work is on two lists. `QueuedWorkRuns`.
- *Key-value store*: `Durable` (what a read gives, whenever no call is under way, is what the last acknowledged call left, or
  what a call cut short by a loss of power was about to leave), `OneItemPerKey` (no deleted value comes back).
- *Progress* (`SleepEnds`, `PreferredRuns`, `RoundRobinShares`).

**Bounds.** `MaxNest = 1`: a second level of interrupts makes the same calls as the first;
`core_sched` and the exit test only whether the level is 0. `SuspendMax` and `SemMax` stand for
the width of the counters and are reached. In `mutex` the two mutexes are
interchangeable (`SYMMETRY`): they are created, locked and deleted alike, and only invariants and action properties
are checked there. `LockMax` is
`SCHED_MAX_LOCK_COUNT`, `MaxDepth` stands for the largest value of `mutex_nested_t`, and with `NestTooDeep`, as in `mutex_calls`, a task locks once more, which
stops the system (`k_mutex.c:295`). Timeouts of 1 and 2 give equal,
earlier and later neighbours on the tick list. Two tasks and idle have every combination of
a caller and a concerned task; a third is needed for the order of waiters and for chains of owners, and
there is one in those runs. `PriRounds` bounds the loop of `task_pri_change` by the number of tasks; that this is
enough, for any number of them and also when they wait in a circle, is proved ([below](#the-arguments)), as a loop that did
not end is reported through `NoFatalError`, which `mutex` checks.
`CHECK_DEADLOCK` is on in the runs of the kernel: the tick always comes. The runs of the key-value store without it say so: a
partition that is full, with no garbage and nobody who deletes, accepts no step any more.

`kv` has two blocks, as the products (`KV_TOTAL_SIZE` is 8 KB, `include/kvmgr.h:15`), two items to a block, and two values for
each of two keys: a block fills up, holds garbage, and is collected, several times over. `Loss = "spared"` excludes the one loss of power that
`kv_origin` is about, so that `kv` shows that there is no other in this instance. `GcUnits` bounds the units of `gc_sem`, `Gc` the collectors
alive at once: one that has ended may still have to signal when the next begins. Timers: `MaxLate` is where
the lateness of a timer is counted no further, and `MaxLag` bounds the ticks during one walk of the list, and those between a delay and the wait for it; the
rest of the time ticks are not bounded. With 1 and 2 a timer falls due while the list is walked, is late before the task sleeps, and is overtaken by another one.
`TickModulus` stands for 2^64. `MsgNum` of 1 or 2 makes the command queue full at once.

**Fairness** (`FairSpec`, for the liveness runs only). The tick interrupt comes again
and again (`SF`: it is disabled while another handler runs), its loop goes on
(`WF(tick_next \/ tick_end)`), a handler returns (`SF(krhino_intrpt_exit)`), and a task
inside a call goes on when no interrupt is being handled
(`SF(core_sched(t) \/ pend_state_end_proc(t))`, of which one or the other is enabled). Nothing is assumed about the tasks' own code: a task may stop making
calls, and a locked scheduler may stay locked. Hence the conditions in
`PreferredRuns`, and in `RoundRobinShares` a further one that TLC showed to be needed:
ticks must not fall between a call and its `core_sched` over and over, and interrupt handlers must not yield over and over. Such a tick charges
the task at the head of the list, which may not have run yet; it can undo the rotation of
a `krhino_task_yield`, for ever if the coincidence repeats for ever. The period of
the tick makes it implausible, not impossible (`k_sched.c:446`). `krhino_task_time_slice_set` gives a
new slice at once, so a task that sets a larger one before each tick keeps the core; the slices
of that run are at most the default one, for which this does not happen.

`TimerFairSpec`: the timer task, which has a priority above applications, is scheduled (`WF`), and ticks come. `RhinoWorkqueue!Fairness`: a caller
ends its call, workers and timer task are scheduled, handlers of works return, and an active timer passes (`SF`: it may be
started again and again).

## 4. The proofs

`tlapm` checks theorems about seven of the specifications, for every value of their constants: any set of tasks and of objects, any number of priorities, any
limits, timeouts and sizes. Where a set must be finite it is said below.

**Who runs** (`RhinoTask_proofs`, about `RhinoTask!Spec`):

| theorem | states |
|---|---|
| `TypeCorrect` | `[]KernelTypeOK` |
| `ReadyListsCorrect`, `ReadyQueueCorrect` | `[]ReadyListsOK`, and with it `[]HighestPriOK` |
| `BlockedNeverExecutes`, `MostUrgentExecutes` | `[]OnlyReadyExecutes`, and with it `[]NoMissedSwitch` |
| `SuspensionsCounted` | `[]SuspendCountOK` |
| `LockedCoreKept` | `LockKeepsCore` (an action property) |
| `SchedInvAlways` | `[]SchedInv`, from which the others follow |

**Who waits** (`RhinoTask_proofs`, about `RhinoTask!Spec`):

| theorem | states |
|---|---|
| `PendListsCorrect`, `WaitersSorted` | `[]PendListsOK`, `[]PendListsSorted` |
| `TickListCorrect` | `[]TickListOK` |
| `NoFatalErrorEver` | `[]NoFatalError` |
| `WaitInvAlways` | `[]WaitInv`, from which the others follow |

**Kernel objects** (each about the specification of its module, which composes the object with all calls of `RhinoTask`):

| module | the object | nobody waits in vain | the kernel below, with the object's calls |
|---|---|---|---|
| `RhinoSem_proofs` | `SemaphoreImplemented` (`ImplementsSemaphore`), `MostUrgentGranted` (`GrantsMostUrgent`) | `NobodyWaitsBesideUnits` | `KernelCorrectWithSemaphores` |
| `RhinoQueue_proofs` | `MessageQueueImplemented` (`ImplementsMessageQueue`) | `NobodyWaitsBesideMessages` | `KernelCorrectWithQueues` |
| `RhinoEvent_proofs` | `EventGroupImplemented` (`ImplementsEventGroup`) | `NobodyWaitsBesideFlags` | `KernelCorrectWithEvents` |

The last column is `KernelTypeOK`, the list properties, `HighestPriOK`, `OnlyReadyExecutes` and `NoFatalError` again: an object's calls change the record
by the same functions, but not in the same actions. The refinements are also stated as `EachSemaphoreImplemented` and so on, in the form
`\A s \in Obj : Counting(s)!Spec` of the abstract specification; `ImplementsSemaphore` is the same with the quantifier inside, as TLC wants it.
The invariants are `SemInvAlways`, `QueueInvAlways`, `EventInvAlways`.

**Mutexes** (`RhinoMutex_proofs`, about `RhinoMutex!MutexSpec`, for finitely many tasks and mutexes):

| theorem | states | further condition |
|---|---|---|
| `PriorityInheritedAlways` | `[]PriorityInherited` | none |
| `MutexListsCorrect`, `WaitersHaveOwnerAlways` | `[]MutexListsOK`, `[]WaitersHaveOwner` | none |
| `OnlyOwnerReleasesAlways` | `OnlyOwnerReleases` (an action property) | none |
| `HandsToMostUrgentAlways` | `HandsToMostUrgent` (an action property) | none |
| `LockSucceedsAlways` | `[]LockSucceeds` | `Removable = {}` |
| `KernelCorrectWithMutexes` | what is proved of the kernel, with `NoMissedSwitch` | none |
| `MutexInvAlways` | `[]MutexInv`, from which the others follow | none |

Every one of them has the two conditions `DelTwice = FALSE` and `NestTooDeep = FALSE`: no task is deleted that is deleted already, and none locks a mutex more often than
is counted, which stops the system and so breaks `NoFatalError`, a part of the invariant.

The first of them, and `Removable = {}`, are the other side of what TLC refutes. With `DelTwice` the deletion of a task that has been deleted already takes mutexes from their owners: in the instances of `mutex` and `mutex_calls`
`OnlyOwnerReleases`, `MutexListsOK` and `PriorityInherited` are then violated, and `NoFatalError` in that of `mutex_calls` (with `NestTooDeep = FALSE`), where a stale list hands a mutex to the very task that is being deleted, and a later call wants to restore the priority of that owner. `WaitersHaveOwner` and
`PendListsSorted` were not refuted (all of `mutex_calls`, the first 14 million states of `mutex`); they are proved under the same condition because the invariant is one (see the [disagreements](#disagreements)). With `Removable`, `LockSucceeds` fails in the
instance of `mutex_calls`: a mutex is handed to a task that waits, deleted and created again, all before that task runs; its lock call then returns success, and the new mutex is nobody's.

**Timers and work queues** (`RhinoTimer_proofs`, `RhinoWorkqueue_proofs`):

| theorem | states | condition |
|---|---|---|
| `TimerListCorrect` | `[]TimerListOK` | none |
| `NeverSleepsTooLong`, `TimersSorted` | `[]SleepCoversTimers`, `[]TimersInOrder` | none |
| `UnitsMatchWorks` | `[]UnitPerWork` | finitely many callers |
| `QueuedOnce` | `[]WorksQueuedOnce` | finitely many callers |

with the invariants `TimerInvAlways`, `SleepInvAlways`, `WorkInvAlways`. The theorems about timers hold for any `MaxLag`: any number of ticks may
come while the timer task walks its list or is about to sleep, and timers may be overdue when others are inserted.

*Assumptions.* Those of the modules, which TLC evaluates in every run: the idle task is a task and has the lowest
priority, which no other task is created with or moved to, the limits are positive, programs do not act
on the idle task; `None`, `NoObj` and the like are none of the things they stand beside; a program has some setting for its timers. The callers of work queues are finitely many,
since `UnitPerWork` counts them; so are tasks and mutexes in `RhinoMutex`, where a chain of owners must end, and no task is a mutex. Nothing else is assumed to be finite.

### The arguments

*Lists.* `KList_proofs` says what an insertion or a removal does to the set of elements of a list, to injectivity and to the order of a sorted list. Lists of tasks and of timers
use the same functions (`KList`), so tasks, timers and works share these lemmas.

*The scheduler.* `NoMissedSwitch` alone is not inductive. That a preferred task exists
at all needs a ready queue that is right (`OnReady`: the lists hold the ready tasks, each once
and at its priority, and `highest_pri` is the first one that is not empty) and an idle task that is always ready. That
a resumption leaves the queue right needs the suspension counts (`Counted`: a suspended task has a positive count, so
one resumption does not wrap, and no count exceeds `SuspendMax`). That a locked scheduler may skip a switch needs its active task to stay ready;
that in turn is what forbids `krhino_task_sleep` and self-suspension under the lock. And a tick that
ends returns into a handler, so interrupts are nested during its loop. The first part of `RhinoTask_proofs` goes up from the ready queue (`AddTail`, `AddHead`, `Rm`,
`HeadToTail`: after each the lists hold one task more, one less, or the same) to the functions that
change a task's state. There each is one of three kinds: `Quiet` (touches neither queue nor
states: the tick list, pend lists), `Steady` (no state changes: rotation, new priority), `Concerns(_, _, t)` (only
t's state changes, and the queue with it). The second part shows that every call is of one of these kinds, that a call that ends with
`RHINO_CRITICAL_EXIT_SCHED` preserves the invariant whatever it concerns (`ExitSched`, `ExitBlock`), and then has one
lemma per action.

*Waiting.* `WaitOK` relates four things that the code changes one after the other: `task_state`, `blk_obj`, the pend lists and the tick list. `Linked` says, for a task, which
lists its state allows: that a sleeping task is on the tick list and a pending one has an object; `PendRight` and `TickRight` say that the lists hold these tasks and are sorted.
None of the four theorems is inductive without the others: a removal from a pend list must find the task on the list of *its* `blk_obj`, a timeout must find a state in which one
can time out, and a sorted insertion is sorted only into a list that was. A change of priority breaks the order for a moment, which is why `Ordered` comes with `OrderedBut` (all but
one). Beside `WaitOK`, each call of `RhinoTask` is shown to be `Ungranted`: it ends the wait of at most one task, and not with `BLK_FINISH`, which is what the proofs of the objects
need to know of all the calls that are not their own.

*Objects.* Each invariant adds one sentence to `WaitInv`: a task whose `blk_obj` is a semaphore waits for one that exists and has no units (`WaitsRightly`), for a queue that is empty by its
count and by its ring buffer (`CountsAgree` relates the two), for flags that do not meet its request. For semaphores there is an exception, a give-all or a deletion in progress, with interrupts off.
With the invariant a step that wakes the head of a pend list is a step of the abstract object, and the most urgent waiter gets the unit since the list is sorted.
`BlockStep`, `WakeStep` and `WakeEachStep` of `RhinoTask_proofs` do the part that all three have in common.

*Loops.* That a deletion of a queue wakes all its waiters, and a set of flags the right ones, are statements about loops, here recursive functions (`end_pend_each`, `event_loop`). They are proved by
induction in the form of sets (`NatInductive`: a set of numbers that has 0 and with each number the next one has them all, from the well-foundedness of `<`). The invariant of the loop over waiters is
`Woken`: the tasks of the rounds so far wait for nothing any more, all others are as before, and the record is right. That of `event_set` adds that the flags are those of
before the loop without what the woken tasks asked to clear (`AfterRounds`); since a request is compared with the flags read *before* the loop, who is woken does not depend on the order.

*Mutexes.* `PriorityInherited` is not inductive without knowing who waits for whom, and every call disturbs it on the way. `MutexOK`, which joins `WaitInv`, has four parts: the pointers of `mutex_list` link each living task to
exactly the mutexes it owns, each once (`Listings`); owners are alive, and nested (`Owners`); a task that waits for a mutex waits for one that exists and that another task owns (`Blockers`); every task has
the priority it is *due*, the most urgent of its base priority and those of the first waiters of its mutexes (`Dues`). Since pend lists are sorted, the first waiter is the most urgent one, so a due is a
minimum over all waiters and the order on the lists does not matter.

A call changes what one task is due: it waits, gives up waiting, releases, or is given another base priority. The loop of `task_pri_change` then starts with one task whose priority is not what it
is due (`Unsettled`). A round settles it and may unsettle at most one other task, the owner of the mutex it waits for (`Round`). The hard part is that the loop ends, as tasks may wait in a circle. When a priority is raised, every
task that is changed gets the new one, and only tasks below it are changed. When one is lowered, only tasks that have exactly the *old* priority are changed, and each leaves it: the branch that looks for a
new priority is taken only where the owner's equals `old_pri`, and the result is a lower one. So the set of tasks that may still be changed (`Late`) loses a member in each round, none is changed twice, and there are no more rounds than tasks. That the
loop meets no deleted task, and so never stops the system, follows from `Owners`.

A deletion of a task first hands on its mutexes. In each round of `task_mutex_free` one goes to its first waiter or to nobody, and `Freed` says where the rounds so far have left the others: whoever waited for a mutex that is gone has it and
waits for nothing, or still waits, for its new owner; everyone but the deleted task has the priority it is due. A waiter that is given a mutex already has the priority it is due there, as those behind it are no more urgent;
and it is the most urgent one at the priorities *after* the deletion, as those of the waiters do not change in it (`HandOverStep`).

`LockSucceeds` needs the way of a call from its block to its return: when a wait has ended with `BLK_FINISH` the task is the owner, and stays it until it returns, as it executes nothing of its own meanwhile
(`LockOK`, `Engaged`).
The action properties follow from `MutexOK`, one action at a time.

*Timers.* `TimersOK`, that the list holds the active timers, is kept by each command and each round of the walk, which may move the timer it stands at (`FollowsFacts`). For `SleepCoversTimers`, `InOrder`: every
timer that was not passed over is behind all that are due before it. An insertion puts the new timer in front of the first one whose unsigned difference is larger. If that one is not overdue, the order is kept. If it is, it and all behind it are
passed over from now on, and nothing is claimed of them. So the delay, computed from the head of the list, is no longer than the time of any timer that counts. `SleepInv` then follows the delay from its
computation (`pc = "inner"`), through `lag` ticks before the block and every tick of the sleep, against commands that arrive at any moment.

*Work queues.* `UnitPerWork` is not inductive alone: `klist_rm_init` takes a work off whatever list it is on, which could be another
queue's. `ListsOK` rules that out: a list holds marked works only, each once, so taking an unmarked work off does nothing
(`NothingToRemove`), `put` adds one work to one list (`PutFacts`), and the worker's head is on no other list when
its mark is cleared (`GetFacts`). The callers that still have to give a unit are counted as a finite set that gains or loses one
member (`OneGiverMore`, `OneGiverLess`). Every action then changes two of the numbers by one, or none.

*Left to TLC.* For good: liveness, which needs fairness and `ENABLED`, so `SleepEnds`, `PreferredRuns`, `RoundRobinShares`, `DueTimerExpires`,
`CommandsCarriedOut` and `QueuedWorkRuns`. Not proved so far: the ring buffer (`ImplementsByteFifo`: arithmetic on positions that wrap around, and the length of
a message is read back from its own bytes) and the key-value store (`Durable`, `OneItemPerKey`), whose properties hold for two blocks and with the one loss of power of `kv_origin` excluded, so that a proof
would be about that instance's shape. Every safety property of the kernel's other runs is proved.

## 5. Findings

- **A garbage collection that is cut short can lose an acknowledged value** (`kv_origin`). A copied item keeps its `origin_off`, which
  names a position that may have been erased and used again, by itself in the end: an item that replaced the item at position *p*, was
  moved by collections, and is now at *p*. When it is copied once more and power is lost before the copy's block is marked USED, recovery finds the copy, takes
  the source for the item it replaced (`kvmgr.c:309`) and deletes it; then the block of the copy, CLEAN with items, is formatted, as
  there is no other clean block. It takes two keys, eleven calls and one loss of power, in two blocks, the size of the products.

### Disagreements

Places where the code and the words beside it differ outside the instances of the runs. Each comes with the change of constants or
the property that shows it on the same modules; no run is kept for it.

- **A mutex passed on by a deletion keeps its nesting count.** `krhino_task_del` gives the mutexes of the deleted task to their first waiters
  (`task_mutex_free`, `k_task.c:713`) and sets the owner but not `owner_nested`, which `krhino_mutex_unlock` sets to 1 at the same place
  (`k_mutex.c:427`). If the deleted task held the mutex twice, the new owner has it once and must unlock it twice. The model does the same:
  `owner_nested = 1` for a new owner, as an action property of `mutex_calls`, is refuted.
- **Deleting a task twice takes a mutex from its owner.** The mutexes are freed before the task's state is looked at (`k_task.c:770`) and the list
  in the TCB is left as it is. A second call for the deleted task, which is refused with `RHINO_INV_TASK_STATE`, walks the stale
  list first and gives away mutexes other tasks have locked since: `OnlyOwnerReleases` in the instance of `mutex` or `mutex_calls` with
  `DelTwice = TRUE`. In the latter it can stop the system (`NoFatalError`, with `NestTooDeep = FALSE`).
- **With three blocks the reserve for garbage collection is given away** by a store that needs a new block (`kvmgr.c:213`), and no garbage is
  collected from then on: `ReserveKept` with `N = 3` and `Loss = "never"`. With a loss of power, `kv_init` then formats block 0 whatever it holds,
  as it needs one clean block (`kvmgr.c:613`): `Durable` with `N = 3`. The products have two blocks.
- **With three blocks a store that finds no space may not return**: the loop at `kvmgr.c:205` compares `i` with `blk_index` before the body turns
  `BLK_NUMS` into 0, so from block 0 it never ends, with the mutex held: `CalcPosReturns` with `N = 3`.
- **A wait for garbage collection may miss its end**: `gc_triggered` is read, and `gc_waiter` counted, without the mutex (`kvmgr.c:764`):
  `NoWaiterLeft`, with two blocks too.
- **The timer list is not sorted by the time left**, as the comment "sort by remain time" at `k_timer.c:278` has it. `timer_list_pri_insert` compares
  unsigned differences (`k_timer.c:21`), and that of a timer whose time is over is huge. A timer that is started while another is overdue goes in front of it:
  `SortedByRemain` in the instance of `timer`. With `MsgNum = 2` the shortest way there is that two ticks come between
  the computation of a delay and the next command, which is in the queue already and starts another timer. The first tick makes the timer due, the second one overdue. The
  walk that follows stops at the new timer, as it is not due; the task then sleeps for the new one, and calls the overdue one after it.
- **A cancelled work is called**: `krhino_work_cancel` stops the timer only of a work that has never been queued (`k_workqueue.c:248`), and returns success.
- **A run that succeeded is dropped** when the timer of a delayed work expires while the work runs (`k_workqueue.c:125`).

## 6. What is not modelled

- Several cores (`RHINO_CONFIG_CPU_NUM > 1`): the boards of this repository have one.
- The `dyn` variants of create and delete, which differ in memory handling only.
- Overflow of `g_tick_count` and of very long timeouts, as the model keeps differences.
- A `krhino_task_yield` in an interrupt that comes after the active task has blocked or been deleted and before the switch, with no other ready task of its
  priority: the code then rotates a list that is empty (`k_sched.c:317`).
- An interrupt that nests inside the tick interrupt, between its list update and its charge.
- The window in `krhino_task_pri_change` before its critical section (`k_task.c:601`).
- Blocking policy FIFO (`BLK_POLICY_FIFO`), which no object of the core uses.
- Of the buffer queue, all but what the timer task does with it: one receiver, which never times out while messages are there.
- Of the timers, the argument of the callback (`TIMER_ARG_CHG`), and time in work queues: an active timer may pass at any step.
- Of the key-value store: items shorter than the maximum, a block header that is cut short, two values with one CRC, errors of
  `aos_malloc`, of the flash driver and of `aos_task_new` (`kvmgr.c:147`: `gc_triggered` then stays set, and every later set waits), `aos_kv_deinit` and the command line.
- Memory pools, deferred free, FIFO, atomics: next in the plan. The heap is address arithmetic on raw memory.
- Tracing, statistics, the idle hook, and everything above the kernel but the key-value store; `PROJECT.json` lists every one with the reason.

The repository has 1.7 million lines of C. Nearly all of them are third-party libraries, vendor SDKs, drivers, fonts and samples, for several boards,
and are left aside for good: no share of them would make the program's own control any better known. What is modelled is the part of its own
code in which concurrency, time and loss of power decide what is right.

## 7. The plan

In this order, each with what it would show:

1. `RhinoBufQueue`: the buffer queue for several senders and receivers, as a composition of `RhinoTask` with `RhinoRingBuf`; refinement
   of `MessageQueue` for messages with lengths.
2. `RhinoMemPool`: fixed blocks (`k_mm_blk.c`) and the deferred free of a task that deletes itself (`k_dyn_mem_proc.c`): no block is free twice,
   no stack is freed under a running task.
3. `Yloop`: pending calls and actions between a task and its event loop.
4. Proofs: the key-value store's `OneItemPerKey` for two blocks of any size, then the ring buffer's arithmetic.
5. Widths: `tick_remain` as a signed difference of 64 bits (scaled down), which shows what a timeout of 2^63 ticks does (`k_tick.c:77`).
6. The window in `krhino_task_pri_change` before its critical section.
