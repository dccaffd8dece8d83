----------------------------- MODULE RhinoSched ------------------------------
(***************************************************************************)
(* The scheduler of Rhino on one core (k_sched.c, k_sys.c, k_tick.c):      *)
(* task switches, interrupts, the scheduler lock and the system tick.  The *)
(* modules of the kernel objects extend this one and add their calls.      *)
(*                                                                         *)
(* A kernel call is a critical section (interrupts off) that is followed,  *)
(* when it may have changed who should run, by RHINO_CRITICAL_EXIT_SCHED.  *)
(* On one core that macro first enables interrupts and then calls          *)
(* core_sched, so interrupts can come in between, when the calling task    *)
(* may already be pended, asleep or deleted and is still the active task.  *)
(* pc[t] says where task t is:                                             *)
(*   "run"    in its own code                                              *)
(*   "sched"  between the critical section of a call and core_sched        *)
(*   "block"  the same, in a call that blocks                              *)
(*   "end"    back from core_sched in a call that blocks, about to read    *)
(*            blk_state (pend_state_end_proc)                              *)
(* A loop that runs with interrupts off takes one step per iteration;      *)
(* irq_off then names the loop (and the object it works on), and no other  *)
(* action is enabled.  It is <<>> when interrupts are on.                  *)
(***************************************************************************)
EXTENDS RhinoKernel

CONSTANTS
    Main,          \* the task that is ready when the system starts
    InitPri,       \* the prio each task is created with
    SchedRR,       \* RHINO_CONFIG_SCHED_RR
    SliceDefault,  \* RHINO_CONFIG_TIME_SLICE_DEFAULT
    LockMax,       \* SCHED_MAX_LOCK_COUNT
    MaxNest        \* bound: interrupts nest at most this deep

ASSUME SchedAssumption ==
    /\ Main \in Task \ {Idle}
    /\ InitPri \in [Task -> Pri]
    /\ \A t \in Task : InitPri[t] = IdlePri <=> t = Idle
    /\ SchedRR \in BOOLEAN
    /\ {SliceDefault, LockMax, MaxNest} \subseteq Nat \ {0}

VARIABLES
    k,        \* the kernel state (RhinoKernel)
    pc,       \* where each task is, see above
    irq_off   \* the loop that runs with interrupts off, if one does

schedVars == <<k, pc, irq_off>>

\* What krhino_init and krhino_start leave when one application task is
\* created before the system starts.  A task not created yet is K_DELETED.
KernelInit ==
    [task_state    |-> [t \in Task |-> IF t \in {Idle, Main} THEN "K_RDY"
                                                             ELSE "K_DELETED"],
     prio          |-> InitPri,
     b_prio        |-> InitPri,
     suspend_count |-> [t \in Task |-> 0],
     blk_state     |-> [t \in Task |-> "BLK_FINISH"],
     blk_obj       |-> [t \in Task |-> NoObj],
     time_slice    |-> [t \in Task |-> SliceDefault],
     time_total    |-> [t \in Task |-> SliceDefault],
     sched_policy  |-> [t \in Task |-> "KSCHED_RR"],
     tick_remain   |-> [t \in Task |-> 0],
     ready         |-> [p \in Pri |-> IF p = IdlePri THEN <<Idle>>
                                      ELSE IF p = InitPri[Main] THEN <<Main>>
                                      ELSE <<>>],
     highest_pri   |-> InitPri[Main],
     tick_list     |-> <<>>,
     blk_list      |-> [o \in Obj |-> <<>>],
     active        |-> Main,
     sched_lock    |-> 0,
     nested        |-> 0,
     fatal         |-> FALSE]

SchedInit ==
    /\ k = KernelInit
    /\ pc = [t \in Task |-> "run"]
    /\ irq_off = <<>>

-----------------------------------------------------------------------------
(* Who makes a call *)

\* Task t is running its own code and makes a call.  INTRPT_NESTED_LEVEL_CHK
\* returns an error to an interrupt handler.  The idle task makes no calls.
TaskCalls(t) ==
    /\ irq_off = <<>>
    /\ k.nested = 0
    /\ k.active = t
    /\ t # Idle
    /\ pc[t] = "run"

IsrCalls == irq_off = <<>> /\ k.nested > 0

\* Calls that are allowed in a task and in an interrupt handler.
AnyCalls == IsrCalls \/ TaskCalls(k.active)

\* RHINO_CRITICAL_EXIT_SCHED after a critical section that leaves k1: core_sched
\* returns at once in an interrupt handler.
critical_exit_sched(k1) ==
    /\ k' = k1
    /\ pc' = IF k.nested > 0 THEN pc ELSE [pc EXCEPT ![k.active] = "sched"]

\* The same in a call that has blocked the active task.
critical_exit_block(k1) ==
    /\ k' = k1
    /\ pc' = [pc EXCEPT ![k.active] = "block"]

-----------------------------------------------------------------------------
(* Task switches and interrupts *)

core_sched(t) ==
    /\ irq_off = <<>>
    /\ k.nested = 0
    /\ k.active = t
    /\ pc[t] \in {"sched", "block"}
    /\ k' = IF k.sched_lock > 0 THEN k
            ELSE [k EXCEPT !.active = preferred_cpu_ready_task_get(k)]
    /\ pc' = [pc EXCEPT ![t] = IF @ = "block" THEN "end" ELSE "run"]
    /\ UNCHANGED irq_off

\* The task runs again and reads why its wait is over.
pend_state_end_proc(t) ==
    /\ irq_off = <<>>
    /\ k.nested = 0
    /\ k.active = t
    /\ pc[t] = "end"
    /\ pc' = [pc EXCEPT ![t] = "run"]
    /\ UNCHANGED <<k, irq_off>>

krhino_intrpt_enter ==
    /\ irq_off = <<>>
    /\ k.nested < MaxNest
    /\ k' = [k EXCEPT !.nested = @ + 1]
    /\ UNCHANGED <<pc, irq_off>>

\* Mutants: the scheduler lock is not looked at; the outermost handler switches
\* only when the task it interrupted cannot go on.
krhino_intrpt_exit_unlocked ==
    /\ IsrCalls
    /\ k' = [k EXCEPT !.nested = @ - 1,
                      !.active = IF k.nested = 1 THEN preferred_cpu_ready_task_get(k) ELSE @]
    /\ UNCHANGED <<pc, irq_off>>

krhino_intrpt_exit_return ==
    /\ IsrCalls
    /\ k' = [k EXCEPT !.nested = @ - 1,
                      !.active = IF k.nested = 1 /\ k.task_state[k.active] # "K_RDY"
                                 THEN preferred_cpu_ready_task_get(k) ELSE @]
    /\ UNCHANGED <<pc, irq_off>>

krhino_intrpt_exit ==
    /\ IsrCalls
    /\ k' = [k EXCEPT !.nested = @ - 1,
                      !.active = IF k.nested = 1 /\ k.sched_lock = 0
                                 THEN preferred_cpu_ready_task_get(k) ELSE @]
    /\ UNCHANGED <<pc, irq_off>>

krhino_sched_disable ==
    /\ TaskCalls(k.active)
    /\ k.sched_lock < LockMax
    /\ k' = [k EXCEPT !.sched_lock = @ + 1]
    /\ UNCHANGED <<pc, irq_off>>

\* Mutants: a scheduler that is not locked is unlocked; the last unlock does not
\* reschedule.
krhino_sched_enable_twice ==
    /\ TaskCalls(k.active)
    /\ critical_exit_sched([k EXCEPT !.sched_lock = @ - 1])
    /\ UNCHANGED irq_off

krhino_sched_enable_late ==
    /\ TaskCalls(k.active)
    /\ k.sched_lock > 0
    /\ k' = [k EXCEPT !.sched_lock = @ - 1]
    /\ UNCHANGED <<pc, irq_off>>

krhino_sched_enable ==
    /\ TaskCalls(k.active)
    /\ k.sched_lock > 0
    /\ LET k1 == [k EXCEPT !.sched_lock = @ - 1] IN
       IF k1.sched_lock > 0 THEN k' = k1 /\ UNCHANGED pc ELSE critical_exit_sched(k1)
    /\ UNCHANGED irq_off

-----------------------------------------------------------------------------
(* The tick interrupt, whose handler calls krhino_tick_proc on entry: g_tick_count
   is increased, every task that is due leaves the tick list, and the time slice
   of the running priority is charged.  An interrupt that nests between the last
   two is not modelled. *)

tick_intrpt ==
    /\ irq_off = <<>>
    /\ k.nested < MaxNest
    /\ k' = [tick_count_inc(k) EXCEPT !.nested = @ + 1]
    /\ irq_off' = <<"tick_list_update">>
    /\ UNCHANGED pc

tick_next ==
    /\ irq_off = <<"tick_list_update">>
    /\ tick_due(k)
    /\ k' = tick_expire(k, Head(k.tick_list))
    /\ UNCHANGED <<pc, irq_off>>

\* Mutant: no time slice is charged.
tick_end_uncharged ==
    /\ irq_off = <<"tick_list_update">>
    /\ ~tick_due(k)
    /\ irq_off' = <<>>
    /\ UNCHANGED <<k, pc>>

tick_end ==
    /\ irq_off = <<"tick_list_update">>
    /\ ~tick_due(k)
    /\ k' = IF SchedRR THEN time_slice_update(k) ELSE k
    /\ irq_off' = <<>>
    /\ UNCHANGED pc

\* tick_next and pend_state_end_proc are left to the extending modules, some of
\* which add to them.
SwitchNext ==
    \/ \E t \in Task : core_sched(t)
    \/ krhino_intrpt_enter
    \/ krhino_intrpt_exit
    \/ krhino_sched_disable
    \/ krhino_sched_enable
    \/ tick_intrpt
    \/ tick_end

-----------------------------------------------------------------------------
(* Correctness of the scheduler, for every module that extends this one *)

KernelTypeOK ==
    /\ k \in Kernel
    /\ pc \in [Task -> {"run", "sched", "block", "end"}]

\* Each task that is ready, and no other, is on the ready list of its current
\* priority, once: ready_list_add and ready_list_rm are called in pairs with the
\* changes of task_state and prio, in every call and every interleaving.
ReadyListsOK ==
    \A p \in Pri :
        Holds(k.ready[p], {t \in Task : k.task_state[t] = "K_RDY" /\ k.prio[t] = p})

\* A task is on the pend list of the object it waits for, once, and on no other.
PendListsOK ==
    /\ \A o \in Obj : Holds(k.blk_list[o], {t \in Task : /\ k.task_state[t] \in Pending
                                                         /\ k.blk_obj[t] = o})
    /\ \A t \in Task : k.task_state[t] \in Pending <=> k.blk_obj[t] \in Obj

\* Every task asleep is on the tick list, once, and nobody else but tasks that
\* wait for an object with a timeout.  The list is sorted: tick_list_update stops at the
\* first task that is not due, so a task out of order would be woken late.
TickListOK ==
    /\ IsInjective(k.tick_list)
    /\ \A t \in Task : k.task_state[t] \in Sleeping => t \in ToSet(k.tick_list)
    /\ \A t \in ToSet(k.tick_list) : k.task_state[t] \in Sleeping \cup Pending
    /\ \A i, j \in DOMAIN k.tick_list :
          i < j => k.tick_remain[k.tick_list[i]] <= k.tick_remain[k.tick_list[j]]

\* highest_pri, which is kept up to date by increments, is the priority of the
\* most urgent ready task: a wrong value dispatches the wrong task or follows a
\* NULL list pointer.
HighestPriOK == k.ready[k.highest_pri] # <<>> /\ k.highest_pri = FirstReady(k.ready)

\* Wakers take the first task of a pend list for the most urgent one.
PendListsSorted ==
    \A o \in Obj : \A i, j \in DOMAIN k.blk_list[o] :
        i < j => k.prio[k.blk_list[o][i]] <= k.prio[k.blk_list[o][j]]

\* The task executes its own code or is inside a call after its wait.
Executing(t) == irq_off = <<>> /\ k.nested = 0 /\ k.active = t /\ pc[t] \in {"run", "end"}

\* A task that is pended, asleep, suspended or deleted never executes, whatever
\* interrupts come between the end of the critical section and core_sched.
OnlyReadyExecutes == \A t \in Task : Executing(t) => k.task_state[t] = "K_RDY"

\* No reschedule is forgotten: unless the scheduler is locked, the task that
\* executes is the one at the head of the most urgent ready list.
NoMissedSwitch ==
    \A t \in Task :
        Executing(t) /\ k.sched_lock = 0 => t = preferred_cpu_ready_task_get(k)

\* k_err_proc is not reached: no task is found on a list in a state that does
\* not belong there.
NoFatalError == ~k.fatal

\* While the scheduler is locked the active task keeps the core, and stays ready.
LockKeepsCore ==
    [][k.sched_lock > 0 => k'.active = k.active /\ k'.task_state[k.active] = "K_RDY"]_schedVars

=============================================================================
