------------------------------ MODULE RhinoTask ------------------------------
(***************************************************************************)
(* Task management (k_task.c) on top of the scheduler: create, delete,     *)
(* sleep, yield, suspend and resume, priority change, abort of a wait, and *)
(* the round-robin settings.  Calls that return an error and change        *)
(* nothing are stuttering steps; their conditions are the guards.          *)
(*                                                                         *)
(* No mutex is locked here: what these calls do for mutexes (inherited     *)
(* priorities, mutexes of a deleted task) is in RhinoMutex.                *)
(***************************************************************************)
EXTENDS RhinoSched

CONSTANTS
    Ticks,         \* the timeouts programs use, without WaitForever
    Slices,        \* the slices given to krhino_task_time_slice_set
    NewPri,        \* the priorities given to krhino_task_pri_change
    Victims,       \* the tasks programs delete
    Suspendable,   \* the tasks programs suspend
    Abortable,     \* the tasks whose waits programs abort
    Movable        \* the tasks whose priority programs change

ASSUME TaskCallsAssumption ==
    /\ Ticks \subseteq Nat \ {0}
    /\ Slices \subseteq Nat
    /\ NewPri \subseteq Pri \ {IdlePri}
    /\ Victims \cup Suspendable \cup Abortable \cup Movable \subseteq Task \ {Idle}

-----------------------------------------------------------------------------
(* Creation and deletion *)

\* krhino_task_create, with autorun or without.  The TCB is set up before the
\* critical section that makes the task ready; nobody else uses the handle of a
\* deleted task meanwhile, so the call is one step.
krhino_task_create(t, autorun) ==
    /\ TaskCalls(k.active)
    /\ t # Idle
    /\ k.task_state[t] = "K_DELETED"
    /\ LET tcb == [k EXCEPT !.prio[t]          = InitPri[t],
                            !.b_prio[t]        = InitPri[t],
                            !.blk_state[t]     = "BLK_FINISH",
                            !.blk_obj[t]       = NoObj,
                            !.time_slice[t]    = SliceDefault,
                            !.time_total[t]    = SliceDefault,
                            !.sched_policy[t]  = "KSCHED_RR",
                            !.tick_remain[t]   = 0,
                            !.task_state[t]    = IF autorun THEN "K_RDY"
                                                            ELSE "K_SUSPENDED",
                            !.suspend_count[t] = IF autorun THEN 0 ELSE 1]
       IN  /\ k' = IF autorun THEN ready_list_add_tail(tcb, t) ELSE tcb
           /\ pc' = IF autorun THEN [pc EXCEPT ![t] = "run", ![k.active] = "sched"]
                               ELSE [pc EXCEPT ![t] = "run"]
    /\ UNCHANGED irq_off

\* Mutant: a task that waits stays on the pend list.
task_unlink_pending(kk, t) ==
    [(IF kk.task_state[t] = "K_RDY" THEN ready_list_rm(kk, t) ELSE tick_list_rm(kk, t))
        EXCEPT !.task_state[t] = "K_DELETED", !.blk_obj[t] = NoObj]

\* The part of krhino_task_del after the mutexes of t are free: t leaves the
\* lists its state says it is on.  The code leaves blk_obj as it is, and nothing
\* reads it before krhino_task_create clears the TCB.
task_unlink(kk, t) ==
    LET gone(k1) == [k1 EXCEPT !.task_state[t] = "K_DELETED", !.blk_obj[t] = NoObj] IN
    CASE kk.task_state[t] = "K_RDY"       -> gone(ready_list_rm(kk, t))
      [] kk.task_state[t] = "K_SUSPENDED" -> gone(kk)
      [] kk.task_state[t] \in Sleeping    -> gone(tick_list_rm(kk, t))
      [] kk.task_state[t] \in Pending     -> gone(leave_lists(kk, t))

krhino_task_del(t) ==
    /\ TaskCalls(k.active)
    /\ t # Idle
    /\ k.task_state[t] # "K_DELETED"
    /\ t = k.active => k.sched_lock = 0
    /\ critical_exit_sched(task_unlink(k, t))
    /\ UNCHANGED irq_off

-----------------------------------------------------------------------------
(* Sleep and yield *)

\* Mutant: the scheduler lock is not looked at.
krhino_task_sleep_locked(ticks) ==
    /\ TaskCalls(k.active)
    /\ critical_exit_block(
           ready_list_rm(tick_list_insert([k EXCEPT !.task_state[k.active] = "K_SLEEP"],
                                          k.active, ticks), k.active))
    /\ UNCHANGED irq_off

krhino_task_sleep(ticks) ==
    /\ TaskCalls(k.active)
    /\ k.sched_lock = 0
    /\ LET t == k.active IN
       critical_exit_block(
           ready_list_rm(tick_list_insert([k EXCEPT !.task_state[t] = "K_SLEEP"],
                                          t, ticks), t))
    /\ UNCHANGED irq_off

\* An interrupt handler may yield for the task it interrupted.  When that task has left its
\* ready list empty, the list has no current element (a NULL pointer is followed): no call is
\* made then.  A task that calls is on the list itself.
krhino_task_yield ==
    /\ AnyCalls
    /\ k.ready[k.prio[k.active]] # <<>>
    /\ critical_exit_sched(ready_list_head_to_tail(k, k.active))
    /\ UNCHANGED irq_off

-----------------------------------------------------------------------------
(* Suspension, which nests *)

\* Mutant: a task that is suspended asleep forgets that it sleeps.
task_suspend_awake(kk, t) ==
    LET k1 == [kk EXCEPT !.suspend_count[t] = 1, !.task_state[t] = "K_SUSPENDED"] IN
    IF kk.task_state[t] = "K_RDY" THEN ready_list_rm(k1, t) ELSE k1

task_suspend(kk, t) ==
    CASE kk.task_state[t] = "K_RDY" ->
            ready_list_rm([kk EXCEPT !.suspend_count[t] = 1,
                                     !.task_state[t] = "K_SUSPENDED"], t)
      [] kk.task_state[t] = "K_SLEEP" ->
            [kk EXCEPT !.suspend_count[t] = 1, !.task_state[t] = "K_SLEEP_SUSPENDED"]
      [] kk.task_state[t] = "K_PEND" ->
            [kk EXCEPT !.suspend_count[t] = 1, !.task_state[t] = "K_PEND_SUSPENDED"]
      [] OTHER -> [kk EXCEPT !.suspend_count[t] = @ + 1]

\* Mutant: suspensions are not limited.
krhino_task_suspend_more(t) ==
    /\ AnyCalls
    /\ k.task_state[t] # "K_DELETED"
    /\ t = k.active => k.sched_lock = 0
    /\ k.suspend_count[t] <= SuspendMax
    /\ critical_exit_sched(task_suspend(k, t))
    /\ UNCHANGED irq_off

krhino_task_suspend(t) ==
    /\ AnyCalls
    /\ t # Idle
    /\ k.task_state[t] # "K_DELETED"
    /\ t = k.active => k.sched_lock = 0
    /\ k.task_state[t] \in {"K_SUSPENDED", "K_SLEEP_SUSPENDED", "K_PEND_SUSPENDED"}
          => k.suspend_count[t] < SuspendMax
    /\ critical_exit_sched(task_suspend(k, t))
    /\ UNCHANGED irq_off

task_resume(kk, t) ==
    LET k1 == [kk EXCEPT !.suspend_count[t] = @ - 1] IN
    IF k1.suspend_count[t] > 0 THEN k1 ELSE
    CASE kk.task_state[t] = "K_SUSPENDED"       -> make_ready(k1, t)
      [] kk.task_state[t] = "K_SLEEP_SUSPENDED" -> [k1 EXCEPT !.task_state[t] = "K_SLEEP"]
      [] kk.task_state[t] = "K_PEND_SUSPENDED"  -> [k1 EXCEPT !.task_state[t] = "K_PEND"]

krhino_task_resume(t) ==
    /\ AnyCalls
    /\ k.task_state[t] \in {"K_SUSPENDED", "K_SLEEP_SUSPENDED", "K_PEND_SUSPENDED"}
    /\ critical_exit_sched(task_resume(k, t))
    /\ UNCHANGED irq_off

-----------------------------------------------------------------------------
(* Priorities *)

\* Mutant: the priority is changed before the task leaves its ready list.
pri_change_one_early(kk, t, p) ==
    LET k1 == [kk EXCEPT !.prio[t] = p] IN
    IF kk.task_state[t] = "K_RDY" THEN ready_list_add_tail(ready_list_rm(k1, t), t) ELSE k1

\* One round of the loop of task_pri_change: t gets priority p, and the list it
\* is on is sorted again.  The active task stays the current one of its list.
pri_change_one(kk, t, p) ==
    LET moved(k1) == [k1 EXCEPT !.prio[t] = p] IN
    CASE kk.prio[t] = p -> kk
      [] kk.prio[t] # p /\ kk.task_state[t] = "K_RDY" ->
            IF t = kk.active THEN ready_list_add_head(moved(ready_list_rm(kk, t)), t)
                             ELSE ready_list_add_tail(moved(ready_list_rm(kk, t)), t)
      [] kk.prio[t] # p /\ kk.task_state[t] \in Pending -> pend_list_reorder(moved(kk), t)
      [] kk.prio[t] # p /\ kk.task_state[t] = "K_DELETED" -> k_err_proc(kk)
      [] OTHER -> moved(kk)

krhino_task_pri_change(t, p) ==
    /\ TaskCalls(k.active)
    /\ t # Idle
    /\ k.task_state[t] # "K_DELETED"
    /\ critical_exit_sched(pri_change_one([k EXCEPT !.b_prio[t] = p], t, p))
    /\ UNCHANGED irq_off

-----------------------------------------------------------------------------
(* The wait of a task is aborted; a suspended task becomes ready too *)

task_wait_abort(kk, t) ==
    LET aborted(k1) == [make_ready(k1, t) EXCEPT !.blk_state[t] = "BLK_ABORT"] IN
    CASE kk.task_state[t] = "K_RDY"       -> kk
      [] kk.task_state[t] = "K_SUSPENDED" -> make_ready(kk, t)
      [] kk.task_state[t] \in Sleeping    -> aborted(tick_list_rm(kk, t))
      [] kk.task_state[t] \in Pending     -> aborted(leave_lists(kk, t))

krhino_task_wait_abort(t) ==
    /\ TaskCalls(k.active)
    /\ k.task_state[t] # "K_DELETED"
    /\ critical_exit_sched(task_wait_abort(k, t))
    /\ UNCHANGED irq_off

-----------------------------------------------------------------------------
(* Round robin *)

\* 0 stands for the default slice.
krhino_task_time_slice_set(t, slice) ==
    /\ TaskCalls(k.active)
    /\ LET total == IF slice > 0 THEN slice ELSE SliceDefault IN
       k' = [k EXCEPT !.time_total[t] = total, !.time_slice[t] = total]
    /\ UNCHANGED <<pc, irq_off>>

krhino_sched_policy_set(t, policy) ==
    /\ TaskCalls(k.active)
    /\ k' = [k EXCEPT !.sched_policy[t] = policy]
    /\ UNCHANGED <<pc, irq_off>>

-----------------------------------------------------------------------------
\* The calls that are the same when there are mutexes, and those RhinoMutex adds to.
PlainNext ==
    \/ SwitchNext
    \/ \E ticks \in Ticks : krhino_task_sleep(ticks)
    \/ krhino_task_yield
    \/ \E t \in Suspendable : krhino_task_suspend(t) \/ krhino_task_resume(t)

TaskNext ==
    \/ PlainNext
    \/ tick_next
    \/ \E t \in Task : pend_state_end_proc(t)
    \/ \E t \in Task, autorun \in BOOLEAN : krhino_task_create(t, autorun)
    \/ \E t \in Victims : krhino_task_del(t)
    \/ \E t \in Movable, p \in NewPri : krhino_task_pri_change(t, p)
    \/ \E t \in Abortable : krhino_task_wait_abort(t)

RoundRobinNext ==
    /\ SchedRR
    /\ \E t \in Task \ {Idle} :
          \/ \E slice \in Slices : krhino_task_time_slice_set(t, slice)
          \/ \E policy \in SchedPolicy : krhino_sched_policy_set(t, policy)

Next == TaskNext \/ RoundRobinNext

Init == SchedInit

Spec == Init /\ [][Next]_schedVars

\* Hardware and scheduler make progress: the tick interrupt recurs, its loop ends,
\* an interrupt handler returns, and a task inside a call gets on when no interrupt
\* is being handled.  Nothing is assumed of the tasks' own code.
Fairness ==
    /\ SF_schedVars(tick_intrpt)
    /\ WF_schedVars(tick_next \/ tick_end)
    /\ SF_schedVars(krhino_intrpt_exit)
    /\ \A t \in Task : SF_schedVars(core_sched(t) \/ pend_state_end_proc(t))

FairSpec == Spec /\ Fairness

-----------------------------------------------------------------------------
\* suspend_count is an unsigned byte: it is never decremented below 0, and a
\* suspended task has at least one suspension to undo, also after its wait or its
\* suspension was aborted.
SuspendCountOK ==
    /\ \A t \in Task : k.suspend_count[t] \in 0 .. SuspendMax
    /\ \A t \in Task : k.task_state[t] \in {"K_SUSPENDED", "K_SLEEP_SUSPENDED", "K_PEND_SUSPENDED"}
                          => k.suspend_count[t] > 0

\* A task does not sleep for ever, suspended or not.
SleepEnds ==
    \A t \in Task \ {Idle} : k.task_state[t] \in Sleeping ~> k.task_state[t] \notin Sleeping

\* The most urgent ready task gets the core, unless it stops being that or the
\* scheduler is locked meanwhile.
PreferredRuns ==
    \A t \in Task :
        (k.sched_lock = 0 /\ preferred_cpu_ready_task_get(k) = t)
        ~> (k.active = t \/ preferred_cpu_ready_task_get(k) # t \/ k.sched_lock > 0)

\* Round robin: a ready task of the most urgent priority gets the core when every
\* task of that priority is scheduled round robin, whatever tasks are woken to the
\* head or the tail of the list meanwhile, as long as two things do not happen over and
\* over: ticks between a call and its core_sched, which may charge a task that has not run
\* yet and undo the rotation of a yield, or wake the task that is going to sleep; and yields
\* of interrupt handlers, which rotate the list as often as they like before anyone runs.
Shares(t) ==
    /\ k.sched_lock = 0
    /\ k.task_state[t] = "K_RDY"
    /\ k.prio[t] = k.highest_pri
    /\ \A u \in ToSet(k.ready[k.highest_pri]) : k.sched_policy[u] = "KSCHED_RR"

RoundRobinShares ==
    <>[][/\ tick_intrpt => pc[k.active] \notin {"sched", "block"}
         /\ krhino_task_yield => k.nested = 0]_schedVars =>
        \A t \in Task \ {Idle} : Shares(t) ~> (k.active = t \/ ~Shares(t))

=============================================================================
