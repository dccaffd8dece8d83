----------------------------- MODULE RhinoKernel -----------------------------
(***************************************************************************)
(* The data structures every kernel object of Rhino works on, and the      *)
(* internal functions that change them, for the single-core build          *)
(* (RHINO_CONFIG_CPU_NUM = 1): the ready queue (k_sched.c), the pend lists *)
(* (k_pend.c) and the tick list (k_tick.c).                                *)
(*                                                                         *)
(* The kernel state is one record k.  Every operator below takes the       *)
(* record before a call and returns the record after it, and has the name  *)
(* of the C function it stands for.  All of them run with interrupts off,  *)
(* so a caller may combine several in one action.                          *)
(*                                                                         *)
(* A circular C list with a "current" pointer is a sequence whose first    *)
(* element is the current one; a tick_match is kept as the number of ticks *)
(* that are left (tick_match - g_tick_count), 0 when off the tick list.    *)
(***************************************************************************)
EXTENDS Integers, Sequences, FiniteSets, SequencesExt, KList

CONSTANTS
    Task,       \* all tasks
    Idle,       \* g_idle_task[0]
    IdlePri,    \* RHINO_IDLE_PRI, the lowest priority
    SuspendMax, \* (suspend_nested_t)-1
    Obj,        \* the objects a task can block on (blk_obj_t)
    NoObj       \* the NULL blk_obj

ASSUME TaskAssumption == Idle \in Task
ASSUME PriAssumption  == IdlePri \in Nat \ {0}
ASSUME ObjAssumption  == NoObj \notin Obj
ASSUME SuspendAssumption == SuspendMax \in Nat \ {0}

Pri == 0 .. IdlePri

\* RHINO_WAIT_FOREVER, ((uint64_t)-1)
WaitForever == -1

TaskState == {"K_RDY", "K_PEND", "K_SUSPENDED", "K_PEND_SUSPENDED",
              "K_SLEEP", "K_SLEEP_SUSPENDED", "K_DELETED"}
SchedPolicy == {"KSCHED_FIFO", "KSCHED_RR"}
BlkState  == {"BLK_FINISH", "BLK_ABORT", "BLK_TIMEOUT", "BLK_DEL"}

\* The states in which a task is on the blk_list of its blk_obj, and the
\* states in which it is asleep.
Pending  == {"K_PEND", "K_PEND_SUSPENDED"}
Sleeping == {"K_SLEEP", "K_SLEEP_SUSPENDED"}

Kernel ==
    [task_state    : [Task -> TaskState],
     prio          : [Task -> Pri],            \* current priority
     b_prio        : [Task -> Pri],            \* base priority
     suspend_count : [Task -> Nat],
     blk_state     : [Task -> BlkState],
     blk_obj       : [Task -> Obj \cup {NoObj}],
     time_slice    : [Task -> Nat],
     time_total    : [Task -> Nat],
     sched_policy  : [Task -> SchedPolicy],
     tick_remain   : [Task -> Nat],
     ready         : [Pri -> Seq(Task)],       \* g_ready_queue.cur_list_item
     highest_pri   : Pri,                      \* g_ready_queue.highest_pri
     tick_list     : Seq(Task),                \* g_tick_head
     blk_list      : [Obj -> Seq(Task)],
     active        : Task,                     \* g_active_task[0]
     sched_lock    : Nat,                      \* g_sched_lock[0]
     nested        : Nat,                      \* g_intrpt_nested_level[0]
     fatal         : BOOLEAN]                  \* k_err_proc was called

\* k_err_proc stops the system; the models check that nothing reaches it.
k_err_proc(k) == [k EXCEPT !.fatal = TRUE]

-----------------------------------------------------------------------------
(* Ready queue, k_sched.c *)

ready_list_add_tail(k, t) ==
    LET p == k.prio[t] IN
    [k EXCEPT !.ready[p] = Append(@, t),
              !.highest_pri = IF k.ready[p] = <<>> /\ p < @ THEN p ELSE @]

ready_list_add_head(k, t) ==
    LET p == k.prio[t] IN
    [k EXCEPT !.ready[p] = Cons(t, @),
              !.highest_pri = IF k.ready[p] = <<>> /\ p < @ THEN p ELSE @]

ready_list_add(k, t) ==
    IF k.prio[t] = k.prio[k.active] THEN ready_list_add_tail(k, t)
                                    ELSE ready_list_add_head(k, t)

\* The first set bit of task_bit_map, which has bit p set when list p is not
\* empty (krhino_find_first_bit).
FirstReady(ready) ==
    CHOOSE p \in Pri : /\ ready[p] # <<>>
                       /\ \A q \in Pri : ready[q] # <<>> => p <= q

\* Mutant: highest_pri is not looked up again when its list becomes empty.
ready_list_rm_stale(k, t) == [k EXCEPT !.ready[k.prio[t]] = klist_rm(@, t)]

ready_list_rm(k, t) ==
    LET p     == k.prio[t]
        ready == [k.ready EXCEPT ![p] = klist_rm(@, t)] IN
    [k EXCEPT !.ready = ready,
              !.highest_pri = IF ready[p] = <<>> /\ p = @ THEN FirstReady(ready)
                                                          ELSE @]

\* The current pointer of the list of t's priority moves on by one.
ready_list_head_to_tail(k, t) ==
    [k EXCEPT !.ready[k.prio[t]] = Append(Tail(@), Head(@))]

preferred_cpu_ready_task_get(k) == Head(k.ready[k.highest_pri])

\* At a tick, the task at the head of the active task's priority is charged,
\* and goes to the tail when its slice is used up.
time_slice_update(k) ==
    LET list    == k.ready[k.prio[k.active]]
        t       == Head(list)
        left    == IF k.time_slice[t] > 0 THEN k.time_slice[t] - 1 ELSE 0
        charged == [k EXCEPT !.time_slice[t] = IF left > 0 THEN left
                                               ELSE k.time_total[t]]
    IN  IF Len(list) < 2 \/ k.sched_policy[t] = "KSCHED_FIFO" THEN k
        ELSE IF left > 0 THEN charged ELSE ready_list_head_to_tail(charged, t)

\* A task becomes ready: the pair of assignments task_state = K_RDY and
\* ready_list_add, which the callers always make together.
make_ready(k, t) == ready_list_add([k EXCEPT !.task_state[t] = "K_RDY"], t)

-----------------------------------------------------------------------------
(* Tick list, k_tick.c *)

\* Mutant: the task goes to the end of the list, whatever its ticks.
tick_list_insert_last(k, t, ticks) ==
    IF ticks = 0 THEN k ELSE [k EXCEPT !.tick_list = Append(@, t), !.tick_remain[t] = ticks]

\* The list is sorted by the ticks that are left, and a task goes behind those
\* with as many left as it.
tick_list_insert(k, t, ticks) ==
    IF ticks = 0 THEN k
    ELSE LET later == {i \in DOMAIN k.tick_list :
                          k.tick_remain[k.tick_list[i]] > ticks}
         IN  [k EXCEPT !.tick_list = klist_insert(@, later, t),
                       !.tick_remain[t] = ticks]

tick_list_rm(k, t) ==
    [k EXCEPT !.tick_list = klist_rm(@, t), !.tick_remain[t] = 0]

-----------------------------------------------------------------------------
(* Pend lists, k_pend.c.  Every object in core/ has blk_policy = BLK_POLICY_PRI:
   the list is sorted by priority, first come first served within one. *)

pend_list_add(k, o, t) ==
    LET lower == {i \in DOMAIN k.blk_list[o] : k.prio[k.blk_list[o][i]] > k.prio[t]}
    IN  [k EXCEPT !.blk_list[o] = klist_insert(@, lower, t)]

pend_to_blk_obj(k, o, t, timeout) ==
    LET timed   == IF timeout = WaitForever THEN k ELSE tick_list_insert(k, t, timeout)
        waiting == [timed EXCEPT !.blk_obj[t] = o, !.task_state[t] = "K_PEND"]
    IN  pend_list_add(ready_list_rm(waiting, t), o, t)

\* The task leaves the pend list and the tick list.
leave_lists(k, t) ==
    tick_list_rm([k EXCEPT !.blk_list[k.blk_obj[t]] = klist_rm(@, t),
                           !.blk_obj[t] = NoObj], t)

\* The two ways a pended task is woken differ in the blk_state they leave.
end_pend(k, t, blk_state) ==
    LET k1 == [leave_lists(k, t) EXCEPT !.blk_state[t] = blk_state] IN
    CASE k.task_state[t] = "K_PEND"           -> make_ready(k1, t)
      [] k.task_state[t] = "K_PEND_SUSPENDED" ->
            [k1 EXCEPT !.task_state[t] = "K_SUSPENDED"]
      [] OTHER -> k_err_proc(k)

pend_task_wakeup(k, t) == end_pend(k, t, "BLK_FINISH")
pend_task_rm(k, t)     == end_pend(k, t, "BLK_DEL")

\* The loops that wake tasks one after the other.
end_pend_each(k, tasks, blk_state) ==
    LET after[n \in 0 .. Len(tasks)] ==
            IF n = 0 THEN k ELSE end_pend(after[n - 1], tasks[n], blk_state)
    IN  after[Len(tasks)]

\* Mutant: the list is not sorted again when a priority changes.
pend_list_reorder_not(k, t) == k

pend_list_reorder(k, t) ==
    pend_list_add([k EXCEPT !.blk_list[k.blk_obj[t]] = klist_rm(@, t)],
                  k.blk_obj[t], t)

-----------------------------------------------------------------------------
(* One step of the loop of tick_list_update, for the task at the head of the
   tick list whose time has come.  The call of mutex_task_pri_reset concerns
   mutexes only and is added by RhinoMutex. *)

\* Mutant: a sleep that ends while the task is suspended leaves the task asleep.
tick_expire_lost(k, t) ==
    IF k.task_state[t] = "K_SLEEP"
    THEN make_ready([tick_list_rm(k, t) EXCEPT !.blk_state[t] = "BLK_FINISH"], t)
    ELSE tick_list_rm(k, t)

tick_expire(k, t) ==
    CASE k.task_state[t] = "K_SLEEP" ->
            make_ready([tick_list_rm(k, t) EXCEPT !.blk_state[t] = "BLK_FINISH"], t)
      [] k.task_state[t] = "K_SLEEP_SUSPENDED" ->
            [tick_list_rm(k, t) EXCEPT !.blk_state[t] = "BLK_FINISH",
                                       !.task_state[t] = "K_SUSPENDED"]
      [] k.task_state[t] \in Pending -> end_pend(k, t, "BLK_TIMEOUT")
      [] OTHER -> k_err_proc(k)

\* g_tick_count + 1: one tick less is left to every task on the tick list.
tick_count_inc(k) ==
    [k EXCEPT !.tick_remain = [t \in Task |-> IF @[t] > 0 THEN @[t] - 1 ELSE 0]]

\* The head of the tick list is due.
tick_due(k) == k.tick_list # <<>> /\ k.tick_remain[Head(k.tick_list)] = 0

=============================================================================
