----------------------------- MODULE RhinoMutex ------------------------------
(***************************************************************************)
(* Mutexes with priority inheritance (k_mutex.c), and what the calls of    *)
(* k_task.c and the tick do for them.  The objects of the kernel state are *)
(* the mutexes.  The loops over owners and waiters run with interrupts off *)
(* and are part of the action of the call.                                 *)
(***************************************************************************)
EXTENDS RhinoTask

CONSTANTS
    NoTask,        \* the NULL task
    MaxDepth,      \* the largest value of mutex_nested_t
    Removable,     \* the mutexes programs delete
    DelTwice,      \* whether programs may delete a task that is deleted already
    NestTooDeep    \* whether programs may lock a mutex more often than is counted

ASSUME MutexAssumption ==
    /\ NoTask \notin Task
    /\ Task \cap Obj = {}
    /\ MaxDepth \in Nat \ {0}
    /\ Removable \subseteq Obj
    /\ DelTwice \in BOOLEAN /\ NestTooDeep \in BOOLEAN
    /\ IsFiniteSet(Task) /\ IsFiniteSet(Obj)

VARIABLES
    mx,      \* the mutexes, see MutexState
    locks    \* locks[t]: the mutex of the krhino_mutex_lock call t is blocked in

mutexVars == <<k, pc, irq_off, mx, locks>>

\* mutex_list links the mutexes a task holds: the head in the task, the next one
\* in each mutex.
MutexState ==
    [exists       : SUBSET Obj,               \* obj_type = RHINO_MUTEX_OBJ_TYPE
     mutex_task   : [Obj -> Task \cup {NoTask}],
     owner_nested : [Obj -> 0 .. MaxDepth],
     mutex_list   : [Task \cup Obj -> Obj \cup {NoObj}]]

MutexInit ==
    /\ SchedInit
    /\ mx = [exists       |-> {},
             mutex_task   |-> [m \in Obj |-> NoTask],
             owner_nested |-> [m \in Obj |-> 0],
             mutex_list   |-> [x \in Task \cup Obj |-> NoObj]]
    /\ locks = [t \in Task |-> NoObj]

-----------------------------------------------------------------------------
(* The list of mutexes a task holds *)

\* The mutexes that the loops over task->mutex_list visit, in that order.
mutex_chain(x, t) ==
    LET at[i \in 0 .. Cardinality(Obj)] ==
            IF i = 0 THEN x.mutex_list[t]
            ELSE IF at[i - 1] = NoObj THEN NoObj ELSE x.mutex_list[at[i - 1]]
    IN  [i \in 1 .. Cardinality({j \in DOMAIN at : at[j] # NoObj}) |-> at[i - 1]]

mutex_push(x, t, m) ==
    [x EXCEPT !.mutex_list[m] = x.mutex_list[t], !.mutex_list[t] = m]

\* m is unlinked: whatever pointed to it points to its successor.
mutex_unlink(x, t, m) ==
    [x EXCEPT !.mutex_list = [y \in Task \cup Obj |->
        IF y \in {t} \cup ToSet(mutex_chain(x, t)) /\ @[y] = m THEN @[m] ELSE @[y]]]

\* The priorities of the first tasks that wait for the mutexes in held.
first_waiters(kk, held) == {kk.prio[Head(kk.blk_list[m])] : m \in {h \in held : kk.blk_list[h] # <<>>}}

\* The priority t is due, its base priority or the best one it inherits, without
\* counting the mutex that is being released.
mutex_pri_look(kk, x, t, released) ==
    Min({kk.b_prio[t]} \cup first_waiters(kk, ToSet(mutex_chain(x, t)) \ {released}))

\* A priority given to t is limited by what it inherits.
mutex_pri_limit(kk, x, t, pri) == Min({pri} \cup first_waiters(kk, ToSet(mutex_chain(x, t))))

-----------------------------------------------------------------------------
(* Inheritance along a chain of owners: the loop of task_pri_change.  One round
   changes task; next is the owner it goes on with, NoTask when it ends. *)

pri_change_round(c, x) ==
    LET t    == c.task
        k1   == pri_change_one(c.k, t, c.pri)
        m    == k1.blk_obj[t]
        o    == x.mutex_task[m]
        due  == mutex_pri_look(k1, x, o, NoObj)
        over == [c EXCEPT !.k = k1, !.task = NoTask]
    IN  IF c.k.prio[t] = c.pri \/ k1.task_state[t] \notin Pending \/ m \notin x.exists
        THEN over
        ELSE IF k1.prio[o] > c.pri THEN [over EXCEPT !.task = o]
        ELSE IF k1.prio[o] = c.k.prio[t] /\ due # k1.prio[o]
        THEN [over EXCEPT !.task = o, !.pri = due]
        ELSE over

\* The rounds the loop gets: it changes no task twice (TLAPS proves it).  A loop that has
\* not ended by then hangs the system and is reported like a fatal error.
PriRounds == Cardinality(Task)

task_pri_change(kk, x, t, pri) ==
    LET after[n \in 0 .. PriRounds] ==
            IF n = 0 THEN [k |-> kk, task |-> t, pri |-> pri]
            ELSE IF after[n - 1].task = NoTask THEN after[n - 1]
            ELSE pri_change_round(after[n - 1], x)
    IN  IF after[PriRounds].task = NoTask THEN after[PriRounds].k
                                          ELSE k_err_proc(after[PriRounds].k)

\* Mutant: an inherited priority is kept.
mutex_release_not(kk, x, t, released) == kk

\* t stops inheriting through the mutex it releases, or through a wait that ended.
mutex_release(kk, x, t, released) ==
    LET due == mutex_pri_look(kk, x, t, released) IN
    IF due = kk.prio[t] THEN kk ELSE task_pri_change(kk, x, t, due)

\* Mutant: the owner keeps what it inherited from a task that no longer waits.
mutex_task_pri_reset_not(kk, x, t, m) == kk

\* t no longer waits for m, whose owner may have inherited t's priority.
mutex_task_pri_reset(kk, x, t, m) ==
    IF m \in x.exists /\ kk.prio[x.mutex_task[m]] = kk.prio[t]
    THEN mutex_release(kk, x, x.mutex_task[m], NoObj)
    ELSE kk

-----------------------------------------------------------------------------
(* Lock and unlock *)

krhino_mutex_create(m) ==
    /\ TaskCalls(k.active)
    /\ m \notin mx.exists
    /\ mx' = [mx EXCEPT !.exists = @ \cup {m}, !.mutex_task[m] = NoTask,
                        !.mutex_list[m] = NoObj]
    /\ UNCHANGED <<schedVars, locks>>

mutex_lock_nested(m) ==
    /\ TaskCalls(k.active)
    /\ m \in mx.exists
    /\ mx.mutex_task[m] = k.active
    /\ mx.owner_nested[m] < MaxDepth
    /\ mx' = [mx EXCEPT !.owner_nested[m] = @ + 1]
    /\ UNCHANGED <<schedVars, locks>>

\* The owner locks m once more than owner_nested can count.
mutex_lock_overflow(m) ==
    /\ TaskCalls(k.active)
    /\ NestTooDeep
    /\ m \in mx.exists
    /\ mx.mutex_task[m] = k.active
    /\ mx.owner_nested[m] = MaxDepth
    /\ k' = k_err_proc(k)
    /\ UNCHANGED <<pc, irq_off, mx, locks>>

mutex_lock_free(m) ==
    /\ TaskCalls(k.active)
    /\ m \in mx.exists
    /\ mx.mutex_task[m] = NoTask
    /\ mx' = [mutex_push(mx, k.active, m) EXCEPT !.mutex_task[m] = k.active,
                                                 !.owner_nested[m] = 1]
    /\ UNCHANGED <<schedVars, locks>>

\* The owner inherits the priority of the caller, which blocks.
mutex_lock_wait(m, ticks) ==
    /\ TaskCalls(k.active)
    /\ m \in mx.exists
    /\ mx.mutex_task[m] \notin {NoTask, k.active}
    /\ k.sched_lock = 0
    /\ LET o  == mx.mutex_task[m]
           k1 == IF k.prio[k.active] < k.prio[o]
                 THEN task_pri_change(k, mx, o, k.prio[k.active]) ELSE k
       IN  critical_exit_block(pend_to_blk_obj(k1, m, k.active, ticks))
    /\ locks' = [locks EXCEPT ![k.active] = m]
    /\ UNCHANGED <<irq_off, mx>>

krhino_mutex_lock(m) ==
    \/ mutex_lock_nested(m)
    \/ mutex_lock_overflow(m)
    \/ mutex_lock_free(m)
    \/ \E ticks \in Ticks \cup {WaitForever} : mutex_lock_wait(m, ticks)

\* Mutant: the mutex is free until the task that was woken runs.
mutex_hand_over_later(x, t, m) == [mutex_push(x, t, m) EXCEPT !.mutex_task[m] = NoTask]

\* The mutex goes to the task that was woken.
mutex_hand_over(x, t, m) == [mutex_push(x, t, m) EXCEPT !.mutex_task[m] = t]

mutex_unlock_nested(m) ==
    /\ TaskCalls(k.active)
    /\ m \in mx.exists
    /\ mx.mutex_task[m] = k.active
    /\ mx.owner_nested[m] > 1
    /\ mx' = [mx EXCEPT !.owner_nested[m] = @ - 1]
    /\ UNCHANGED <<schedVars, locks>>

\* Without a waiter nothing is rescheduled: the owner inherits nothing from m.
mutex_unlock_last(m) ==
    /\ TaskCalls(k.active)
    /\ m \in mx.exists
    /\ mx.mutex_task[m] = k.active
    /\ mx.owner_nested[m] = 1
    /\ LET k1 == mutex_release(k, mx, k.active, m)
           x1 == [mutex_unlink(mx, k.active, m) EXCEPT !.owner_nested[m] = 0]
           t  == Head(k1.blk_list[m])
       IN  IF k1.blk_list[m] = <<>>
           THEN /\ k' = k1
                /\ mx' = [x1 EXCEPT !.mutex_task[m] = NoTask]
                /\ UNCHANGED pc
           ELSE /\ critical_exit_sched(pend_task_wakeup(k1, t))
                /\ mx' = [mutex_hand_over(x1, t, m) EXCEPT !.owner_nested[m] = 1]
    /\ UNCHANGED <<irq_off, locks>>

krhino_mutex_unlock(m) == mutex_unlock_nested(m) \/ mutex_unlock_last(m)

\* Mutant: the waiters are not woken.
krhino_mutex_del_quiet(m) ==
    /\ TaskCalls(k.active)
    /\ m \in mx.exists
    /\ mx' = [mx EXCEPT !.exists = @ \ {m}]
    /\ UNCHANGED <<schedVars, locks>>

\* The owner, if there is one, stops inheriting through m, and every waiter is
\* woken with an error.
krhino_mutex_del(m) ==
    /\ TaskCalls(k.active)
    /\ m \in mx.exists
    /\ LET o  == mx.mutex_task[m]
           x1 == [mx EXCEPT !.exists = @ \ {m}]
           k1 == IF o = NoTask THEN k ELSE mutex_release(k, x1, o, m)
       IN  /\ mx' = IF o = NoTask THEN x1 ELSE mutex_unlink(x1, o, m)
           /\ critical_exit_sched(end_pend_each(k1, k1.blk_list[m], "BLK_DEL"))
    /\ UNCHANGED <<irq_off, locks>>

-----------------------------------------------------------------------------
(* The task calls and the tick, with what they do for mutexes *)

\* Mutant: a mutex nobody waits for keeps the deleted task as its owner.
mutex_free_one_kept(s, m) ==
    LET next == Head(s.k.blk_list[m]) IN
    IF s.k.blk_list[m] = <<>> THEN s
    ELSE [k |-> pend_task_wakeup(s.k, next), x |-> mutex_hand_over(s.x, next, m)]

\* m of a deleted task is handed to its first waiter, or is free.
mutex_free_one(s, m) ==
    LET next == Head(s.k.blk_list[m]) IN
    IF s.k.blk_list[m] = <<>> THEN [s EXCEPT !.x.mutex_task[m] = NoTask]
    ELSE [k |-> pend_task_wakeup(s.k, next), x |-> mutex_hand_over(s.x, next, m)]

\* The loop over the mutexes on the task's list.
task_mutex_free(kk, x, t) ==
    LET held == mutex_chain(x, t)
        after[n \in 0 .. Len(held)] ==
            IF n = 0 THEN [k |-> kk, x |-> x] ELSE mutex_free_one(after[n - 1], held[n])
    IN  after[Len(held)]

\* The mutexes are freed before the state of the task is looked at.
mutex_task_del(t) ==
    /\ TaskCalls(k.active)
    /\ t = k.active => k.sched_lock = 0
    /\ k.task_state[t] = "K_DELETED" => DelTwice
    /\ LET s == task_mutex_free(k, mx, t) IN
       /\ mx' = s.x
       /\ IF k.task_state[t] = "K_DELETED" THEN k' = s.k /\ UNCHANGED pc
          ELSE critical_exit_sched(
                  mutex_task_pri_reset(task_unlink(s.k, t), s.x, t, s.k.blk_obj[t]))
    /\ UNCHANGED <<irq_off, locks>>

\* Mutant: the TCB of a deleted task is used again with its list of mutexes.
mutex_task_create_dirty(t, autorun) ==
    /\ krhino_task_create(t, autorun)
    /\ UNCHANGED <<mx, locks>>

mutex_task_create(t, autorun) ==
    /\ krhino_task_create(t, autorun)
    /\ mx' = [mx EXCEPT !.mutex_list[t] = NoObj]
    /\ locks' = [locks EXCEPT ![t] = NoObj]

mutex_task_pri_change(t, p) ==
    /\ TaskCalls(k.active)
    /\ t # Idle
    /\ k.task_state[t] # "K_DELETED"
    /\ LET k1 == [k EXCEPT !.b_prio[t] = p] IN
       critical_exit_sched(task_pri_change(k1, mx, t, mutex_pri_limit(k, mx, t, p)))
    /\ UNCHANGED <<irq_off, mx, locks>>

mutex_task_wait_abort(t) ==
    /\ TaskCalls(k.active)
    /\ k.task_state[t] # "K_DELETED"
    /\ critical_exit_sched(
           mutex_task_pri_reset(task_wait_abort(k, t), mx, t, k.blk_obj[t]))
    /\ UNCHANGED <<irq_off, mx, locks>>

mutex_tick_next ==
    /\ irq_off = <<"tick_list_update">>
    /\ tick_due(k)
    /\ LET t == Head(k.tick_list) IN
       k' = mutex_task_pri_reset(tick_expire(k, t), mx, t, k.blk_obj[t])
    /\ UNCHANGED <<pc, irq_off, mx, locks>>

\* A krhino_mutex_lock call that blocked returns.
mutex_lock_end(t) ==
    /\ pend_state_end_proc(t)
    /\ locks' = [locks EXCEPT ![t] = NoObj]
    /\ UNCHANGED mx

-----------------------------------------------------------------------------
MutexNext ==
    \/ PlainNext /\ UNCHANGED <<mx, locks>>
    \/ mutex_tick_next
    \/ \E t \in Task : mutex_lock_end(t)
    \/ \E t \in Task, autorun \in BOOLEAN : mutex_task_create(t, autorun)
    \/ \E t \in Victims : mutex_task_del(t)
    \/ \E t \in Movable, p \in NewPri : mutex_task_pri_change(t, p)
    \/ \E t \in Abortable : mutex_task_wait_abort(t)
    \/ \E m \in Obj : krhino_mutex_create(m) \/ krhino_mutex_lock(m) \/ krhino_mutex_unlock(m)
    \/ \E m \in Removable : krhino_mutex_del(m)

MutexSpec == MutexInit /\ [][MutexNext]_mutexVars

-----------------------------------------------------------------------------
(* Correctness *)

\* The list of mutexes a task holds and the owners the mutexes name agree, through
\* unlocks in any order, deletions of mutexes and of tasks.  No mutex is owned by a
\* deleted task.
MutexListsOK ==
    /\ \A t \in Task : k.task_state[t] # "K_DELETED" =>
          Holds(mutex_chain(mx, t), {m \in mx.exists : mx.mutex_task[m] = t})
    /\ \A m \in mx.exists : mx.mutex_task[m] # NoTask
                              => k.task_state[mx.mutex_task[m]] # "K_DELETED"

\* Somebody who waits for a mutex waits for another task that owns it.
WaitersHaveOwner ==
    \A m \in Obj : k.blk_list[m] # <<>> =>
        m \in mx.exists /\ mx.mutex_task[m] \notin {NoTask} \cup ToSet(k.blk_list[m])

\* Priority inheritance is exact: a task runs at its base priority or at the best
\* priority among the tasks waiting for the mutexes it holds, also along chains of
\* owners and after timeouts, aborts, deletions and priority changes.
PriorityInherited ==
    \A t \in Task : k.task_state[t] # "K_DELETED" =>
        k.prio[t] = mutex_pri_look(k, mx, t, NoObj)

\* A krhino_mutex_lock call that waited and returns success has the mutex.
LockSucceeds ==
    \A t \in Task : (Executing(t) /\ pc[t] = "end" /\ locks[t] \in mx.exists
                      /\ k.blk_state[t] = "BLK_FINISH") => mx.mutex_task[locks[t]] = t

\* A mutex leaves its owner only when the owner unlocks it or is deleted.
OnlyOwnerReleases ==
    [][\A m \in mx.exists : LET o == mx.mutex_task[m] IN
          (o # NoTask /\ m \in mx'.exists /\ mx'.mutex_task[m] # o)
          => (k.active = o \/ k'.task_state[o] = "K_DELETED")]_mutexVars

\* A mutex that leaves its owner goes to the most urgent of the tasks that wait for it
\* then, at the priorities they then have, and is free only if nobody waits.
HandsToMostUrgent ==
    [][\A m \in mx.exists :
          LET o == mx.mutex_task[m]
              n == mx'.mutex_task[m]
              waiting == ToSet(k.blk_list[m])
          IN  o # NoTask /\ n # o =>
                IF waiting = {} THEN n = NoTask
                ELSE n \in waiting /\ \A t \in waiting : k.prio[n] <= k.prio[t]]_mutexVars

=============================================================================
