------------------------------ MODULE RhinoSem -------------------------------
(***************************************************************************)
(* Counting semaphores (k_sem.c), with every call of RhinoTask going on    *)
(* around them.  The objects of the kernel state are the semaphores.       *)
(* peak_count, a statistic that nothing reads, is left out.                *)
(***************************************************************************)
EXTENDS RhinoTask

CONSTANTS
    SemMax,      \* (sem_count_t)-1
    SemCounts,   \* the counts given to krhino_sem_create and krhino_sem_count_set
    Deletable    \* the semaphores programs delete

ASSUME SemAssumption ==
    /\ SemMax \in Nat \ {0}
    /\ SemCounts \subseteq 0 .. SemMax
    /\ Deletable \subseteq Obj

VARIABLES
    count,    \* count[s]: the units that can be taken
    exists    \* the semaphores with obj_type = RHINO_SEM_OBJ_TYPE

semVars == <<k, pc, irq_off, count, exists>>

SemTypeOK == /\ count \in [Obj -> 0 .. SemMax]
             /\ exists \subseteq Obj

SemInit == /\ SchedInit
           /\ exists = {}
           /\ count = [s \in Obj |-> 0]

\* A semaphore is created, also in the memory of one that was deleted.
krhino_sem_create(s, n) ==
    /\ TaskCalls(k.active)
    /\ s \notin exists
    /\ exists' = exists \cup {s}
    /\ count' = [count EXCEPT ![s] = n]
    /\ UNCHANGED schedVars

-----------------------------------------------------------------------------
(* Take and give *)

sem_take_unit(s) ==
    /\ TaskCalls(k.active)
    /\ s \in exists
    /\ count[s] > 0
    /\ count' = [count EXCEPT ![s] = @ - 1]
    /\ UNCHANGED <<k, pc, irq_off, exists>>

\* With ticks = RHINO_NO_WAIT the call returns an error instead.
sem_take_wait(s, ticks) ==
    /\ TaskCalls(k.active)
    /\ s \in exists
    /\ count[s] = 0
    /\ k.sched_lock = 0
    /\ critical_exit_block(pend_to_blk_obj(k, s, k.active, ticks))
    /\ UNCHANGED <<irq_off, count, exists>>

krhino_sem_take(s) ==
    \/ sem_take_unit(s)
    \/ \E ticks \in Ticks \cup {WaitForever} : sem_take_wait(s, ticks)

\* Nobody waits: the unit is kept, unless the counter is full (RHINO_SEM_OVF).
sem_give_unit(s) ==
    /\ AnyCalls
    /\ s \in exists
    /\ k.blk_list[s] = <<>>
    /\ count[s] < SemMax
    /\ count' = [count EXCEPT ![s] = @ + 1]
    /\ UNCHANGED <<k, pc, irq_off, exists>>

\* Mutants: the unit that wakes a task is counted too; the last waiter is woken.
sem_give_wake_count(s) ==
    /\ AnyCalls
    /\ s \in exists
    /\ k.blk_list[s] # <<>>
    /\ count[s] < SemMax
    /\ critical_exit_sched(pend_task_wakeup(k, Head(k.blk_list[s])))
    /\ count' = [count EXCEPT ![s] = @ + 1]
    /\ UNCHANGED <<irq_off, exists>>

sem_give_wake_last(s) ==
    /\ AnyCalls
    /\ s \in exists
    /\ k.blk_list[s] # <<>>
    /\ critical_exit_sched(pend_task_wakeup(k, Last(k.blk_list[s])))
    /\ UNCHANGED <<irq_off, count, exists>>

\* The unit goes to the most urgent waiter.
sem_give_wake(s) ==
    /\ AnyCalls
    /\ s \in exists
    /\ k.blk_list[s] # <<>>
    /\ critical_exit_sched(pend_task_wakeup(k, Head(k.blk_list[s])))
    /\ UNCHANGED <<irq_off, count, exists>>

krhino_sem_give(s) == sem_give_unit(s) \/ sem_give_wake(s)

-----------------------------------------------------------------------------
(* The loops over all waiters, which run with interrupts off: krhino_sem_give_all
   and krhino_sem_del *)

Loop(op, s) == <<op, s>>

sem_give_all_begin(s) ==
    /\ AnyCalls
    /\ s \in exists
    /\ k.blk_list[s] # <<>>
    /\ irq_off' = Loop("sem_give_all", s)
    /\ UNCHANGED <<k, pc, count, exists>>

sem_del_begin(s) ==
    /\ TaskCalls(k.active)
    /\ s \in exists
    /\ exists' = exists \ {s}
    /\ irq_off' = Loop("sem_del", s)
    /\ UNCHANGED <<k, pc, count>>

sem_loop_next(s) ==
    /\ irq_off \in {Loop("sem_give_all", s), Loop("sem_del", s)}
    /\ k.blk_list[s] # <<>>
    /\ LET t == Head(k.blk_list[s]) IN
       k' = IF irq_off = Loop("sem_del", s) THEN pend_task_rm(k, t)
                                            ELSE pend_task_wakeup(k, t)
    /\ UNCHANGED <<pc, irq_off, count, exists>>

sem_loop_end(s) ==
    /\ irq_off \in {Loop("sem_give_all", s), Loop("sem_del", s)}
    /\ k.blk_list[s] = <<>>
    /\ critical_exit_sched(k)
    /\ irq_off' = <<>>
    /\ UNCHANGED <<count, exists>>

krhino_sem_give_all(s) == sem_give_all_begin(s) \/ sem_give_unit(s)

krhino_sem_del(s) == s \in Deletable /\ sem_del_begin(s)

\* Mutant: the count is set while tasks wait.
krhino_sem_count_set_waiting(s, n) ==
    /\ TaskCalls(k.active)
    /\ s \in exists
    /\ count' = [count EXCEPT ![s] = n]
    /\ UNCHANGED <<k, pc, irq_off, exists>>

\* Refused while tasks wait on an empty semaphore (RHINO_SEM_TASK_WAITING).
krhino_sem_count_set(s, n) ==
    /\ TaskCalls(k.active)
    /\ s \in exists
    /\ count[s] > 0 \/ k.blk_list[s] = <<>>
    /\ count' = [count EXCEPT ![s] = n]
    /\ UNCHANGED <<k, pc, irq_off, exists>>

-----------------------------------------------------------------------------
SemCalls(s) ==
    \/ krhino_sem_take(s)
    \/ krhino_sem_give(s)
    \/ krhino_sem_give_all(s)
    \/ krhino_sem_del(s)
    \/ sem_loop_next(s)
    \/ sem_loop_end(s)
    \/ \E n \in SemCounts : krhino_sem_create(s, n) \/ krhino_sem_count_set(s, n)

SemNext ==
    \/ TaskNext /\ UNCHANGED <<count, exists>>
    \/ \E s \in Obj : SemCalls(s)

SemSpec == SemInit /\ [][SemNext]_semVars

-----------------------------------------------------------------------------
(* Correctness *)

\* No task waits for a semaphore that has units: whoever blocks found none, and
\* every unit given while somebody waits goes to a waiter.  Violated, a task would
\* sleep beside a unit that it could take.
NoWaiterBesideUnit == \A s \in Obj : k.blk_list[s] # <<>> => count[s] = 0

\* A unit that is handed over goes to a waiter of the highest priority, whatever
\* priority changes, aborts and timeouts came before.
GrantsMostUrgent ==
    [][\A s \in Obj : \A t \in ToSet(k.blk_list[s]) :
          (s \in exists /\ irq_off = <<>> /\ t \notin ToSet(k'.blk_list[s])
                         /\ k'.task_state[t] # "K_DELETED" /\ k'.blk_state[t] = "BLK_FINISH")
          => \A u \in ToSet(k.blk_list[s]) : k.prio[t] <= k.prio[u]]_semVars

\* Each semaphore is a counting semaphore: loops over waiters, interrupts, timeouts
\* and deletions of tasks and semaphores included.
Counting(s) == INSTANCE Semaphore
                  WITH units    <- count[s],
                       waiting  <- {t \in Task : k.blk_obj[t] = s},
                       outcome  <- k.blk_state,
                       Limit    <- SemMax,
                       Outcomes <- BlkState,
                       Granted  <- "BLK_FINISH"

\* Counting(s)!Spec for every s, as one initial predicate and one action property.
ImplementsSemaphore ==
    /\ \A s \in Obj : Counting(s)!Init
    /\ [][\A s \in Obj : [Counting(s)!Next]_(Counting(s)!vars)]_semVars

=============================================================================
