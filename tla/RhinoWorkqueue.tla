--------------------------- MODULE RhinoWorkqueue ----------------------------
(***************************************************************************)
(* Work queues (k_workqueue.c).  A work is a function that the worker task *)
(* of a queue calls, at once or, for a work with a delay, after the        *)
(* software timer that belongs to it.                                      *)
(*                                                                         *)
(* Every critical section is a step, and what comes after it another one:  *)
(* the unit given to the semaphore of the queue, the command sent to the   *)
(* timer task.  A work is initialised once, before anybody runs it, and    *)
(* not from its own handler; a queue is created by one caller.             *)
(***************************************************************************)
EXTENDS Integers, Sequences, FiniteSets, SequencesExt, KList

CONSTANTS
    Work,       \* the works programs have initialised
    Delayed,    \* those with dly > 0, which have a timer
    Queue,      \* the work queues
    Caller,     \* the tasks that make calls
    MsgNum,     \* RHINO_CONFIG_TIMER_MSG_NUM
    None

ASSUME WorkAssumption ==
    /\ Delayed \subseteq Work
    /\ None \notin Work \cup Queue
    /\ MsgNum \in Nat \ {0}
    /\ IsFiniteSet(Caller)

VARIABLES
    created,        \* the queues on g_workqueue_list_head
    work_list,      \* work_list[q]
    work_current,   \* work_current[q]: the work whose handler runs, or None
    sem,            \* sem[q]: the units of the semaphore
    worker,         \* where the worker of q is: "take", "get" or "run"
    work_exit,      \* the works that are queued (work_exit = 1)
    wq,             \* wq[w]: the queue w was put on last, or None
    caller,         \* what caller c still has to do in its call, or Idle
    commands,       \* g_timer_queue
    armed,          \* armed[w]: the queue that the timer of w, when active, passes; or None
    expired         \* the queue the timer task still has to give a unit, or None

queueVars == <<work_list, work_current, sem, worker, work_exit, wq>>
timerVars == <<commands, armed, expired>>
vars == <<created, queueVars, caller, timerVars>>

\* What a caller has to do after its critical section.
Idle == [op |-> "idle"]
Give(q) == [op |-> "give", queue |-> q]
Stop(w) == [op |-> "stop", work |-> w]
Cancel(w, q) == [op |-> "cancel", work |-> w, queue |-> q]

Pending == {Idle} \cup {Give(q) : q \in Queue} \cup {Stop(w) : w \in Work}
                  \cup {Cancel(w, q) : w \in Work, q \in Queue}

\* The commands that krhino_timer_arg_change_auto and krhino_timer_stop send.
Commands == [work : Work, queue : Queue \cup {None}]

Init ==
    /\ created = {}
    /\ work_list = [q \in Queue |-> <<>>]
    /\ work_current = [q \in Queue |-> None]
    /\ sem = [q \in Queue |-> 0]
    /\ worker = [q \in Queue |-> "take"]
    /\ work_exit = {}
    /\ wq = [w \in Work |-> None]
    /\ caller = [c \in Caller |-> Idle]
    /\ commands = <<>>
    /\ armed = [w \in Work |-> None]
    /\ expired = None

krhino_workqueue_create(q) ==
    /\ q \notin created
    /\ created' = created \cup {q}
    /\ UNCHANGED <<queueVars, caller, timerVars>>

-----------------------------------------------------------------------------
(* The worker of a queue *)

sem_give(q) == sem' = [sem EXCEPT ![q] = @ + 1]

worker_take(q) ==
    /\ q \in created /\ worker[q] = "take"
    /\ sem[q] > 0
    /\ sem' = [sem EXCEPT ![q] = @ - 1]
    /\ worker' = [worker EXCEPT ![q] = "get"]
    /\ UNCHANGED <<created, work_list, work_current, work_exit, wq, caller, timerVars>>

\* Mutant: the work that is taken off stays marked as queued.
worker_get_marked(q) ==
    /\ worker[q] = "get" /\ work_list[q] # <<>>
    /\ work_list' = [work_list EXCEPT ![q] = Tail(@)]
    /\ work_current' = [work_current EXCEPT ![q] = Head(work_list[q])]
    /\ worker' = [worker EXCEPT ![q] = "run"]
    /\ UNCHANGED <<created, sem, work_exit, wq, caller, timerVars>>

\* The code does not ask whether there is a work.
worker_get(q) ==
    /\ worker[q] = "get" /\ work_list[q] # <<>>
    /\ LET w == Head(work_list[q]) IN
       /\ work_list' = [work_list EXCEPT ![q] = Tail(@)]
       /\ work_current' = [work_current EXCEPT ![q] = w]
       /\ work_exit' = work_exit \ {w}
    /\ worker' = [worker EXCEPT ![q] = "run"]
    /\ UNCHANGED <<created, sem, wq, caller, timerVars>>

worker_done(q) ==
    /\ worker[q] = "run"
    /\ work_current' = [work_current EXCEPT ![q] = None]
    /\ worker' = [worker EXCEPT ![q] = "take"]
    /\ UNCHANGED <<created, work_list, sem, work_exit, wq, caller, timerVars>>

worker_task(q) == worker_take(q) \/ worker_get(q) \/ worker_done(q)

-----------------------------------------------------------------------------
(* Running a work *)

\* The work leaves the list it is on, if it is on one.
klist_rm_init(lists, w) == [q \in Queue |-> klist_rm(lists[q], w)]

\* It is neither the current work of the queue nor queued.
work_idle(w, q) == work_current[q] # w /\ w \notin work_exit

put(w, q) ==
    /\ work_list' = [klist_rm_init(work_list, w) EXCEPT ![q] = Append(@, w)]
    /\ wq' = [wq EXCEPT ![w] = q]
    /\ work_exit' = work_exit \cup {w}

work_run_now(c, w, q) ==
    /\ w \notin Delayed
    /\ work_idle(w, q)
    /\ put(w, q)
    /\ caller' = [caller EXCEPT ![c] = Give(q)]
    /\ UNCHANGED <<created, work_current, sem, worker, timerVars>>

\* The timer is started, or started again, with the queue for its argument.
work_run_delayed(c, w, q) ==
    /\ w \in Delayed
    /\ Len(commands) < MsgNum
    /\ commands' = Append(commands, [work |-> w, queue |-> q])
    /\ UNCHANGED <<created, queueVars, caller, armed, expired>>

\* krhino_work_sched is the same for g_workqueue_default.
krhino_work_run(c, w, q) ==
    /\ caller[c] = Idle
    /\ q \in created
    /\ work_run_now(c, w, q) \/ work_run_delayed(c, w, q)

\* Mutant: no unit is given.
work_give_none(c) ==
    /\ caller[c].op = "give"
    /\ caller' = [caller EXCEPT ![c] = Idle]
    /\ UNCHANGED <<created, queueVars, timerVars>>

work_give(c) ==
    /\ caller[c].op = "give"
    /\ sem_give(caller[c].queue)
    /\ caller' = [caller EXCEPT ![c] = Idle]
    /\ UNCHANGED <<created, work_list, work_current, worker, work_exit, wq, timerVars>>

-----------------------------------------------------------------------------
(* Cancelling a work: a call that returns an error changes nothing *)

\* wq is read with interrupts on.
krhino_work_cancel(c, w) ==
    /\ caller[c] = Idle
    /\ IF wq[w] # None
       THEN caller' = [caller EXCEPT ![c] = Cancel(w, wq[w])]
       ELSE IF w \in Delayed
       THEN caller' = [caller EXCEPT ![c] = Stop(w)]
       ELSE UNCHANGED caller
    /\ UNCHANGED <<created, queueVars, timerVars>>

\* What krhino_timer_stop returns is not looked at.
work_cancel_stop(c) ==
    /\ caller[c].op = "stop"
    /\ commands' = IF Len(commands) < MsgNum
                   THEN Append(commands, [work |-> caller[c].work, queue |-> None])
                   ELSE commands
    /\ caller' = [caller EXCEPT ![c] = Idle]
    /\ UNCHANGED <<created, queueVars, armed, expired>>

\* Mutant: a work that is queued is cancelled too.
work_cancel_queued(c) ==
    /\ caller[c].op = "cancel"
    /\ LET w == caller[c].work IN
       IF work_current[caller[c].queue] # w
       THEN /\ work_list' = klist_rm_init(work_list, w)
            /\ wq' = [wq EXCEPT ![w] = None]
       ELSE UNCHANGED <<work_list, wq>>
    /\ caller' = [caller EXCEPT ![c] = Idle]
    /\ UNCHANGED <<created, work_current, sem, worker, work_exit, timerVars>>

work_cancel_locked(c) ==
    /\ caller[c].op = "cancel"
    /\ LET w == caller[c].work IN
       IF work_idle(w, caller[c].queue)
       THEN /\ work_list' = klist_rm_init(work_list, w)
            /\ wq' = [wq EXCEPT ![w] = None]
       ELSE UNCHANGED <<work_list, wq>>
    /\ caller' = [caller EXCEPT ![c] = Idle]
    /\ UNCHANGED <<created, work_current, sem, worker, work_exit, timerVars>>

-----------------------------------------------------------------------------
(* The timer task, as far as it is about the timers of works (RhinoTimer) *)

timer_command ==
    /\ expired = None /\ commands # <<>>
    /\ armed' = [armed EXCEPT ![Head(commands).work] = Head(commands).queue]
    /\ commands' = Tail(commands)
    /\ UNCHANGED <<created, queueVars, caller, expired>>

\* The callback of a timer that is due; the work is left alone when it runs or is queued.
work_timer_cb(w) ==
    /\ expired = None /\ armed[w] # None
    /\ LET q == armed[w] IN
       IF work_idle(w, q)
       THEN put(w, q) /\ expired' = q
       ELSE UNCHANGED <<work_list, wq, work_exit, expired>>
    /\ armed' = [armed EXCEPT ![w] = None]
    /\ UNCHANGED <<created, work_current, sem, worker, caller, commands>>

work_timer_give ==
    /\ expired # None
    /\ sem_give(expired)
    /\ expired' = None
    /\ UNCHANGED <<created, work_list, work_current, worker, work_exit, wq, caller, commands,
                   armed>>

-----------------------------------------------------------------------------
Next ==
    \/ \E q \in Queue : krhino_workqueue_create(q) \/ worker_task(q)
    \/ \E c \in Caller :
          \/ \E w \in Work, q \in Queue : krhino_work_run(c, w, q)
          \/ \E w \in Work : krhino_work_cancel(c, w)
          \/ work_give(c) \/ work_cancel_stop(c) \/ work_cancel_locked(c)
    \/ timer_command \/ (\E w \in Work : work_timer_cb(w)) \/ work_timer_give

Spec == Init /\ [][Next]_vars

\* Calls go on, the timer task and the workers are scheduled, handlers return, and a timer
\* that is started expires, unless it is started again or stopped first.
Fairness ==
    /\ \A c \in Caller : WF_vars(work_give(c) \/ work_cancel_stop(c) \/ work_cancel_locked(c))
    /\ WF_vars(timer_command) /\ WF_vars(work_timer_give)
    /\ \A w \in Work : SF_vars(work_timer_cb(w))
    /\ \A q \in Queue : WF_vars(worker_task(q))

FairSpec == Spec /\ Fairness

-----------------------------------------------------------------------------
(* Correctness *)

Givers(q) == {c \in Caller : caller[c] = Give(q)}

\* There are as many works on a list as units for its worker, given, about to be given, or
\* taken.  With fewer works the worker, which does not look, takes the head of the list
\* for one; with more, the last one stays for ever.
UnitPerWork ==
    \A q \in Queue :
        Len(work_list[q]) = sem[q] + Cardinality(Givers(q))
                                   + (IF expired = q THEN 1 ELSE 0)
                                   + (IF worker[q] = "get" THEN 1 ELSE 0)

\* work_exit says whether a work is on a list, and it is on one list, once: a work is moved
\* from list to list without a look at where it is, and tasks, the timer and workers do so.
WorksQueuedOnce ==
    /\ \A w \in Work : w \in work_exit <=>
                        \E q \in Queue : \E i \in 1 .. Len(work_list[q]) : work_list[q][i] = w
    /\ \A q, r \in Queue : \A i \in 1 .. Len(work_list[q]), j \in 1 .. Len(work_list[r]) :
          work_list[q][i] = work_list[r][j] => q = r /\ i = j

\* The handler of a work that is queued is called.
QueuedWorkRuns == \A w \in Work : w \in work_exit ~> w \notin work_exit
=============================================================================
