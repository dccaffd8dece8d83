----------------------------- MODULE RhinoTimer ------------------------------
(***************************************************************************)
(* Software timers (k_timer.c).  Programs send commands to the timer task, *)
(* which keeps the active timers in a list, sleeps until the first one is  *)
(* due and calls its callback.                                             *)
(*                                                                         *)
(* Times are kept relative to the tick count, sys_time_t: due[t] is        *)
(* timer->match minus the count, and lag counts the ticks since the timer  *)
(* task last read it: during timer_cb_proc, since it set g_timer_count,    *)
(* and before and during a receive, since it computed the delay.  Of a     *)
(* timer that is late, all that matters is that it is: lateness is counted *)
(* up to MaxLate.                                                          *)
(* The argument of a callback is left out, and with it TIMER_ARG_CHG.      *)
(***************************************************************************)
EXTENDS Integers, Sequences, SequencesExt, KList

CONSTANTS
    Timer,
    Settings,     \* pairs <<first, round>> given to krhino_timer_create and _change
    MsgNum,       \* RHINO_CONFIG_TIMER_MSG_NUM
    MaxLag,       \* bounds the ticks that pass during one timer_cb_proc, and those between
                  \* the computation of a delay and the wait for it
    MaxLate,      \* the ticks up to which the lateness of a timer is counted
    None

Forever == -1     \* RHINO_WAIT_FOREVER
TickModulus == 1000    \* stands for 2^64: more than any difference of times here

ASSUME TimerAssumption ==
    /\ MsgNum \in Nat \ {0}
    /\ MaxLag \in Nat /\ MaxLate \in (MaxLag + 1) .. TickModulus \div 4
    /\ Settings \subseteq (1 .. TickModulus \div 4) \X (0 .. TickModulus \div 4)
    /\ Settings # {}
    /\ None \notin Timer

VARIABLES
    exists,       \* the timers with obj_type = RHINO_TIMER_OBJ_TYPE
    setting,      \* setting[t]: <<init_count, round_ticks>>
    active,       \* the timers in state TIMER_ACTIVE
    due,          \* due[t]: match, for a timer in the list
    list,         \* g_timer_head
    lag,          \* ticks since the timer task read the count, but for those it waited
    queue,        \* g_timer_queue: commands, at most MsgNum
    pc,           \* where the timer task is
    left,         \* the ticks it still sleeps; or those it is about to sleep
    cb_msg,       \* the command it received, or None after a timeout
    cursor,       \* q of timer_cb_proc: the next timer to look at; None: the list head
    passed        \* history: the timers in front of which another was linked because the
                  \* first of them was overdue, and that were not linked again since

timerVars ==
    <<exists, setting, active, due, list, lag, queue, pc, left, cb_msg, cursor, passed>>

Command == [cmd : {"start", "stop", "change", "restart", "del"}, timer : Timer,
            setting : Settings \cup {None}]

TimerInit ==
    /\ exists = {} /\ active = {} /\ passed = {}
    /\ setting = [t \in Timer |-> CHOOSE s \in Settings : TRUE]
    /\ due = [t \in Timer |-> 0]
    /\ list = <<>>
    /\ lag = 0
    /\ queue = <<>>
    /\ pc = "outer" /\ left = 0 /\ cb_msg = None /\ cursor = None

-----------------------------------------------------------------------------
(* The list *)

First(t) == setting[t][1]
Round(t) == setting[t][2]

\* Times behind g_timer_count, which is at most lag behind the tick count.
Unsigned(n) == n % TickModulus

\* Mutant: a timer goes to the end of the list.
timer_list_append(l, d, lg, t, remain) == Append(l, t)

\* Mutant: the time that others have left is reckoned from the tick count, not from
\* g_timer_count.
timer_list_pri_insert_now(l, d, lg, t, remain) ==
    klist_insert(l, {i \in DOMAIN l : Unsigned(d[l[i]]) > remain}, t)

\* timer_list_pri_insert, with times d and lag lg: before the first timer whose time from
\* g_timer_count on, an unsigned difference, is longer.
timer_list_pri_insert(l, d, lg, t, remain) ==
    klist_insert(l, {i \in DOMAIN l : Unsigned(d[l[i]] + lg) > remain}, t)

\* The timers this puts behind t because the first of them is overdue: an unsigned
\* difference takes it for one that is far away.
Passed(l, d, lg, remain) ==
    LET p == FirstOf(l, {i \in DOMAIN l : Unsigned(d[l[i]] + lg) > remain})
    IN {l[i] : i \in {j \in DOMAIN l : j >= p /\ d[l[p]] + lg < 0}}

timer_list_rm(l, t) == klist_rm(l, t)

\* The timer that follows t in the list; None at its end.
Follows(l, t) ==
    LET i == CHOOSE j \in 1 .. Len(l) : l[j] = t IN IF i = Len(l) THEN None ELSE l[i + 1]

-----------------------------------------------------------------------------
(* Calls of programs, interrupts and callbacks *)

\* Mutant: a command goes to the buffer also when the timer task waits.
timer_send_buffered(c) ==
    /\ Len(queue) < MsgNum
    /\ queue' = Append(queue, c)
    /\ UNCHANGED <<cb_msg, pc>>

\* krhino_buf_queue_send: a waiting timer task gets the command past the buffer.  A send to a
\* full queue returns RHINO_BUF_QUEUE_FULL and leaves everything as it is.
timer_send(c) ==
    IF pc = "blocked"
    THEN /\ cb_msg' = c
         /\ pc' = "received"
         /\ UNCHANGED queue
    ELSE /\ Len(queue) < MsgNum
         /\ queue' = Append(queue, c)
         /\ UNCHANGED <<cb_msg, pc>>

krhino_timer_send(c) ==
    /\ c.timer \in exists
    /\ timer_send(c)
    /\ UNCHANGED <<exists, setting, active, due, list, lag, left, cursor, passed>>

krhino_timer_start(t)     == krhino_timer_send([cmd |-> "start", timer |-> t, setting |-> None])
krhino_timer_stop(t)      == krhino_timer_send([cmd |-> "stop", timer |-> t, setting |-> None])
krhino_timer_del(t)       == krhino_timer_send([cmd |-> "del", timer |-> t, setting |-> None])
krhino_timer_change(t, s) == krhino_timer_send([cmd |-> "change", timer |-> t, setting |-> s])
krhino_timer_arg_change_auto(t) ==
    krhino_timer_send([cmd |-> "restart", timer |-> t, setting |-> None])

\* A timer is created in memory no command waits for.  With auto_run it is started, if the
\* queue takes the command.
krhino_timer_create(t, s, auto_run) ==
    /\ t \notin exists
    /\ \A i \in 1 .. Len(queue) : queue[i].timer # t
    /\ pc = "received" /\ cb_msg # None => cb_msg.timer # t
    /\ exists' = exists \cup {t}
    /\ setting' = [setting EXCEPT ![t] = s]
    /\ active' = active \ {t}
    /\ IF auto_run /\ (pc = "blocked" \/ Len(queue) < MsgNum)
       THEN timer_send([cmd |-> "start", timer |-> t, setting |-> None])
       ELSE UNCHANGED <<queue, cb_msg, pc>>
    /\ UNCHANGED <<due, list, lag, left, cursor, passed>>

-----------------------------------------------------------------------------
(* Commands.  What cmd_proc changes; g_timer_count is up to date. *)

Timers == [exists |-> exists, setting |-> setting, active |-> active, due |-> due,
           list |-> list, passed |-> passed]

cmd_start(s, t) ==
    IF t \notin s.exists \/ t \in s.active THEN s
    ELSE [s EXCEPT
            !.due[t] = s.setting[t][1],
            !.list = timer_list_pri_insert(@, s.due, 0, t, s.setting[t][1]),
            !.passed = @ \cup Passed(s.list, s.due, 0, s.setting[t][1]),
            !.active = @ \cup {t}]

cmd_stop(s, t) ==
    IF t \notin s.exists \cap s.active THEN s
    ELSE [s EXCEPT !.list = timer_list_rm(@, t), !.active = @ \ {t}, !.due[t] = 0,
                   !.passed = @ \ {t}]

\* A timer that is active is neither changed nor deleted.
cmd_change(s, c) ==
    IF c.timer \notin s.exists \ s.active THEN s ELSE [s EXCEPT !.setting[c.timer] = c.setting]

cmd_del(s, t) ==
    IF t \notin s.exists \ s.active THEN s ELSE [s EXCEPT !.exists = @ \ {t}]

timer_cmd_proc(s, c) ==
    CASE c.cmd = "start"   -> cmd_start(s, c.timer)
      [] c.cmd = "stop"    -> cmd_stop(s, c.timer)
      [] c.cmd = "change"  -> cmd_change(s, c)
      [] c.cmd = "restart" -> cmd_start(cmd_stop(s, c.timer), c.timer)
      [] c.cmd = "del"     -> cmd_del(s, c.timer)

Becomes(s) ==
    /\ exists' = s.exists /\ setting' = s.setting /\ active' = s.active
    /\ due' = s.due /\ list' = s.list /\ passed' = s.passed

-----------------------------------------------------------------------------
(* The timer task *)

\* krhino_buf_queue_recv with a wait of ticks.
buf_queue_recv(ticks) ==
    IF queue # <<>>
    THEN /\ cb_msg' = Head(queue)
         /\ queue' = Tail(queue)
         /\ pc' = "received"
         /\ left' = 0
    ELSE /\ pc' = "blocked"
         /\ left' = ticks
         /\ UNCHANGED <<cb_msg, queue>>

\* The receive at the head of the outer loop, without a limit of time.
timer_task_outer ==
    /\ pc = "outer"
    /\ buf_queue_recv(Forever)
    /\ UNCHANGED <<exists, setting, active, due, list, lag, cursor, passed>>

\* The receive in the inner loop, with the delay that was computed before.
timer_task_inner ==
    /\ pc = "inner"
    /\ buf_queue_recv(left)
    /\ UNCHANGED <<exists, setting, active, due, list, lag, cursor, passed>>

\* The receive has returned: g_timer_count is set, the command is carried out, and timers
\* that are due are looked for.
timer_task_received ==
    /\ pc = "received"
    /\ lag' = 0
    /\ Becomes(IF cb_msg = None THEN Timers ELSE timer_cmd_proc(Timers, cb_msg))
    /\ pc' = "walk"
    /\ cursor' = IF list' = <<>> THEN None ELSE Head(list')
    /\ cb_msg' = None
    /\ left' = 0
    /\ UNCHANGED queue

\* Mutant: the task waits for commands only.
timer_task_head_forever ==
    /\ pc = "head"
    /\ lag' = 0
    /\ IF list # <<>> /\ due[Head(list)] <= 0
       THEN pc' = "walk" /\ cursor' = Head(list)
       ELSE pc' = "outer" /\ cursor' = None
    /\ UNCHANGED <<exists, setting, active, due, list, queue, left, cb_msg, passed>>

\* The head of the inner loop.
timer_task_head ==
    /\ pc = "head"
    /\ IF list = <<>>
       THEN pc' = "outer" /\ UNCHANGED <<left, cursor>>
       ELSE IF due[Head(list)] > 0
            THEN pc' = "inner" /\ left' = due[Head(list)] /\ UNCHANGED cursor
            ELSE pc' = "walk" /\ cursor' = Head(list) /\ UNCHANGED left
    /\ lag' = 0
    /\ UNCHANGED <<exists, setting, active, due, list, queue, cb_msg, passed>>

\* Mutant: a timer that fires once stays active.
timer_expires_active(t) ==
    LET rest == timer_list_rm(list, t)
        again == timer_list_pri_insert(rest, due, lag, t, Round(t))
    IN
    IF Round(t) > 0
    THEN /\ list' = again
         /\ due' = [due EXCEPT ![t] = Round(t) - lag]
         /\ passed' = (passed \cup Passed(rest, due, lag, Round(t))) \ {t}
         /\ cursor' = Follows(again, t)
         /\ UNCHANGED active
    ELSE /\ list' = rest
         /\ cursor' = Follows(list, t)
         /\ UNCHANGED <<due, active, passed>>

\* One round of timer_cb_proc: the callback, then the timer leaves the list or goes to its
\* new place, behind which the walk goes on.
timer_expires(t) ==
    LET rest == timer_list_rm(list, t)
        again == timer_list_pri_insert(rest, due, lag, t, Round(t))
    IN
    IF Round(t) > 0
    THEN /\ list' = again
         /\ due' = [due EXCEPT ![t] = Round(t) - lag]
         /\ passed' = (passed \cup Passed(rest, due, lag, Round(t))) \ {t}
         /\ cursor' = Follows(again, t)
         /\ UNCHANGED active
    ELSE /\ list' = rest
         /\ due' = [due EXCEPT ![t] = 0]
         /\ active' = active \ {t}
         /\ passed' = passed \ {t}
         /\ cursor' = Follows(list, t)

timer_cb_proc ==
    /\ pc = "walk"
    /\ IF cursor # None /\ due[cursor] + lag <= 0
       THEN timer_expires(cursor) /\ UNCHANGED pc
       ELSE /\ pc' = "head"
            /\ cursor' = None
            /\ UNCHANGED <<list, due, active, passed>>
    /\ UNCHANGED <<exists, setting, lag, queue, left, cb_msg>>

\* A tick of the system, which ends the wait of the timer task when its time is over.
tick ==
    /\ pc \in {"walk", "inner"} => lag < MaxLag
    /\ lag' = IF pc \in {"walk", "inner"} THEN lag + 1 ELSE lag
    /\ due' = [t \in Timer |-> IF t \in active /\ due[t] > - MaxLate
                               THEN due[t] - 1 ELSE due[t]]
    /\ IF pc = "blocked" /\ left # Forever
       THEN /\ left' = left - 1
            /\ IF left = 1 THEN pc' = "received" /\ cb_msg' = None ELSE UNCHANGED <<pc, cb_msg>>
       ELSE UNCHANGED <<left, pc, cb_msg>>
    /\ UNCHANGED <<exists, setting, active, list, queue, cursor, passed>>

-----------------------------------------------------------------------------
TimerCalls(t) ==
    \/ \E s \in Settings, auto_run \in BOOLEAN : krhino_timer_create(t, s, auto_run)
    \/ krhino_timer_start(t) \/ krhino_timer_stop(t) \/ krhino_timer_arg_change_auto(t)
    \/ \E s \in Settings : krhino_timer_change(t, s)
    \/ krhino_timer_del(t)

timer_task ==
    \/ timer_task_outer \/ timer_task_received \/ timer_task_head \/ timer_task_inner
    \/ timer_cb_proc

TimerNext == (\E t \in Timer : TimerCalls(t)) \/ timer_task \/ tick

TimerSpec == TimerInit /\ [][TimerNext]_timerVars

\* The timer task is scheduled, and time goes on.
TimerFairSpec == TimerSpec /\ WF_timerVars(timer_task) /\ WF_timerVars(tick)

-----------------------------------------------------------------------------
(* Properties *)

\* The list holds the active timers, each of them once: k_timer.c unlinks and links nodes
\* by timer_state alone.
TimerListOK ==
    /\ \A t \in Timer : t \in active <=> \E i \in 1 .. Len(list) : list[i] = t
    /\ \A i, j \in 1 .. Len(list) : list[i] = list[j] => i = j
    /\ active \subseteq exists
    /\ cursor # None => cursor \in active

\* The timer task never sleeps past a timer, though it sleeps for the first one's time and
\* ticks come before it does: it wakes up when the timer is due, or later by the ticks
\* between the computation of the delay and the wait.  This fails only for a timer that
\* was passed over.
SleepCoversTimers ==
    pc = "blocked" =>
        \A t \in active : left # Forever /\ (t \notin passed => left <= due[t] + lag)

\* A timer is behind all that are due before it, unless it was passed over.
TimersInOrder ==
    \A i, j \in 1 .. Len(list) :
        i < j /\ list[j] \notin passed => due[list[i]] <= due[list[j]]

\* "sort by remain time", as the comment in cmd_proc puts it.
SortedByRemain ==
    \A i, j \in 1 .. Len(list) : i < j => due[list[i]] <= due[list[j]]

\* A timer whose time is over is called, or stopped, whatever the programs send meanwhile
\* and however many ticks pass, unless it is passed over.
DueTimerExpires ==
    \A t \in Timer :
        (t \in active /\ due[t] <= 0) ~> (t \notin active \/ due[t] > 0 \/ t \in passed)

\* Once the timer task keeps up with time, so that it sleeps again before the next tick.
KeepsUp == <>[][tick => pc = "blocked"]_timerVars

\* The timer task receives what is in the queue, and the queue is first in, first out: a
\* command that krhino_timer_start and the like reported as sent is carried out.  Timers
\* that are due come first, so this needs a timer task that keeps up.
CommandsCarriedOut == KeepsUp => (queue # <<>> ~> cb_msg # None)
=============================================================================
