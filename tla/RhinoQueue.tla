----------------------------- MODULE RhinoQueue ------------------------------
(***************************************************************************)
(* Message queues (k_queue.c), with every call of RhinoTask going on       *)
(* around them.  The objects of the kernel state are the queues.  A        *)
(* message is a pointer, and the ring buffer, of messages of that one      *)
(* size, is a sequence: what RhinoRingBuf is shown to be.  The count of    *)
(* the messages is kept apart from it, as in the code.                     *)
(*                                                                         *)
(* The loops over all waiters run with interrupts off and are part of the  *)
(* action of the call.  Queues of the heap differ in where their memory is *)
(* from, and peak_num is a statistic; both are left out.                   *)
(***************************************************************************)
EXTENDS RhinoTask

CONSTANTS
    Msg, NoMsg,   \* the messages, and NULL
    Size,         \* msg_q.size
    Deletable     \* the queues programs delete

ASSUME QueueAssumption ==
    /\ NoMsg \notin Msg
    /\ Size \in Nat \ {0}
    /\ Deletable \subseteq Obj

VARIABLES
    ringbuf,   \* ringbuf[q]: the messages in the ring buffer
    cur_num,   \* cur_num[q]: how many there are, by the queue's own count
    exists,    \* the queues with obj_type = RHINO_QUEUE_OBJ_TYPE
    msg,       \* msg[t]: the message that was handed to t (ktask_t.msg)
    out        \* what the last receive that did not wait has stored in *msg

queueVars == <<k, pc, irq_off, ringbuf, cur_num, exists, msg, out>>

QueueInit ==
    /\ SchedInit
    /\ ringbuf = [q \in Obj |-> <<>>]
    /\ cur_num = [q \in Obj |-> 0]
    /\ exists = {}
    /\ msg = [t \in Task |-> NoMsg]
    /\ out = NoMsg

\* A queue is created, also in the memory of one that was deleted.
krhino_queue_create(q) ==
    /\ TaskCalls(k.active)
    /\ q \notin exists
    /\ exists' = exists \cup {q}
    /\ ringbuf' = [ringbuf EXCEPT ![q] = <<>>]
    /\ cur_num' = [cur_num EXCEPT ![q] = 0]
    /\ UNCHANGED <<k, pc, irq_off, msg, out>>

\* The count is left as it is, until the queue is created again.
krhino_queue_del(q) ==
    /\ TaskCalls(k.active)
    /\ q \in exists \cap Deletable
    /\ exists' = exists \ {q}
    /\ ringbuf' = [ringbuf EXCEPT ![q] = <<>>]
    /\ critical_exit_sched(end_pend_each(k, k.blk_list[q], "BLK_DEL"))
    /\ UNCHANGED <<irq_off, cur_num, msg, out>>

krhino_queue_flush(q) ==
    /\ TaskCalls(k.active)
    /\ q \in exists
    /\ cur_num' = [cur_num EXCEPT ![q] = 0]
    /\ ringbuf' = [ringbuf EXCEPT ![q] = <<>>]
    /\ UNCHANGED <<k, pc, irq_off, exists, msg, out>>

-----------------------------------------------------------------------------
(* Sending; a queue that is full refuses the message (RHINO_QUEUE_FULL) before the
   waiting tasks are looked at. *)

msg_accepted(q) == AnyCalls /\ q \in exists /\ cur_num[q] < Size

\* Mutant: the message is kept, waiting tasks or not.
msg_send_keep_first(q, m) ==
    /\ msg_accepted(q)
    /\ cur_num' = [cur_num EXCEPT ![q] = @ + 1]
    /\ ringbuf' = [ringbuf EXCEPT ![q] = Append(@, m)]
    /\ UNCHANGED <<k, pc, irq_off, exists, msg, out>>

msg_send_keep(q, m) ==
    /\ msg_accepted(q)
    /\ k.blk_list[q] = <<>>
    /\ cur_num' = [cur_num EXCEPT ![q] = @ + 1]
    /\ ringbuf' = [ringbuf EXCEPT ![q] = Append(@, m)]
    /\ UNCHANGED <<k, pc, irq_off, exists, msg, out>>

\* Mutant: all these tasks are woken, but only the first one is handed the message.
msg_send_wake_one(q, m, tasks) ==
    /\ msg_accepted(q)
    /\ critical_exit_sched(end_pend_each(k, tasks, "BLK_FINISH"))
    /\ msg' = [msg EXCEPT ![Head(tasks)] = m]
    /\ UNCHANGED <<irq_off, ringbuf, cur_num, exists, out>>

\* task_msg_recv for each of these tasks.
msg_send_wake(q, m, tasks) ==
    /\ msg_accepted(q)
    /\ critical_exit_sched(end_pend_each(k, tasks, "BLK_FINISH"))
    /\ msg' = [t \in Task |-> IF t \in ToSet(tasks) THEN m ELSE msg[t]]
    /\ UNCHANGED <<irq_off, ringbuf, cur_num, exists, out>>

krhino_queue_back_send(q, m) ==
    \/ msg_send_keep(q, m)
    \/ k.blk_list[q] # <<>> /\ msg_send_wake(q, m, <<Head(k.blk_list[q])>>)

krhino_queue_all_send(q, m) ==
    \/ msg_send_keep(q, m)
    \/ k.blk_list[q] # <<>> /\ msg_send_wake(q, m, k.blk_list[q])

-----------------------------------------------------------------------------
(* Receiving, in an interrupt handler only without waiting.  What a task reads
   after its wait is msg[t] when blk_state is BLK_FINISH, and NULL otherwise. *)

queue_recv_now(q) ==
    /\ AnyCalls
    /\ q \in exists
    /\ cur_num[q] > 0
    /\ cur_num' = [cur_num EXCEPT ![q] = @ - 1]
    /\ IF ringbuf[q] = <<>> THEN UNCHANGED <<ringbuf, out>>
       ELSE out' = Head(ringbuf[q]) /\ ringbuf' = [ringbuf EXCEPT ![q] = Tail(@)]
    /\ UNCHANGED <<k, pc, irq_off, exists, msg>>

\* With ticks = RHINO_NO_WAIT the call returns an error instead.
queue_recv_wait(q, ticks) ==
    /\ TaskCalls(k.active)
    /\ q \in exists
    /\ cur_num[q] = 0
    /\ k.sched_lock = 0
    /\ critical_exit_block(pend_to_blk_obj(k, q, k.active, ticks))
    /\ UNCHANGED <<irq_off, ringbuf, cur_num, exists, msg, out>>

krhino_queue_recv(q) ==
    \/ queue_recv_now(q)
    \/ \E ticks \in Ticks \cup {WaitForever} : queue_recv_wait(q, ticks)

-----------------------------------------------------------------------------
QueueCalls(q) ==
    \/ krhino_queue_create(q)
    \/ krhino_queue_del(q)
    \/ krhino_queue_flush(q)
    \/ krhino_queue_recv(q)
    \/ \E m \in Msg : krhino_queue_back_send(q, m) \/ krhino_queue_all_send(q, m)

QueueNext ==
    \/ TaskNext /\ UNCHANGED <<ringbuf, cur_num, exists, msg, out>>
    \/ \E q \in Obj : QueueCalls(q)

QueueSpec == QueueInit /\ [][QueueNext]_queueVars

-----------------------------------------------------------------------------
(* Correctness *)

\* No task waits for a queue that holds messages: whoever blocks found none, and
\* every message sent while somebody waits goes to a waiter.  msg_send relies on it
\* when it refuses a message by the count alone, and when it hands a message past
\* the ring buffer without asking whether older ones are in it.
NoReceiverBesideMessage ==
    \A q \in exists : k.blk_list[q] # <<>> => cur_num[q] = 0 /\ ringbuf[q] = <<>>

\* Each queue is a message queue: pend lists, priorities, loops over waiters, timeouts
\* and deletions of tasks and queues included.
Messages(q) == INSTANCE MessageQueue
                   WITH content  <- ringbuf[q],
                        waiting  <- {t \in Task : k.blk_obj[t] = q},
                        inbox    <- msg,
                        outcome  <- k.blk_state,
                        Room     <- Size,
                        Outcomes <- BlkState,
                        Granted  <- "BLK_FINISH"

\* Messages(q)!Spec for every q, as one initial predicate and one action property.
ImplementsMessageQueue ==
    /\ \A q \in Obj : Messages(q)!Init
    /\ [][\A q \in Obj : [Messages(q)!Next]_(Messages(q)!vars)]_queueVars

=============================================================================
