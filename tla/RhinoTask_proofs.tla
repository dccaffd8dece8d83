--------------------------- MODULE RhinoTask_proofs ---------------------------
(***************************************************************************)
(* The scheduler, the calls of task management, and waiting, proved        *)
(* correct for any set of tasks, any number of priorities and any bounds.  *)
(*                                                                         *)
(* The first part is about the internal functions of RhinoKernel: what     *)
(* they do to the ready queue (the lists hold the ready tasks, highest_pri *)
(* is right), for every record they are called with, and which of them     *)
(* change the state of a task.  The second is about the actions of         *)
(* RhinoTask.  The inductive invariant is SchedInv.  For each action there *)
(* is a lemma that the action preserves it and keeps the core of a locked  *)
(* scheduler (Kept); SchedInvStep puts them together and the theorems      *)
(* follow.                                                                 *)
(*                                                                         *)
(* The third part is about waiting: the pend lists (k_pend.c) and the tick *)
(* list (k_tick.c), through every function that links or unlinks a task    *)
(* and every call.  Its invariant, WaitOK, says of the kernel record that  *)
(* every pend list holds the tasks whose blk_obj it belongs to, sorted by  *)
(* priority, that the tick list is sorted by the ticks that are left, and  *)
(* that the state of each task says which of these lists it is on.         *)
(* Ungranted says more of one call than that it keeps the invariant: it    *)
(* ends the wait of at most one task, and not with what the task waited    *)
(* for.  The modules of the kernel objects need that of every call but     *)
(* their own.                                                              *)
(***************************************************************************)
EXTENDS RhinoTask, KList_proofs

-----------------------------------------------------------------------------
(* Priorities *)

\* Priorities are numbers.
LEMMA PriNat == Pri \subseteq Nat /\ Pri \subseteq Int /\ IdlePri \in Pri
BY PriAssumption DEF Pri

\* The first set bit of task_bit_map is the most urgent priority with a ready task.
LEMMA FirstReadyFacts ==
    ASSUME NEW ready \in [Pri -> Seq(Task)], NEW q \in Pri, ready[q] # <<>>
    PROVE  /\ FirstReady(ready) \in Pri
           /\ ready[FirstReady(ready)] # <<>>
           /\ \A p \in Pri : ready[p] # <<>> => FirstReady(ready) <= p
<1> DEFINE T == {p \in Pri : ready[p] # <<>>}
<1>1. T \in SUBSET Nat /\ T # {}
  BY PriNat
<1>2. PICK m \in T : \A n \in T : m <= n
  BY <1>1, MinExists
<1>3. /\ m \in Pri /\ ready[m] # <<>>
      /\ \A p \in Pri : ready[p] # <<>> => m <= p
  BY <1>2
<1> QED
  BY <1>3 DEF FirstReady

-----------------------------------------------------------------------------
(* The ready queue.  ReadyLists: the lists hold the tasks of D, each on the list
   of its priority, and h is the first priority with a task. *)

ReadyLists(r, h, prio, D) ==
    /\ \A p \in Pri : Holds(r[p], {t \in D : prio[t] = p})
    /\ r[h] # <<>>
    /\ \A p \in Pri : r[p] # <<>> => h <= p

OnReady(kk, D) == ReadyLists(kk.ready, kk.highest_pri, kk.prio, D)

\* kk2 is kk1 with other ready lists, which hold the tasks of D.
Requeued(kk1, kk2, D) ==
    \E r \in [Pri -> Seq(Task)], h \in Pri :
        /\ kk2 = [kk1 EXCEPT !.ready = r, !.highest_pri = h]
        /\ ReadyLists(r, h, kk1.prio, D)

\* t joins the ready list of its priority, which becomes l.
LEMMA ReadyListGrows ==
    ASSUME NEW kk \in Kernel, NEW D \in SUBSET Task, OnReady(kk, D),
           NEW t \in Task, t \notin D, NEW l \in Seq(Task), l # <<>>,
           Holds(l, ToSet(kk.ready[kk.prio[t]]) \cup {t}),
           NEW p, p = kk.prio[t], NEW kk2,
           kk2 = [kk EXCEPT !.ready[p] = l,
                            !.highest_pri = IF kk.ready[p] = <<>> /\ p < @ THEN p ELSE @]
    PROVE  Requeued(kk, kk2, D \cup {t})
<1> DEFINE r == [kk.ready EXCEPT ![p] = l]
           h == IF kk.ready[p] = <<>> /\ p < kk.highest_pri THEN p ELSE kk.highest_pri
<1>1. /\ kk.ready \in [Pri -> Seq(Task)] /\ kk.highest_pri \in Pri
      /\ kk.prio \in [Task -> Pri] /\ p \in Pri
  BY DEF Kernel
<1>8. p \in Int /\ kk.highest_pri \in Int
  BY <1>1, PriNat
<1>2. kk2 = [kk EXCEPT !.ready = r, !.highest_pri = h]
  BY <1>1 DEF Kernel
<1>3. \A q \in Pri : Holds(kk.ready[q], {u \in D : kk.prio[u] = q})
  BY DEF OnReady, ReadyLists
<1>6. r \in [Pri -> Seq(Task)] /\ h \in Pri
  BY <1>1
<1>7. ReadyLists(r, h, kk.prio, D \cup {t})
  <2>1. ASSUME NEW q \in Pri PROVE Holds(r[q], {u \in D \cup {t} : kk.prio[u] = q})
    <3>1. CASE q = p
      <4>1. {u \in D \cup {t} : kk.prio[u] = q} = ToSet(kk.ready[p]) \cup {t}
        BY <1>3, <3>1 DEF Holds
      <4> QED
        BY <1>1, <3>1, <4>1
    <3>2. CASE q # p
      <4>1. {u \in D \cup {t} : kk.prio[u] = q} = {u \in D : kk.prio[u] = q}
        BY <3>2
      <4> QED
        BY <1>1, <1>3, <3>2, <4>1
    <3> QED
      BY <3>1, <3>2
  <2>2. /\ kk.ready[kk.highest_pri] # <<>>
        /\ \A q \in Pri : kk.ready[q] # <<>> => kk.highest_pri <= q
    BY DEF OnReady, ReadyLists
  <2>3. r[h] # <<>>
    BY <1>1, <2>2
  <2>4. h <= kk.highest_pri /\ h <= p
    <3>1. CASE kk.ready[p] = <<>>
      BY <1>8, <3>1
    <3>2. CASE kk.ready[p] # <<>>
      <4>1. h = kk.highest_pri /\ kk.highest_pri <= p
        BY <1>1, <2>2, <3>2
      <4> QED
        BY <1>8, <4>1
    <3> QED
      BY <3>1, <3>2
  <2>5. ASSUME NEW q \in Pri, r[q] # <<>> PROVE h <= q
    <3>1. CASE q = p
      BY <2>4, <3>1
    <3>2. CASE q # p
      <4>1. kk.ready[q] # <<>>
        BY <1>1, <2>5, <3>2
      <4>2. h \in Int /\ q \in Int /\ kk.highest_pri \in Int
        BY <1>1, <1>6, PriNat
      <4>3. kk.highest_pri <= q
        BY <2>2, <4>1
      <4> HIDE DEF h
      <4> QED
        BY <2>4, <4>2, <4>3
    <3> QED
      BY <3>1, <3>2
  <2> QED
    BY <2>1, <2>3, <2>5 DEF ReadyLists
<1> HIDE DEF r, h
<1> QED
  BY <1>2, <1>6, <1>7 DEF Requeued

\* The ready list of a task's priority has the task if it is one of those that are
\* queued.
LEMMA ReadyListFacts ==
    ASSUME NEW kk \in Kernel, NEW D \in SUBSET Task, OnReady(kk, D), NEW t \in Task
    PROVE  /\ kk.prio[t] \in Pri
           /\ kk.ready[kk.prio[t]] \in Seq(Task)
           /\ IsInjective(kk.ready[kk.prio[t]])
           /\ t \in ToSet(kk.ready[kk.prio[t]]) <=> t \in D
<1>1. kk.prio[t] \in Pri /\ kk.ready[kk.prio[t]] \in Seq(Task)
  BY DEF Kernel
<1>2. Holds(kk.ready[kk.prio[t]], {u \in D : kk.prio[u] = kk.prio[t]})
  BY <1>1 DEF OnReady, ReadyLists
<1> QED
  BY <1>1, <1>2 DEF Holds

\* ready_list_add_tail queues one more task and keeps highest_pri right.
LEMMA AddTail ==
    ASSUME NEW kk \in Kernel, NEW D \in SUBSET Task, OnReady(kk, D),
           NEW t \in Task, t \notin D
    PROVE  Requeued(kk, ready_list_add_tail(kk, t), D \cup {t})
<1> DEFINE p == kk.prio[t]
           l == Append(kk.ready[p], t)
<1>1. l \in Seq(Task) /\ l # <<>> /\ Holds(l, ToSet(kk.ready[p]) \cup {t})
  BY ReadyListFacts, AppendHolds
<1>2. ready_list_add_tail(kk, t)
        = [kk EXCEPT !.ready[p] = l,
                     !.highest_pri = IF kk.ready[p] = <<>> /\ p < @ THEN p ELSE @]
  BY DEF ready_list_add_tail, Kernel
<1> HIDE DEF l
<1> QED
  BY <1>1, <1>2, ReadyListGrows

\* ready_list_add_head does so too.
LEMMA AddHead ==
    ASSUME NEW kk \in Kernel, NEW D \in SUBSET Task, OnReady(kk, D),
           NEW t \in Task, t \notin D
    PROVE  Requeued(kk, ready_list_add_head(kk, t), D \cup {t})
<1> DEFINE p == kk.prio[t]
           l == Cons(t, kk.ready[p])
<1>1. l \in Seq(Task) /\ l # <<>> /\ Holds(l, ToSet(kk.ready[p]) \cup {t})
  BY ReadyListFacts, ConsHolds
<1>2. ready_list_add_head(kk, t)
        = [kk EXCEPT !.ready[p] = l,
                     !.highest_pri = IF kk.ready[p] = <<>> /\ p < @ THEN p ELSE @]
  BY DEF ready_list_add_head, Kernel
<1> HIDE DEF l
<1> QED
  BY <1>1, <1>2, ReadyListGrows

\* And ready_list_add, whichever end it chooses.
LEMMA Add ==
    ASSUME NEW kk \in Kernel, NEW D \in SUBSET Task, OnReady(kk, D),
           NEW t \in Task, t \notin D
    PROVE  Requeued(kk, ready_list_add(kk, t), D \cup {t})
BY AddHead, AddTail DEF ready_list_add

\* Some other task stays ready, so that there is a highest priority.
LEMMA Rm ==
    ASSUME NEW kk \in Kernel, NEW D \in SUBSET Task, OnReady(kk, D),
           NEW t \in D, NEW u \in D \ {t}
    PROVE  Requeued(kk, ready_list_rm(kk, t), D \ {t})
<1> DEFINE p == kk.prio[t]
           l == klist_rm(kk.ready[p], t)
           r == [kk.ready EXCEPT ![p] = l]
           h == IF r[p] = <<>> /\ p = kk.highest_pri THEN FirstReady(r) ELSE kk.highest_pri
<1>1. /\ kk.ready \in [Pri -> Seq(Task)] /\ kk.highest_pri \in Pri
      /\ kk.prio \in [Task -> Pri] /\ p \in Pri
  BY DEF Kernel
<1>2. ready_list_rm(kk, t) = [kk EXCEPT !.ready = r, !.highest_pri = h]
  BY <1>1 DEF ready_list_rm, Kernel
<1>3. \A q \in Pri : Holds(kk.ready[q], {v \in D : kk.prio[v] = q})
  BY DEF OnReady, ReadyLists
<1>4. l \in Seq(Task) /\ Holds(l, ToSet(kk.ready[p]) \ {t})
  BY ReadyListFacts, KlistRmHolds
<1> HIDE DEF l
<1>5. r \in [Pri -> Seq(Task)]
  BY <1>1, <1>4
<1>6. ASSUME NEW q \in Pri PROVE Holds(r[q], {v \in D \ {t} : kk.prio[v] = q})
  <2>1. CASE q = p
    <3>1. {v \in D \ {t} : kk.prio[v] = q} = ToSet(kk.ready[p]) \ {t}
      BY <1>3, <2>1 DEF Holds
    <3> QED
      BY <1>1, <1>4, <2>1, <3>1
  <2>2. CASE q # p
    <3>1. {v \in D \ {t} : kk.prio[v] = q} = {v \in D : kk.prio[v] = q}
      BY <2>2
    <3> QED
      BY <1>1, <1>3, <2>2, <3>1
  <2> QED
    BY <2>1, <2>2
<1>7. \A q \in Pri : r[q] # <<>> => kk.ready[q] # <<>>
  <2>1. kk.ready[p] # <<>>
    BY <1>1, <1>3 DEF Holds, ToSet
  <2> QED
    BY <1>1, <2>1
<1>8. /\ kk.ready[kk.highest_pri] # <<>>
      /\ \A q \in Pri : kk.ready[q] # <<>> => kk.highest_pri <= q
  BY DEF OnReady, ReadyLists
<1>9. CASE r[p] = <<>> /\ p = kk.highest_pri
  <2>1. kk.prio[u] \in Pri /\ r[kk.prio[u]] # <<>>
    <3>1. kk.prio[u] \in Pri /\ u \in ToSet(r[kk.prio[u]])
      BY <1>1, <1>6 DEF Holds
    <3> QED
      BY <3>1 DEF ToSet
  <2> HIDE DEF r
  <2>2. h \in Pri /\ r[h] # <<>> /\ \A q \in Pri : r[q] # <<>> => h <= q
    BY <1>5, <1>9, <2>1, FirstReadyFacts
  <2> QED
    BY <1>2, <1>5, <1>6, <2>2 DEF Requeued, ReadyLists
<1>10. CASE ~(r[p] = <<>> /\ p = kk.highest_pri)
  <2>1. h = kk.highest_pri
    BY <1>10
  <2>2. r[h] # <<>>
    BY <1>1, <1>8, <1>10
  <2>3. \A q \in Pri : r[q] # <<>> => h <= q
    BY <1>7, <1>8, <2>1
  <2> HIDE DEF r, h
  <2> QED
    BY <1>1, <1>2, <1>5, <1>6, <2>1, <2>2, <2>3 DEF Requeued, ReadyLists
<1> QED
  BY <1>9, <1>10

\* ready_list_head_to_tail leaves the same tasks queued.
LEMMA HeadToTail ==
    ASSUME NEW kk \in Kernel, NEW D \in SUBSET Task, OnReady(kk, D), NEW t \in Task,
           kk.ready[kk.prio[t]] # <<>>
    PROVE  Requeued(kk, ready_list_head_to_tail(kk, t), D)
<1> DEFINE p == kk.prio[t]
           l == Append(Tail(kk.ready[p]), Head(kk.ready[p]))
           r == [kk.ready EXCEPT ![p] = l]
           h == kk.highest_pri
<1>1. /\ kk.ready \in [Pri -> Seq(Task)] /\ h \in Pri
      /\ kk.prio \in [Task -> Pri] /\ p \in Pri
  BY DEF Kernel
<1>2. ready_list_head_to_tail(kk, t) = [kk EXCEPT !.ready = r, !.highest_pri = h]
  BY <1>1 DEF ready_list_head_to_tail, Kernel
<1>3. l \in Seq(Task) /\ l # <<>> /\ Holds(l, ToSet(kk.ready[p]))
  BY ReadyListFacts, RotateHolds
<1> HIDE DEF l
<1>4. r \in [Pri -> Seq(Task)]
  BY <1>1, <1>3
<1>5. ReadyLists(r, h, kk.prio, D)
  BY <1>1, <1>3 DEF OnReady, ReadyLists, Holds
<1> HIDE DEF r, h
<1> QED
  BY <1>1, <1>2, <1>4, <1>5 DEF Requeued

\* The task the scheduler prefers is one of those that are queued: the list
\* highest_pri names is not empty.
LEMMA PreferredIsReady ==
    ASSUME NEW kk \in Kernel, NEW D \in SUBSET Task, OnReady(kk, D)
    PROVE  preferred_cpu_ready_task_get(kk) \in D
<1>1. kk.highest_pri \in Pri /\ kk.ready[kk.highest_pri] \in Seq(Task)
  BY DEF Kernel
<1>2. ToSet(kk.ready[kk.highest_pri]) \subseteq D /\ kk.ready[kk.highest_pri] # <<>>
  BY <1>1 DEF OnReady, ReadyLists, Holds
<1>3. Head(kk.ready[kk.highest_pri]) \in ToSet(kk.ready[kk.highest_pri])
  <2> DEFINE l == kk.ready[kk.highest_pri]
  <2>1. 1 \in DOMAIN l /\ Head(l) = l[1]
    BY <1>1, <1>2
  <2> QED
    BY <2>1, InToSet
<1> QED
  BY <1>2, <1>3 DEF preferred_cpu_ready_task_get

\* The parts of OnReady in the form of ReadyListsOK and HighestPriOK.
LEMMA OnReadyGives ==
    ASSUME NEW kk \in Kernel, NEW D \in SUBSET Task, OnReady(kk, D)
    PROVE  /\ \A p \in Pri : Holds(kk.ready[p], {t \in D : kk.prio[t] = p})
           /\ kk.ready[kk.highest_pri] # <<>>
           /\ kk.highest_pri = FirstReady(kk.ready)
<1>1. kk.ready \in [Pri -> Seq(Task)] /\ kk.highest_pri \in Pri
  BY DEF Kernel
<1>2. /\ kk.ready[kk.highest_pri] # <<>>
      /\ \A q \in Pri : kk.ready[q] # <<>> => kk.highest_pri <= q
  BY DEF OnReady, ReadyLists
<1>3. /\ FirstReady(kk.ready) \in Pri /\ kk.ready[FirstReady(kk.ready)] # <<>>
      /\ FirstReady(kk.ready) <= kk.highest_pri
  BY <1>1, <1>2, FirstReadyFacts
<1>4. kk.highest_pri <= FirstReady(kk.ready)
  BY <1>2, <1>3
<1>5. kk.highest_pri = FirstReady(kk.ready)
  <2> DEFINE f == FirstReady(kk.ready)
  <2>1. f \in Int /\ kk.highest_pri \in Int /\ f <= kk.highest_pri /\ kk.highest_pri <= f
    BY <1>1, <1>3, <1>4, PriNat
  <2> HIDE DEF f
  <2>2. kk.highest_pri = f
    BY <2>1
  <2> QED
    BY <2>2 DEF f
<1> QED
  BY <1>2, <1>5 DEF OnReady, ReadyLists

-----------------------------------------------------------------------------
(* What holds of the kernel record between any two calls, as far as the ready
   queue is concerned. *)

Ready(kk) == {t \in Task : kk.task_state[t] = "K_RDY"}

Suspended == {"K_SUSPENDED", "K_SLEEP_SUSPENDED", "K_PEND_SUSPENDED"}

\* suspend_count has a suspension to undo when t is suspended, and does not wrap.
Counted(kk, t) ==
    /\ kk.suspend_count[t] <= SuspendMax
    /\ kk.task_state[t] \in Suspended => kk.suspend_count[t] > 0

ReadyOK(kk) ==
    /\ kk \in Kernel
    /\ OnReady(kk, Ready(kk))
    /\ Idle \in Ready(kk)
    /\ \A t \in Task : Counted(kk, t)

\* The fields that say who is to run are the same.
SameReady(kk1, kk2) ==
    /\ kk2.ready = kk1.ready
    /\ kk2.highest_pri = kk1.highest_pri
    /\ kk2.prio = kk1.prio

SameCore(kk1, kk2) ==
    /\ kk2.active = kk1.active
    /\ kk2.sched_lock = kk1.sched_lock
    /\ kk2.nested = kk1.nested

Quiet(kk1, kk2) ==
    /\ kk2 \in Kernel
    /\ SameReady(kk1, kk2)
    /\ SameCore(kk1, kk2)
    /\ kk2.task_state = kk1.task_state
    /\ kk2.suspend_count = kk1.suspend_count

\* A call that concerns t, and no other task's state.
Concerns(kk1, kk2, t) ==
    /\ ReadyOK(kk2)
    /\ SameCore(kk1, kk2)
    /\ \A u \in Task \ {t} : kk2.task_state[u] = kk1.task_state[u]

\* A change elsewhere in the record leaves the ready queue right.
LEMMA QuietReadyOK ==
    ASSUME NEW kk1, NEW kk2, NEW t, ReadyOK(kk1), Quiet(kk1, kk2)
    PROVE  Concerns(kk1, kk2, t) /\ Ready(kk2) = Ready(kk1)
<1>1. Ready(kk2) = Ready(kk1)
  BY DEF Quiet, Ready
<1>2. OnReady(kk2, Ready(kk2))
  BY <1>1 DEF ReadyOK, OnReady, Quiet, SameReady
<1> QED
  BY <1>1, <1>2 DEF ReadyOK, Quiet, Concerns, Counted

\* A change of the ready lists leaves the rest of the record alone.
LEMMA RequeuedFacts ==
    ASSUME NEW kk1 \in Kernel, NEW kk2, NEW D, Requeued(kk1, kk2, D)
    PROVE  /\ kk2 \in Kernel
           /\ OnReady(kk2, D)
           /\ SameCore(kk1, kk2)
           /\ kk2.prio = kk1.prio
           /\ kk2.task_state = kk1.task_state
           /\ kk2.suspend_count = kk1.suspend_count
<1>1. PICK r \in [Pri -> Seq(Task)], h \in Pri :
         /\ kk2 = [kk1 EXCEPT !.ready = r, !.highest_pri = h]
         /\ ReadyLists(r, h, kk1.prio, D)
  BY DEF Requeued
<1>2. kk2 \in Kernel
  BY <1>1 DEF Kernel
<1>3. kk2.ready = r /\ kk2.highest_pri = h /\ kk2.prio = kk1.prio
  BY <1>1 DEF Kernel
<1>4. /\ SameCore(kk1, kk2)
      /\ kk2.task_state = kk1.task_state
      /\ kk2.suspend_count = kk1.suspend_count
  BY <1>1 DEF Kernel, SameCore
<1> QED
  BY <1>1, <1>2, <1>3, <1>4 DEF OnReady

\* The state of t changes to or from ready, in kk1, and the lists follow, in kk2.
LEMMA FollowedUp ==
    ASSUME NEW kk, ReadyOK(kk), NEW kk1 \in Kernel, NEW kk2, NEW t \in Task,
           SameCore(kk, kk1),
           \A u \in Task \ {t} : /\ kk1.task_state[u] = kk.task_state[u]
                                 /\ kk1.suspend_count[u] = kk.suspend_count[u],
           Counted(kk1, t),
           t = Idle => kk1.task_state[t] = "K_RDY",
           Requeued(kk1, kk2, Ready(kk1))
    PROVE  Concerns(kk, kk2, t)
<1>1. /\ kk2 \in Kernel /\ OnReady(kk2, Ready(kk1)) /\ SameCore(kk1, kk2)
      /\ kk2.task_state = kk1.task_state /\ kk2.suspend_count = kk1.suspend_count
  BY RequeuedFacts
<1>2. Ready(kk2) = Ready(kk1)
  BY <1>1 DEF Ready
<1>3. Idle \in Ready(kk2)
  BY <1>1, TaskAssumption DEF Ready, ReadyOK
<1>4. \A u \in Task : Counted(kk2, u)
  BY <1>1 DEF ReadyOK, Counted
<1>5. ReadyOK(kk2)
  BY <1>1, <1>2, <1>3, <1>4 DEF ReadyOK
<1> QED
  BY <1>1, <1>5 DEF Concerns, SameCore

\* make_ready: task_state and ready list change together.
LEMMA MakeReady ==
    ASSUME NEW kk, ReadyOK(kk), NEW t \in Task, kk.task_state[t] # "K_RDY"
    PROVE  Concerns(kk, make_ready(kk, t), t)
<1> DEFINE kk1 == [kk EXCEPT !.task_state[t] = "K_RDY"]
<1>1. kk \in Kernel /\ kk.task_state \in [Task -> TaskState]
  BY DEF ReadyOK, Kernel
<1>2. /\ kk1 \in Kernel /\ SameReady(kk, kk1) /\ SameCore(kk, kk1)
      /\ kk1.suspend_count = kk.suspend_count
      /\ kk1.task_state = [kk.task_state EXCEPT ![t] = "K_RDY"]
  BY <1>1 DEF Kernel, SameReady, SameCore, TaskState
<1> HIDE DEF kk1
<1>3. Ready(kk1) = Ready(kk) \cup {t}
  BY <1>1, <1>2 DEF Ready
<1>4. OnReady(kk1, Ready(kk))
  BY <1>2 DEF ReadyOK, OnReady, SameReady
<1>5. t \notin Ready(kk) /\ Ready(kk) \in SUBSET Task
  BY DEF Ready
<1>6. Requeued(kk1, ready_list_add(kk1, t), Ready(kk1))
  BY <1>2, <1>3, <1>4, <1>5, Add
<1>7. Concerns(kk, ready_list_add(kk1, t), t)
  BY <1>1, <1>2, <1>6, FollowedUp DEF Suspended, ReadyOK, Counted
<1> QED
  BY <1>7 DEF make_ready, kk1

\* The caller has changed the state of t, which was ready, and other fields.
LEMMA NoLongerReady ==
    ASSUME NEW kk, ReadyOK(kk), NEW kk1 \in Kernel, NEW t \in Task \ {Idle},
           kk.task_state[t] = "K_RDY", kk1.task_state[t] # "K_RDY",
           SameReady(kk, kk1), SameCore(kk, kk1),
           \A u \in Task \ {t} : /\ kk1.task_state[u] = kk.task_state[u]
                                 /\ kk1.suspend_count[u] = kk.suspend_count[u],
           Counted(kk1, t)
    PROVE  Concerns(kk, ready_list_rm(kk1, t), t)
<1>1. Ready(kk1) = Ready(kk) \ {t}
  BY DEF Ready
<1>2. OnReady(kk1, Ready(kk))
  BY DEF ReadyOK, OnReady, SameReady
<1>3. t \in Ready(kk) /\ Idle \in Ready(kk) \ {t} /\ Ready(kk) \in SUBSET Task
  BY DEF Ready, ReadyOK
<1>4. Requeued(kk1, ready_list_rm(kk1, t), Ready(kk1))
  BY <1>1, <1>2, <1>3, Rm
<1> QED
  BY <1>4, FollowedUp

-----------------------------------------------------------------------------
(* The other lists *)

\* The tick list is no part of the ready queue.
LEMMA TickInsertQuiet ==
    ASSUME NEW kk \in Kernel, NEW t \in Task, NEW ticks \in Nat
    PROVE  Quiet(kk, tick_list_insert(kk, t, ticks))
<1>1. CASE ticks = 0
  BY <1>1 DEF tick_list_insert, Quiet, SameReady, SameCore
<1>2. CASE ticks # 0
  <2> DEFINE later == {i \in DOMAIN kk.tick_list : kk.tick_remain[kk.tick_list[i]] > ticks}
             l == klist_insert(kk.tick_list, later, t)
  <2>1. kk.tick_list \in Seq(Task)
    BY DEF Kernel
  <2>2. later \in SUBSET (DOMAIN kk.tick_list)
    OBVIOUS
  <2>3. tick_list_insert(kk, t, ticks) = [kk EXCEPT !.tick_list = l, !.tick_remain[t] = ticks]
    BY <1>2 DEF tick_list_insert, Kernel
  <2> HIDE DEF later
  <2>4. l \in Seq(Task)
    BY <2>1, <2>2, KlistInsertType
  <2> HIDE DEF l
  <2>5. [kk EXCEPT !.tick_list = l, !.tick_remain[t] = ticks] \in Kernel
    BY <2>4 DEF Kernel
  <2> QED
    BY <2>3, <2>5 DEF Quiet, SameReady, SameCore, Kernel
<1> QED
  BY <1>1, <1>2

\* Leaving the tick list does not touch the ready queue.
LEMMA TickRmQuiet ==
    ASSUME NEW kk \in Kernel, NEW t \in Task
    PROVE  Quiet(kk, tick_list_rm(kk, t))
<1> DEFINE l == klist_rm(kk.tick_list, t)
<1>1. l \in Seq(Task)
  BY KlistRmType DEF Kernel
<1>2. tick_list_rm(kk, t) = [kk EXCEPT !.tick_list = l, !.tick_remain[t] = 0]
  BY DEF tick_list_rm, Kernel
<1> HIDE DEF l
<1>3. [kk EXCEPT !.tick_list = l, !.tick_remain[t] = 0] \in Kernel
  BY <1>1 DEF Kernel
<1> QED
  BY <1>2, <1>3 DEF Quiet, SameReady, SameCore, Kernel

\* Nor does a place on a pend list,
LEMMA PendAddQuiet ==
    ASSUME NEW kk \in Kernel, NEW o \in Obj, NEW t \in Task
    PROVE  Quiet(kk, pend_list_add(kk, o, t))
<1> DEFINE s == kk.blk_list[o]
           lower == {i \in DOMAIN s : kk.prio[s[i]] > kk.prio[t]}
           l == klist_insert(s, lower, t)
<1>1. s \in Seq(Task)
  BY DEF Kernel
<1>2. lower \in SUBSET (DOMAIN s)
  OBVIOUS
<1>3. pend_list_add(kk, o, t) = [kk EXCEPT !.blk_list[o] = l]
  BY DEF pend_list_add, Kernel
<1> HIDE DEF s, lower
<1>4. l \in Seq(Task)
  BY <1>1, <1>2, KlistInsertType
<1> HIDE DEF l
<1>5. [kk EXCEPT !.blk_list[o] = l] \in Kernel
  BY <1>4 DEF Kernel
<1> QED
  BY <1>3, <1>5 DEF Quiet, SameReady, SameCore, Kernel

\* nor two such changes in turn,
LEMMA QuietTrans ==
    ASSUME NEW kk1, NEW kk2, NEW kk3, Quiet(kk1, kk2), Quiet(kk2, kk3)
    PROVE  Quiet(kk1, kk3)
BY DEF Quiet, SameReady, SameCore

\* nor unlinking a task from a pend list, the one of its blk_obj or of none,
LEMMA UnlinkQuiet ==
    ASSUME NEW kk \in Kernel, NEW t \in Task, NEW o
    PROVE  Quiet(kk, [kk EXCEPT !.blk_list[o] = klist_rm(@, t)])
<1> DEFINE b == [kk.blk_list EXCEPT ![o] = klist_rm(@, t)]
<1>1. b \in [Obj -> Seq(Task)]
  <2>1. kk.blk_list \in [Obj -> Seq(Task)]
    BY DEF Kernel
  <2>2. \A x \in Obj : klist_rm(kk.blk_list[x], t) \in Seq(Task)
    BY <2>1, KlistRmType
  <2> QED
    BY <2>1, <2>2
<1>2. [kk EXCEPT !.blk_list[o] = klist_rm(@, t)] = [kk EXCEPT !.blk_list = b]
  BY DEF Kernel
<1> HIDE DEF b
<1>3. [kk EXCEPT !.blk_list = b] \in Kernel
  BY <1>1 DEF Kernel
<1> QED
  BY <1>2, <1>3 DEF Quiet, SameReady, SameCore, Kernel

\* nor leaving both lists,
LEMMA LeaveListsQuiet ==
    ASSUME NEW kk \in Kernel, NEW t \in Task
    PROVE  Quiet(kk, leave_lists(kk, t))
<1> DEFINE o == kk.blk_obj[t]
           k1 == [kk EXCEPT !.blk_list[o] = klist_rm(@, t)]
           k2 == [k1 EXCEPT !.blk_obj[t] = NoObj]
<1>1. Quiet(kk, k1)
  BY UnlinkQuiet
<1>2. k2 = [kk EXCEPT !.blk_list[o] = klist_rm(@, t), !.blk_obj[t] = NoObj]
  BY DEF Kernel
<1>3. leave_lists(kk, t) = tick_list_rm(k2, t)
  BY <1>2 DEF leave_lists
<1> HIDE DEF k1
<1>4. k1 \in Kernel
  BY <1>1 DEF Quiet
<1>5. k2 \in Kernel
  BY <1>4 DEF Kernel
<1>6. Quiet(k1, k2)
  BY <1>4, <1>5 DEF Quiet, SameReady, SameCore, Kernel
<1> HIDE DEF k2
<1>7. Quiet(k2, tick_list_rm(k2, t))
  BY <1>5, TickRmQuiet
<1> QED
  BY <1>1, <1>3, <1>6, <1>7, QuietTrans

\* nor sorting a pend list again,
LEMMA ReorderQuiet ==
    ASSUME NEW kk \in Kernel, NEW t \in Task
    PROVE  Quiet(kk, pend_list_reorder(kk, t))
<1> DEFINE o == kk.blk_obj[t]
           k1 == [kk EXCEPT !.blk_list[o] = klist_rm(@, t)]
<1>1. Quiet(kk, k1)
  BY UnlinkQuiet
<1>2. pend_list_reorder(kk, t) = pend_list_add(k1, o, t)
  BY DEF pend_list_reorder
<1> HIDE DEF k1
<1>3. Quiet(k1, pend_list_add(k1, o, t))
  <2>1. k1 \in Kernel
    BY <1>1 DEF Quiet
  <2>2. CASE o \in Obj
    BY <2>1, <2>2, PendAddQuiet
  <2>3. CASE o \notin Obj
    <3>1. pend_list_add(k1, o, t) = k1
      <4>1. PICK l : pend_list_add(k1, o, t) = [k1 EXCEPT !.blk_list[o] = l]
        BY DEF pend_list_add
      <4>2. [k1.blk_list EXCEPT ![o] = l] = k1.blk_list
        BY <2>1, <2>3 DEF Kernel
      <4> QED
        BY <2>1, <4>1, <4>2 DEF Kernel
    <3> QED
      BY <2>1, <3>1 DEF Quiet, SameReady, SameCore
  <2> QED
    BY <2>2, <2>3
<1> QED
  BY <1>1, <1>2, <1>3, QuietTrans

\* nor the passing of a tick,
LEMMA TickCountQuiet ==
    ASSUME NEW kk \in Kernel
    PROVE  Quiet(kk, tick_count_inc(kk))
<1> DEFINE r == [t \in Task |-> IF kk.tick_remain[t] > 0 THEN kk.tick_remain[t] - 1 ELSE 0]
<1>1. r \in [Task -> Nat]
  <2>1. kk.tick_remain \in [Task -> Nat]
    BY DEF Kernel
  <2> QED
    BY <2>1
<1>2. tick_count_inc(kk) = [kk EXCEPT !.tick_remain = r]
  BY DEF tick_count_inc, Kernel
<1> HIDE DEF r
<1>3. [kk EXCEPT !.tick_remain = r] \in Kernel
  BY <1>1 DEF Kernel
<1> QED
  BY <1>2, <1>3 DEF Quiet, SameReady, SameCore, Kernel

\* nor k_err_proc.
LEMMA ErrQuiet ==
    ASSUME NEW kk \in Kernel
    PROVE  Quiet(kk, k_err_proc(kk))
<1>1. k_err_proc(kk) \in Kernel
  BY DEF k_err_proc, Kernel
<1> QED
  BY <1>1 DEF Quiet, SameReady, SameCore, k_err_proc, Kernel

-----------------------------------------------------------------------------
(* The functions that change the state of a task *)

\* No task's state changes.
Steady(kk1, kk2) ==
    /\ ReadyOK(kk2)
    /\ SameCore(kk1, kk2)
    /\ kk2.task_state = kk1.task_state

\* A change elsewhere in the record changes nobody's state.
LEMMA QuietSteady ==
    ASSUME NEW kk1, NEW kk2, ReadyOK(kk1), Quiet(kk1, kk2)
    PROVE  Steady(kk1, kk2)
BY QuietReadyOK DEF Steady, Concerns, Quiet

\* Such a change may come before one that concerns t.
LEMMA ConcernsTrans ==
    ASSUME NEW kk1, NEW kk2, NEW kk3, NEW t, Steady(kk1, kk2), Concerns(kk2, kk3, t)
    PROVE  Concerns(kk1, kk3, t)
BY DEF Steady, Concerns, SameCore

\* The state of t changes, and t is ready neither before nor after.
LEMMA StaysUnready ==
    ASSUME NEW kk, ReadyOK(kk), NEW kk1 \in Kernel, NEW t \in Task,
           kk.task_state[t] # "K_RDY", kk1.task_state[t] # "K_RDY",
           SameReady(kk, kk1), SameCore(kk, kk1),
           \A u \in Task \ {t} : /\ kk1.task_state[u] = kk.task_state[u]
                                 /\ kk1.suspend_count[u] = kk.suspend_count[u],
           Counted(kk1, t)
    PROVE  Concerns(kk, kk1, t)
<1>1. Ready(kk1) = Ready(kk)
  BY DEF Ready
<1>2. OnReady(kk1, Ready(kk1))
  BY <1>1 DEF ReadyOK, OnReady, SameReady
<1>3. \A u \in Task : Counted(kk1, u)
  BY DEF ReadyOK, Counted
<1> QED
  BY <1>1, <1>2, <1>3 DEF ReadyOK, Concerns

\* pend_task_wakeup and pend_task_rm keep the ready queue right; on a ready task
\* they only report an error.
LEMMA EndPend ==
    ASSUME NEW kk, ReadyOK(kk), NEW t \in Task, NEW b \in BlkState
    PROVE  /\ Concerns(kk, end_pend(kk, t, b), t)
           /\ kk.task_state[t] = "K_RDY" => Steady(kk, end_pend(kk, t, b))
<1> DEFINE k0 == leave_lists(kk, t)
           k1 == [k0 EXCEPT !.blk_state[t] = b]
           k2 == [k1 EXCEPT !.task_state[t] = "K_SUSPENDED"]
<1>1. kk \in Kernel
  BY DEF ReadyOK
<1>2. Quiet(kk, k0)
  BY <1>1, LeaveListsQuiet
<1>3. end_pend(kk, t, b) =
         CASE kk.task_state[t] = "K_PEND" -> make_ready(k1, t)
           [] kk.task_state[t] = "K_PEND_SUSPENDED" -> k2
           [] OTHER -> k_err_proc(kk)
  BY DEF end_pend
<1> HIDE DEF k0
<1>4. k0 \in Kernel
  BY <1>2 DEF Quiet
<1>5. k1 \in Kernel
  BY <1>4 DEF Kernel
<1>6. Quiet(k0, k1)
  BY <1>4, <1>5 DEF Quiet, SameReady, SameCore, Kernel
<1>7. Quiet(kk, k1)
  BY <1>2, <1>6, QuietTrans
<1> HIDE DEF k1
<1>8. Steady(kk, k1)
  BY <1>7, QuietSteady
<1>9. CASE kk.task_state[t] = "K_PEND"
  <2>1. Concerns(k1, make_ready(k1, t), t)
    BY <1>8, <1>9, MakeReady DEF Steady
  <2> QED
    BY <1>3, <1>8, <1>9, <2>1, ConcernsTrans
<1>10. CASE kk.task_state[t] = "K_PEND_SUSPENDED"
  <2>1. k2 \in Kernel
    BY <1>5 DEF Kernel, TaskState
  <2>2. /\ k2.task_state[t] = "K_SUSPENDED"
        /\ \A u \in Task \ {t} : k2.task_state[u] = k1.task_state[u]
        /\ k2.suspend_count = k1.suspend_count
        /\ SameReady(k1, k2) /\ SameCore(k1, k2)
    BY <1>5 DEF Kernel, SameReady, SameCore
  <2> HIDE DEF k2
  <2>3. k1.suspend_count[t] > 0
    BY <1>7, <1>10 DEF Quiet, ReadyOK, Suspended, Counted
  <2>4. k1.task_state[t] = "K_PEND_SUSPENDED"
    BY <1>8, <1>10 DEF Steady
  <2>5. Concerns(k1, k2, t)
    BY <1>8, <2>1, <2>2, <2>3, <2>4, StaysUnready DEF Steady, ReadyOK, Counted
  <2> QED
    BY <1>3, <1>8, <1>10, <2>5, ConcernsTrans
<1>11. CASE kk.task_state[t] \notin Pending
  <2>1. end_pend(kk, t, b) = k_err_proc(kk)
    BY <1>3, <1>11 DEF Pending
  <2>2. Quiet(kk, k_err_proc(kk))
    BY <1>1, ErrQuiet
  <2> QED
    BY <2>1, <2>2, QuietReadyOK, QuietSteady
<1> QED
  BY <1>9, <1>10, <1>11 DEF Pending

\* So does one step of tick_list_update.
LEMMA TickExpire ==
    ASSUME NEW kk, ReadyOK(kk), NEW t \in Task
    PROVE  /\ Concerns(kk, tick_expire(kk, t), t)
           /\ kk.task_state[t] = "K_RDY" => Steady(kk, tick_expire(kk, t))
<1> DEFINE k0 == tick_list_rm(kk, t)
           k1 == [k0 EXCEPT !.blk_state[t] = "BLK_FINISH"]
           k2 == [k1 EXCEPT !.task_state[t] = "K_SUSPENDED"]
<1>1. kk \in Kernel
  BY DEF ReadyOK
<1>2. Quiet(kk, k0)
  BY <1>1, TickRmQuiet
<1> HIDE DEF k0
<1>4. k0 \in Kernel
  BY <1>2 DEF Quiet
<1>5. k1 \in Kernel
  BY <1>4 DEF Kernel, BlkState
<1>6. Quiet(k0, k1)
  BY <1>4, <1>5 DEF Quiet, SameReady, SameCore, Kernel
<1>7. Quiet(kk, k1)
  BY <1>2, <1>6, QuietTrans
<1>3. tick_expire(kk, t) =
         CASE kk.task_state[t] = "K_SLEEP" -> make_ready(k1, t)
           [] kk.task_state[t] = "K_SLEEP_SUSPENDED" -> k2
           [] kk.task_state[t] \in Pending -> end_pend(kk, t, "BLK_TIMEOUT")
           [] OTHER -> k_err_proc(kk)
  <2>1. k2 = [k0 EXCEPT !.blk_state[t] = "BLK_FINISH", !.task_state[t] = "K_SUSPENDED"]
    OBVIOUS
  <2> QED
    BY <2>1 DEF tick_expire, k0
<1> HIDE DEF k1
<1>8. Steady(kk, k1)
  BY <1>7, QuietSteady
<1>9. CASE kk.task_state[t] = "K_SLEEP"
  <2>1. Concerns(k1, make_ready(k1, t), t)
    BY <1>8, <1>9, MakeReady DEF Steady
  <2>2. tick_expire(kk, t) = make_ready(k1, t)
    BY <1>3, <1>9 DEF Pending
  <2> QED
    BY <1>8, <1>9, <2>1, <2>2, ConcernsTrans
<1>10. CASE kk.task_state[t] = "K_SLEEP_SUSPENDED"
  <2>1. k2 \in Kernel
    BY <1>5 DEF Kernel, TaskState
  <2>2. /\ k2.task_state[t] = "K_SUSPENDED"
        /\ \A u \in Task \ {t} : k2.task_state[u] = k1.task_state[u]
        /\ k2.suspend_count = k1.suspend_count
        /\ SameReady(k1, k2) /\ SameCore(k1, k2)
    BY <1>5 DEF Kernel, SameReady, SameCore
  <2>6. tick_expire(kk, t) = k2
    BY <1>3, <1>10 DEF Pending
  <2> HIDE DEF k2
  <2>3. k1.suspend_count[t] > 0
    BY <1>7, <1>10 DEF Quiet, ReadyOK, Suspended, Counted
  <2>4. k1.task_state[t] = "K_SLEEP_SUSPENDED"
    BY <1>8, <1>10 DEF Steady
  <2>5. Concerns(k1, k2, t)
    BY <1>8, <2>1, <2>2, <2>3, <2>4, StaysUnready DEF Steady, ReadyOK, Counted
  <2> QED
    BY <1>8, <1>10, <2>5, <2>6, ConcernsTrans
<1>11. CASE kk.task_state[t] \in Pending
  <2>1. tick_expire(kk, t) = end_pend(kk, t, "BLK_TIMEOUT")
    BY <1>3, <1>11 DEF Pending
  <2>2. "BLK_TIMEOUT" \in BlkState
    BY DEF BlkState
  <2> QED
    BY <2>1, <2>2, EndPend
<1>12. CASE kk.task_state[t] \notin Pending \cup {"K_SLEEP", "K_SLEEP_SUSPENDED"}
  <2>1. tick_expire(kk, t) = k_err_proc(kk)
    BY <1>3, <1>12
  <2>2. Quiet(kk, k_err_proc(kk))
    BY <1>1, ErrQuiet
  <2> QED
    BY <2>1, <2>2, QuietReadyOK, QuietSteady
<1> QED
  BY <1>9, <1>10, <1>11, <1>12

\* pend_to_blk_obj takes the ready task that blocks off the ready queue.
LEMMA PendToBlkObj ==
    ASSUME NEW kk, ReadyOK(kk), NEW o \in Obj, NEW t \in Task \ {Idle},
           kk.task_state[t] = "K_RDY", NEW timeout \in Nat \cup {WaitForever}
    PROVE  Concerns(kk, pend_to_blk_obj(kk, o, t, timeout), t)
<1> DEFINE k0 == IF timeout = WaitForever THEN kk ELSE tick_list_insert(kk, t, timeout)
           k1 == [k0 EXCEPT !.blk_obj[t] = o, !.task_state[t] = "K_PEND"]
           k2 == ready_list_rm(k1, t)
<1>1. kk \in Kernel
  BY DEF ReadyOK
<1>2. Quiet(kk, k0)
  BY <1>1, TickInsertQuiet DEF Quiet, SameReady, SameCore
<1>3. pend_to_blk_obj(kk, o, t, timeout) = pend_list_add(k2, o, t)
  BY DEF pend_to_blk_obj
<1> HIDE DEF k0
<1>4. k0 \in Kernel /\ Steady(kk, k0)
  BY <1>2, QuietSteady DEF Quiet
<1>5. k1 \in Kernel
  BY <1>4 DEF Kernel, TaskState
<1>6. /\ SameReady(k0, k1) /\ SameCore(k0, k1)
      /\ k1.task_state[t] = "K_PEND"
      /\ \A u \in Task \ {t} : k1.task_state[u] = k0.task_state[u]
      /\ k1.suspend_count = k0.suspend_count
  BY <1>4 DEF Kernel, SameReady, SameCore
<1> HIDE DEF k1
<1>7. Concerns(k0, k2, t)
  BY <1>4, <1>5, <1>6, NoLongerReady DEF Steady, Suspended, ReadyOK, Counted
<1> HIDE DEF k2
<1>8. Steady(k2, pend_list_add(k2, o, t))
  BY <1>7, PendAddQuiet, QuietSteady DEF Concerns, ReadyOK
<1>9. Concerns(k0, pend_list_add(k2, o, t), t)
  BY <1>7, <1>8 DEF Concerns, Steady, SameCore
<1> QED
  BY <1>3, <1>4, <1>9, ConcernsTrans

\* krhino_task_yield's rotation changes nobody's state.
LEMMA Rotate ==
    ASSUME NEW kk, ReadyOK(kk), NEW t \in Task, kk.ready[kk.prio[t]] # <<>>
    PROVE  Steady(kk, ready_list_head_to_tail(kk, t))
<1>1. kk \in Kernel /\ OnReady(kk, Ready(kk)) /\ Ready(kk) \in SUBSET Task
  BY DEF ReadyOK, Ready
<1>2. Requeued(kk, ready_list_head_to_tail(kk, t), Ready(kk))
  BY <1>1, HeadToTail
<1> DEFINE k1 == ready_list_head_to_tail(kk, t)
<1> HIDE DEF k1
<1>3. /\ k1 \in Kernel /\ OnReady(k1, Ready(kk)) /\ SameCore(kk, k1)
      /\ k1.task_state = kk.task_state /\ k1.suspend_count = kk.suspend_count
  BY <1>1, <1>2, RequeuedFacts DEF k1
<1>4. Ready(k1) = Ready(kk)
  BY <1>3 DEF Ready
<1>5. Steady(kk, k1)
  BY <1>3, <1>4 DEF Steady, ReadyOK, Counted
<1> QED
  BY <1>5 DEF k1

\* Nor does the charge of a time slice, with or without a rotation.
LEMMA TimeSlice ==
    ASSUME NEW kk, ReadyOK(kk)
    PROVE  Steady(kk, time_slice_update(kk))
<1> DEFINE list == kk.ready[kk.prio[kk.active]]
           t == Head(list)
           left == IF kk.time_slice[t] > 0 THEN kk.time_slice[t] - 1 ELSE 0
           new == IF left > 0 THEN left ELSE kk.time_total[t]
           k1 == [kk EXCEPT !.time_slice[t] = new]
<1>1. kk \in Kernel /\ OnReady(kk, Ready(kk)) /\ Ready(kk) \in SUBSET Task
  BY DEF ReadyOK, Ready
<1>2. /\ kk.active \in Task /\ kk.prio \in [Task -> Pri]
      /\ kk.time_slice \in [Task -> Nat] /\ kk.time_total \in [Task -> Nat]
      /\ kk.prio[kk.active] \in Pri /\ list \in Seq(Task)
  BY <1>1 DEF Kernel
<1>3. time_slice_update(kk) =
         IF Len(list) < 2 \/ kk.sched_policy[t] = "KSCHED_FIFO" THEN kk
         ELSE IF left > 0 THEN k1 ELSE ready_list_head_to_tail(k1, t)
  BY DEF time_slice_update
<1>4. CASE Len(list) < 2 \/ kk.sched_policy[t] = "KSCHED_FIFO"
  BY <1>3, <1>4 DEF Steady, SameCore
<1>5. CASE ~(Len(list) < 2 \/ kk.sched_policy[t] = "KSCHED_FIFO")
  <2>1. list # <<>> /\ t \in ToSet(list)
    <3>1. list # <<>> /\ 1 \in DOMAIN list /\ t = list[1]
      BY <1>2, <1>5
    <3> HIDE DEF list, t
    <3> QED
      BY <3>1, InToSet
  <2>2. Holds(list, {u \in Ready(kk) : kk.prio[u] = kk.prio[kk.active]})
    BY <1>1, <1>2 DEF OnReady, ReadyLists
  <2>3. t \in Task /\ kk.prio[t] = kk.prio[kk.active]
    BY <1>1, <2>1, <2>2 DEF Holds
  <2>10. kk.ready[kk.prio[t]] # <<>>
    BY <2>1, <2>3
  <2> HIDE DEF list, t
  <2>4. new \in Nat
    BY <1>2, <2>3
  <2> HIDE DEF new
  <2>5. k1 \in Kernel
    BY <1>1, <2>4 DEF Kernel
  <2>6. Quiet(kk, k1)
    BY <1>1, <2>5 DEF Quiet, SameReady, SameCore, Kernel
  <2> HIDE DEF k1
  <2>7. Steady(kk, k1)
    BY <2>6, QuietSteady
  <2>8. k1.ready[k1.prio[t]] # <<>>
    BY <2>6, <2>10 DEF Quiet, SameReady
  <2>9. Steady(k1, ready_list_head_to_tail(k1, t))
    BY <2>3, <2>7, <2>8, Rotate DEF Steady
  <2> QED
    BY <1>3, <1>5, <2>7, <2>9 DEF Steady, SameCore
<1> QED
  BY <1>4, <1>5

-----------------------------------------------------------------------------
(* What the calls of task management do to the kernel record *)

\* krhino_task_del: whatever the state of t, the ready queue is right afterwards.
LEMMA TaskUnlink ==
    ASSUME NEW kk, ReadyOK(kk), NEW t \in Task \ {Idle}, kk.task_state[t] # "K_DELETED"
    PROVE  Concerns(kk, task_unlink(kk, t), t)
<1> DEFINE gone(k1) == [k1 EXCEPT !.task_state[t] = "K_DELETED", !.blk_obj[t] = NoObj]
<1>1. kk \in Kernel /\ kk.task_state[t] \in TaskState
  BY DEF ReadyOK, Kernel
<1>2. ASSUME NEW k1 \in Kernel
      PROVE  /\ gone(k1) \in Kernel
             /\ SameReady(k1, gone(k1)) /\ SameCore(k1, gone(k1))
             /\ gone(k1).suspend_count = k1.suspend_count
             /\ gone(k1).task_state = [k1.task_state EXCEPT ![t] = "K_DELETED"]
  <2>1. gone(k1) \in Kernel
    BY DEF Kernel, TaskState
  <2> QED
    BY <2>1 DEF Kernel, SameReady, SameCore
<1>3. ASSUME NEW k1, Quiet(kk, k1), kk.task_state[t] # "K_RDY"
      PROVE  Concerns(kk, gone(k1), t)
  <2>1. k1 \in Kernel /\ Steady(kk, k1)
    BY <1>3, QuietSteady DEF Quiet
  <2> DEFINE k2 == gone(k1)
  <2>2. /\ k2 \in Kernel /\ SameReady(k1, k2) /\ SameCore(k1, k2)
        /\ k2.suspend_count = k1.suspend_count
        /\ k2.task_state = [k1.task_state EXCEPT ![t] = "K_DELETED"]
    BY <1>2, <2>1
  <2> HIDE DEF k2
  <2>3. k1.task_state \in [Task -> TaskState]
    BY <2>1 DEF Kernel
  <2>4. Concerns(k1, k2, t)
    BY <1>3, <2>1, <2>2, <2>3, StaysUnready DEF Steady, Suspended, Counted, ReadyOK
  <2>5. Concerns(kk, k2, t)
    BY <2>1, <2>4, ConcernsTrans
  <2> QED
    BY <2>5 DEF k2
<1>4. CASE kk.task_state[t] = "K_RDY"
  <2> DEFINE k1 == ready_list_rm(kk, t)
             k2 == gone(k1)
  <2>1. task_unlink(kk, t) = k2
    BY <1>4 DEF task_unlink, Sleeping, Pending
  <2>2. t \in Ready(kk) /\ Idle \in Ready(kk) \ {t} /\ Ready(kk) \in SUBSET Task
    BY <1>4 DEF Ready, ReadyOK
  <2>3. Requeued(kk, k1, Ready(kk) \ {t})
    BY <1>1, <2>2, Rm DEF ReadyOK
  <2> HIDE DEF k1
  <2>4. /\ k1 \in Kernel /\ OnReady(k1, Ready(kk) \ {t}) /\ SameCore(kk, k1)
        /\ k1.task_state = kk.task_state /\ k1.suspend_count = kk.suspend_count
    BY <1>1, <2>3, RequeuedFacts
  <2>5. /\ k2 \in Kernel /\ SameReady(k1, k2) /\ SameCore(k1, k2)
        /\ k2.suspend_count = k1.suspend_count
        /\ k2.task_state = [k1.task_state EXCEPT ![t] = "K_DELETED"]
    BY <1>2, <2>4
  <2> HIDE DEF k2
  <2>6. k1.task_state \in [Task -> TaskState]
    BY <2>4 DEF Kernel
  <2>7. Ready(k2) = Ready(kk) \ {t}
    BY <2>4, <2>5, <2>6 DEF Ready
  <2>8. OnReady(k2, Ready(k2))
    BY <2>4, <2>5, <2>7 DEF OnReady, SameReady
  <2>9. \A u \in Task : Counted(k2, u)
    BY <2>4, <2>5, <2>6 DEF ReadyOK, Counted, Suspended
  <2>10. ReadyOK(k2)
    BY <2>2, <2>5, <2>7, <2>8, <2>9 DEF ReadyOK
  <2> QED
    BY <2>1, <2>4, <2>5, <2>6, <2>10 DEF Concerns, SameCore
<1>5. CASE kk.task_state[t] = "K_SUSPENDED"
  <2>1. task_unlink(kk, t) = gone(kk)
    BY <1>5 DEF task_unlink, Sleeping, Pending
  <2>2. Quiet(kk, kk)
    BY <1>1 DEF Quiet, SameReady, SameCore
  <2> QED
    BY <1>3, <1>5, <2>1, <2>2
<1>6. CASE kk.task_state[t] \in Sleeping
  <2>1. task_unlink(kk, t) = gone(tick_list_rm(kk, t))
    BY <1>6 DEF task_unlink, Sleeping, Pending
  <2>2. Quiet(kk, tick_list_rm(kk, t))
    BY <1>1, TickRmQuiet
  <2> QED
    BY <1>3, <1>6, <2>1, <2>2 DEF Sleeping
<1>7. CASE kk.task_state[t] \in Pending
  <2>1. task_unlink(kk, t) = gone(leave_lists(kk, t))
    BY <1>7 DEF task_unlink, Sleeping, Pending
  <2>2. Quiet(kk, leave_lists(kk, t))
    BY <1>1, LeaveListsQuiet
  <2> QED
    BY <1>3, <1>7, <2>1, <2>2 DEF Pending
<1> QED
  BY <1>1, <1>4, <1>5, <1>6, <1>7 DEF TaskState, Sleeping, Pending

\* krhino_task_suspend: the same, and a suspended task has a suspension to undo.
LEMMA TaskSuspend ==
    ASSUME NEW kk, ReadyOK(kk), NEW t \in Task \ {Idle}, kk.task_state[t] # "K_DELETED",
           kk.task_state[t] \in Suspended => kk.suspend_count[t] < SuspendMax
    PROVE  Concerns(kk, task_suspend(kk, t), t)
<1> DEFINE set(n, s) == [kk EXCEPT !.suspend_count[t] = n, !.task_state[t] = s]
<1>1. /\ kk \in Kernel /\ kk.task_state \in [Task -> TaskState]
      /\ kk.suspend_count \in [Task -> Nat]
  BY DEF ReadyOK, Kernel
<1>2. ASSUME NEW n \in Nat, NEW s \in TaskState
      PROVE  /\ set(n, s) \in Kernel
             /\ SameReady(kk, set(n, s)) /\ SameCore(kk, set(n, s))
             /\ set(n, s).suspend_count = [kk.suspend_count EXCEPT ![t] = n]
             /\ set(n, s).task_state = [kk.task_state EXCEPT ![t] = s]
  <2>1. set(n, s) \in Kernel
    BY <1>1 DEF Kernel
  <2> QED
    BY <1>1, <2>1 DEF Kernel, SameReady, SameCore
<1>3. CASE kk.task_state[t] = "K_RDY"
  <2> DEFINE k1 == set(1, "K_SUSPENDED")
  <2>1. task_suspend(kk, t) = ready_list_rm(k1, t)
    BY <1>3 DEF task_suspend
  <2>2. /\ k1 \in Kernel /\ SameReady(kk, k1) /\ SameCore(kk, k1)
        /\ k1.suspend_count = [kk.suspend_count EXCEPT ![t] = 1]
        /\ k1.task_state = [kk.task_state EXCEPT ![t] = "K_SUSPENDED"]
    BY <1>2 DEF TaskState
  <2> HIDE DEF k1
  <2>4. Counted(k1, t)
    BY <1>1, <2>2, SuspendAssumption DEF Counted
  <2>3. Concerns(kk, ready_list_rm(k1, t), t)
    BY <1>1, <1>3, <2>2, <2>4, NoLongerReady
  <2> QED
    BY <2>1, <2>3
<1>4. ASSUME NEW n \in 1 .. SuspendMax, NEW s \in TaskState \ {"K_RDY"},
             kk.task_state[t] # "K_RDY"
      PROVE  Concerns(kk, set(n, s), t)
  <2> DEFINE k1 == set(n, s)
  <2>0. n \in Nat /\ n > 0 /\ n <= SuspendMax
    BY SuspendAssumption
  <2>1. /\ k1 \in Kernel /\ SameReady(kk, k1) /\ SameCore(kk, k1)
        /\ k1.suspend_count = [kk.suspend_count EXCEPT ![t] = n]
        /\ k1.task_state = [kk.task_state EXCEPT ![t] = s]
    BY <1>2, <2>0
  <2> HIDE DEF k1
  <2>3. Counted(k1, t)
    BY <1>1, <2>0, <2>1 DEF Counted
  <2>2. Concerns(kk, k1, t)
    BY <1>1, <1>4, <2>1, <2>3, StaysUnready
  <2> QED
    BY <2>2 DEF k1
<1>9. 1 \in 1 .. SuspendMax
  BY SuspendAssumption
<1>5. CASE kk.task_state[t] = "K_SLEEP"
  <2>1. task_suspend(kk, t) = set(1, "K_SLEEP_SUSPENDED")
    BY <1>5 DEF task_suspend
  <2>2. "K_SLEEP_SUSPENDED" \in TaskState \ {"K_RDY"} /\ kk.task_state[t] # "K_RDY"
    BY <1>5 DEF TaskState
  <2>3. Concerns(kk, set(1, "K_SLEEP_SUSPENDED"), t)
    BY <1>4, <1>9, <2>2
  <2> QED
    BY <2>1, <2>3
<1>6. CASE kk.task_state[t] = "K_PEND"
  <2>1. task_suspend(kk, t) = set(1, "K_PEND_SUSPENDED")
    BY <1>6 DEF task_suspend
  <2>2. "K_PEND_SUSPENDED" \in TaskState \ {"K_RDY"} /\ kk.task_state[t] # "K_RDY"
    BY <1>6 DEF TaskState
  <2>3. Concerns(kk, set(1, "K_PEND_SUSPENDED"), t)
    BY <1>4, <1>9, <2>2
  <2> QED
    BY <2>1, <2>3
<1>7. CASE kk.task_state[t] \in Suspended
  <2> DEFINE n == kk.suspend_count[t] + 1
             s == kk.task_state[t]
  <2>1. task_suspend(kk, t) = [kk EXCEPT !.suspend_count[t] = n]
    BY <1>1, <1>7 DEF task_suspend, Suspended
  <2>2. [kk EXCEPT !.suspend_count[t] = n] = set(n, s)
    BY <1>1 DEF Kernel
  <2>3. n \in 1 .. SuspendMax /\ s \in TaskState \ {"K_RDY"}
    BY <1>1, <1>7, SuspendAssumption DEF Suspended
  <2>4. Concerns(kk, set(n, s), t)
    BY <1>4, <1>7, <2>3
  <2> QED
    BY <2>1, <2>2, <2>4
<1> QED
  BY <1>1, <1>3, <1>5, <1>6, <1>7 DEF TaskState, Suspended

\* krhino_task_resume: only the last resumption changes the state, and a task that
\* becomes ready is queued.
LEMMA TaskResume ==
    ASSUME NEW kk, ReadyOK(kk), NEW t \in Task, kk.task_state[t] \in Suspended
    PROVE  Concerns(kk, task_resume(kk, t), t)
<1> DEFINE n == kk.suspend_count[t] - 1
           k1 == [kk EXCEPT !.suspend_count[t] = @ - 1]
           to(s) == [k1 EXCEPT !.task_state[t] = s]
<1>1. /\ kk \in Kernel /\ kk.task_state \in [Task -> TaskState]
      /\ kk.suspend_count \in [Task -> Nat] /\ kk.suspend_count[t] > 0
  BY DEF ReadyOK, Kernel, Counted
<1>2. n \in Nat /\ k1.suspend_count[t] = n
  BY <1>1 DEF Kernel
<1>0. n <= SuspendMax
  BY <1>1, SuspendAssumption DEF ReadyOK, Counted
<1>3. task_resume(kk, t) =
         IF k1.suspend_count[t] > 0 THEN k1 ELSE
         CASE kk.task_state[t] = "K_SUSPENDED" -> make_ready(k1, t)
           [] kk.task_state[t] = "K_SLEEP_SUSPENDED" -> to("K_SLEEP")
           [] kk.task_state[t] = "K_PEND_SUSPENDED"  -> to("K_PEND")
  BY DEF task_resume
<1>4. /\ k1 \in Kernel /\ SameReady(kk, k1) /\ SameCore(kk, k1)
      /\ k1.suspend_count = [kk.suspend_count EXCEPT ![t] = n]
      /\ k1.task_state = kk.task_state
  <2>1. k1 \in Kernel
    BY <1>1, <1>2 DEF Kernel
  <2> QED
    BY <1>1, <2>1 DEF Kernel, SameReady, SameCore
<1> HIDE DEF k1, n
<1>5. CASE n > 0
  <2>2. Counted(k1, t)
    BY <1>0, <1>1, <1>4, <1>5 DEF Counted
  <2>1. Concerns(kk, k1, t)
    BY <1>1, <1>4, <2>2, StaysUnready DEF Suspended
  <2> QED
    BY <1>2, <1>3, <1>5, <2>1
<1>6. ASSUME n = 0, NEW s \in {"K_SLEEP", "K_PEND"}
      PROVE  Concerns(kk, to(s), t)
  <2> DEFINE k2 == to(s)
  <2>1. /\ k2 \in Kernel /\ SameReady(k1, k2) /\ SameCore(k1, k2)
        /\ k2.suspend_count = k1.suspend_count
        /\ k2.task_state = [k1.task_state EXCEPT ![t] = s]
    <3>1. k2 \in Kernel
      BY <1>4 DEF Kernel, TaskState
    <3> QED
      BY <1>4, <3>1 DEF Kernel, SameReady, SameCore
  <2> HIDE DEF k2
  <2>2. SameReady(kk, k2) /\ SameCore(kk, k2)
    BY <1>4, <2>1 DEF SameReady, SameCore
  <2>4. Counted(k2, t)
    BY <1>0, <1>1, <1>4, <2>1 DEF Counted, Suspended
  <2>3. Concerns(kk, k2, t)
    BY <1>1, <1>4, <2>1, <2>2, <2>4, StaysUnready DEF Suspended
  <2> QED
    BY <2>3 DEF k2
<1>7. CASE n = 0 /\ kk.task_state[t] = "K_SUSPENDED"
  (* suspend_count is 0 while the state is still suspended: make_ready cannot be
     cited for k1, but does the same as for the record with the state changed. *)
  <2> DEFINE k2 == to("K_RDY")
  <2>1. /\ k2 \in Kernel /\ SameReady(k1, k2) /\ SameCore(k1, k2)
        /\ k2.suspend_count = k1.suspend_count
        /\ k2.task_state = [k1.task_state EXCEPT ![t] = "K_RDY"]
    <3>1. k2 \in Kernel
      BY <1>4 DEF Kernel, TaskState
    <3> QED
      BY <1>4, <3>1 DEF Kernel, SameReady, SameCore
  <2>2. make_ready(k1, t) = ready_list_add(k2, t)
    BY DEF make_ready
  <2> HIDE DEF k2
  <2>3. SameReady(kk, k2) /\ SameCore(kk, k2)
    BY <1>4, <2>1 DEF SameReady, SameCore
  <2>4. Ready(k2) = Ready(kk) \cup {t}
    BY <1>1, <1>4, <2>1 DEF Ready
  <2>5. t \notin Ready(kk) /\ Ready(kk) \in SUBSET Task
    BY <1>7 DEF Ready
  <2>6. OnReady(k2, Ready(kk))
    BY <2>3 DEF ReadyOK, OnReady, SameReady
  <2>7. Requeued(k2, ready_list_add(k2, t), Ready(k2))
    BY <2>1, <2>4, <2>5, <2>6, Add
  <2>9. Counted(k2, t)
    BY <1>0, <1>1, <1>4, <2>1 DEF Counted, Suspended
  <2>8. Concerns(kk, ready_list_add(k2, t), t)
    BY <1>1, <1>4, <2>1, <2>3, <2>7, <2>9, FollowedUp
  <2> QED
    BY <1>2, <1>3, <1>7, <2>2, <2>8
<1>8. CASE n = 0 /\ kk.task_state[t] # "K_SUSPENDED"
  BY <1>2, <1>3, <1>6, <1>8 DEF Suspended
<1> QED
  BY <1>2, <1>5, <1>7, <1>8

\* krhino_task_wait_abort: the task is queued again from every state it waits in.
LEMMA WaitAbort ==
    ASSUME NEW kk, ReadyOK(kk), NEW t \in Task, kk.task_state[t] # "K_DELETED"
    PROVE  /\ Concerns(kk, task_wait_abort(kk, t), t)
           /\ kk.task_state[t] = "K_RDY" => Steady(kk, task_wait_abort(kk, t))
<1> DEFINE aborted(k1) == [make_ready(k1, t) EXCEPT !.blk_state[t] = "BLK_ABORT"]
<1>1. kk \in Kernel /\ kk.task_state[t] \in TaskState
  BY DEF ReadyOK, Kernel
<1>2. Quiet(kk, kk) /\ Steady(kk, kk)
  BY <1>1, QuietSteady DEF Quiet, SameReady, SameCore
<1>3. CASE kk.task_state[t] = "K_RDY"
  <2>1. task_wait_abort(kk, t) = kk
    BY <1>3 DEF task_wait_abort, Sleeping, Pending
  <2> QED
    BY <1>2, <2>1, QuietReadyOK
<1>4. CASE kk.task_state[t] = "K_SUSPENDED"
  <2>1. task_wait_abort(kk, t) = make_ready(kk, t)
    BY <1>4 DEF task_wait_abort, Sleeping, Pending
  <2> QED
    BY <1>4, <2>1, MakeReady
<1>5. ASSUME NEW k1, Quiet(kk, k1), kk.task_state[t] # "K_RDY"
      PROVE  Concerns(kk, aborted(k1), t)
  <2>1. Steady(kk, k1) /\ k1.task_state[t] # "K_RDY"
    BY <1>5, QuietSteady DEF Quiet
  <2> DEFINE k2 == make_ready(k1, t)
             k3 == [k2 EXCEPT !.blk_state[t] = "BLK_ABORT"]
  <2>2. Concerns(k1, k2, t)
    BY <2>1, MakeReady DEF Steady
  <2> HIDE DEF k2
  <2>3. k2 \in Kernel /\ ReadyOK(k2)
    BY <2>2 DEF Concerns, ReadyOK
  <2>4. Quiet(k2, k3)
    <3>1. k3 \in Kernel
      BY <2>3 DEF Kernel, BlkState
    <3> QED
      BY <2>3, <3>1 DEF Quiet, SameReady, SameCore, Kernel
  <2> HIDE DEF k3
  <2>5. Steady(k2, k3)
    BY <2>3, <2>4, QuietSteady
  <2>6. Concerns(kk, k3, t)
    BY <2>1, <2>2, <2>5 DEF Concerns, Steady, SameCore
  <2> QED
    BY <2>6 DEF k2, k3
<1>6. CASE kk.task_state[t] \in Sleeping
  <2>1. task_wait_abort(kk, t) = aborted(tick_list_rm(kk, t))
    BY <1>6 DEF task_wait_abort, Sleeping, Pending
  <2>2. Quiet(kk, tick_list_rm(kk, t))
    BY <1>1, TickRmQuiet
  <2> QED
    BY <1>5, <1>6, <2>1, <2>2 DEF Sleeping
<1>7. CASE kk.task_state[t] \in Pending
  <2>1. task_wait_abort(kk, t) = aborted(leave_lists(kk, t))
    BY <1>7 DEF task_wait_abort, Sleeping, Pending
  <2>2. Quiet(kk, leave_lists(kk, t))
    BY <1>1, LeaveListsQuiet
  <2> QED
    BY <1>5, <1>7, <2>1, <2>2 DEF Pending
<1> QED
  BY <1>1, <1>3, <1>4, <1>6, <1>7 DEF TaskState, Sleeping, Pending

\* The priority of a task that is on no ready list may change.
LEMMA NewPriority ==
    ASSUME NEW kk \in Kernel, NEW D, OnReady(kk, D), NEW t \in Task, t \notin D, NEW p \in Pri,
           NEW k1, k1 = [kk EXCEPT !.prio[t] = p]
    PROVE  /\ k1 \in Kernel
           /\ OnReady(k1, D)
           /\ SameCore(kk, k1)
           /\ k1.task_state = kk.task_state
           /\ k1.suspend_count = kk.suspend_count
<1>1. /\ k1 \in Kernel /\ SameCore(kk, k1)
      /\ k1.task_state = kk.task_state /\ k1.suspend_count = kk.suspend_count
      /\ k1.ready = kk.ready /\ k1.highest_pri = kk.highest_pri
      /\ k1.prio = [kk.prio EXCEPT ![t] = p]
  <2>1. k1 \in Kernel
    BY DEF Kernel
  <2> QED
    BY <2>1 DEF Kernel, SameCore
<1>2. kk.prio \in [Task -> Pri]
  BY DEF Kernel
<1>3. \A u \in D : k1.prio[u] = kk.prio[u]
  BY <1>1, <1>2
<1>4. \A q \in Pri : {u \in D : k1.prio[u] = q} = {u \in D : kk.prio[u] = q}
  BY <1>3
<1> QED
  BY <1>1, <1>4 DEF OnReady, ReadyLists

\* task_pri_change: the task moves to the ready list of its new priority, with no
\* change of anybody's state.
LEMMA PriChangeOne ==
    ASSUME NEW kk, ReadyOK(kk), NEW t \in Task \ {Idle}, NEW p \in Pri
    PROVE  Steady(kk, pri_change_one(kk, t, p))
<1> DEFINE moved(k1) == [k1 EXCEPT !.prio[t] = p]
           D == Ready(kk)
<1>1. /\ kk \in Kernel /\ OnReady(kk, D) /\ D \in SUBSET Task
      /\ Idle \in D
  BY DEF ReadyOK, Ready
<1>2. Quiet(kk, kk)
  BY <1>1 DEF Quiet, SameReady, SameCore
<1>3. CASE kk.prio[t] = p
  <2>1. pri_change_one(kk, t, p) = kk
    BY <1>3 DEF pri_change_one
  <2> QED
    BY <1>2, <2>1, QuietSteady
<1>4. CASE kk.prio[t] # p /\ kk.task_state[t] = "K_RDY"
  <2> DEFINE k1 == ready_list_rm(kk, t)
             k2 == moved(k1)
             k3 == IF t = kk.active THEN ready_list_add_head(k2, t) ELSE ready_list_add_tail(k2, t)
  <2>1. pri_change_one(kk, t, p) = k3
    BY <1>4 DEF pri_change_one, Pending
  <2>2. t \in D /\ Idle \in D \ {t}
    BY <1>1, <1>4 DEF Ready
  <2>3. Requeued(kk, k1, D \ {t})
    BY <1>1, <2>2, Rm
  <2> HIDE DEF k1
  <2>4. /\ k1 \in Kernel /\ OnReady(k1, D \ {t}) /\ SameCore(kk, k1)
        /\ k1.task_state = kk.task_state /\ k1.suspend_count = kk.suspend_count
    BY <1>1, <2>3, RequeuedFacts
  <2>5. /\ k2 \in Kernel /\ OnReady(k2, D \ {t}) /\ SameCore(k1, k2)
        /\ k2.task_state = k1.task_state /\ k2.suspend_count = k1.suspend_count
    BY <2>4, NewPriority
  <2> HIDE DEF k2
  <2>6. D \ {t} \in SUBSET Task /\ (D \ {t}) \cup {t} = D
    BY <1>1, <2>2
  <2>7. Requeued(k2, k3, D)
    <3>1. Requeued(k2, ready_list_add_head(k2, t), (D \ {t}) \cup {t})
      BY <2>5, <2>6, AddHead
    <3>2. Requeued(k2, ready_list_add_tail(k2, t), (D \ {t}) \cup {t})
      BY <2>5, <2>6, AddTail
    <3> QED
      BY <2>6, <3>1, <3>2
  <2> HIDE DEF k3
  <2>8. /\ k3 \in Kernel /\ OnReady(k3, D) /\ SameCore(k2, k3)
        /\ k3.task_state = k2.task_state /\ k3.suspend_count = k2.suspend_count
    BY <2>5, <2>7, RequeuedFacts
  <2>9. k3.task_state = kk.task_state /\ k3.suspend_count = kk.suspend_count /\ SameCore(kk, k3)
    BY <2>4, <2>5, <2>8 DEF SameCore
  <2>10. Ready(k3) = D
    BY <2>9 DEF Ready
  <2>11. ReadyOK(k3)
    BY <1>1, <2>8, <2>9, <2>10 DEF ReadyOK, Counted
  <2> QED
    BY <2>1, <2>9, <2>11 DEF Steady
<1>5. ASSUME kk.task_state[t] # "K_RDY"
      PROVE  Steady(kk, moved(kk))
  <2> DEFINE k1 == moved(kk)
  <2>1. t \notin D
    BY <1>5 DEF Ready
  <2>2. /\ k1 \in Kernel /\ OnReady(k1, D) /\ SameCore(kk, k1)
        /\ k1.task_state = kk.task_state /\ k1.suspend_count = kk.suspend_count
    BY <1>1, <2>1, NewPriority
  <2> HIDE DEF k1
  <2>3. Ready(k1) = D
    BY <2>2 DEF Ready
  <2>4. Steady(kk, k1)
    BY <1>1, <2>2, <2>3 DEF Steady, ReadyOK, Counted
  <2> QED
    BY <2>4 DEF k1
<1>6. CASE kk.prio[t] # p /\ kk.task_state[t] \in Pending
  <2> DEFINE k1 == moved(kk)
  <2>1. pri_change_one(kk, t, p) = pend_list_reorder(k1, t)
    BY <1>6 DEF pri_change_one, Pending
  <2>2. Steady(kk, k1)
    BY <1>5, <1>6 DEF Pending
  <2> HIDE DEF k1
  <2>3. Steady(k1, pend_list_reorder(k1, t))
    BY <2>2, ReorderQuiet, QuietSteady DEF Steady, ReadyOK
  <2> QED
    BY <2>1, <2>2, <2>3 DEF Steady, SameCore
<1>7. CASE kk.prio[t] # p /\ kk.task_state[t] = "K_DELETED"
  <2>1. pri_change_one(kk, t, p) = k_err_proc(kk)
    BY <1>7 DEF pri_change_one, Pending
  <2> QED
    BY <1>1, <2>1, ErrQuiet, QuietSteady
<1>8. CASE kk.prio[t] # p /\ kk.task_state[t] \notin Pending \cup {"K_RDY", "K_DELETED"}
  <2>1. pri_change_one(kk, t, p) = moved(kk)
    BY <1>8 DEF pri_change_one
  <2> QED
    BY <1>5, <1>8, <2>1
<1> QED
  BY <1>3, <1>4, <1>6, <1>7, <1>8

\* The TCB krhino_task_create sets up.
Tcb(kk, t, state, n) ==
    [kk EXCEPT !.prio[t]          = InitPri[t],
               !.b_prio[t]        = InitPri[t],
               !.blk_state[t]     = "BLK_FINISH",
               !.blk_obj[t]       = NoObj,
               !.time_slice[t]    = SliceDefault,
               !.time_total[t]    = SliceDefault,
               !.sched_policy[t]  = "KSCHED_RR",
               !.tick_remain[t]   = 0,
               !.task_state[t]    = state,
               !.suspend_count[t] = n]

\* What the set-up of a TCB changes of the fields the ready queue depends on.
LEMMA TcbFields ==
    ASSUME NEW kk \in Kernel, NEW t \in Task, NEW state \in TaskState, NEW n \in Nat
    PROVE  /\ Tcb(kk, t, state, n) \in Kernel
           /\ Tcb(kk, t, state, n).ready = kk.ready
           /\ Tcb(kk, t, state, n).highest_pri = kk.highest_pri
           /\ Tcb(kk, t, state, n).prio = [kk.prio EXCEPT ![t] = InitPri[t]]
           /\ Tcb(kk, t, state, n).task_state = [kk.task_state EXCEPT ![t] = state]
           /\ Tcb(kk, t, state, n).suspend_count = [kk.suspend_count EXCEPT ![t] = n]
           /\ SameCore(kk, Tcb(kk, t, state, n))
<1>1. InitPri[t] \in Pri /\ SliceDefault \in Nat /\ 0 \in Nat
  BY SchedAssumption
<1>2. "BLK_FINISH" \in BlkState
  BY DEF BlkState
<1>3. "KSCHED_RR" \in SchedPolicy
  BY DEF SchedPolicy
<1> DEFINE k1 == [kk EXCEPT !.prio[t] = InitPri[t], !.b_prio[t] = InitPri[t],
                            !.blk_state[t] = "BLK_FINISH", !.blk_obj[t] = NoObj]
           k2 == [k1 EXCEPT !.time_slice[t] = SliceDefault, !.time_total[t] = SliceDefault,
                            !.sched_policy[t] = "KSCHED_RR", !.tick_remain[t] = 0]
           k3 == [k2 EXCEPT !.task_state[t] = state, !.suspend_count[t] = n]
<1>4. /\ k1 \in Kernel /\ SameCore(kk, k1)
      /\ k1.ready = kk.ready /\ k1.highest_pri = kk.highest_pri
      /\ k1.prio = [kk.prio EXCEPT ![t] = InitPri[t]]
      /\ k1.task_state = kk.task_state /\ k1.suspend_count = kk.suspend_count
  BY <1>1, <1>2 DEF Kernel, SameCore
<1>0. Tcb(kk, t, state, n) = k3
  BY DEF Tcb, Kernel
<1> HIDE DEF k1
<1>5. /\ k2 \in Kernel /\ SameCore(k1, k2)
      /\ k2.ready = k1.ready /\ k2.highest_pri = k1.highest_pri /\ k2.prio = k1.prio
      /\ k2.task_state = k1.task_state /\ k2.suspend_count = k1.suspend_count
  BY <1>1, <1>3, <1>4 DEF Kernel, SameCore
<1> HIDE DEF k2
<1>6. /\ k3 \in Kernel /\ SameCore(k2, k3)
      /\ k3.ready = k2.ready /\ k3.highest_pri = k2.highest_pri /\ k3.prio = k2.prio
      /\ k3.task_state = [k2.task_state EXCEPT ![t] = state]
      /\ k3.suspend_count = [k2.suspend_count EXCEPT ![t] = n]
  BY <1>5 DEF Kernel, SameCore
<1> HIDE DEF k3
<1> QED
  BY <1>0, <1>4, <1>5, <1>6 DEF SameCore

\* krhino_task_create: a task that runs at once is queued, the other is suspended
\* once.
LEMMA CreateTcb ==
    ASSUME NEW kk, ReadyOK(kk), NEW t \in Task \ {Idle}, kk.task_state[t] = "K_DELETED",
           NEW state \in {"K_RDY", "K_SUSPENDED"}, NEW n \in 0 .. SuspendMax,
           state = "K_SUSPENDED" => n > 0
    PROVE  IF state = "K_RDY"
             THEN Concerns(kk, ready_list_add_tail(Tcb(kk, t, state, n), t), t)
             ELSE /\ Concerns(kk, Tcb(kk, t, state, n), t)
                  /\ Tcb(kk, t, state, n).ready = kk.ready
                  /\ Tcb(kk, t, state, n).highest_pri = kk.highest_pri
<1> DEFINE D == Ready(kk)
           tcb == Tcb(kk, t, state, n)
<1>1. /\ kk \in Kernel /\ OnReady(kk, D) /\ D \in SUBSET Task /\ Idle \in D /\ t \notin D
      /\ kk.task_state \in [Task -> TaskState] /\ kk.suspend_count \in [Task -> Nat]
      /\ kk.prio \in [Task -> Pri]
  BY DEF ReadyOK, Ready, Kernel
<1>2. state \in TaskState
  BY DEF TaskState
<1>3. /\ tcb \in Kernel
      /\ tcb.ready = kk.ready /\ tcb.highest_pri = kk.highest_pri
      /\ SameCore(kk, tcb)
      /\ tcb.prio = [kk.prio EXCEPT ![t] = InitPri[t]]
      /\ tcb.task_state = [kk.task_state EXCEPT ![t] = state]
      /\ tcb.suspend_count = [kk.suspend_count EXCEPT ![t] = n]
  BY <1>1, <1>2, TcbFields
<1> HIDE DEF tcb
<1>4. OnReady(tcb, D)
  <2>1. \A u \in D : tcb.prio[u] = kk.prio[u]
    BY <1>1, <1>3
  <2>2. \A q \in Pri : {u \in D : tcb.prio[u] = q} = {u \in D : kk.prio[u] = q}
    BY <2>1
  <2> QED
    BY <1>1, <1>3, <2>2 DEF OnReady, ReadyLists
<1>5. CASE state = "K_RDY"
  <2>1. Ready(tcb) = D \cup {t}
    BY <1>1, <1>3, <1>5 DEF Ready
  <2>2. Requeued(tcb, ready_list_add_tail(tcb, t), Ready(tcb))
    BY <1>1, <1>3, <1>4, <2>1, AddTail
  <2>3. Concerns(kk, ready_list_add_tail(tcb, t), t)
    BY <1>1, <1>3, <1>5, <2>2, FollowedUp DEF Suspended, Counted, ReadyOK
  <2> QED
    BY <1>5, <2>3 DEF tcb
<1>6. CASE state = "K_SUSPENDED"
  <2>1. Ready(tcb) = D
    BY <1>1, <1>3, <1>6 DEF Ready
  <2>2. \A u \in Task : Counted(tcb, u)
    BY <1>1, <1>3, <1>6 DEF ReadyOK, Counted
  <2>3. ReadyOK(tcb)
    BY <1>1, <1>3, <1>4, <2>1, <2>2 DEF ReadyOK
  <2>4. Concerns(kk, tcb, t) /\ tcb.ready = kk.ready /\ tcb.highest_pri = kk.highest_pri
    BY <1>1, <1>3, <2>3 DEF Concerns
  <2> QED
    BY <1>6, <2>4 DEF tcb
<1> QED
  BY <1>5, <1>6

-----------------------------------------------------------------------------
(* The inductive invariant *)

\* NoMissedSwitch is not inductive alone: that the preferred task exists needs
\* the ready queue, that the ready queue survives every call needs the suspension
\* counts (a resumption must not undo one too many), and that a locked scheduler
\* may skip the switch needs its active task to stay ready.
SchedInv ==
    /\ KernelTypeOK
    /\ ReadyOK(k)
    /\ k.sched_lock > 0 => k.task_state[k.active] = "K_RDY"
    /\ irq_off = <<"tick_list_update">> => k.nested > 0
    /\ NoMissedSwitch

\* What LockKeepsCore says of one step.
KeepsCore ==
    k.sched_lock > 0 => k'.active = k.active /\ k'.task_state[k.active] = "K_RDY"

\* The state krhino_start leaves satisfies the invariant.
LEMMA SchedInvInit == Init => SchedInv
<1> SUFFICES ASSUME Init PROVE SchedInv
  OBVIOUS
<1>1. k = KernelInit /\ pc = [t \in Task |-> "run"] /\ irq_off = <<>>
  BY DEF Init, SchedInit
<1>2. /\ Main \in Task \ {Idle} /\ Idle \in Task /\ InitPri \in [Task -> Pri]
      /\ SliceDefault \in Nat /\ InitPri[Main] # IdlePri /\ InitPri[Idle] = IdlePri
      /\ InitPri[Main] \in Pri
  BY SchedAssumption, TaskAssumption
<1>3. IdlePri \in Pri /\ IdlePri \in Nat /\ Pri = 0 .. IdlePri
  BY PriNat DEF Pri
<1> DEFINE r == [p \in Pri |-> IF p = IdlePri THEN <<Idle>>
                               ELSE IF p = InitPri[Main] THEN <<Main>> ELSE <<>>]
<1>4. r \in [Pri -> Seq(Task)]
  BY <1>2
<1>5. /\ k.ready = r /\ k.highest_pri = InitPri[Main] /\ k.prio = InitPri
      /\ k.task_state = [t \in Task |-> IF t \in {Idle, Main} THEN "K_RDY" ELSE "K_DELETED"]
      /\ k.active = Main /\ k.sched_lock = 0 /\ k.nested = 0
  BY <1>1 DEF KernelInit
<1>6. k \in Kernel
  <2> HIDE DEF r
  <2>1. KernelInit.ready = r
    BY <1>1, <1>5
  <2>2. /\ [t \in Task |-> IF t \in {Idle, Main} THEN "K_RDY" ELSE "K_DELETED"] \in [Task -> TaskState]
        /\ [t \in Task |-> "BLK_FINISH"] \in [Task -> BlkState]
        /\ [t \in Task |-> "KSCHED_RR"] \in [Task -> SchedPolicy]
    BY DEF TaskState, BlkState, SchedPolicy
  <2> QED
    BY <1>1, <1>2, <1>4, <2>2 DEF KernelInit, Kernel, r
<1>7. Ready(k) = {Idle, Main}
  BY <1>2, <1>5 DEF Ready
<1>8. OnReady(k, {Idle, Main})
  <2>1. ASSUME NEW p \in Pri PROVE Holds(r[p], {t \in {Idle, Main} : InitPri[t] = p})
    <3>0. ASSUME NEW x PROVE ToSet(<<x>>) = {x} /\ IsInjective(<<x>>)
      BY DEF ToSet, IsInjective
    <3>1. CASE p = IdlePri
      <4>1. {t \in {Idle, Main} : InitPri[t] = p} = {Idle} /\ r[p] = <<Idle>>
        BY <1>2, <3>1
      <4> QED
        BY <3>0, <4>1 DEF Holds
    <3>2. CASE p = InitPri[Main]
      <4>1. {t \in {Idle, Main} : InitPri[t] = p} = {Main} /\ r[p] = <<Main>>
        BY <1>2, <3>2
      <4> QED
        BY <3>0, <4>1 DEF Holds
    <3>3. CASE p # IdlePri /\ p # InitPri[Main]
      <4>1. {t \in {Idle, Main} : InitPri[t] = p} = {} /\ r[p] = <<>>
        BY <1>2, <3>3
      <4>2. ToSet(<<>>) = {} /\ IsInjective(<<>>)
        BY DEF ToSet, IsInjective
      <4> QED
        BY <4>1, <4>2 DEF Holds
    <3> QED
      BY <3>1, <3>2, <3>3
  <2>2. r[InitPri[Main]] # <<>>
    BY <1>2
  <2>3. \A p \in Pri : r[p] # <<>> => InitPri[Main] <= p
    BY <1>2, <1>3
  <2> HIDE DEF r
  <2> QED
    BY <1>5, <2>1, <2>2, <2>3 DEF OnReady, ReadyLists
<1>9. \A t \in Task : Counted(k, t)
  BY <1>1, <1>5, SuspendAssumption DEF Counted, Suspended, KernelInit
<1>10. ReadyOK(k)
  BY <1>2, <1>6, <1>7, <1>8, <1>9 DEF ReadyOK
<1>11. preferred_cpu_ready_task_get(k) = Main
  BY <1>2, <1>5 DEF preferred_cpu_ready_task_get
<1> QED
  BY <1>1, <1>5, <1>6, <1>10, <1>11 DEF SchedInv, KernelTypeOK, NoMissedSwitch, Executing

\* A call that reschedules, or goes on in an interrupt handler or a loop.
LEMMA CallEnds ==
    ASSUME SchedInv, ReadyOK(k'), SameCore(k, k'),
           pc' \in [Task -> {"run", "sched", "block", "end"}],
           \/ k.nested > 0
           \/ irq_off' # <<>>
           \/ pc'[k.active] \notin {"run", "end"},
           irq_off' # <<"tick_list_update">> \/ irq_off' = irq_off,
           k.sched_lock > 0 => k'.task_state[k.active] = "K_RDY"
    PROVE  SchedInv' /\ KeepsCore
<1>1. k'.active = k.active /\ k'.sched_lock = k.sched_lock /\ k'.nested = k.nested
  BY DEF SameCore
<1>2. KernelTypeOK'
  BY DEF KernelTypeOK, ReadyOK
<1>3. k.nested \in Nat
  BY DEF SchedInv, KernelTypeOK, Kernel
<1>4. NoMissedSwitch'
  BY <1>1, <1>3 DEF NoMissedSwitch, Executing
<1>5. irq_off' = <<"tick_list_update">> => k'.nested > 0
  BY <1>1 DEF SchedInv
<1> QED
  BY <1>1, <1>2, <1>4, <1>5 DEF SchedInv, KeepsCore

\* A call whose caller goes on, and that does not touch the ready queue.
LEMMA CallGoesOn ==
    ASSUME SchedInv, ReadyOK(k'), SameCore(k, k'),
           k'.ready = k.ready, k'.highest_pri = k.highest_pri,
           pc' \in [Task -> {"run", "sched", "block", "end"}],
           pc'[k.active] \in {"run", "end"} => pc[k.active] \in {"run", "end"},
           irq_off' = irq_off,
           k.sched_lock > 0 => k'.task_state[k.active] = "K_RDY"
    PROVE  SchedInv' /\ KeepsCore
<1>1. k'.active = k.active /\ k'.sched_lock = k.sched_lock /\ k'.nested = k.nested
  BY DEF SameCore
<1>2. KernelTypeOK'
  BY DEF KernelTypeOK, ReadyOK
<1>3. NoMissedSwitch'
  BY <1>1 DEF NoMissedSwitch, Executing, SchedInv, preferred_cpu_ready_task_get
<1> QED
  BY <1>1, <1>2, <1>3 DEF SchedInv, KeepsCore

\* The active task is ready when it makes a call.
LEMMA CallerReady ==
    ASSUME SchedInv, TaskCalls(k.active)
    PROVE  k.active \in Task \ {Idle} /\ k.task_state[k.active] = "K_RDY"
<1>1. k \in Kernel /\ k.active \in Task /\ k.sched_lock \in Nat
  BY DEF SchedInv, KernelTypeOK, Kernel
<1>2. CASE k.sched_lock > 0
  BY <1>1, <1>2 DEF SchedInv, TaskCalls
<1>3. CASE k.sched_lock = 0
  <2>1. k.active = preferred_cpu_ready_task_get(k)
    BY <1>1, <1>3 DEF SchedInv, NoMissedSwitch, Executing, TaskCalls
  <2>2. Ready(k) \in SUBSET Task /\ OnReady(k, Ready(k))
    BY DEF SchedInv, ReadyOK, Ready
  <2>3. preferred_cpu_ready_task_get(k) \in Ready(k)
    BY <1>1, <2>2, PreferredIsReady
  <2> QED
    BY <1>1, <2>1, <2>3 DEF Ready, TaskCalls
<1> QED
  BY <1>1, <1>2, <1>3

\* RHINO_CRITICAL_EXIT_SCHED after a call that concerns t.
LEMMA ExitSched ==
    ASSUME SchedInv, NEW t \in Task, NEW STATE k1, critical_exit_sched(k1), Concerns(k, k1, t),
           k.sched_lock > 0 /\ t = k.active => k1.task_state[t] = "K_RDY",
           irq_off' # <<"tick_list_update">> \/ irq_off' = irq_off
    PROVE  SchedInv' /\ KeepsCore
<1>1. k' = k1
  BY DEF critical_exit_sched
<1>2. /\ k.active \in Task /\ pc \in [Task -> {"run", "sched", "block", "end"}]
      /\ k.nested \in Nat
  BY DEF SchedInv, KernelTypeOK, Kernel
<1>3. /\ pc' \in [Task -> {"run", "sched", "block", "end"}]
      /\ k.nested > 0 \/ pc'[k.active] \notin {"run", "end"}
  BY <1>2 DEF critical_exit_sched
<1>4. k.sched_lock > 0 => k'.task_state[k.active] = "K_RDY"
  BY <1>1, <1>2 DEF Concerns, SchedInv
<1>5. ReadyOK(k') /\ SameCore(k, k')
  BY <1>1 DEF Concerns
<1> QED
  BY <1>3, <1>4, <1>5, CallEnds

\* The same at the end of a call that has blocked the active task: it is allowed
\* only while the scheduler is not locked.
LEMMA ExitBlock ==
    ASSUME SchedInv, NEW STATE k1, critical_exit_block(k1), Concerns(k, k1, k.active),
           k.sched_lock = 0, UNCHANGED irq_off
    PROVE  SchedInv' /\ KeepsCore
<1>1. k' = k1
  BY DEF critical_exit_block
<1>2. /\ k.active \in Task /\ pc \in [Task -> {"run", "sched", "block", "end"}]
  BY DEF SchedInv, KernelTypeOK, Kernel
<1>3. /\ pc' \in [Task -> {"run", "sched", "block", "end"}]
      /\ pc'[k.active] \notin {"run", "end"}
  BY <1>2 DEF critical_exit_block
<1>5. ReadyOK(k') /\ SameCore(k, k')
  BY <1>1 DEF Concerns
<1> QED
  BY <1>3, <1>5, CallEnds

-----------------------------------------------------------------------------
(* Every step preserves the invariant, and the core of a locked scheduler *)

\* What each step lemma shows.
Kept == SchedInv' /\ KeepsCore

\* What the step lemmas need of the invariant.
LEMMA InvFacts ==
    ASSUME SchedInv
    PROVE  /\ k \in Kernel /\ ReadyOK(k)
           /\ pc \in [Task -> {"run", "sched", "block", "end"}]
           /\ k.active \in Task /\ k.nested \in Nat /\ k.sched_lock \in Nat
           /\ k.task_state \in [Task -> TaskState] /\ k.prio \in [Task -> Pri]
           /\ k.time_slice \in [Task -> Nat] /\ k.time_total \in [Task -> Nat]
           /\ k.sched_policy \in [Task -> SchedPolicy]
           /\ k.sched_lock > 0 => k.task_state[k.active] = "K_RDY"
           /\ irq_off = <<"tick_list_update">> => k.nested > 0
BY DEF SchedInv, KernelTypeOK, Kernel

\* Only who runs, the nesting of interrupts and the lock change.
Core(kk, a, n, l) == [kk EXCEPT !.active = a, !.nested = n, !.sched_lock = l]

\* They are no part of the ready queue.
LEMMA CoreOnly ==
    ASSUME NEW kk, ReadyOK(kk), NEW a \in Task, NEW n \in Nat, NEW l \in Nat
    PROVE  /\ ReadyOK(Core(kk, a, n, l))
           /\ Core(kk, a, n, l).active = a
           /\ Core(kk, a, n, l).nested = n
           /\ Core(kk, a, n, l).sched_lock = l
           /\ Core(kk, a, n, l).task_state = kk.task_state
           /\ preferred_cpu_ready_task_get(Core(kk, a, n, l)) = preferred_cpu_ready_task_get(kk)
<1> DEFINE kk1 == Core(kk, a, n, l)
<1>1. kk \in Kernel
  BY DEF ReadyOK
<1>2. /\ kk1 \in Kernel
      /\ kk1.active = a /\ kk1.nested = n /\ kk1.sched_lock = l
      /\ kk1.task_state = kk.task_state /\ kk1.suspend_count = kk.suspend_count
      /\ kk1.prio = kk.prio /\ kk1.ready = kk.ready /\ kk1.highest_pri = kk.highest_pri
  BY <1>1 DEF Kernel, Core
<1> HIDE DEF kk1
<1>3. Ready(kk1) = Ready(kk)
  BY <1>2 DEF Ready
<1>4. ReadyOK(kk1)
  BY <1>2, <1>3 DEF ReadyOK, OnReady, Counted
<1> QED
  BY <1>2, <1>4 DEF kk1, preferred_cpu_ready_task_get

\* core_sched: the preferred task takes the core, unless the scheduler is locked.
LEMMA CoreSchedStep ==
    ASSUME SchedInv, NEW t \in Task, core_sched(t)
    PROVE  Kept
<1> DEFINE p == preferred_cpu_ready_task_get(k)
<1>1. /\ k \in Kernel /\ ReadyOK(k) /\ pc \in [Task -> {"run", "sched", "block", "end"}]
      /\ k.nested = 0 /\ k.active = t /\ irq_off = <<>> /\ irq_off' = <<>>
      /\ k.sched_lock \in Nat
      /\ k.sched_lock > 0 => k.task_state[k.active] = "K_RDY"
  BY InvFacts DEF core_sched
<1>2. pc' \in [Task -> {"run", "sched", "block", "end"}]
  BY <1>1 DEF core_sched
<1>3. Ready(k) \in SUBSET Task /\ OnReady(k, Ready(k))
  BY <1>1 DEF ReadyOK, Ready
<1>4. p \in Task
  BY <1>1, <1>3, PreferredIsReady
<1>5. CASE k.sched_lock > 0
  <2>1. k' = k
    BY <1>5 DEF core_sched
  <2> QED
    BY <1>1, <1>2, <1>5, <2>1 DEF Kept, SchedInv, KernelTypeOK, KeepsCore, NoMissedSwitch, Executing
<1>6. CASE k.sched_lock = 0
  <2>1. k' = Core(k, p, k.nested, k.sched_lock)
    <3>1. k \in Kernel /\ k' = [k EXCEPT !.active = p]
      BY <1>1, <1>6 DEF core_sched
    <3> QED
      BY ONLY <3>1 DEF Kernel, Core
  <2>2. /\ ReadyOK(k') /\ k'.active = p /\ k'.nested = 0 /\ k'.sched_lock = 0
        /\ preferred_cpu_ready_task_get(k') = p
    BY <1>1, <1>4, <1>6, <2>1, CoreOnly
  <2>3. NoMissedSwitch'
    BY <2>2 DEF NoMissedSwitch, Executing
  <2>4. KernelTypeOK'
    BY <1>2, <2>2 DEF KernelTypeOK, ReadyOK
  <2> QED
    BY <1>1, <1>6, <2>2, <2>3, <2>4 DEF Kept, SchedInv, KeepsCore
<1> QED
  BY <1>1, <1>5, <1>6

\* krhino_intrpt_enter.
LEMMA IntrptEnterStep == ASSUME SchedInv, krhino_intrpt_enter PROVE Kept
<1>1. /\ k \in Kernel /\ ReadyOK(k) /\ pc \in [Task -> {"run", "sched", "block", "end"}]
      /\ k.nested \in Nat /\ k.active \in Task /\ k.sched_lock \in Nat
      /\ k.sched_lock > 0 => k.task_state[k.active] = "K_RDY"
      /\ irq_off' = <<>> /\ pc' = pc
  BY InvFacts DEF krhino_intrpt_enter
<1>2. k' = Core(k, k.active, k.nested + 1, k.sched_lock)
  BY <1>1 DEF krhino_intrpt_enter, Kernel, Core
<1>3. /\ ReadyOK(k') /\ k'.active = k.active /\ k'.nested = k.nested + 1
      /\ k'.sched_lock = k.sched_lock /\ k'.task_state = k.task_state
  BY <1>1, <1>2, CoreOnly
<1>4. NoMissedSwitch' /\ k'.nested > 0
  BY <1>1, <1>3 DEF NoMissedSwitch, Executing
<1>5. KernelTypeOK'
  BY <1>1, <1>3 DEF KernelTypeOK, ReadyOK
<1> QED
  BY <1>1, <1>3, <1>4, <1>5 DEF Kept, SchedInv, KeepsCore

\* krhino_intrpt_exit: the outermost handler does what core_sched does.
LEMMA IntrptExitStep == ASSUME SchedInv, krhino_intrpt_exit PROVE Kept
<1> DEFINE p == preferred_cpu_ready_task_get(k)
           a == IF k.nested = 1 /\ k.sched_lock = 0 THEN p ELSE k.active
<1>1. /\ k \in Kernel /\ ReadyOK(k) /\ pc \in [Task -> {"run", "sched", "block", "end"}]
      /\ k.nested \in Nat /\ k.nested > 0 /\ k.active \in Task /\ k.sched_lock \in Nat
      /\ k.sched_lock > 0 => k.task_state[k.active] = "K_RDY"
      /\ irq_off' = <<>> /\ pc' = pc
  BY InvFacts DEF krhino_intrpt_exit, IsrCalls
<1>2. Ready(k) \in SUBSET Task /\ OnReady(k, Ready(k))
  BY <1>1 DEF ReadyOK, Ready
<1>3. p \in Task
  BY <1>1, <1>2, PreferredIsReady
<1>4. k' = Core(k, a, k.nested - 1, k.sched_lock)
  BY <1>1 DEF krhino_intrpt_exit, Kernel, Core
<1>5. /\ ReadyOK(k') /\ k'.active = a /\ k'.nested = k.nested - 1
      /\ k'.sched_lock = k.sched_lock /\ k'.task_state = k.task_state
      /\ preferred_cpu_ready_task_get(k') = p
  <2> DEFINE n == k.nested - 1
  <2>1. a \in Task /\ n \in Nat
    BY <1>1, <1>3
  <2> HIDE DEF a, n
  <2>2. k' = Core(k, a, n, k.sched_lock)
    BY <1>4 DEF n
  <2>3. /\ ReadyOK(k') /\ k'.active = a /\ k'.nested = n
        /\ k'.sched_lock = k.sched_lock /\ k'.task_state = k.task_state
        /\ preferred_cpu_ready_task_get(k') = p
    <3>1. ReadyOK(k) /\ k.sched_lock \in Nat
      BY <1>1
    <3> DEFINE c == Core(k, a, n, k.sched_lock)
    <3>2. /\ ReadyOK(c) /\ c.active = a /\ c.nested = n
          /\ c.sched_lock = k.sched_lock /\ c.task_state = k.task_state
          /\ preferred_cpu_ready_task_get(c) = p
      BY <2>1, <3>1, CoreOnly
    <3> QED
      BY <2>2, <3>2
  <2> QED
    BY <2>3 DEF n
<1>6. NoMissedSwitch'
  BY <1>1, <1>5 DEF NoMissedSwitch, Executing
<1>7. KernelTypeOK'
  BY <1>1, <1>5 DEF KernelTypeOK, ReadyOK
<1> QED
  BY <1>1, <1>5, <1>6, <1>7 DEF Kept, SchedInv, KeepsCore

\* krhino_sched_disable: the task that locks the scheduler is ready.
LEMMA SchedDisableStep == ASSUME SchedInv, krhino_sched_disable PROVE Kept
<1>1. /\ k \in Kernel /\ ReadyOK(k) /\ pc \in [Task -> {"run", "sched", "block", "end"}]
      /\ k.nested = 0 /\ k.active \in Task /\ k.sched_lock \in Nat
      /\ irq_off' = <<>> /\ pc' = pc
  BY InvFacts DEF krhino_sched_disable, TaskCalls
<1>2. k.task_state[k.active] = "K_RDY"
  BY CallerReady DEF krhino_sched_disable
<1>3. k' = Core(k, k.active, k.nested, k.sched_lock + 1)
  <2>1. k \in Kernel /\ k' = [k EXCEPT !.sched_lock = k.sched_lock + 1]
    BY <1>1 DEF krhino_sched_disable
  <2> QED
    BY ONLY <2>1 DEF Kernel, Core
<1>4. /\ ReadyOK(k') /\ k'.active = k.active /\ k'.nested = 0
      /\ k'.sched_lock = k.sched_lock + 1 /\ k'.task_state = k.task_state
  <2>1. k.nested \in Nat /\ k.sched_lock + 1 \in Nat
    BY <1>1
  <2> QED
    BY <1>1, <1>3, <2>1, CoreOnly
<1>5. NoMissedSwitch'
  BY <1>1, <1>4 DEF NoMissedSwitch, Executing
<1>6. KernelTypeOK'
  BY <1>1, <1>4 DEF KernelTypeOK, ReadyOK
<1> QED
  BY <1>1, <1>2, <1>4, <1>5, <1>6 DEF Kept, SchedInv, KeepsCore

\* krhino_sched_enable: the last unlock goes on to core_sched.
LEMMA SchedEnableStep == ASSUME SchedInv, krhino_sched_enable PROVE Kept
<1> DEFINE k1 == [k EXCEPT !.sched_lock = @ - 1]
<1>1. /\ k \in Kernel /\ ReadyOK(k) /\ pc \in [Task -> {"run", "sched", "block", "end"}]
      /\ k.nested = 0 /\ k.active \in Task /\ k.sched_lock \in Nat /\ k.sched_lock > 0
      /\ k.task_state[k.active] = "K_RDY" /\ irq_off' = <<>>
  BY InvFacts DEF krhino_sched_enable, TaskCalls
<1>2. k1 = Core(k, k.active, k.nested, k.sched_lock - 1)
  <2>1. k \in Kernel
    BY <1>1
  <2> QED
    BY ONLY <2>1 DEF Kernel, Core, k1
<1> HIDE DEF k1
<1>3. /\ ReadyOK(k1) /\ k1.active = k.active /\ k1.nested = 0
      /\ k1.sched_lock = k.sched_lock - 1 /\ k1.task_state = k.task_state
  <2>1. k.nested \in Nat /\ k.sched_lock - 1 \in Nat
    BY <1>1
  <2>2. k \in Kernel /\ ReadyOK(k) /\ k.active \in Task
    BY <1>1
  <2> DEFINE l == k.sched_lock - 1
  <2> HIDE DEF l
  <2>3. k1 = Core(k, k.active, k.nested, l)
    BY <1>2 DEF l
  <2>4. /\ ReadyOK(k1) /\ k1.active = k.active /\ k1.nested = k.nested
        /\ k1.sched_lock = l /\ k1.task_state = k.task_state
    BY <2>1, <2>2, <2>3, CoreOnly DEF l
  <2> QED
    BY <1>1, <2>4 DEF l
<1>4. /\ k' = k1
      /\ k1.sched_lock = 0 => pc' = [pc EXCEPT ![k.active] = "sched"]
      /\ k1.sched_lock # 0 => pc' = pc
  BY <1>1, <1>3 DEF krhino_sched_enable, critical_exit_sched, k1
<1>5. pc' \in [Task -> {"run", "sched", "block", "end"}]
  BY <1>1, <1>4
<1>6. NoMissedSwitch'
  BY <1>1, <1>3, <1>4 DEF NoMissedSwitch, Executing
<1>7. KernelTypeOK'
  BY <1>3, <1>4, <1>5 DEF KernelTypeOK, ReadyOK
<1> QED
  BY <1>1, <1>3, <1>4, <1>6, <1>7 DEF Kept, SchedInv, KeepsCore

\* The tick interrupt begins.
LEMMA TickIntrptStep == ASSUME SchedInv, tick_intrpt PROVE Kept
<1> DEFINE k1 == tick_count_inc(k)
<1>1. /\ k \in Kernel /\ ReadyOK(k) /\ pc \in [Task -> {"run", "sched", "block", "end"}]
      /\ k.nested \in Nat /\ k.active \in Task /\ k.sched_lock \in Nat
      /\ k.sched_lock > 0 => k.task_state[k.active] = "K_RDY"
      /\ irq_off' # <<>> /\ pc' = pc /\ k' = [k1 EXCEPT !.nested = @ + 1]
  BY InvFacts DEF tick_intrpt
<1>2. Steady(k, k1)
  BY <1>1, TickCountQuiet, QuietSteady
<1> HIDE DEF k1
<1>3. /\ ReadyOK(k1) /\ k1 \in Kernel /\ k1.active = k.active /\ k1.nested = k.nested
      /\ k1.sched_lock = k.sched_lock /\ k1.task_state = k.task_state
  BY <1>2 DEF Steady, SameCore, ReadyOK
<1>4. k' = Core(k1, k1.active, k1.nested + 1, k1.sched_lock)
  <2>1. k' = [k1 EXCEPT !.nested = k1.nested + 1]
    BY <1>1
  <2> QED
    BY ONLY <1>3, <2>1 DEF Kernel, Core
<1>5. /\ ReadyOK(k') /\ k'.active = k.active /\ k'.nested = k.nested + 1
      /\ k'.sched_lock = k.sched_lock /\ k'.task_state = k.task_state
  <2> DEFINE n == k.nested + 1
  <2>1. n \in Nat
    BY <1>1
  <2> HIDE DEF n
  <2>2. k' = Core(k1, k.active, n, k.sched_lock)
    BY <1>3, <1>4 DEF n
  <2>3. /\ ReadyOK(k') /\ k'.active = k.active /\ k'.nested = n
        /\ k'.sched_lock = k.sched_lock /\ k'.task_state = k1.task_state
    <3> DEFINE c == Core(k1, k.active, n, k.sched_lock)
    <3>1. k.active \in Task /\ k.sched_lock \in Nat
      BY <1>1
    <3>2. /\ ReadyOK(c) /\ c.active = k.active /\ c.nested = n
          /\ c.sched_lock = k.sched_lock /\ c.task_state = k1.task_state
      BY <1>3, <2>1, <3>1, CoreOnly
    <3> QED
      BY <2>2, <3>2
  <2> QED
    BY <1>3, <2>3 DEF n
<1>6. NoMissedSwitch'
  BY <1>1 DEF NoMissedSwitch, Executing
<1>7. KernelTypeOK'
  BY <1>1, <1>5 DEF KernelTypeOK, ReadyOK
<1> QED
  BY <1>1, <1>5, <1>6, <1>7 DEF Kept, SchedInv, KeepsCore

\* One step of tick_list_update: the active task of a locked scheduler is ready, so
\* it is not the one that is woken.
LEMMA TickNextStep == ASSUME SchedInv, tick_next PROVE Kept
<1> DEFINE t == Head(k.tick_list)
           k1 == tick_expire(k, t)
<1>1. /\ k \in Kernel /\ ReadyOK(k) /\ pc \in [Task -> {"run", "sched", "block", "end"}]
      /\ k.nested > 0 /\ k.active \in Task
      /\ k.sched_lock > 0 => k.task_state[k.active] = "K_RDY"
      /\ irq_off' = irq_off /\ pc' = pc /\ k' = k1
  BY InvFacts DEF tick_next
<1>2. t \in Task
  <2>1. k.tick_list \in Seq(Task) /\ k.tick_list # <<>>
    BY <1>1 DEF tick_next, tick_due, Kernel
  <2> QED
    BY <2>1
<1>3. /\ Concerns(k, k1, t)
      /\ k.task_state[t] = "K_RDY" => Steady(k, k1)
  BY <1>1, <1>2, TickExpire
<1> HIDE DEF k1, t
<1>4. k.sched_lock > 0 => k'.task_state[k.active] = "K_RDY"
  BY <1>1, <1>2, <1>3 DEF Concerns, Steady
<1>5. ReadyOK(k') /\ SameCore(k, k')
  BY <1>1, <1>3 DEF Concerns
<1> QED
  BY <1>1, <1>4, <1>5, CallEnds DEF Kept

\* The tick is over, a time slice charged.
LEMMA TickEndStep == ASSUME SchedInv, tick_end PROVE Kept
<1>1. /\ k \in Kernel /\ ReadyOK(k) /\ pc \in [Task -> {"run", "sched", "block", "end"}]
      /\ k.nested > 0 /\ k.active \in Task
      /\ k.sched_lock > 0 => k.task_state[k.active] = "K_RDY"
      /\ irq_off' # <<"tick_list_update">> /\ pc' = pc
      /\ k' = IF SchedRR THEN time_slice_update(k) ELSE k
  BY InvFacts DEF tick_end
<1>2. Steady(k, k')
  BY <1>1, TimeSlice DEF Steady, SameCore
<1>3. /\ ReadyOK(k') /\ SameCore(k, k')
      /\ k.sched_lock > 0 => k'.task_state[k.active] = "K_RDY"
  BY <1>1, <1>2 DEF Steady
<1> QED
  BY <1>1, <1>3, CallEnds DEF Kept

\* pend_state_end_proc: the task that was going on goes on.
LEMMA PendEndStep == ASSUME SchedInv, NEW t \in Task, pend_state_end_proc(t) PROVE Kept
<1>1. /\ k \in Kernel /\ ReadyOK(k) /\ pc \in [Task -> {"run", "sched", "block", "end"}]
      /\ k.sched_lock > 0 => k.task_state[k.active] = "K_RDY"
      /\ k' = k /\ irq_off' = irq_off /\ pc' = [pc EXCEPT ![t] = "run"]
      /\ k.active = t /\ pc[t] = "end"
  BY InvFacts DEF pend_state_end_proc
<1>2. pc' \in [Task -> {"run", "sched", "block", "end"}]
  BY <1>1
<1>3. ReadyOK(k') /\ SameCore(k, k')
  BY <1>1 DEF SameCore
<1> QED
  BY <1>1, <1>2, <1>3, CallGoesOn DEF Kept

\* krhino_task_create: the active task is ready, so it is not the one created.
LEMMA CreateStep ==
    ASSUME SchedInv, NEW t \in Task, NEW autorun \in BOOLEAN, krhino_task_create(t, autorun)
    PROVE  Kept
<1> DEFINE state == IF autorun THEN "K_RDY" ELSE "K_SUSPENDED"
           n == IF autorun THEN 0 ELSE 1
           tcb == Tcb(k, t, state, n)
<1>1. /\ k \in Kernel /\ ReadyOK(k) /\ pc \in [Task -> {"run", "sched", "block", "end"}]
      /\ k.active \in Task
      /\ t \in Task \ {Idle} /\ k.task_state[t] = "K_DELETED" /\ irq_off' = irq_off
  BY InvFacts DEF krhino_task_create
<1>2. /\ k' = IF autorun THEN ready_list_add_tail(tcb, t) ELSE tcb
      /\ pc' = IF autorun THEN [pc EXCEPT ![t] = "run", ![k.active] = "sched"]
                           ELSE [pc EXCEPT ![t] = "run"]
  BY DEF krhino_task_create, Tcb
<1>3. k.task_state[k.active] = "K_RDY" /\ k.active # t
  BY <1>1, CallerReady DEF krhino_task_create
<1>4. CASE autorun
  <2>1. k' = ready_list_add_tail(Tcb(k, t, "K_RDY", 0), t)
    BY <1>2, <1>4
  <2>2. Concerns(k, k', t)
    <3>1. 0 \in 0 .. SuspendMax
      BY SuspendAssumption
    <3> QED
      BY <1>1, <2>1, <3>1, CreateTcb
  <2>3. pc' \in [Task -> {"run", "sched", "block", "end"}] /\ pc'[k.active] = "sched"
    BY <1>1, <1>2, <1>4
  <2>4. ReadyOK(k') /\ SameCore(k, k') /\ k'.task_state[k.active] = "K_RDY"
    BY <1>1, <1>3, <2>2 DEF Concerns
  <2> QED
    BY <1>1, <2>3, <2>4, CallEnds DEF Kept
<1>5. CASE ~autorun
  <2>1. k' = Tcb(k, t, "K_SUSPENDED", 1)
    BY <1>2, <1>5
  <2>2. Concerns(k, k', t) /\ k'.ready = k.ready /\ k'.highest_pri = k.highest_pri
    <3>1. 1 \in 0 .. SuspendMax /\ 1 > 0
      BY SuspendAssumption
    <3> QED
      BY <1>1, <2>1, <3>1, CreateTcb
  <2>3. pc' \in [Task -> {"run", "sched", "block", "end"}] /\ pc'[k.active] = pc[k.active]
    BY <1>1, <1>2, <1>3, <1>5
  <2>4. ReadyOK(k') /\ SameCore(k, k') /\ k'.task_state[k.active] = "K_RDY"
    BY <1>1, <1>3, <2>2 DEF Concerns
  <2> QED
    BY <1>1, <2>2, <2>3, <2>4, CallGoesOn DEF Kept
<1> QED
  BY <1>4, <1>5

\* krhino_task_del: a task cannot delete itself while the scheduler is locked.
LEMMA DelStep == ASSUME SchedInv, NEW t \in Task, krhino_task_del(t) PROVE Kept
<1>1. /\ ReadyOK(k) /\ k.sched_lock \in Nat /\ t \in Task \ {Idle}
      /\ k.task_state[t] # "K_DELETED"
      /\ t = k.active => k.sched_lock = 0
      /\ critical_exit_sched(task_unlink(k, t)) /\ irq_off' = irq_off
  BY InvFacts DEF krhino_task_del
<1>2. Concerns(k, task_unlink(k, t), t)
  BY <1>1, TaskUnlink
<1> QED
  BY <1>1, <1>2, ExitSched DEF Kept

\* krhino_task_sleep.
LEMMA SleepStep == ASSUME SchedInv, NEW ticks \in Nat, krhino_task_sleep(ticks) PROVE Kept
<1> DEFINE t == k.active
           k0 == [k EXCEPT !.task_state[t] = "K_SLEEP"]
           k1 == tick_list_insert(k0, t, ticks)
           k2 == ready_list_rm(k1, t)
<1>1. /\ k \in Kernel /\ ReadyOK(k) /\ k.task_state \in [Task -> TaskState]
      /\ k.sched_lock = 0 /\ critical_exit_block(k2) /\ irq_off' = irq_off
  BY InvFacts DEF krhino_task_sleep
<1>2. t \in Task \ {Idle} /\ k.task_state[t] = "K_RDY"
  BY CallerReady DEF krhino_task_sleep
<1>3. /\ k0 \in Kernel /\ SameReady(k, k0) /\ SameCore(k, k0)
      /\ k0.task_state = [k.task_state EXCEPT ![t] = "K_SLEEP"]
      /\ k0.suspend_count = k.suspend_count
  BY <1>1, <1>2 DEF Kernel, TaskState, SameReady, SameCore
<1> HIDE DEF k0
<1>4. Quiet(k0, k1)
  BY <1>2, <1>3, TickInsertQuiet
<1> HIDE DEF k1
<1>5. /\ k1 \in Kernel /\ SameReady(k, k1) /\ SameCore(k, k1)
      /\ k1.task_state = [k.task_state EXCEPT ![t] = "K_SLEEP"]
      /\ k1.suspend_count = k.suspend_count
  BY <1>3, <1>4 DEF Quiet, SameReady, SameCore
<1> HIDE DEF t
<1>6. k1.task_state[t] = "K_SLEEP"
  BY <1>1, <1>2, <1>5
<1>7. Concerns(k, k2, t)
  BY <1>1, <1>2, <1>5, <1>6, NoLongerReady DEF Suspended, Counted, ReadyOK
<1> QED
  BY <1>1, <1>7, ExitBlock DEF Kept, t

\* krhino_task_yield rotates a list that is not empty: nobody becomes ready or stops being so.
LEMMA YieldStep == ASSUME SchedInv, krhino_task_yield PROVE Kept
<1> DEFINE t == k.active
           k1 == ready_list_head_to_tail(k, t)
<1>1. /\ k \in Kernel /\ ReadyOK(k) /\ critical_exit_sched(k1) /\ irq_off' = irq_off
  BY InvFacts DEF krhino_task_yield
<1>2. t \in Task /\ (k.sched_lock > 0 => k.task_state[t] = "K_RDY")
  BY <1>1 DEF SchedInv, Kernel
<1>3. k.ready[k.prio[t]] # <<>>
  BY DEF krhino_task_yield
<1>4. Steady(k, k1)
  BY <1>1, <1>2, <1>3, Rotate
<1> HIDE DEF k1, t
<1>5. Main \in Task \ {Idle}
  BY SchedAssumption
<1>6. Concerns(k, k1, Main)
  BY <1>4, <1>5 DEF Steady, Concerns
<1>7. k.sched_lock > 0 /\ Main = k.active => k1.task_state[Main] = "K_RDY"
  BY <1>2, <1>4 DEF Steady, t
<1> QED
  BY <1>1, <1>5, <1>6, <1>7, ExitSched DEF Kept

\* krhino_task_suspend: a task cannot suspend itself while the scheduler is locked.
LEMMA SuspendStep ==
    ASSUME SchedInv, NEW t \in Task, krhino_task_suspend(t)
    PROVE  Kept
<1>1. /\ ReadyOK(k) /\ k.sched_lock \in Nat /\ t \in Task \ {Idle}
      /\ k.task_state[t] # "K_DELETED"
      /\ t = k.active => k.sched_lock = 0
      /\ k.task_state[t] \in Suspended => k.suspend_count[t] < SuspendMax
      /\ critical_exit_sched(task_suspend(k, t)) /\ irq_off' = irq_off
  BY InvFacts DEF krhino_task_suspend, Suspended
<1>2. Concerns(k, task_suspend(k, t), t)
  BY <1>1, TaskSuspend
<1> QED
  BY <1>1, <1>2, ExitSched DEF Kept

\* krhino_task_resume.
LEMMA ResumeStep == ASSUME SchedInv, NEW t \in Task, krhino_task_resume(t) PROVE Kept
<1>1. /\ ReadyOK(k)
      /\ k.sched_lock > 0 => k.task_state[k.active] = "K_RDY"
      /\ k.task_state[t] \in Suspended
      /\ critical_exit_sched(task_resume(k, t)) /\ irq_off' = irq_off
  BY InvFacts DEF krhino_task_resume, Suspended
<1>2. Concerns(k, task_resume(k, t), t)
  BY <1>1, TaskResume
<1>3. ~(k.sched_lock > 0 /\ t = k.active)
  BY <1>1 DEF Suspended
<1> QED
  BY <1>1, <1>2, <1>3, ExitSched DEF Kept

\* krhino_task_pri_change.
LEMMA PriChangeStep ==
    ASSUME SchedInv, NEW t \in Task, NEW p \in Pri, krhino_task_pri_change(t, p)
    PROVE  Kept
<1> DEFINE k0 == [k EXCEPT !.b_prio[t] = p]
           k1 == pri_change_one(k0, t, p)
<1>1. /\ k \in Kernel /\ ReadyOK(k) /\ t \in Task \ {Idle}
      /\ k.sched_lock > 0 => k.task_state[k.active] = "K_RDY"
      /\ critical_exit_sched(k1) /\ irq_off' = irq_off
  BY InvFacts DEF krhino_task_pri_change
<1>2. Quiet(k, k0)
  BY <1>1 DEF Kernel, Quiet, SameReady, SameCore
<1> HIDE DEF k0
<1>3. Steady(k, k0)
  BY <1>1, <1>2, QuietSteady
<1>4. Steady(k0, k1)
  BY <1>1, <1>3, PriChangeOne DEF Steady
<1> HIDE DEF k1
<1>5. /\ Concerns(k, k1, t)
      /\ k.sched_lock > 0 /\ t = k.active => k1.task_state[t] = "K_RDY"
  BY <1>1, <1>3, <1>4 DEF Steady, Concerns, SameCore
<1> QED
  BY <1>1, <1>5, ExitSched DEF Kept

\* krhino_task_wait_abort.
LEMMA WaitAbortStep ==
    ASSUME SchedInv, NEW t \in Task, krhino_task_wait_abort(t)
    PROVE  Kept
<1> DEFINE k1 == task_wait_abort(k, t)
<1>1. /\ k \in Kernel /\ ReadyOK(k) /\ k.task_state[t] # "K_DELETED"
      /\ k.sched_lock > 0 => k.task_state[k.active] = "K_RDY"
      /\ critical_exit_sched(k1) /\ irq_off' = irq_off
  BY InvFacts DEF krhino_task_wait_abort
<1>2. /\ Concerns(k, k1, t)
      /\ k.task_state[t] = "K_RDY" => Steady(k, k1)
  BY <1>1, WaitAbort
<1> HIDE DEF k1
<1>3. k.sched_lock > 0 /\ t = k.active => k1.task_state[t] = "K_RDY"
  BY <1>1, <1>2 DEF Steady
<1> QED
  BY <1>1, <1>2, <1>3, ExitSched DEF Kept

\* krhino_task_time_slice_set.
LEMMA TimeSliceSetStep ==
    ASSUME SchedInv, NEW t \in Task, NEW slice \in Nat, krhino_task_time_slice_set(t, slice)
    PROVE  Kept
<1> DEFINE total == IF slice > 0 THEN slice ELSE SliceDefault
           k1 == [k EXCEPT !.time_total[t] = total, !.time_slice[t] = total]
<1>1. /\ k \in Kernel /\ ReadyOK(k) /\ pc \in [Task -> {"run", "sched", "block", "end"}]
      /\ k.sched_lock > 0 => k.task_state[k.active] = "K_RDY"
      /\ k' = k1 /\ pc' = pc /\ irq_off' = irq_off
  BY InvFacts DEF krhino_task_time_slice_set
<1>2. total \in Nat
  BY SchedAssumption
<1> HIDE DEF total
<1>3. Quiet(k, k1)
  BY <1>1, <1>2 DEF Kernel, Quiet, SameReady, SameCore
<1> HIDE DEF k1
<1>4. Steady(k, k')
  BY <1>1, <1>3, QuietSteady
<1>5. /\ ReadyOK(k') /\ SameCore(k, k') /\ k'.ready = k.ready
      /\ k'.highest_pri = k.highest_pri /\ k'.task_state = k.task_state
  BY <1>1, <1>3, <1>4 DEF Steady, Quiet, SameReady
<1> QED
  BY <1>1, <1>5, CallGoesOn DEF Kept

\* krhino_sched_policy_set.
LEMMA PolicySetStep ==
    ASSUME SchedInv, NEW t \in Task, NEW policy \in SchedPolicy,
           krhino_sched_policy_set(t, policy)
    PROVE  Kept
<1> DEFINE k1 == [k EXCEPT !.sched_policy[t] = policy]
<1>1. /\ k \in Kernel /\ ReadyOK(k) /\ pc \in [Task -> {"run", "sched", "block", "end"}]
      /\ k.sched_lock > 0 => k.task_state[k.active] = "K_RDY"
      /\ k' = k1 /\ pc' = pc /\ irq_off' = irq_off
  BY InvFacts DEF krhino_sched_policy_set
<1>3. Quiet(k, k1)
  BY <1>1 DEF Kernel, Quiet, SameReady, SameCore
<1> HIDE DEF k1
<1>4. Steady(k, k')
  BY <1>1, <1>3, QuietSteady
<1>5. /\ ReadyOK(k') /\ SameCore(k, k') /\ k'.ready = k.ready
      /\ k'.highest_pri = k.highest_pri /\ k'.task_state = k.task_state
  BY <1>1, <1>3, <1>4 DEF Steady, Quiet, SameReady
<1> QED
  BY <1>1, <1>5, CallGoesOn DEF Kept

\* Every step of the specification.
LEMMA SchedInvStep == SchedInv /\ [Next]_schedVars => SchedInv' /\ (KeepsCore \/ UNCHANGED schedVars)
<1> SUFFICES ASSUME SchedInv, [Next]_schedVars
             PROVE  Kept \/ (SchedInv' /\ UNCHANGED schedVars)
  BY DEF Kept
<1>0. CASE UNCHANGED schedVars
  BY <1>0 DEF schedVars, SchedInv, KernelTypeOK, NoMissedSwitch, Executing,
              preferred_cpu_ready_task_get
<1>1. ASSUME NEW t \in Task, core_sched(t) PROVE Kept
  BY <1>1, CoreSchedStep
<1>2. CASE krhino_intrpt_enter
  BY <1>2, IntrptEnterStep
<1>3. CASE krhino_intrpt_exit
  BY <1>3, IntrptExitStep
<1>4. CASE krhino_sched_disable
  BY <1>4, SchedDisableStep
<1>5. CASE krhino_sched_enable
  BY <1>5, SchedEnableStep
<1>6. CASE tick_intrpt
  BY <1>6, TickIntrptStep
<1>7. CASE tick_end
  BY <1>7, TickEndStep
<1>8. ASSUME NEW ticks \in Ticks, krhino_task_sleep(ticks) PROVE Kept
  BY <1>8, SleepStep, TaskCallsAssumption
<1>9. CASE krhino_task_yield
  BY <1>9, YieldStep
<1>10. ASSUME NEW t \in Suspendable, krhino_task_suspend(t) PROVE Kept
  BY <1>10, SuspendStep, TaskCallsAssumption
<1>11. ASSUME NEW t \in Suspendable, krhino_task_resume(t) PROVE Kept
  BY <1>11, ResumeStep, TaskCallsAssumption
<1>12. CASE tick_next
  BY <1>12, TickNextStep
<1>13. ASSUME NEW t \in Task, pend_state_end_proc(t) PROVE Kept
  BY <1>13, PendEndStep
<1>14. ASSUME NEW t \in Task, NEW autorun \in BOOLEAN, krhino_task_create(t, autorun)
       PROVE  Kept
  BY <1>14, CreateStep
<1>15. ASSUME NEW t \in Victims, krhino_task_del(t) PROVE Kept
  BY <1>15, DelStep, TaskCallsAssumption
<1>16. ASSUME NEW t \in Movable, NEW p \in NewPri, krhino_task_pri_change(t, p) PROVE Kept
  BY <1>16, PriChangeStep, TaskCallsAssumption
<1>17. ASSUME NEW t \in Abortable, krhino_task_wait_abort(t) PROVE Kept
  BY <1>17, WaitAbortStep, TaskCallsAssumption
<1>18. ASSUME NEW t \in Task, NEW slice \in Slices, krhino_task_time_slice_set(t, slice)
       PROVE  Kept
  BY <1>18, TimeSliceSetStep, TaskCallsAssumption
<1>19. ASSUME NEW t \in Task, NEW policy \in SchedPolicy, krhino_sched_policy_set(t, policy)
       PROVE  Kept
  BY <1>19, PolicySetStep
<1>20. CASE PlainNext
  BY <1>20, <1>1, <1>2, <1>3, <1>4, <1>5, <1>6, <1>7, <1>8, <1>9, <1>10, <1>11
     DEF PlainNext, SwitchNext
<1>21. CASE TaskNext
  BY <1>21, <1>12, <1>13, <1>14, <1>15, <1>16, <1>17, <1>20 DEF TaskNext
<1>22. CASE RoundRobinNext
  BY <1>22, <1>18, <1>19 DEF RoundRobinNext
<1> QED
  BY <1>0, <1>21, <1>22 DEF Next

-----------------------------------------------------------------------------
(* The theorems *)

\* The scheduler's invariant holds in every reachable state, for any number of tasks
\* and priorities.
THEOREM SchedInvAlways == Spec => []SchedInv
<1>1. Init => SchedInv
  BY SchedInvInit
<1>2. SchedInv /\ [Next]_schedVars => SchedInv'
  BY SchedInvStep
<1> QED
  BY <1>1, <1>2, PTL DEF Spec

\* The kernel record stays well formed: no list holds anything but tasks, no count
\* goes below 0, highest_pri is a priority.
THEOREM TypeCorrect == Spec => []KernelTypeOK
<1>1. SchedInv => KernelTypeOK
  BY DEF SchedInv
<1> QED
  BY <1>1, SchedInvAlways, PTL

\* Suspensions nest: whatever is called between them, a task that is suspended has a
\* suspension to undo, and krhino_task_suspend does not let the byte wrap.
THEOREM SuspensionsCounted == Spec => []SuspendCountOK
<1>1. ASSUME SchedInv
      PROVE  SuspendCountOK
  <2>1. k \in Kernel /\ \A t \in Task : Counted(k, t)
    BY <1>1 DEF SchedInv, ReadyOK
  <2>2. k.suspend_count \in [Task -> Nat]
    BY <2>1 DEF Kernel
  <2> QED
    BY <2>1, <2>2, SuspendAssumption DEF Counted, Suspended, SuspendCountOK
<1> QED
  BY <1>1, SchedInvAlways, PTL

\* What SchedInv says of the ready queue.
LEMMA ReadyQueueFacts ==
    ASSUME SchedInv
    PROVE  ReadyListsOK /\ HighestPriOK
<1>1. k \in Kernel /\ OnReady(k, Ready(k)) /\ Ready(k) \in SUBSET Task
  BY DEF SchedInv, ReadyOK, Ready
<1>2. /\ \A p \in Pri : Holds(k.ready[p], {t \in Ready(k) : k.prio[t] = p})
      /\ k.ready[k.highest_pri] # <<>>
      /\ k.highest_pri = FirstReady(k.ready)
  BY <1>1, OnReadyGives
<1>3. ASSUME NEW p \in Pri
      PROVE  {t \in Ready(k) : k.prio[t] = p}
                = {t \in Task : k.task_state[t] = "K_RDY" /\ k.prio[t] = p}
  BY DEF Ready
<1> QED
  BY <1>2, <1>3 DEF ReadyListsOK, HighestPriOK

\* In every call and every interleaving with interrupts, task_state, prio and the
\* ready lists change in step, and highest_pri, kept by increments, is the priority
\* of the most urgent ready task.
THEOREM ReadyQueueCorrect == Spec => [](ReadyListsOK /\ HighestPriOK)
<1>1. SchedInv => ReadyListsOK /\ HighestPriOK
  BY ReadyQueueFacts
<1> QED
  BY <1>1, SchedInvAlways, PTL

\* The ready lists alone: a task is ready if and only if it is queued.
THEOREM ReadyListsCorrect == Spec => []ReadyListsOK
<1>1. SchedInv => ReadyListsOK
  BY ReadyQueueFacts
<1> QED
  BY <1>1, SchedInvAlways, PTL

\* A task that executes is ready: by the last clause of the invariant it is the
\* preferred task, or it has locked the scheduler.
LEMMA ExecutingIsReady ==
    ASSUME SchedInv
    PROVE  OnlyReadyExecutes
<1> SUFFICES ASSUME NEW t \in Task, Executing(t)
             PROVE  k.task_state[t] = "K_RDY"
  BY DEF OnlyReadyExecutes
<1>1. k.active = t /\ k.sched_lock \in Nat
  BY InvFacts DEF Executing
<1>2. CASE k.sched_lock > 0
  BY <1>1, <1>2, InvFacts
<1>3. CASE k.sched_lock = 0
  <2>1. t = preferred_cpu_ready_task_get(k)
    BY <1>3 DEF SchedInv, NoMissedSwitch
  <2>2. k \in Kernel /\ Ready(k) \in SUBSET Task /\ OnReady(k, Ready(k))
    BY DEF SchedInv, ReadyOK, Ready
  <2>3. t \in Ready(k)
    BY <2>1, <2>2, PreferredIsReady
  <2> QED
    BY <2>3 DEF Ready
<1> QED
  BY <1>1, <1>2, <1>3

\* No task executes that is pended, asleep, suspended or deleted, and unless the
\* scheduler is locked none but the one at the head of the most urgent ready list:
\* every call that changes who that is goes through core_sched or happens in an
\* interrupt handler.
THEOREM MostUrgentExecutes == Spec => [](OnlyReadyExecutes /\ NoMissedSwitch)
<1>1. SchedInv => OnlyReadyExecutes /\ NoMissedSwitch
  BY ExecutingIsReady DEF SchedInv
<1> QED
  BY <1>1, SchedInvAlways, PTL

\* No interrupt between the end of a critical section and core_sched makes a task go on
\* that has blocked, was suspended or was deleted meanwhile.
THEOREM BlockedNeverExecutes == Spec => []OnlyReadyExecutes
<1>1. SchedInv => OnlyReadyExecutes
  BY ExecutingIsReady
<1> QED
  BY <1>1, SchedInvAlways, PTL

\* From krhino_sched_disable to the last krhino_sched_enable no interrupt, tick or
\* call takes the core from the active task, or its readiness.
THEOREM LockedCoreKept == Spec => LockKeepsCore
<1>1. SchedInv /\ [Next]_schedVars => [KeepsCore]_schedVars
  BY SchedInvStep
<1>2. [KeepsCore]_schedVars =>
         [k.sched_lock > 0 => k'.active = k.active /\ k'.task_state[k.active] = "K_RDY"]_schedVars
  BY DEF KeepsCore
<1> QED
  BY <1>1, <1>2, SchedInvAlways, PTL DEF Spec, LockKeepsCore

-----------------------------------------------------------------------------
(* The pend lists and the tick list of a record *)

OnTick(kk) == ToSet(kk.tick_list)

\* The lists are right for the tasks of D: each of them is on the pend list of its
\* blk_obj, once, and the lists are sorted.
PendRight(kk, D) ==
    \A o \in Obj : /\ Holds(kk.blk_list[o], {t \in D : kk.blk_obj[t] = o})
                   /\ Ordered(kk.blk_list[o], kk.prio)

TickRight(kk) == IsInjective(kk.tick_list) /\ Ordered(kk.tick_list, kk.tick_remain)

Right(kk, D) == kk \in Kernel /\ PendRight(kk, D) /\ TickRight(kk)

\* What task_state says of the lists t is on.
Linked(kk, t) ==
    /\ kk.task_state[t] \in Pending <=> kk.blk_obj[t] \in Obj
    /\ kk.task_state[t] \in Sleeping => t \in OnTick(kk)
    /\ t \in OnTick(kk) => kk.task_state[t] \in Sleeping \cup Pending

\* What holds of the record between any two calls, as far as waiting is concerned.
WaitOK(kk) ==
    /\ Right(kk, Task)
    /\ \A t \in Task : Linked(kk, t)
    /\ ~kk.fatal

\* The lists, and what decides a place on them, are the same.
SameLists(kk1, kk2) ==
    /\ kk2.blk_list = kk1.blk_list
    /\ kk2.blk_obj = kk1.blk_obj
    /\ kk2.tick_list = kk1.tick_list
    /\ kk2.tick_remain = kk1.tick_remain
    /\ kk2.prio = kk1.prio
    /\ kk2.fatal = kk1.fatal

\* Nothing happens to the waits of other tasks than t.
Spares(kk1, kk2, t) ==
    /\ \A u \in Task \ {t} :
          /\ kk2.task_state[u] = kk1.task_state[u]
          /\ kk2.blk_obj[u] = kk1.blk_obj[u]
          /\ kk2.blk_state[u] = kk1.blk_state[u]
          /\ u \in OnTick(kk2) <=> u \in OnTick(kk1)
    /\ kk2.fatal = kk1.fatal

\* One after the other.
LEMMA SparesTrans ==
    ASSUME NEW kk1, NEW kk2, NEW kk3, NEW t, Spares(kk1, kk2, t), Spares(kk2, kk3, t)
    PROVE  Spares(kk1, kk3, t)
BY DEF Spares

\* A record with the same lists is as right.
LEMMA SameListsRight ==
    ASSUME NEW kk1, NEW kk2 \in Kernel, NEW D, Right(kk1, D), SameLists(kk1, kk2)
    PROVE  Right(kk2, D) /\ OnTick(kk2) = OnTick(kk1)
BY DEF Right, PendRight, TickRight, SameLists, OnTick

\* A call that spares the others has to get t right only.
LEMMA WaitFrom ==
    ASSUME NEW kk1, NEW kk2, NEW t \in Task, WaitOK(kk1), Right(kk2, Task),
           Spares(kk1, kk2, t), Linked(kk2, t)
    PROVE  WaitOK(kk2)
BY DEF WaitOK, Spares, Linked

\* The types of the fields the lists are about.
LEMMA KernelFields ==
    ASSUME NEW kk \in Kernel
    PROVE  /\ kk.task_state \in [Task -> TaskState]
           /\ kk.prio \in [Task -> Pri] /\ kk.prio \in [Task -> Int]
           /\ kk.blk_state \in [Task -> BlkState]
           /\ kk.blk_obj \in [Task -> Obj \cup {NoObj}]
           /\ kk.tick_remain \in [Task -> Nat] /\ kk.tick_remain \in [Task -> Int]
           /\ kk.tick_list \in Seq(Task)
           /\ kk.blk_list \in [Obj -> Seq(Task)]
           /\ kk.fatal \in BOOLEAN
<1>1. /\ kk.task_state \in [Task -> TaskState]
           /\ kk.prio \in [Task -> Pri]
           /\ kk.blk_state \in [Task -> BlkState]
           /\ kk.blk_obj \in [Task -> Obj \cup {NoObj}]
           /\ kk.tick_remain \in [Task -> Nat]
           /\ kk.tick_list \in Seq(Task)
           /\ kk.blk_list \in [Obj -> Seq(Task)]
           /\ kk.fatal \in BOOLEAN
  BY DEF Kernel
<1>2. kk.prio \in [Task -> Int]
  <2>1. kk.prio \in [Task -> Pri] /\ Pri \subseteq Int
    BY <1>1, PriNat
  <2> HIDE DEF Pri
  <2> QED
    BY <2>1
<1>3. kk.tick_remain \in [Task -> Int]
  BY <1>1
<1> HIDE DEF Kernel, Pri, TaskState, BlkState
<1> QED
  BY <1>1, <1>2, <1>3

-----------------------------------------------------------------------------
(* The tick list *)

\* The place depends on the keys of the elements only.
LEMMA PlaceSame ==
    ASSUME NEW s, NEW key1, NEW key2, NEW n, \A i \in DOMAIN s : key1[s[i]] = key2[s[i]]
    PROVE  Place(s, key1, n) = Place(s, key2, n)
<1>1. {i \in DOMAIN s : key1[s[i]] > n} = {i \in DOMAIN s : key2[s[i]] > n}
  OBVIOUS
<1> QED
  BY <1>1 DEF Place

\* tick_list_insert: t is on the tick list, at its place, unless it waits no tick at all.
LEMMA TickInsertRight ==
    ASSUME NEW kk, NEW D, Right(kk, D), NEW t \in Task, t \notin OnTick(kk),
           NEW ticks \in Nat, NEW kk2, kk2 = tick_list_insert(kk, t, ticks)
    PROVE  /\ Right(kk2, D)
           /\ Spares(kk, kk2, t)
           /\ OnTick(kk2) = OnTick(kk) \cup (IF ticks = 0 THEN {} ELSE {t})
           /\ kk2.task_state = kk.task_state /\ kk2.blk_obj = kk.blk_obj
           /\ kk2.blk_state = kk.blk_state /\ kk2.prio = kk.prio
           /\ kk2.blk_list = kk.blk_list /\ kk2.fatal = kk.fatal
<1>0. kk \in Kernel
  BY DEF Right
<1>1. CASE ticks = 0
  BY <1>1 DEF tick_list_insert, Spares
<1>2. CASE ticks # 0
  <2> DEFINE s == kk.tick_list
             r == kk.tick_remain
             r2 == [r EXCEPT ![t] = ticks]
             p == Place(s, r, ticks)
             l == InsertAt(s, p, t)
  <2>1. s \in Seq(Task) /\ r \in [Task -> Nat] /\ r2 \in [Task -> Nat] /\ r2[t] = ticks
        /\ r2 \in [Task -> Int] /\ r \in [Task -> Int]
    <3>1. kk.tick_list \in Seq(Task) /\ kk.tick_remain \in [Task -> Nat]
      BY <1>0, KernelFields
    <3> QED
      BY <3>1
  <2>2. IsInjective(s) /\ Ordered(s, r)
    BY DEF Right, TickRight
  <2>3. \A i \in DOMAIN s : s[i] \in Task \ {t} /\ r2[s[i]] = r[s[i]]
    BY <2>1, InToSet DEF OnTick
  <2>4. Ordered(s, r2)
    BY <2>2, <2>3 DEF Ordered
  <2>5. p = Place(s, r2, r2[t])
    <3>1. \A i \in DOMAIN s : r[s[i]] = r2[s[i]]
      BY <2>3
    <3> HIDE DEF r, r2, s
    <3>2. Place(s, r, ticks) = Place(s, r2, ticks)
      BY <3>1, PlaceSame
    <3> QED
      BY <2>1, <3>2
  <2>6. kk2 = [kk EXCEPT !.tick_list = l, !.tick_remain = r2]
    BY <1>0, <1>2 DEF tick_list_insert, klist_insert, Place, Kernel
  <2>7. p \in 1 .. Len(s) + 1
    BY <2>1, <2>4, <2>5, PlaceFacts
  <2> HIDE DEF p
  <2>8. Ordered(l, r2)
    BY <2>1, <2>4, <2>5, InsertOrdered
  <2>9. l \in Seq(Task) /\ Holds(l, ToSet(s) \cup {t})
    BY <2>1, <2>2, <2>7, InsertAtHolds DEF OnTick
  <2> HIDE DEF l, r2, s
  <2>10. kk2 \in Kernel
    BY <1>0, <2>1, <2>6, <2>9 DEF Kernel
  <2>11. /\ kk2.task_state = kk.task_state /\ kk2.blk_obj = kk.blk_obj
         /\ kk2.blk_state = kk.blk_state /\ kk2.prio = kk.prio
         /\ kk2.blk_list = kk.blk_list /\ kk2.fatal = kk.fatal
         /\ kk2.tick_list = l /\ kk2.tick_remain = r2
    BY <1>0, <2>6 DEF Kernel
  <2>12. OnTick(kk2) = OnTick(kk) \cup {t} /\ TickRight(kk2)
    BY <2>8, <2>9, <2>11 DEF OnTick, Holds, TickRight, s
  <2>13. PendRight(kk2, D)
    BY <2>11 DEF Right, PendRight
  <2> QED
    BY <1>2, <2>10, <2>11, <2>12, <2>13 DEF Right, Spares
<1> QED
  BY <1>1, <1>2

\* tick_list_rm: t is off the tick list.
LEMMA TickRmRight ==
    ASSUME NEW kk, NEW D, Right(kk, D), NEW t \in Task, NEW kk2, kk2 = tick_list_rm(kk, t)
    PROVE  /\ Right(kk2, D)
           /\ Spares(kk, kk2, t)
           /\ OnTick(kk2) = OnTick(kk) \ {t}
           /\ kk2.task_state = kk.task_state /\ kk2.blk_obj = kk.blk_obj
           /\ kk2.blk_state = kk.blk_state /\ kk2.prio = kk.prio
           /\ kk2.blk_list = kk.blk_list /\ kk2.fatal = kk.fatal
<1> DEFINE s == kk.tick_list
           r2 == [kk.tick_remain EXCEPT ![t] = 0]
           l == klist_rm(s, t)
<1>0. kk \in Kernel
  BY DEF Right
<1>1. s \in Seq(Task) /\ r2 \in [Task -> Nat] /\ \A u \in Task \ {t} : r2[u] = kk.tick_remain[u]
  BY <1>0, KernelFields
<1>2. IsInjective(s) /\ Ordered(s, kk.tick_remain)
  BY DEF Right, TickRight
<1>3. kk2 = [kk EXCEPT !.tick_list = l, !.tick_remain = r2]
  BY <1>0 DEF tick_list_rm, Kernel
<1> HIDE DEF r2, s
<1>4. OrderedBut(s, r2, t)
  BY <1>1, <1>2, OrderedOthers
<1>5. Ordered(l, r2)
  BY <1>1, <1>2, <1>4, KlistRmOrdered
<1>6. l \in Seq(Task) /\ Holds(l, ToSet(s) \ {t})
  BY <1>1, <1>2, KlistRmHolds
<1> HIDE DEF l
<1>10. kk2 \in Kernel
  BY <1>0, <1>1, <1>3, <1>6 DEF Kernel
<1>11. /\ kk2.task_state = kk.task_state /\ kk2.blk_obj = kk.blk_obj
       /\ kk2.blk_state = kk.blk_state /\ kk2.prio = kk.prio
       /\ kk2.blk_list = kk.blk_list /\ kk2.fatal = kk.fatal
       /\ kk2.tick_list = l /\ kk2.tick_remain = r2
  BY <1>0, <1>3 DEF Kernel
<1>12. OnTick(kk2) = OnTick(kk) \ {t} /\ TickRight(kk2)
  BY <1>5, <1>6, <1>11 DEF OnTick, Holds, TickRight, s
<1>13. PendRight(kk2, D)
  BY <1>11 DEF Right, PendRight
<1> QED
  BY <1>10, <1>11, <1>12, <1>13 DEF Right, Spares

\* g_tick_count + 1: the order of the remaining ticks stays.
LEMMA TickCountRight ==
    ASSUME NEW kk, NEW D, Right(kk, D), NEW kk2, kk2 = tick_count_inc(kk)
    PROVE  /\ Right(kk2, D)
           /\ kk2.task_state = kk.task_state /\ kk2.blk_obj = kk.blk_obj
           /\ kk2.blk_state = kk.blk_state /\ kk2.prio = kk.prio
           /\ kk2.blk_list = kk.blk_list /\ kk2.fatal = kk.fatal
           /\ OnTick(kk2) = OnTick(kk)
<1> DEFINE r == kk.tick_remain
           r2 == [u \in Task |-> IF r[u] > 0 THEN r[u] - 1 ELSE 0]
<1>0. kk \in Kernel
  BY DEF Right
<1>1. r \in [Task -> Nat] /\ kk.tick_list \in Seq(Task)
  BY <1>0, KernelFields
<1> HIDE DEF r
<1>2. r2 \in [Task -> Nat]
  BY <1>1
<1>3. kk2 = [kk EXCEPT !.tick_remain = r2]
  BY <1>0 DEF tick_count_inc, Kernel, r
<1>4. \A u, v \in Task : r[u] <= r[v] => r2[u] <= r2[v]
  BY <1>1
<1> HIDE DEF r2
<1>5. kk2 \in Kernel
  BY <1>0, <1>2, <1>3 DEF Kernel
<1>6. /\ kk2.task_state = kk.task_state /\ kk2.blk_obj = kk.blk_obj
      /\ kk2.blk_state = kk.blk_state /\ kk2.prio = kk.prio
      /\ kk2.blk_list = kk.blk_list /\ kk2.fatal = kk.fatal
      /\ kk2.tick_list = kk.tick_list /\ kk2.tick_remain = r2
  BY <1>0, <1>3 DEF Kernel
<1>7. Ordered(kk.tick_list, r2)
  <2>1. \A i \in DOMAIN kk.tick_list : kk.tick_list[i] \in Task
    BY <1>1
  <2>2. Ordered(kk.tick_list, r)
    BY DEF Right, TickRight, r
  <2> QED
    BY <1>4, <2>1, <2>2 DEF Ordered
<1> QED
  BY <1>5, <1>6, <1>7 DEF Right, PendRight, TickRight, OnTick

-----------------------------------------------------------------------------
(* The pend lists *)

\* pend_list_add: t is on the pend list of its blk_obj, at its place.
LEMMA PendAddRight ==
    ASSUME NEW kk, NEW t \in Task, Right(kk, Task \ {t}), NEW o \in Obj, kk.blk_obj[t] = o,
           NEW kk2, kk2 = pend_list_add(kk, o, t)
    PROVE  /\ Right(kk2, Task)
           /\ kk2.task_state = kk.task_state /\ kk2.blk_obj = kk.blk_obj
           /\ kk2.blk_state = kk.blk_state /\ kk2.prio = kk.prio
           /\ kk2.fatal = kk.fatal /\ OnTick(kk2) = OnTick(kk)
<1> DEFINE s == kk.blk_list[o]
           p == Place(s, kk.prio, kk.prio[t])
           l == InsertAt(s, p, t)
           bl == [kk.blk_list EXCEPT ![o] = l]
<1>0. kk \in Kernel
  BY DEF Right
<1>1. /\ kk.blk_list \in [Obj -> Seq(Task)] /\ s \in Seq(Task)
      /\ kk.prio \in [Task -> Int] /\ kk.prio[t] \in Int
  BY <1>0, KernelFields
<1>2. Holds(s, {u \in Task \ {t} : kk.blk_obj[u] = o}) /\ Ordered(s, kk.prio)
  BY DEF Right, PendRight
<1>3. IsInjective(s) /\ t \notin ToSet(s)
  BY <1>2 DEF Holds
<1>4. kk2 = [kk EXCEPT !.blk_list = bl]
  BY <1>0 DEF pend_list_add, klist_insert, Place, Kernel
<1>5. p \in 1 .. Len(s) + 1
  BY <1>1, <1>2, PlaceFacts
<1>6. Ordered(l, kk.prio)
  BY <1>1, <1>2, InsertOrdered
<1> HIDE DEF p
<1>7. l \in Seq(Task) /\ Holds(l, ToSet(s) \cup {t})
  BY <1>1, <1>3, <1>5, InsertAtHolds
<1>8. ToSet(s) \cup {t} = {u \in Task : kk.blk_obj[u] = o}
  BY <1>2 DEF Holds
<1> HIDE DEF l, s
<1>9. bl \in [Obj -> Seq(Task)] /\ bl[o] = l /\ \A q \in Obj \ {o} : bl[q] = kk.blk_list[q]
  BY <1>1, <1>7
<1> HIDE DEF bl
<1>10. kk2 \in Kernel
  BY <1>0, <1>4, <1>9 DEF Kernel
<1>11. /\ kk2.task_state = kk.task_state /\ kk2.blk_obj = kk.blk_obj
       /\ kk2.blk_state = kk.blk_state /\ kk2.prio = kk.prio
       /\ kk2.blk_list = bl /\ kk2.fatal = kk.fatal
       /\ kk2.tick_list = kk.tick_list /\ kk2.tick_remain = kk.tick_remain
  BY <1>0, <1>4 DEF Kernel
<1>12. ASSUME NEW q \in Obj
       PROVE  Holds(bl[q], {u \in Task : kk.blk_obj[u] = q}) /\ Ordered(bl[q], kk.prio)
  <2>1. CASE q = o
    BY <1>6, <1>7, <1>8, <1>9, <2>1
  <2>2. CASE q # o
    <3>1. {u \in Task : kk.blk_obj[u] = q} = {u \in Task \ {t} : kk.blk_obj[u] = q}
      BY <2>2
    <3> QED
      BY <1>9, <2>2, <3>1 DEF Right, PendRight
  <2> QED
    BY <2>1, <2>2
<1> QED
  BY <1>10, <1>11, <1>12 DEF Right, PendRight, TickRight, OnTick

\* t is unlinked from the pend list of its blk_obj; its own priority may have changed.
LEMMA UnlinkRight ==
    ASSUME NEW kk \in Kernel, NEW t \in Task, NEW o \in Obj, kk.blk_obj[t] = o,
           TickRight(kk),
           \A q \in Obj : /\ Holds(kk.blk_list[q], {u \in Task : kk.blk_obj[u] = q})
                          /\ OrderedBut(kk.blk_list[q], kk.prio, t),
           NEW kk2, kk2 = [kk EXCEPT !.blk_list[o] = klist_rm(@, t)]
    PROVE  /\ Right(kk2, Task \ {t})
           /\ kk2.task_state = kk.task_state /\ kk2.blk_obj = kk.blk_obj
           /\ kk2.blk_state = kk.blk_state /\ kk2.prio = kk.prio
           /\ kk2.fatal = kk.fatal /\ OnTick(kk2) = OnTick(kk)
<1> DEFINE s == kk.blk_list[o]
           l == klist_rm(s, t)
           bl == [kk.blk_list EXCEPT ![o] = l]
<1>1. /\ kk.blk_list \in [Obj -> Seq(Task)] /\ s \in Seq(Task)
  BY KernelFields
<1>2. Holds(s, {u \in Task : kk.blk_obj[u] = o}) /\ OrderedBut(s, kk.prio, t)
  OBVIOUS
<1>3. IsInjective(s)
  BY <1>2 DEF Holds
<1>4. kk2 = [kk EXCEPT !.blk_list = bl]
  BY DEF Kernel
<1>6. Ordered(l, kk.prio)
  BY <1>1, <1>2, <1>3, KlistRmOrdered
<1>7. l \in Seq(Task) /\ Holds(l, ToSet(s) \ {t})
  BY <1>1, <1>3, KlistRmHolds
<1>8. ToSet(s) \ {t} = {u \in Task \ {t} : kk.blk_obj[u] = o}
  BY <1>2 DEF Holds
<1> HIDE DEF l, s
<1>9. bl \in [Obj -> Seq(Task)] /\ bl[o] = l /\ \A q \in Obj \ {o} : bl[q] = kk.blk_list[q]
  BY <1>1, <1>7
<1> HIDE DEF bl
<1>10. kk2 \in Kernel
  BY <1>4, <1>9 DEF Kernel
<1>11. /\ kk2.task_state = kk.task_state /\ kk2.blk_obj = kk.blk_obj
       /\ kk2.blk_state = kk.blk_state /\ kk2.prio = kk.prio
       /\ kk2.blk_list = bl /\ kk2.fatal = kk.fatal
       /\ kk2.tick_list = kk.tick_list /\ kk2.tick_remain = kk.tick_remain
  BY <1>4 DEF Kernel
<1>12. ASSUME NEW q \in Obj
       PROVE  Holds(bl[q], {u \in Task \ {t} : kk.blk_obj[u] = q}) /\ Ordered(bl[q], kk.prio)
  <2>1. CASE q = o
    BY <1>6, <1>7, <1>8, <1>9, <2>1
  <2>2. CASE q # o
    <3>1. {u \in Task : kk.blk_obj[u] = q} = {u \in Task \ {t} : kk.blk_obj[u] = q}
      BY <2>2
    <3>2. Holds(kk.blk_list[q], {u \in Task : kk.blk_obj[u] = q})
      OBVIOUS
    <3>3. \A i \in DOMAIN kk.blk_list[q] : kk.blk_list[q][i] # t
      <4>1. t \notin ToSet(kk.blk_list[q])
        BY <2>2, <3>2 DEF Holds
      <4> QED
        BY <4>1, InToSet
    <3>4. Ordered(kk.blk_list[q], kk.prio)
      BY <3>3 DEF Ordered, OrderedBut
    <3> QED
      BY <1>9, <2>2, <3>1, <3>2, <3>4
  <2> QED
    BY <2>1, <2>2
<1> QED
  BY <1>10, <1>11, <1>12 DEF Right, PendRight, TickRight, OnTick

\* The same lists, and the same states.
Unmoved(kk1, kk2) ==
    /\ SameLists(kk1, kk2)
    /\ kk2.task_state = kk1.task_state
    /\ kk2.blk_state = kk1.blk_state

\* A call ends the wait of t at most, and not with what t waited for.
Ungranted(kk1, kk2, t) ==
    /\ WaitOK(kk2)
    /\ Spares(kk1, kk2, t)
    /\ \/ /\ kk2.blk_obj[t] = kk1.blk_obj[t]
          /\ kk1.blk_obj[t] \in Obj => kk2.blk_state[t] = kk1.blk_state[t]
       \/ /\ kk2.blk_obj[t] = NoObj
          /\ \/ kk2.blk_state[t] # "BLK_FINISH"
             \/ kk2.task_state[t] = "K_DELETED" /\ kk2.blk_state[t] = kk1.blk_state[t]

\* The ready queue's functions change no list of waiters.
LEMMA QueueFields ==
    ASSUME NEW kk \in Kernel, NEW t,
           NEW kk2 \in {ready_list_add(kk, t), ready_list_add_tail(kk, t),
                        ready_list_add_head(kk, t), ready_list_rm(kk, t),
                        ready_list_head_to_tail(kk, t)}
    PROVE  Unmoved(kk, kk2)
<1>1. kk2 = ready_list_add_tail(kk, t) => Unmoved(kk, kk2)
  BY DEF ready_list_add_tail, Unmoved, SameLists, Kernel
<1>2. kk2 = ready_list_add_head(kk, t) => Unmoved(kk, kk2)
  BY DEF ready_list_add_head, Unmoved, SameLists, Kernel
<1>3. kk2 = ready_list_add(kk, t) => Unmoved(kk, kk2)
  BY <1>1, <1>2 DEF ready_list_add
<1>4. kk2 = ready_list_rm(kk, t) => Unmoved(kk, kk2)
  BY DEF ready_list_rm, Unmoved, SameLists, Kernel
<1>5. kk2 = ready_list_head_to_tail(kk, t) => Unmoved(kk, kk2)
  BY DEF ready_list_head_to_tail, Unmoved, SameLists, Kernel
<1> QED
  BY <1>1, <1>2, <1>3, <1>4, <1>5

\* make_ready: t is ready, and on the lists of waiters it was on before.
LEMMA MakeReadyFields ==
    ASSUME NEW kk \in Kernel, NEW t \in Task, NEW kk2, kk2 = make_ready(kk, t)
    PROVE  /\ SameLists(kk, kk2)
           /\ kk2.blk_state = kk.blk_state
           /\ kk2.task_state = [kk.task_state EXCEPT ![t] = "K_RDY"]
<1> DEFINE kk1 == [kk EXCEPT !.task_state[t] = "K_RDY"]
<1>1. /\ kk1 \in Kernel /\ SameLists(kk, kk1) /\ kk1.blk_state = kk.blk_state
      /\ kk1.task_state = [kk.task_state EXCEPT ![t] = "K_RDY"]
  <2>1. kk1 \in Kernel
    BY DEF Kernel, TaskState
  <2> QED
    BY <2>1 DEF SameLists, Kernel
<1> HIDE DEF kk1
<1>2. Unmoved(kk1, kk2)
  BY <1>1, QueueFields DEF make_ready, kk1
<1> QED
  BY <1>1, <1>2 DEF Unmoved, SameLists

\* leave_lists: t is on no list afterwards.
LEMMA LeaveListsRight ==
    ASSUME NEW kk, Right(kk, Task), NEW t \in Task, kk.blk_obj[t] \in Obj,
           NEW kk2, kk2 = leave_lists(kk, t)
    PROVE  /\ Right(kk2, Task)
           /\ OnTick(kk2) = OnTick(kk) \ {t}
           /\ kk2.blk_obj = [kk.blk_obj EXCEPT ![t] = NoObj]
           /\ kk2.task_state = kk.task_state
           /\ kk2.blk_state = kk.blk_state
           /\ kk2.prio = kk.prio
           /\ kk2.fatal = kk.fatal
<1> DEFINE o == kk.blk_obj[t]
           a == [kk EXCEPT !.blk_list[o] = klist_rm(@, t)]
           b == [a EXCEPT !.blk_obj[t] = NoObj]
<1>0. kk \in Kernel /\ TickRight(kk)
  BY DEF Right
<1>1. \A q \in Obj : /\ Holds(kk.blk_list[q], {u \in Task : kk.blk_obj[u] = q})
                     /\ OrderedBut(kk.blk_list[q], kk.prio, t)
  BY DEF Right, PendRight, Ordered, OrderedBut
<1>3. kk2 = tick_list_rm(b, t)
  BY <1>0 DEF leave_lists, Kernel
<1>10. o \in Obj /\ kk.blk_obj[t] = o /\ a = [kk EXCEPT !.blk_list[o] = klist_rm(@, t)]
  OBVIOUS
<1> HIDE DEF a, o
<1>2. /\ Right(a, Task \ {t})
      /\ a.task_state = kk.task_state /\ a.blk_obj = kk.blk_obj
      /\ a.blk_state = kk.blk_state /\ a.prio = kk.prio
      /\ a.fatal = kk.fatal /\ OnTick(a) = OnTick(kk)
  BY <1>0, <1>1, <1>10, UnlinkRight
<1>4. /\ b \in Kernel /\ b.blk_obj = [a.blk_obj EXCEPT ![t] = NoObj]
      /\ b.task_state = a.task_state /\ b.blk_state = a.blk_state /\ b.prio = a.prio
      /\ b.fatal = a.fatal /\ b.tick_list = a.tick_list /\ b.tick_remain = a.tick_remain
      /\ b.blk_list = a.blk_list
  <2>1. a \in Kernel
    BY <1>2 DEF Right
  <2>2. b \in Kernel
    BY <2>1 DEF Kernel
  <2> QED
    BY <2>1, <2>2 DEF Kernel
<1> HIDE DEF b
<1>5. kk.blk_obj \in [Task -> Obj \cup {NoObj}]
  BY <1>0, KernelFields
<1>6. ASSUME NEW q \in Obj
      PROVE  {u \in Task : b.blk_obj[u] = q} = {u \in Task \ {t} : a.blk_obj[u] = q}
  <2>1. \A u \in Task : b.blk_obj[u] = IF u = t THEN NoObj ELSE a.blk_obj[u]
    BY <1>2, <1>4, <1>5
  <2> QED
    BY <2>1, ObjAssumption
<1>7. Right(b, Task)
  BY <1>2, <1>4, <1>6 DEF Right, PendRight, TickRight
<1>8. OnTick(b) = OnTick(kk)
  BY <1>2, <1>4 DEF OnTick
<1>9. /\ Right(kk2, Task) /\ OnTick(kk2) = OnTick(b) \ {t}
      /\ kk2.task_state = b.task_state /\ kk2.blk_obj = b.blk_obj
      /\ kk2.blk_state = b.blk_state /\ kk2.prio = b.prio
      /\ kk2.fatal = b.fatal
  BY <1>3, <1>7, TickRmRight
<1> QED
  BY <1>2, <1>4, <1>8, <1>9

\* The states of other tasks, and why their last waits ended, are the same.
OthersSame(kk1, kk2, t) ==
    \A u \in Task \ {t} : /\ kk2.task_state[u] = kk1.task_state[u]
                          /\ kk2.blk_state[u] = kk1.blk_state[u]

\* Where nothing moves, no wait ends.
LEMMA UnmovedWaits ==
    ASSUME NEW kk1, WaitOK(kk1), NEW kk2 \in Kernel, Unmoved(kk1, kk2), NEW t
    PROVE  Ungranted(kk1, kk2, t)
<1>1. Right(kk2, Task) /\ OnTick(kk2) = OnTick(kk1)
  BY SameListsRight DEF WaitOK, Unmoved
<1>2. WaitOK(kk2)
  BY <1>1 DEF WaitOK, Unmoved, SameLists, Linked
<1> QED
  BY <1>1, <1>2 DEF Ungranted, Unmoved, SameLists, Spares

\* The state of t changes and its lists do not.
LEMMA StateWaits ==
    ASSUME NEW kk1, WaitOK(kk1), NEW kk2 \in Kernel, SameLists(kk1, kk2), NEW t \in Task,
           OthersSame(kk1, kk2, t), Linked(kk2, t),
           kk1.blk_obj[t] \in Obj => kk2.blk_state[t] = kk1.blk_state[t]
    PROVE  Ungranted(kk1, kk2, t)
<1>1. Right(kk2, Task) /\ OnTick(kk2) = OnTick(kk1)
  BY SameListsRight DEF WaitOK
<1>2. Spares(kk1, kk2, t)
  BY <1>1 DEF Spares, SameLists, OthersSame
<1>3. WaitOK(kk2)
  BY <1>1, <1>2, WaitFrom
<1> QED
  BY <1>2, <1>3 DEF Ungranted, SameLists

\* t, which waits for nothing, is off the tick list.
LEMMA OffTick ==
    ASSUME NEW kk, WaitOK(kk), NEW t \in Task, kk.blk_obj[t] \notin Obj,
           NEW a, a = tick_list_rm(kk, t), NEW kk2 \in Kernel, SameLists(a, kk2),
           OthersSame(kk, kk2, t), kk2.task_state[t] \notin Pending \cup Sleeping
    PROVE  Ungranted(kk, kk2, t)
<1>1. /\ Right(a, Task) /\ OnTick(a) = OnTick(kk) \ {t}
      /\ a.blk_obj = kk.blk_obj /\ a.fatal = kk.fatal
  BY TickRmRight DEF WaitOK
<1>2. Right(kk2, Task) /\ OnTick(kk2) = OnTick(kk) \ {t}
  BY <1>1, SameListsRight
<1>3. kk2.blk_obj = kk.blk_obj /\ kk2.fatal = kk.fatal
  BY <1>1 DEF SameLists
<1>4. Spares(kk, kk2, t)
  BY <1>2, <1>3 DEF Spares, OthersSame
<1>5. Linked(kk2, t)
  BY <1>2, <1>3 DEF Linked
<1>6. WaitOK(kk2)
  BY <1>2, <1>4, <1>5, WaitFrom
<1> QED
  BY <1>3, <1>4, <1>6 DEF Ungranted

\* t, which waits for something, is off its pend list and off the tick list.
LEMMA OffPend ==
    ASSUME NEW kk, WaitOK(kk), NEW t \in Task, kk.blk_obj[t] \in Obj,
           NEW a, a = leave_lists(kk, t), NEW kk2 \in Kernel, SameLists(a, kk2),
           OthersSame(kk, kk2, t), kk2.task_state[t] \notin Pending \cup Sleeping
    PROVE  /\ WaitOK(kk2) /\ Spares(kk, kk2, t)
           /\ kk2.blk_obj = [kk.blk_obj EXCEPT ![t] = NoObj]
           /\ kk2.blk_obj[t] = NoObj
           /\ kk2.prio = kk.prio
<1>1. /\ Right(a, Task) /\ OnTick(a) = OnTick(kk) \ {t}
      /\ a.blk_obj = [kk.blk_obj EXCEPT ![t] = NoObj]
      /\ a.prio = kk.prio /\ a.fatal = kk.fatal
  BY LeaveListsRight DEF WaitOK
<1>2. Right(kk2, Task) /\ OnTick(kk2) = OnTick(kk) \ {t}
  BY <1>1, SameListsRight
<1>3. /\ kk2.blk_obj = [kk.blk_obj EXCEPT ![t] = NoObj] /\ kk2.prio = kk.prio
      /\ kk2.fatal = kk.fatal
  BY <1>1 DEF SameLists
<1>4. kk.blk_obj \in [Task -> Obj \cup {NoObj}]
  BY KernelFields DEF WaitOK, Right
<1>5. kk2.blk_obj[t] = NoObj /\ \A u \in Task \ {t} : kk2.blk_obj[u] = kk.blk_obj[u]
  BY <1>3, <1>4
<1>6. Spares(kk, kk2, t)
  BY <1>2, <1>3, <1>5 DEF Spares, OthersSame
<1>7. Linked(kk2, t)
  BY <1>2, <1>5, ObjAssumption DEF Linked
<1>8. WaitOK(kk2)
  BY <1>2, <1>6, <1>7, WaitFrom
<1> QED
  BY <1>3, <1>5, <1>6, <1>8

\* end_pend: the wait of t is over, with the outcome it is given.
LEMMA EndPendWaits ==
    ASSUME NEW kk, ReadyOK(kk), WaitOK(kk), NEW t \in Task, kk.blk_obj[t] \in Obj,
           NEW bs \in BlkState, NEW kk2, kk2 = end_pend(kk, t, bs)
    PROVE  /\ WaitOK(kk2) /\ Spares(kk, kk2, t)
           /\ kk2.blk_obj = [kk.blk_obj EXCEPT ![t] = NoObj]
           /\ kk2.blk_obj[t] = NoObj
           /\ kk2.blk_state = [kk.blk_state EXCEPT ![t] = bs]
           /\ kk2.blk_state[t] = bs
           /\ kk2.task_state[t] # "K_DELETED"
           /\ kk2.prio = kk.prio
<1> DEFINE a == leave_lists(kk, t)
           b == [a EXCEPT !.blk_state[t] = bs]
<1>0. /\ Right(kk, Task) /\ kk \in Kernel /\ kk2 \in Kernel
      /\ kk.task_state[t] \in Pending
  <2>1. ReadyOK(kk2)
    BY EndPend DEF Concerns
  <2> QED
    BY <2>1 DEF WaitOK, Right, Linked, ReadyOK
<1>2. kk2 = IF kk.task_state[t] = "K_PEND" THEN make_ready(b, t)
            ELSE [b EXCEPT !.task_state[t] = "K_SUSPENDED"]
  BY <1>0 DEF end_pend, Pending
<1>3. a = leave_lists(kk, t)
  OBVIOUS
<1>10. /\ Right(a, Task) /\ OnTick(a) = OnTick(kk) \ {t}
      /\ a.blk_obj = [kk.blk_obj EXCEPT ![t] = NoObj]
      /\ a.task_state = kk.task_state /\ a.blk_state = kk.blk_state
      /\ a.prio = kk.prio /\ a.fatal = kk.fatal
  BY <1>0, LeaveListsRight
<1> HIDE DEF a
<1>1. a \in Kernel /\ a.task_state = kk.task_state /\ a.blk_state = kk.blk_state
  BY <1>10 DEF Right
<1>4. /\ b \in Kernel /\ SameLists(a, b) /\ b.task_state = a.task_state
      /\ b.blk_state = [a.blk_state EXCEPT ![t] = bs]
  <2>1. b \in Kernel
    BY <1>1 DEF Kernel
  <2> QED
    BY <1>1, <2>1 DEF Kernel, SameLists
<1> HIDE DEF b
<1>5. /\ SameLists(b, kk2) /\ kk2.blk_state = b.blk_state
      /\ \E s \in {"K_RDY", "K_SUSPENDED"} : kk2.task_state = [b.task_state EXCEPT ![t] = s]
  <2>1. CASE kk.task_state[t] = "K_PEND"
    <3>1. kk2 = make_ready(b, t) /\ b \in Kernel
      BY <1>2, <1>4, <2>1
    <3>2. /\ SameLists(b, kk2) /\ kk2.blk_state = b.blk_state
          /\ kk2.task_state = [b.task_state EXCEPT ![t] = "K_RDY"]
      BY <3>1, MakeReadyFields
    <3> QED
      BY <3>2
  <2>2. CASE kk.task_state[t] # "K_PEND"
    BY <1>2, <1>4, <2>2 DEF SameLists, Kernel
  <2> QED
    BY <2>1, <2>2
<1>6. kk.task_state \in [Task -> TaskState] /\ kk.blk_state \in [Task -> BlkState]
  BY <1>0, KernelFields
<1>7. /\ SameLists(a, kk2)
      /\ kk2.blk_state = [kk.blk_state EXCEPT ![t] = bs] /\ kk2.blk_state[t] = bs
      /\ kk2.task_state[t] \in {"K_RDY", "K_SUSPENDED"}
      /\ OthersSame(kk, kk2, t)
  BY <1>1, <1>4, <1>5, <1>6 DEF SameLists, OthersSame
<1>8. kk2.task_state[t] \notin Pending \cup Sleeping \cup {"K_DELETED"}
  BY <1>7 DEF Pending, Sleeping
<1>9. /\ WaitOK(kk2) /\ Spares(kk, kk2, t)
      /\ kk2.blk_obj = [kk.blk_obj EXCEPT ![t] = NoObj] /\ kk2.blk_obj[t] = NoObj
      /\ kk2.prio = kk.prio
  BY <1>0, <1>3, <1>7, <1>8, OffPend
<1> QED
  BY <1>7, <1>8, <1>9

\* tick_list_update wakes a sleeper, or times a wait out.
LEMMA TickExpireWaits ==
    ASSUME NEW kk, ReadyOK(kk), WaitOK(kk), NEW t \in Task, t \in OnTick(kk),
           NEW kk2, kk2 = tick_expire(kk, t)
    PROVE  Ungranted(kk, kk2, t)
<1>1. /\ kk \in Kernel /\ kk.task_state[t] \in Sleeping \cup Pending
      /\ Linked(kk, t) /\ kk.task_state \in [Task -> TaskState]
      /\ kk.blk_state \in [Task -> BlkState]
  <2>1. kk \in Kernel /\ Linked(kk, t)
    BY DEF ReadyOK, WaitOK
  <2>2. kk.task_state \in [Task -> TaskState] /\ kk.blk_state \in [Task -> BlkState]
    BY <2>1, KernelFields
  <2> QED
    BY <2>1, <2>2 DEF Linked
<1>2. kk2 \in Kernel
  BY <1>1, TickExpire DEF Concerns, ReadyOK
<1>3. CASE kk.task_state[t] \in Pending
  <2>1. kk2 = end_pend(kk, t, "BLK_TIMEOUT") /\ "BLK_TIMEOUT" \in BlkState
        /\ kk.blk_obj[t] \in Obj
    BY <1>1, <1>3 DEF tick_expire, Pending, BlkState, Linked
  <2>2. /\ WaitOK(kk2) /\ Spares(kk, kk2, t)
        /\ kk2.blk_obj = [kk.blk_obj EXCEPT ![t] = NoObj]
        /\ kk2.blk_obj[t] = NoObj
        /\ kk2.blk_state = [kk.blk_state EXCEPT ![t] = "BLK_TIMEOUT"]
        /\ kk2.blk_state[t] = "BLK_TIMEOUT"
        /\ kk2.task_state[t] # "K_DELETED"
        /\ kk2.prio = kk.prio
    BY <2>1, EndPendWaits
  <2> QED
    BY <1>1, <2>2 DEF Ungranted
<1>4. CASE kk.task_state[t] \in Sleeping
  <2> DEFINE a == tick_list_rm(kk, t)
             b == [a EXCEPT !.blk_state[t] = "BLK_FINISH"]
  <2>1. kk.blk_obj[t] \notin Obj
    BY <1>1, <1>4 DEF Linked, Pending, Sleeping
  <2>3. /\ kk.task_state[t] = "K_SLEEP" => kk2 = make_ready(b, t)
        /\ kk.task_state[t] # "K_SLEEP" =>
              kk2 = [a EXCEPT !.blk_state[t] = "BLK_FINISH", !.task_state[t] = "K_SUSPENDED"]
    <3>1. CASE kk.task_state[t] = "K_SLEEP"
      BY <3>1 DEF tick_expire, Pending
    <3>2. CASE kk.task_state[t] = "K_SLEEP_SUSPENDED"
      BY <3>2 DEF tick_expire, Pending
    <3> QED
      BY <1>4, <3>1, <3>2 DEF Sleeping
  <2>4. a = tick_list_rm(kk, t)
    OBVIOUS
  <2> HIDE DEF a
  <2>2. a \in Kernel /\ a.task_state = kk.task_state /\ a.blk_state = kk.blk_state
    <3>1. Right(kk, Task)
      BY DEF WaitOK
    <3>2. Right(a, Task) /\ a.task_state = kk.task_state /\ a.blk_state = kk.blk_state
      BY <2>4, <3>1, TickRmRight
    <3> QED
      BY <3>2 DEF Right
  <2>5. /\ b \in Kernel /\ SameLists(a, b) /\ b.task_state = a.task_state
        /\ b.blk_state = [a.blk_state EXCEPT ![t] = "BLK_FINISH"]
    <3>1. b \in Kernel
      BY <2>2 DEF Kernel, BlkState
    <3> QED
      BY <2>2, <3>1 DEF Kernel, SameLists
  <2>6. /\ SameLists(a, kk2) /\ kk2.blk_state = [a.blk_state EXCEPT ![t] = "BLK_FINISH"]
        /\ \E s \in {"K_RDY", "K_SUSPENDED"} : kk2.task_state = [a.task_state EXCEPT ![t] = s]
    <3>1. CASE kk.task_state[t] = "K_SLEEP"
      <4> HIDE DEF b
      <4>1. kk2 = make_ready(b, t) /\ b \in Kernel
        BY <2>3, <2>5, <3>1
      <4>2. /\ SameLists(b, kk2) /\ kk2.blk_state = b.blk_state
            /\ kk2.task_state = [b.task_state EXCEPT ![t] = "K_RDY"]
        BY <4>1, MakeReadyFields
      <4> QED
        BY <2>5, <4>2 DEF SameLists
    <3>2. CASE kk.task_state[t] # "K_SLEEP"
      BY <2>2, <2>3, <3>2 DEF SameLists, Kernel
    <3> QED
      BY <3>1, <3>2
  <2>7. OthersSame(kk, kk2, t) /\ kk2.task_state[t] \in {"K_RDY", "K_SUSPENDED"}
    BY <1>1, <2>2, <2>6 DEF OthersSame
  <2>8. kk2.task_state[t] \notin Pending \cup Sleeping
    BY <2>7 DEF Pending, Sleeping
  <2>9. Ungranted(kk, kk2, t)
    BY <1>1, <1>2, <2>1, <2>4, <2>6, <2>7, <2>8, OffTick
  <2> QED
    BY <2>9
<1> QED
  BY <1>1, <1>3, <1>4

\* ready_list_rm takes a ready task off its ready list, and off no other list.
LEMMA RmUnmoved ==
    ASSUME NEW kk, ReadyOK(kk), NEW t \in Task \ {Idle}, kk.task_state[t] = "K_RDY",
           NEW kk2, kk2 = ready_list_rm(kk, t)
    PROVE  kk2 \in Kernel /\ Unmoved(kk, kk2)
<1>1. kk \in Kernel /\ OnReady(kk, Ready(kk)) /\ Ready(kk) \in SUBSET Task
      /\ t \in Ready(kk) /\ Idle \in Ready(kk) \ {t}
  BY DEF Ready, ReadyOK
<1>2. Requeued(kk, kk2, Ready(kk) \ {t})
  BY <1>1, Rm
<1>3. kk2 \in Kernel
  BY <1>1, <1>2, RequeuedFacts
<1> QED
  BY <1>1, <1>3, QueueFields

\* pend_to_blk_obj: t waits for o, and for nothing else.
LEMMA PendToBlkObjWaits ==
    ASSUME NEW kk, ReadyOK(kk), WaitOK(kk), NEW o \in Obj, NEW t \in Task \ {Idle},
           kk.task_state[t] = "K_RDY", NEW timeout \in Nat \cup {WaitForever},
           NEW kk2, kk2 = pend_to_blk_obj(kk, o, t, timeout)
    PROVE  /\ WaitOK(kk2) /\ Spares(kk, kk2, t)
           /\ kk.blk_obj[t] = NoObj
           /\ kk2.blk_obj = [kk.blk_obj EXCEPT ![t] = o]
           /\ kk2.blk_obj[t] = o
           /\ kk2.blk_state = kk.blk_state
<1> DEFINE a == IF timeout = WaitForever THEN kk ELSE tick_list_insert(kk, t, timeout)
           b == [a EXCEPT !.blk_obj[t] = o, !.task_state[t] = "K_PEND"]
           c == ready_list_rm(b, t)
<1>1. /\ kk \in Kernel /\ Right(kk, Task) /\ kk.blk_obj[t] = NoObj /\ t \notin OnTick(kk)
      /\ kk.task_state \in [Task -> TaskState] /\ kk.blk_obj \in [Task -> Obj \cup {NoObj}]
  <2>1. kk \in Kernel /\ Right(kk, Task) /\ Linked(kk, t)
    BY DEF WaitOK, ReadyOK
  <2>2. kk.task_state \in [Task -> TaskState] /\ kk.blk_obj \in [Task -> Obj \cup {NoObj}]
    BY <2>1, KernelFields
  <2> QED
    BY <2>1, <2>2 DEF Linked, Pending, Sleeping
<1>2. kk2 = pend_list_add(c, o, t)
  BY DEF pend_to_blk_obj
<1>3. Quiet(kk, a)
  BY <1>1, TickInsertQuiet DEF Quiet, SameReady, SameCore
<1>4. /\ Right(a, Task)
      /\ OnTick(a) \cup {t} = OnTick(kk) \cup {t}
      /\ a.blk_obj = kk.blk_obj /\ a.blk_state = kk.blk_state /\ a.fatal = kk.fatal
  <2>1. CASE timeout = WaitForever
    BY <1>1, <2>1
  <2>2. CASE timeout # WaitForever
    <3>1. timeout \in Nat /\ a = tick_list_insert(kk, t, timeout)
      BY <2>2
    <3> HIDE DEF a
    <3>2. /\ Right(a, Task) /\ Spares(kk, a, t)
          /\ OnTick(a) = OnTick(kk) \cup (IF timeout = 0 THEN {} ELSE {t})
          /\ a.task_state = kk.task_state /\ a.blk_obj = kk.blk_obj
          /\ a.blk_state = kk.blk_state /\ a.prio = kk.prio
          /\ a.blk_list = kk.blk_list /\ a.fatal = kk.fatal
      BY <1>1, <3>1, TickInsertRight
    <3> QED
      BY <3>2
  <2> QED
    BY <2>1, <2>2
<1> HIDE DEF a
<1>5. a \in Kernel /\ Steady(kk, a)
  BY <1>3, QuietSteady DEF Quiet
<1>6. /\ b \in Kernel /\ SameReady(a, b) /\ SameCore(a, b)
      /\ b.task_state = [a.task_state EXCEPT ![t] = "K_PEND"]
      /\ b.blk_obj = [a.blk_obj EXCEPT ![t] = o]
      /\ b.blk_state = a.blk_state /\ b.suspend_count = a.suspend_count
      /\ b.fatal = a.fatal /\ b.tick_list = a.tick_list /\ b.tick_remain = a.tick_remain
      /\ b.blk_list = a.blk_list
  <2>1. b \in Kernel
    BY <1>5 DEF Kernel, TaskState
  <2> QED
    BY <1>5, <2>1 DEF Kernel, SameReady, SameCore
<1> HIDE DEF b
<1>7. a.task_state = kk.task_state
  BY <1>5 DEF Steady
<1>8. /\ b.task_state[t] = "K_PEND" /\ \A u \in Task \ {t} : b.task_state[u] = kk.task_state[u]
      /\ b.blk_obj[t] = o /\ \A u \in Task \ {t} : b.blk_obj[u] = kk.blk_obj[u]
  BY <1>1, <1>4, <1>6, <1>7
<1>9. Concerns(a, c, t)
  <2>1. /\ ReadyOK(a) /\ a.task_state[t] = "K_RDY" /\ b.task_state[t] # "K_RDY"
        /\ \A u \in Task \ {t} : /\ b.task_state[u] = a.task_state[u]
                              /\ b.suspend_count[u] = a.suspend_count[u]
    BY <1>5, <1>6, <1>7, <1>8 DEF Steady
  <2>2. Counted(b, t)
    BY <1>6, <1>8, <2>1 DEF ReadyOK, Counted, Suspended
  <2> QED
    BY <1>6, <2>1, <2>2, NoLongerReady
<1>10. c \in Kernel /\ Unmoved(b, c)
  BY <1>6, <1>9, QueueFields DEF Concerns, ReadyOK
<1> HIDE DEF c
<1>11. ASSUME NEW q \in Obj
       PROVE  {u \in Task \ {t} : c.blk_obj[u] = q} = {u \in Task : a.blk_obj[u] = q}
  <2>1. q # NoObj
    BY ObjAssumption
  <2> QED
    BY <1>1, <1>4, <1>8, <1>10, <2>1 DEF Unmoved, SameLists
<1>12. /\ c.blk_list = a.blk_list /\ c.prio = a.prio /\ c.tick_list = a.tick_list
       /\ c.tick_remain = a.tick_remain
  BY <1>6, <1>10 DEF Unmoved, SameLists, SameReady
<1>13. Right(c, Task \ {t})
  BY <1>4, <1>10, <1>11, <1>12 DEF Right, PendRight, TickRight
<1>14. OnTick(c) = OnTick(a) /\ c.blk_obj[t] = o
  BY <1>8, <1>10, <1>12 DEF OnTick, Unmoved, SameLists
<1>15. /\ Right(kk2, Task)
       /\ kk2.task_state = c.task_state /\ kk2.blk_obj = c.blk_obj
       /\ kk2.blk_state = c.blk_state /\ kk2.prio = c.prio
       /\ kk2.fatal = c.fatal /\ OnTick(kk2) = OnTick(c)
  BY <1>2, <1>13, <1>14, PendAddRight
<1>16. /\ kk2.task_state = b.task_state /\ kk2.blk_obj = b.blk_obj
       /\ kk2.blk_state = kk.blk_state /\ kk2.fatal = kk.fatal
       /\ OnTick(kk2) \cup {t} = OnTick(kk) \cup {t}
  BY <1>4, <1>6, <1>10, <1>14, <1>15 DEF Unmoved, SameLists
<1>17. Spares(kk, kk2, t)
  BY <1>8, <1>16 DEF Spares
<1>18. Linked(kk2, t)
  BY <1>8, <1>16 DEF Linked, Pending, Sleeping
<1>19. WaitOK(kk2)
  BY <1>15, <1>17, <1>18, WaitFrom
<1> QED
  BY <1>1, <1>4, <1>6, <1>8, <1>16, <1>17, <1>19

\* krhino_task_sleep: t is asleep, on the tick list.
LEMMA SleepWaits ==
    ASSUME NEW kk, ReadyOK(kk), WaitOK(kk), NEW t \in Task \ {Idle},
           kk.task_state[t] = "K_RDY", NEW ticks \in Nat \ {0}, NEW kk2,
           kk2 = ready_list_rm(tick_list_insert([kk EXCEPT !.task_state[t] = "K_SLEEP"],
                                                t, ticks), t)
    PROVE  Ungranted(kk, kk2, t)
<1> DEFINE a == [kk EXCEPT !.task_state[t] = "K_SLEEP"]
           b == tick_list_insert(a, t, ticks)
<1>1. /\ kk \in Kernel /\ Right(kk, Task) /\ kk.blk_obj[t] \notin Obj /\ t \notin OnTick(kk)
      /\ kk.task_state \in [Task -> TaskState]
  <2>1. kk \in Kernel /\ Right(kk, Task) /\ Linked(kk, t)
    BY DEF WaitOK, ReadyOK
  <2>2. kk.task_state \in [Task -> TaskState]
    BY <2>1, KernelFields
  <2> QED
    BY <2>1, <2>2 DEF Linked, Pending, Sleeping
<1>2. kk2 = ready_list_rm(b, t)
  OBVIOUS
<1>3. /\ a \in Kernel /\ SameLists(kk, a) /\ SameReady(kk, a) /\ SameCore(kk, a)
      /\ a.task_state = [kk.task_state EXCEPT ![t] = "K_SLEEP"]
      /\ a.suspend_count = kk.suspend_count /\ a.blk_state = kk.blk_state
  <2>1. a \in Kernel
    BY <1>1 DEF Kernel, TaskState
  <2> QED
    BY <1>1, <2>1 DEF Kernel, SameLists, SameReady, SameCore
<1> HIDE DEF a
<1>4. Right(a, Task) /\ OnTick(a) = OnTick(kk)
  BY <1>1, <1>3, SameListsRight
<1>5. Quiet(a, b)
  BY <1>3, TickInsertQuiet
<1>6. /\ Right(b, Task) /\ Spares(a, b, t)
      /\ OnTick(b) = OnTick(a) \cup (IF ticks = 0 THEN {} ELSE {t})
      /\ b.task_state = a.task_state /\ b.blk_obj = a.blk_obj
      /\ b.blk_state = a.blk_state /\ b.prio = a.prio
      /\ b.blk_list = a.blk_list /\ b.fatal = a.fatal
  BY <1>1, <1>4, TickInsertRight
<1> HIDE DEF b
<1>7. /\ b.task_state[t] = "K_SLEEP"
      /\ \A u \in Task \ {t} : b.task_state[u] = kk.task_state[u]
  BY <1>1, <1>3, <1>6
<1>8. /\ b \in Kernel /\ SameReady(kk, b) /\ SameCore(kk, b)
      /\ b.suspend_count = kk.suspend_count
  BY <1>3, <1>5 DEF Quiet, SameReady, SameCore
<1>9. Concerns(kk, kk2, t)
  BY <1>2, <1>7, <1>8, NoLongerReady DEF Suspended, ReadyOK, Counted
<1>10. kk2 \in Kernel /\ Unmoved(b, kk2)
  BY <1>2, <1>8, <1>9, QueueFields DEF Concerns, ReadyOK
<1>11. Right(kk2, Task) /\ OnTick(kk2) = OnTick(b)
  BY <1>6, <1>10, SameListsRight DEF Unmoved
<1>12. /\ kk2.blk_obj = kk.blk_obj /\ kk2.blk_state = kk.blk_state /\ kk2.fatal = kk.fatal
       /\ kk2.task_state = b.task_state /\ OnTick(kk2) = OnTick(kk) \cup {t}
  BY <1>3, <1>4, <1>6, <1>10, <1>11 DEF Unmoved, SameLists
<1>13. Spares(kk, kk2, t) /\ Linked(kk2, t)
  BY <1>1, <1>7, <1>12 DEF Spares, Linked, Pending, Sleeping
<1>14. WaitOK(kk2)
  BY <1>11, <1>13, WaitFrom
<1> QED
  BY <1>1, <1>12, <1>13, <1>14 DEF Ungranted

\* The time slice is on none of these lists.
LEMMA TimeSliceUnmoved ==
    ASSUME NEW kk, ReadyOK(kk), NEW kk2, kk2 = time_slice_update(kk)
    PROVE  kk2 \in Kernel /\ Unmoved(kk, kk2)
<1>1. kk \in Kernel /\ kk2 \in Kernel
  BY TimeSlice DEF ReadyOK, Steady
<1> QED
  BY <1>1 DEF time_slice_update, ready_list_head_to_tail, Unmoved, SameLists, Kernel

\* A task that is neither pended nor asleep is on no pend list and not on the tick list.
LEMMA OffBoth ==
    ASSUME NEW kk, WaitOK(kk), NEW t \in Task, kk.task_state[t] \notin Pending \cup Sleeping
    PROVE  kk \in Kernel /\ kk.blk_obj[t] = NoObj /\ t \notin OnTick(kk)
<1>1. kk \in Kernel /\ Linked(kk, t)
  BY DEF WaitOK, Right
<1>2. kk.blk_obj \in [Task -> Obj \cup {NoObj}]
  BY <1>1, KernelFields
<1> QED
  BY <1>1, <1>2 DEF Linked

\* A sleeper waits for no object.
LEMMA SleeperFacts ==
    ASSUME NEW kk, WaitOK(kk), NEW t \in Task, kk.task_state[t] \in Sleeping
    PROVE  kk \in Kernel /\ kk.blk_obj[t] = NoObj /\ kk.blk_obj[t] \notin Obj
<1>1. kk \in Kernel /\ Linked(kk, t)
  BY DEF WaitOK, Right
<1>2. kk.blk_obj \in [Task -> Obj \cup {NoObj}]
  BY <1>1, KernelFields
<1> QED
  BY <1>1, <1>2, ObjAssumption DEF Linked, Pending, Sleeping

Gone(kk, t) == [kk EXCEPT !.task_state[t] = "K_DELETED", !.blk_obj[t] = NoObj]

\* What krhino_task_del clears, when t is off its lists already.
LEMMA GoneFields ==
    ASSUME NEW k1 \in Kernel, NEW t \in Task, k1.blk_obj[t] = NoObj,
           NEW k2, k2 = Gone(k1, t)
    PROVE  /\ SameLists(k1, k2) /\ k2.blk_state = k1.blk_state
           /\ k2.task_state[t] = "K_DELETED"
           /\ \A u \in Task \ {t} : k2.task_state[u] = k1.task_state[u]
<1>1. k1.blk_obj = [k1.blk_obj EXCEPT ![t] = NoObj]
  BY DEF Kernel
<1> QED
  BY <1>1 DEF Gone, SameLists, Kernel

\* krhino_task_del unlinks t from the lists its state says it is on.
LEMMA TaskUnlinkWaits ==
    ASSUME NEW kk, ReadyOK(kk), WaitOK(kk), NEW t \in Task \ {Idle},
           kk.task_state[t] # "K_DELETED", NEW kk2, kk2 = task_unlink(kk, t)
    PROVE  Ungranted(kk, kk2, t)
<1>1. kk \in Kernel /\ kk2 \in Kernel /\ kk.task_state \in [Task -> TaskState]
  <2>1. Concerns(kk, kk2, t)
    BY TaskUnlink
  <2> QED
    BY <2>1, KernelFields DEF ReadyOK, Concerns
<1>2. ASSUME NEW k1 \in Kernel, Unmoved(kk, k1), kk2 = Gone(k1, t),
             kk.task_state[t] \in {"K_RDY", "K_SUSPENDED"}
      PROVE  Ungranted(kk, kk2, t)
  <2>1. kk.blk_obj[t] = NoObj /\ t \notin OnTick(kk)
    BY <1>2, OffBoth DEF Pending, Sleeping
  <2>2. k1.blk_obj[t] = NoObj
    BY <1>2, <2>1 DEF Unmoved, SameLists
  <2>3. /\ SameLists(k1, kk2) /\ kk2.blk_state = k1.blk_state
        /\ kk2.task_state[t] = "K_DELETED"
        /\ \A u \in Task \ {t} : kk2.task_state[u] = k1.task_state[u]
    BY <1>2, <2>2, GoneFields
  <2>4. SameLists(kk, kk2) /\ OthersSame(kk, kk2, t) /\ kk2.blk_state = kk.blk_state
    BY <1>2, <2>3 DEF Unmoved, SameLists, OthersSame
  <2>5. Linked(kk2, t)
    BY <2>1, <2>3, <2>4, ObjAssumption DEF SameLists, OnTick, Linked, Pending, Sleeping
  <2> QED
    BY <1>1, <2>4, <2>5, StateWaits
<1>3. CASE kk.task_state[t] = "K_RDY"
  <2>1. kk2 = Gone(ready_list_rm(kk, t), t)
    BY <1>3 DEF task_unlink, Gone, Sleeping, Pending
  <2>2. ready_list_rm(kk, t) \in Kernel /\ Unmoved(kk, ready_list_rm(kk, t))
    BY <1>3, RmUnmoved
  <2> QED
    BY <1>2, <1>3, <2>1, <2>2
<1>4. CASE kk.task_state[t] = "K_SUSPENDED"
  <2>1. kk2 = Gone(kk, t)
    BY <1>4 DEF task_unlink, Gone, Sleeping, Pending
  <2> QED
    BY <1>1, <1>2, <1>4, <2>1 DEF Unmoved, SameLists
<1>5. CASE kk.task_state[t] \in Sleeping
  <2> DEFINE a == tick_list_rm(kk, t)
  <2>1. kk2 = Gone(a, t)
    BY <1>5 DEF task_unlink, Gone, Sleeping, Pending
  <2>2. kk.blk_obj[t] = NoObj /\ kk.blk_obj[t] \notin Obj /\ Right(kk, Task)
    BY <1>5, SleeperFacts DEF WaitOK
  <2>3. a = tick_list_rm(kk, t)
    OBVIOUS
  <2> HIDE DEF a
  <2>4. /\ Right(a, Task) /\ Spares(kk, a, t) /\ OnTick(a) = OnTick(kk) \ {t}
        /\ a.task_state = kk.task_state /\ a.blk_obj = kk.blk_obj
        /\ a.blk_state = kk.blk_state /\ a.prio = kk.prio
        /\ a.blk_list = kk.blk_list /\ a.fatal = kk.fatal
    BY <2>2, <2>3, TickRmRight
  <2>5. a \in Kernel /\ a.blk_obj[t] = NoObj
    BY <2>2, <2>4 DEF Right
  <2>6. /\ SameLists(a, kk2) /\ kk2.blk_state = a.blk_state
        /\ kk2.task_state[t] = "K_DELETED"
        /\ \A u \in Task \ {t} : kk2.task_state[u] = a.task_state[u]
    BY <2>1, <2>5, GoneFields
  <2>7. OthersSame(kk, kk2, t) /\ kk2.task_state[t] \notin Pending \cup Sleeping
    BY <2>4, <2>6 DEF OthersSame, Pending, Sleeping
  <2> QED
    BY <1>1, <2>2, <2>3, <2>6, <2>7, OffTick
<1>6. CASE kk.task_state[t] \in Pending
  <2> DEFINE a == leave_lists(kk, t)
  <2>1. kk2 = Gone(a, t)
    BY <1>6 DEF task_unlink, Gone, Sleeping, Pending
  <2>2. kk.blk_obj[t] \in Obj /\ Right(kk, Task) /\ kk.blk_obj \in [Task -> Obj \cup {NoObj}]
    <3>1. Linked(kk, t) /\ Right(kk, Task)
      BY DEF WaitOK
    <3> QED
      BY <1>1, <1>6, <3>1, KernelFields DEF Linked
  <2>3. a = leave_lists(kk, t)
    OBVIOUS
  <2> HIDE DEF a
  <2>4. /\ Right(a, Task) /\ OnTick(a) = OnTick(kk) \ {t}
        /\ a.blk_obj = [kk.blk_obj EXCEPT ![t] = NoObj]
        /\ a.task_state = kk.task_state /\ a.blk_state = kk.blk_state
        /\ a.prio = kk.prio /\ a.fatal = kk.fatal
    BY <2>2, <2>3, LeaveListsRight
  <2>5. a \in Kernel /\ a.blk_obj[t] = NoObj
    BY <2>2, <2>4 DEF Right
  <2>6. /\ SameLists(a, kk2) /\ kk2.blk_state = a.blk_state
        /\ kk2.task_state[t] = "K_DELETED"
        /\ \A u \in Task \ {t} : kk2.task_state[u] = a.task_state[u]
    BY <2>1, <2>5, GoneFields
  <2>7. OthersSame(kk, kk2, t) /\ kk2.task_state[t] \notin Pending \cup Sleeping
    BY <2>4, <2>6 DEF OthersSame, Pending, Sleeping
  <2>8. /\ WaitOK(kk2) /\ Spares(kk, kk2, t)
        /\ kk2.blk_obj = [kk.blk_obj EXCEPT ![t] = NoObj]
        /\ kk2.blk_obj[t] = NoObj
        /\ kk2.prio = kk.prio
    BY <1>1, <2>2, <2>3, <2>6, <2>7, OffPend
  <2> QED
    BY <2>4, <2>6, <2>8 DEF Ungranted
<1> QED
  BY <1>1, <1>3, <1>4, <1>5, <1>6 DEF TaskState, Sleeping, Pending

\* The states a suspension leads to say as much of the lists as those it starts from.
LEMMA TaskSuspendWaits ==
    ASSUME NEW kk, ReadyOK(kk), WaitOK(kk), NEW t \in Task \ {Idle},
           kk.task_state[t] # "K_DELETED",
           kk.task_state[t] \in Suspended => kk.suspend_count[t] < SuspendMax,
           NEW kk2, kk2 = task_suspend(kk, t)
    PROVE  Ungranted(kk, kk2, t)
<1> DEFINE set(n, s) == [kk EXCEPT !.suspend_count[t] = n, !.task_state[t] = s]
<1>1. kk \in Kernel /\ kk2 \in Kernel /\ kk.task_state \in [Task -> TaskState]
  <2>1. Concerns(kk, kk2, t)
    BY TaskSuspend
  <2> QED
    BY <2>1, KernelFields DEF ReadyOK, Concerns
<1>2. /\ SameLists(kk, kk2) /\ kk2.blk_state = kk.blk_state
      /\ \A u \in Task \ {t} : kk2.task_state[u] = kk.task_state[u]
      /\ kk2.task_state[t] = CASE kk.task_state[t] = "K_RDY" -> "K_SUSPENDED"
                               [] kk.task_state[t] = "K_SLEEP" -> "K_SLEEP_SUSPENDED"
                               [] kk.task_state[t] = "K_PEND" -> "K_PEND_SUSPENDED"
                               [] OTHER -> kk.task_state[t]
  <2>1. CASE kk.task_state[t] = "K_RDY"
    <3> DEFINE a == set(1, "K_SUSPENDED")
    <3>1. kk2 = ready_list_rm(a, t)
      BY <2>1 DEF task_suspend
    <3>2. a \in Kernel
      BY <1>1 DEF Kernel, TaskState
    <3>3. /\ SameLists(kk, a) /\ a.blk_state = kk.blk_state
          /\ a.task_state = [kk.task_state EXCEPT ![t] = "K_SUSPENDED"]
      BY <1>1, <3>2 DEF SameLists, Kernel
    <3> HIDE DEF a
    <3>4. Unmoved(a, kk2)
      BY <3>1, <3>2, QueueFields
    <3> QED
      BY <1>1, <2>1, <3>3, <3>4 DEF SameLists, Unmoved
  <2>2. CASE kk.task_state[t] # "K_RDY"
    BY <1>1, <2>2 DEF task_suspend, SameLists, Kernel
  <2> QED
    BY <2>1, <2>2
<1>3. OthersSame(kk, kk2, t) /\ OnTick(kk2) = OnTick(kk)
  BY <1>2 DEF OthersSame, SameLists, OnTick
<1>4. Linked(kk2, t)
  <2>1. Linked(kk, t) /\ kk2.blk_obj[t] = kk.blk_obj[t]
    BY <1>2 DEF WaitOK, SameLists
  <2> QED
    BY <1>2, <1>3, <2>1 DEF Linked, Pending, Sleeping
<1> QED
  BY <1>1, <1>2, <1>3, <1>4, StateWaits

\* krhino_task_resume undoes that.
LEMMA TaskResumeWaits ==
    ASSUME NEW kk, ReadyOK(kk), WaitOK(kk), NEW t \in Task, kk.task_state[t] \in Suspended,
           NEW kk2, kk2 = task_resume(kk, t)
    PROVE  Ungranted(kk, kk2, t)
<1> DEFINE k1 == [kk EXCEPT !.suspend_count[t] = @ - 1]
<1>1. kk \in Kernel /\ kk2 \in Kernel /\ kk.task_state \in [Task -> TaskState]
  <2>1. Concerns(kk, kk2, t)
    BY TaskResume
  <2> QED
    BY <2>1, KernelFields DEF ReadyOK, Concerns
<1>2. /\ k1 \in Kernel /\ Unmoved(kk, k1)
  <2>1. kk.suspend_count \in [Task -> Nat] /\ kk.suspend_count[t] - 1 \in Nat
    <3>1. kk.suspend_count \in [Task -> Nat]
      BY <1>1 DEF Kernel
    <3>2. kk.suspend_count[t] > 0
      BY DEF ReadyOK, Counted
    <3> QED
      BY <3>1, <3>2
  <2>2. k1 \in Kernel
    BY <1>1, <2>1 DEF Kernel
  <2> QED
    BY <1>1, <2>2 DEF Unmoved, SameLists, Kernel
<1>3. \/ kk2 = k1
      \/ kk2 = make_ready(k1, t) /\ kk.task_state[t] = "K_SUSPENDED"
      \/ kk2 = [k1 EXCEPT !.task_state[t] = "K_SLEEP"]
           /\ kk.task_state[t] = "K_SLEEP_SUSPENDED"
      \/ kk2 = [k1 EXCEPT !.task_state[t] = "K_PEND"]
           /\ kk.task_state[t] = "K_PEND_SUSPENDED"
  BY DEF task_resume, Suspended
<1> HIDE DEF k1
<1>4. CASE kk2 = k1
  BY <1>1, <1>2, <1>4, UnmovedWaits
<1>5. CASE kk2 # k1
  <2>1. /\ SameLists(k1, kk2) /\ kk2.blk_state = k1.blk_state
        /\ \A u \in Task \ {t} : kk2.task_state[u] = k1.task_state[u]
        /\ kk.task_state[t] = "K_SUSPENDED" => kk2.task_state[t] = "K_RDY"
        /\ kk.task_state[t] = "K_SLEEP_SUSPENDED" => kk2.task_state[t] = "K_SLEEP"
        /\ kk.task_state[t] = "K_PEND_SUSPENDED" => kk2.task_state[t] = "K_PEND"
    <3>1. CASE kk2 = make_ready(k1, t) /\ kk.task_state[t] = "K_SUSPENDED"
      <4>1. /\ SameLists(k1, kk2)
            /\ kk2.blk_state = k1.blk_state
            /\ kk2.task_state = [k1.task_state EXCEPT ![t] = "K_RDY"]
        BY <1>2, <3>1, MakeReadyFields
      <4> QED
        BY <1>1, <1>2, <3>1, <4>1 DEF Unmoved
    <3>2. CASE kk2 = [k1 EXCEPT !.task_state[t] = "K_SLEEP"]
               /\ kk.task_state[t] = "K_SLEEP_SUSPENDED"
      BY <1>2, <3>2 DEF SameLists, Kernel
    <3>3. CASE kk2 = [k1 EXCEPT !.task_state[t] = "K_PEND"]
               /\ kk.task_state[t] = "K_PEND_SUSPENDED"
      BY <1>2, <3>3 DEF SameLists, Kernel
    <3> QED
      BY <1>3, <1>5, <3>1, <3>2, <3>3
  <2>2. /\ SameLists(kk, kk2) /\ kk2.blk_state = kk.blk_state
        /\ OthersSame(kk, kk2, t) /\ OnTick(kk2) = OnTick(kk)
    BY <1>2, <2>1 DEF Unmoved, SameLists, OthersSame, OnTick
  <2>3. Linked(kk2, t)
    <3>1. Linked(kk, t) /\ kk2.blk_obj[t] = kk.blk_obj[t]
      BY <2>2 DEF WaitOK, SameLists
    <3> QED
      BY <2>1, <2>2, <3>1 DEF Linked, Pending, Sleeping, Suspended
  <2> QED
    BY <1>1, <2>2, <2>3, StateWaits
<1> QED
  BY <1>4, <1>5

\* t is on no pend list: its priority matters to no list.
LEMMA OffListsWaits ==
    ASSUME NEW kk1, WaitOK(kk1), NEW kk2 \in Kernel, NEW t \in Task, kk1.blk_obj[t] \notin Obj,
           kk2.blk_list = kk1.blk_list, kk2.blk_obj = kk1.blk_obj,
           kk2.tick_list = kk1.tick_list, kk2.fatal = kk1.fatal,
           \A u \in Task \ {t} : kk2.prio[u] = kk1.prio[u],
           \A u \in OnTick(kk1) : kk2.tick_remain[u] = kk1.tick_remain[u],
           OthersSame(kk1, kk2, t), Linked(kk2, t)
    PROVE  Ungranted(kk1, kk2, t)
<1>1. kk1 \in Kernel /\ Right(kk1, Task) /\ OnTick(kk2) = OnTick(kk1)
  BY DEF WaitOK, Right, OnTick
<1>2. kk1.blk_list \in [Obj -> Seq(Task)] /\ kk1.tick_list \in Seq(Task)
  BY <1>1, KernelFields
<1>3. ASSUME NEW o \in Obj
      PROVE  Ordered(kk2.blk_list[o], kk2.prio)
  <2> DEFINE s == kk1.blk_list[o]
  <2>1. s \in Seq(Task) /\ Holds(s, {u \in Task : kk1.blk_obj[u] = o}) /\ Ordered(s, kk1.prio)
    BY <1>1, <1>2 DEF Right, PendRight
  <2> HIDE DEF s
  <2>2. \A u \in ToSet(s) : kk2.prio[u] = kk1.prio[u]
    BY <2>1 DEF Holds
  <2>3. \A i \in DOMAIN s : kk2.prio[s[i]] = kk1.prio[s[i]]
    BY <2>2, InToSet
  <2>4. Ordered(s, kk2.prio)
    BY <2>1, <2>3 DEF Ordered
  <2> QED
    BY <2>4 DEF s
<1>4. Ordered(kk2.tick_list, kk2.tick_remain)
  <2> DEFINE s == kk1.tick_list
  <2>1. Ordered(s, kk1.tick_remain)
    BY <1>1 DEF Right, TickRight
  <2>2. \A u \in ToSet(s) : kk2.tick_remain[u] = kk1.tick_remain[u]
    BY DEF OnTick
  <2> HIDE DEF s
  <2>3. \A i \in DOMAIN s : kk2.tick_remain[s[i]] = kk1.tick_remain[s[i]]
    BY <2>2, InToSet
  <2>4. Ordered(s, kk2.tick_remain)
    BY <2>1, <2>3 DEF Ordered
  <2> QED
    BY <2>4 DEF s
<1>5. Right(kk2, Task)
  BY <1>1, <1>3, <1>4 DEF Right, PendRight, TickRight
<1>6. Spares(kk1, kk2, t)
  BY <1>1 DEF Spares, OthersSame
<1>7. WaitOK(kk2)
  BY <1>5, <1>6, WaitFrom
<1> QED
  BY <1>6, <1>7 DEF Ungranted

Aborted(kk, t) == [make_ready(kk, t) EXCEPT !.blk_state[t] = "BLK_ABORT"]

\* What krhino_task_wait_abort sets, when t is off its lists already.
LEMMA AbortedFields ==
    ASSUME NEW a \in Kernel, NEW t \in Task, NEW kk2, kk2 = Aborted(a, t)
    PROVE  /\ SameLists(a, kk2)
           /\ kk2.task_state = [a.task_state EXCEPT ![t] = "K_RDY"]
           /\ kk2.blk_state = [a.blk_state EXCEPT ![t] = "BLK_ABORT"]
BY DEF Aborted, make_ready, ready_list_add, ready_list_add_tail, ready_list_add_head,
       SameLists, Kernel

\* krhino_task_wait_abort: t waits and sleeps no more.
LEMMA WaitAbortWaits ==
    ASSUME NEW kk, ReadyOK(kk), WaitOK(kk), NEW t \in Task, kk.task_state[t] # "K_DELETED",
           NEW kk2, kk2 = task_wait_abort(kk, t)
    PROVE  Ungranted(kk, kk2, t)
<1>1. /\ kk \in Kernel /\ kk2 \in Kernel /\ kk.task_state \in [Task -> TaskState]
      /\ kk.blk_state \in [Task -> BlkState]
  <2>1. Concerns(kk, kk2, t)
    BY WaitAbort
  <2> QED
    BY <2>1, KernelFields DEF ReadyOK, Concerns
<1>2. CASE kk.task_state[t] = "K_RDY"
  <2>1. kk2 = kk
    BY <1>2 DEF task_wait_abort, Sleeping, Pending
  <2> QED
    BY <1>1, <2>1, UnmovedWaits DEF Unmoved, SameLists
<1>3. CASE kk.task_state[t] = "K_SUSPENDED"
  <2>1. kk2 = make_ready(kk, t)
    BY <1>3 DEF task_wait_abort, Sleeping, Pending
  <2>2. /\ SameLists(kk, kk2)
        /\ kk2.blk_state = kk.blk_state
        /\ kk2.task_state = [kk.task_state EXCEPT ![t] = "K_RDY"]
    BY <1>1, <2>1, MakeReadyFields
  <2>3. OthersSame(kk, kk2, t)
    BY <1>1, <2>2 DEF OthersSame
  <2>4. kk.blk_obj[t] = NoObj /\ t \notin OnTick(kk)
    BY <1>3, OffBoth DEF Pending, Sleeping
  <2>5. Linked(kk2, t)
    BY <1>1, <2>2, <2>4, ObjAssumption DEF Linked, SameLists, OnTick, Pending, Sleeping
  <2> QED
    BY <1>1, <2>2, <2>3, <2>5, StateWaits
<1>4. CASE kk.task_state[t] \in Sleeping
  <2> DEFINE a == tick_list_rm(kk, t)
  <2>1. kk2 = Aborted(a, t)
    BY <1>4 DEF task_wait_abort, Aborted, Sleeping, Pending
  <2>2. kk.blk_obj[t] \notin Obj /\ Right(kk, Task)
    BY <1>4, SleeperFacts DEF WaitOK
  <2>3. a = tick_list_rm(kk, t)
    OBVIOUS
  <2> HIDE DEF a
  <2>4. /\ Right(a, Task) /\ Spares(kk, a, t) /\ OnTick(a) = OnTick(kk) \ {t}
        /\ a.task_state = kk.task_state /\ a.blk_obj = kk.blk_obj
        /\ a.blk_state = kk.blk_state /\ a.prio = kk.prio
        /\ a.blk_list = kk.blk_list /\ a.fatal = kk.fatal
    BY <2>2, <2>3, TickRmRight
  <2>5. a \in Kernel
    BY <2>4 DEF Right
  <2>6. /\ SameLists(a, kk2)
        /\ kk2.task_state = [a.task_state EXCEPT ![t] = "K_RDY"]
        /\ kk2.blk_state = [a.blk_state EXCEPT ![t] = "BLK_ABORT"]
    BY <2>1, <2>5, AbortedFields
  <2>7. OthersSame(kk, kk2, t) /\ kk2.task_state[t] \notin Pending \cup Sleeping
    BY <1>1, <2>4, <2>6 DEF OthersSame, Pending, Sleeping
  <2> QED
    BY <1>1, <2>2, <2>3, <2>6, <2>7, OffTick
<1>5. CASE kk.task_state[t] \in Pending
  <2> DEFINE a == leave_lists(kk, t)
  <2>1. kk2 = Aborted(a, t)
    BY <1>5 DEF task_wait_abort, Aborted, Sleeping, Pending
  <2>2. kk.blk_obj[t] \in Obj /\ Right(kk, Task)
    <3>1. Linked(kk, t) /\ Right(kk, Task)
      BY DEF WaitOK
    <3> QED
      BY <1>5, <3>1 DEF Linked
  <2>3. a = leave_lists(kk, t)
    OBVIOUS
  <2> HIDE DEF a
  <2>4. /\ Right(a, Task) /\ OnTick(a) = OnTick(kk) \ {t}
        /\ a.blk_obj = [kk.blk_obj EXCEPT ![t] = NoObj]
        /\ a.task_state = kk.task_state /\ a.blk_state = kk.blk_state
        /\ a.prio = kk.prio /\ a.fatal = kk.fatal
    BY <2>2, <2>3, LeaveListsRight
  <2>5. a \in Kernel
    BY <2>4 DEF Right
  <2>6. /\ SameLists(a, kk2)
        /\ kk2.task_state = [a.task_state EXCEPT ![t] = "K_RDY"]
        /\ kk2.blk_state = [a.blk_state EXCEPT ![t] = "BLK_ABORT"]
    BY <2>1, <2>5, AbortedFields
  <2>7. OthersSame(kk, kk2, t) /\ kk2.task_state[t] \notin Pending \cup Sleeping
        /\ kk2.blk_state[t] = "BLK_ABORT"
    BY <1>1, <2>4, <2>6 DEF OthersSame, Pending, Sleeping
  <2>8. /\ WaitOK(kk2) /\ Spares(kk, kk2, t)
        /\ kk2.blk_obj = [kk.blk_obj EXCEPT ![t] = NoObj]
        /\ kk2.blk_obj[t] = NoObj
        /\ kk2.prio = kk.prio
    <3>1. /\ kk2 \in Kernel /\ SameLists(a, kk2) /\ OthersSame(kk, kk2, t)
          /\ kk2.task_state[t] \notin Pending \cup Sleeping
      BY <1>1, <2>6, <2>7
    <3> QED
      BY <2>2, <2>3, <3>1, OffPend
  <2> QED
    BY <2>7, <2>8 DEF Ungranted
<1> QED
  BY <1>1, <1>2, <1>3, <1>4, <1>5 DEF TaskState, Sleeping, Pending

\* pend_list_reorder brings the pend list of t into order, whatever its priority now is.
LEMMA ReorderRight ==
    ASSUME NEW kk \in Kernel, NEW t \in Task, kk.blk_obj[t] \in Obj, TickRight(kk),
           \A q \in Obj : /\ Holds(kk.blk_list[q], {u \in Task : kk.blk_obj[u] = q})
                          /\ OrderedBut(kk.blk_list[q], kk.prio, t),
           NEW kk2, kk2 = pend_list_reorder(kk, t)
    PROVE  /\ Right(kk2, Task)
           /\ kk2.task_state = kk.task_state /\ kk2.blk_obj = kk.blk_obj
           /\ kk2.blk_state = kk.blk_state /\ kk2.prio = kk.prio
           /\ kk2.fatal = kk.fatal /\ OnTick(kk2) = OnTick(kk)
<1> DEFINE o == kk.blk_obj[t]
           a == [kk EXCEPT !.blk_list[o] = klist_rm(@, t)]
<1>1. o \in Obj /\ kk.blk_obj[t] = o /\ a = [kk EXCEPT !.blk_list[o] = klist_rm(@, t)]
      /\ kk2 = pend_list_add(a, o, t)
  BY DEF pend_list_reorder
<1> HIDE DEF a, o
<1>2. /\ Right(a, Task \ {t})
      /\ a.task_state = kk.task_state /\ a.blk_obj = kk.blk_obj
      /\ a.blk_state = kk.blk_state /\ a.prio = kk.prio
      /\ a.fatal = kk.fatal /\ OnTick(a) = OnTick(kk)
  BY <1>1, UnlinkRight
<1>3. a.blk_obj[t] = o
  BY <1>1, <1>2
<1>4. /\ Right(kk2, Task)
      /\ kk2.task_state = a.task_state /\ kk2.blk_obj = a.blk_obj
      /\ kk2.blk_state = a.blk_state /\ kk2.prio = a.prio
      /\ kk2.fatal = a.fatal /\ OnTick(kk2) = OnTick(a)
  <2>1. o \in Obj /\ Right(a, Task \ {t}) /\ kk2 = pend_list_add(a, o, t)
    BY <1>1, <1>2
  <2> QED
    BY <1>3, <2>1, PendAddRight
<1> QED
  BY <1>2, <1>4

\* task_pri_change: a pend list is sorted again, a ready list is no list of waiters, and
\* the priority of any other task is on no list.
LEMMA PriChangeWaits ==
    ASSUME NEW kk, ReadyOK(kk), WaitOK(kk), NEW t \in Task \ {Idle},
           kk.task_state[t] # "K_DELETED", NEW p \in Pri,
           NEW kk2, kk2 = pri_change_one(kk, t, p)
    PROVE  Ungranted(kk, kk2, t)
<1> DEFINE a == [kk EXCEPT !.prio[t] = p]
<1>1. /\ kk \in Kernel /\ kk2 \in Kernel /\ kk.prio \in [Task -> Pri]
      /\ kk.task_state \in [Task -> TaskState]
  <2>1. Steady(kk, kk2)
    BY PriChangeOne
  <2> QED
    BY <2>1, KernelFields DEF ReadyOK, Steady
<1>2. CASE kk.prio[t] = p
  <2>1. kk2 = kk
    BY <1>2 DEF pri_change_one
  <2> QED
    BY <1>1, <2>1, UnmovedWaits DEF Unmoved, SameLists
<1>3. /\ a \in Kernel
      /\ a.blk_list = kk.blk_list /\ a.blk_obj = kk.blk_obj /\ a.blk_state = kk.blk_state
      /\ a.tick_list = kk.tick_list /\ a.tick_remain = kk.tick_remain
      /\ a.task_state = kk.task_state /\ a.fatal = kk.fatal
      /\ a.prio = [kk.prio EXCEPT ![t] = p]
  <2>1. a \in Kernel
    BY <1>1 DEF Kernel
  <2> QED
    BY <1>1, <2>1 DEF Kernel
<1>4. ASSUME kk2.blk_list = kk.blk_list, kk2.blk_obj = kk.blk_obj,
             kk2.blk_state = kk.blk_state, kk2.tick_list = kk.tick_list,
             kk2.tick_remain = kk.tick_remain, kk2.task_state = kk.task_state,
             kk2.fatal = kk.fatal, kk2.prio = [kk.prio EXCEPT ![t] = p],
             kk.task_state[t] \notin Pending
      PROVE  Ungranted(kk, kk2, t)
  <2>1. \A u \in Task \ {t} : kk2.prio[u] = kk.prio[u]
    BY <1>1, <1>4
  <2>2. Linked(kk, t)
    BY DEF WaitOK
  <2>3. Linked(kk2, t) /\ kk.blk_obj[t] \notin Obj
    BY <1>4, <2>2 DEF Linked, OnTick
  <2>4. OthersSame(kk, kk2, t)
    BY <1>4 DEF OthersSame
  <2> QED
    BY <1>1, <1>4, <2>1, <2>3, <2>4, OffListsWaits
<1>5. CASE kk.prio[t] # p /\ kk.task_state[t] = "K_RDY"
  <2> DEFINE r == ready_list_rm(kk, t)
             b == [r EXCEPT !.prio[t] = p]
  <2>1. kk2 \in {ready_list_add_head(b, t), ready_list_add_tail(b, t)}
    BY <1>5 DEF pri_change_one, Pending
  <2>2. r \in Kernel /\ Unmoved(kk, r)
    BY <1>5, RmUnmoved
  <2> HIDE DEF r
  <2>3. /\ b \in Kernel
        /\ b.blk_list = r.blk_list /\ b.blk_obj = r.blk_obj /\ b.blk_state = r.blk_state
        /\ b.tick_list = r.tick_list /\ b.tick_remain = r.tick_remain
        /\ b.task_state = r.task_state /\ b.fatal = r.fatal
        /\ b.prio = [r.prio EXCEPT ![t] = p]
    <3>1. b \in Kernel
      BY <2>2 DEF Kernel
    <3> QED
      BY <2>2, <3>1 DEF Kernel
  <2> HIDE DEF b
  <2>4. Unmoved(b, kk2)
    BY <2>1, <2>3, QueueFields
  <2>5. /\ kk2.blk_list = kk.blk_list /\ kk2.blk_obj = kk.blk_obj
        /\ kk2.blk_state = kk.blk_state /\ kk2.tick_list = kk.tick_list
        /\ kk2.tick_remain = kk.tick_remain /\ kk2.task_state = kk.task_state
        /\ kk2.fatal = kk.fatal /\ kk2.prio = [kk.prio EXCEPT ![t] = p]
    BY <2>2, <2>3, <2>4 DEF Unmoved, SameLists
  <2> QED
    BY <1>4, <1>5, <2>5 DEF Pending
<1>6. CASE kk.prio[t] # p /\ kk.task_state[t] \in Pending
  <2>1. kk2 = pend_list_reorder(a, t)
    BY <1>6 DEF pri_change_one, Pending
  <2> HIDE DEF a
  <2>2. Linked(kk, t) /\ Right(kk, Task)
    BY DEF WaitOK
  <2>3. kk.blk_obj[t] \in Obj
    BY <1>6, <2>2 DEF Linked
  <2>4. a.blk_obj[t] \in Obj /\ TickRight(a)
    BY <1>3, <2>2, <2>3 DEF Right, TickRight
  <2>5. ASSUME NEW q \in Obj
        PROVE  /\ Holds(a.blk_list[q], {u \in Task : a.blk_obj[u] = q})
               /\ OrderedBut(a.blk_list[q], a.prio, t)
    <3> DEFINE s == kk.blk_list[q]
    <3>1. s \in Seq(Task)
      BY <1>1, KernelFields
    <3>2. Holds(s, {u \in Task : kk.blk_obj[u] = q}) /\ Ordered(s, kk.prio)
      BY <2>2 DEF Right, PendRight
    <3>3. \A u \in Task \ {t} : a.prio[u] = kk.prio[u]
      BY <1>1, <1>3
    <3> HIDE DEF s
    <3>4. OrderedBut(s, a.prio, t)
      BY <3>1, <3>2, <3>3, OrderedOthers
    <3> QED
      BY <1>3, <3>2, <3>4 DEF s
  <2>6. /\ Right(kk2, Task)
        /\ kk2.task_state = a.task_state /\ kk2.blk_obj = a.blk_obj
        /\ kk2.blk_state = a.blk_state /\ kk2.prio = a.prio
        /\ kk2.fatal = a.fatal /\ OnTick(kk2) = OnTick(a)
    BY <1>3, <2>1, <2>4, <2>5, ReorderRight
  <2>7. /\ kk2.task_state = kk.task_state /\ kk2.blk_obj = kk.blk_obj
        /\ kk2.blk_state = kk.blk_state
        /\ kk2.fatal = kk.fatal /\ OnTick(kk2) = OnTick(kk)
    BY <1>3, <2>6 DEF OnTick
  <2>8. Spares(kk, kk2, t) /\ Linked(kk2, t)
    BY <2>2, <2>7 DEF Spares, Linked
  <2>9. WaitOK(kk2)
    BY <2>6, <2>8, WaitFrom
  <2> QED
    BY <2>7, <2>8, <2>9 DEF Ungranted
<1>7. CASE kk.prio[t] # p /\ kk.task_state[t] \notin Pending \cup {"K_RDY"}
  <2>1. kk2 = a
    BY <1>7 DEF pri_change_one
  <2> QED
    BY <1>3, <1>4, <1>7, <2>1
<1> QED
  BY <1>2, <1>5, <1>6, <1>7

\* krhino_task_create: the new task waits for nothing.
LEMMA CreateWaits ==
    ASSUME NEW kk, ReadyOK(kk), WaitOK(kk), NEW t \in Task \ {Idle},
           kk.task_state[t] = "K_DELETED",
           NEW state \in {"K_RDY", "K_SUSPENDED"}, NEW n \in Nat,
           NEW kk2 \in Kernel,
           \/ kk2 = ready_list_add_tail(Tcb(kk, t, state, n), t)
           \/ kk2 = Tcb(kk, t, state, n)
    PROVE  Ungranted(kk, kk2, t)
<1> DEFINE a == Tcb(kk, t, state, n)
<1>1. /\ kk \in Kernel /\ kk.blk_obj[t] = NoObj /\ t \notin OnTick(kk)
      /\ kk.blk_obj[t] \notin Obj
  BY OffBoth, ObjAssumption DEF Pending, Sleeping
<1>2. a \in Kernel
  BY <1>1, TcbFields DEF TaskState
<1>3. /\ a.blk_list = kk.blk_list /\ a.blk_obj = kk.blk_obj
      /\ a.tick_list = kk.tick_list /\ a.fatal = kk.fatal
      /\ a.task_state[t] = state
      /\ \A u \in Task \ {t} : /\ a.prio[u] = kk.prio[u]
                               /\ a.tick_remain[u] = kk.tick_remain[u]
                               /\ a.task_state[u] = kk.task_state[u]
                               /\ a.blk_state[u] = kk.blk_state[u]
  <2>1. kk.blk_obj = [kk.blk_obj EXCEPT ![t] = NoObj]
    BY <1>1 DEF Kernel
  <2>2. /\ a.blk_list = kk.blk_list /\ a.tick_list = kk.tick_list /\ a.fatal = kk.fatal
        /\ a.blk_obj = [kk.blk_obj EXCEPT ![t] = NoObj]
        /\ a.blk_state = [kk.blk_state EXCEPT ![t] = "BLK_FINISH"]
        /\ a.tick_remain = [kk.tick_remain EXCEPT ![t] = 0]
    BY <1>1 DEF Tcb, Kernel
  <2>3. /\ a.prio = [kk.prio EXCEPT ![t] = InitPri[t]]
        /\ a.task_state = [kk.task_state EXCEPT ![t] = state]
    BY <1>1 DEF Tcb, Kernel
  <2> HIDE DEF a
  <2>4. /\ kk.prio \in [Task -> Pri] /\ kk.task_state \in [Task -> TaskState]
        /\ kk.blk_state \in [Task -> BlkState] /\ kk.tick_remain \in [Task -> Nat]
    BY <1>1, KernelFields
  <2> QED
    BY <2>1, <2>2, <2>3, <2>4
<1>4. kk2 = ready_list_add_tail(a, t) \/ kk2 = a
  OBVIOUS
<1> HIDE DEF a
<1>5. Unmoved(a, kk2)
  <2>1. CASE kk2 = a
    BY <2>1 DEF Unmoved, SameLists
  <2>2. CASE kk2 = ready_list_add_tail(a, t)
    BY <1>2, <2>2, QueueFields
  <2> QED
    BY <1>4, <2>1, <2>2
<1>6. \A u \in OnTick(kk) : u \in Task \ {t}
  <2>1. kk.tick_list \in Seq(Task)
    BY <1>1, KernelFields
  <2> DEFINE s == kk.tick_list
  <2>2. ASSUME NEW u \in ToSet(s) PROVE u \in Task
    <3>1. PICK i \in DOMAIN s : s[i] = u
      BY <2>2, ToSetIndex
    <3> QED
      BY <2>1, <3>1
  <2> QED
    BY <1>1, <2>2 DEF OnTick
<1>7. /\ kk2.blk_list = kk.blk_list /\ kk2.blk_obj = kk.blk_obj
      /\ kk2.tick_list = kk.tick_list /\ kk2.fatal = kk.fatal
      /\ \A u \in Task \ {t} : kk2.prio[u] = kk.prio[u]
      /\ \A u \in OnTick(kk) : kk2.tick_remain[u] = kk.tick_remain[u]
      /\ OthersSame(kk, kk2, t)
  BY <1>3, <1>5, <1>6 DEF Unmoved, SameLists, OthersSame
<1>8. Linked(kk2, t)
  <2>1. kk2.task_state[t] = state /\ kk2.blk_obj[t] \notin Obj /\ t \notin OnTick(kk2)
    BY <1>1, <1>3, <1>5, <1>7 DEF Unmoved, OnTick
  <2> QED
    BY <2>1 DEF Linked, Pending, Sleeping
<1> QED
  BY <1>1, <1>7, <1>8, OffListsWaits

-----------------------------------------------------------------------------
(* One step of the specification *)

WaitInv == SchedInv /\ WaitOK(k)

\* What a step of TaskNext does to the waits.
NoGrant == \E t \in Task : Ungranted(k, k', t)

\* At the start nobody waits.
LEMMA WaitInvInit == Init => WaitOK(k)
<1> SUFFICES ASSUME Init PROVE WaitOK(k)
  OBVIOUS
<1>1. SchedInv
  BY SchedInvInit
<1>2. k = KernelInit
  BY DEF Init, SchedInit
<1>3. /\ k \in Kernel /\ \A t \in Task : k.blk_obj[t] = NoObj
      /\ \A t \in Task : k.task_state[t] \in {"K_RDY", "K_DELETED"}
      /\ \A o \in Obj : k.blk_list[o] = <<>>
      /\ k.tick_list = <<>> /\ k.fatal = FALSE
  <2>1. k \in Kernel
    BY <1>1 DEF SchedInv, KernelTypeOK
  <2> QED
    BY <1>2, <2>1 DEF KernelInit
<1>4. ToSet(<<>>) = {} /\ IsInjective(<<>>)
  BY DEF ToSet, IsInjective
<1>5. \A key : Ordered(<<>>, key)
  BY DEF Ordered
<1>6. \A o \in Obj : {t \in Task : k.blk_obj[t] = o} = {}
  BY <1>3, ObjAssumption
<1>7. Right(k, Task)
  BY <1>3, <1>4, <1>5, <1>6 DEF Right, PendRight, TickRight, Holds
<1>8. \A t \in Task : Linked(k, t)
  BY <1>3, <1>4, ObjAssumption DEF Linked, OnTick, Pending, Sleeping
<1> QED
  BY <1>3, <1>7, <1>8 DEF WaitOK

\* What the step lemmas need.
LEMMA WaitInvFacts ==
    ASSUME WaitInv
    PROVE  /\ k \in Kernel /\ ReadyOK(k) /\ WaitOK(k) /\ k.active \in Task
           /\ Idle \in Task
BY InvFacts, TaskAssumption DEF WaitInv

\* A step that leaves the lists and the states alone.
LEMMA UnmovedStep ==
    ASSUME WaitInv, SchedInv', Unmoved(k, k')
    PROVE  NoGrant
<1>1. WaitOK(k) /\ k' \in Kernel
  BY DEF WaitInv, SchedInv, KernelTypeOK
<1>2. Ungranted(k, k', Idle)
  BY <1>1, UnmovedWaits
<1> QED
  BY <1>2, TaskAssumption DEF NoGrant

\* Switches, interrupts and the scheduler lock change the core's fields only.
LEMMA SwitchUnmoved ==
    ASSUME WaitInv,
           \/ \E t \in Task : core_sched(t)
           \/ krhino_intrpt_enter
           \/ krhino_intrpt_exit
           \/ krhino_sched_disable
           \/ krhino_sched_enable
    PROVE  Unmoved(k, k')
<1>1. k \in Kernel
  BY WaitInvFacts
<1>2. ASSUME NEW t \in Task, core_sched(t) PROVE Unmoved(k, k')
  BY <1>1, <1>2 DEF core_sched, Unmoved, SameLists, Kernel
<1>3. CASE krhino_intrpt_enter
  BY <1>1, <1>3 DEF krhino_intrpt_enter, Unmoved, SameLists, Kernel
<1>4. CASE krhino_intrpt_exit
  BY <1>1, <1>4 DEF krhino_intrpt_exit, Unmoved, SameLists, Kernel
<1>5. CASE krhino_sched_disable
  BY <1>1, <1>5 DEF krhino_sched_disable, Unmoved, SameLists, Kernel
<1>6. CASE krhino_sched_enable
  BY <1>1, <1>6 DEF krhino_sched_enable, critical_exit_sched, Unmoved, SameLists, Kernel
<1> QED
  BY <1>2, <1>3, <1>4, <1>5, <1>6

\* The tick counts the timeouts down; the order of the tick list stays.
LEMMA TickIntrptWaits ==
    ASSUME WaitInv, SchedInv', tick_intrpt
    PROVE  NoGrant
<1> DEFINE a == tick_count_inc(k)
<1>1. k \in Kernel /\ WaitOK(k) /\ k' \in Kernel /\ Right(k, Task)
  BY WaitInvFacts DEF SchedInv, KernelTypeOK, WaitOK
<1>2. k' = [a EXCEPT !.nested = k.nested + 1]
  BY <1>1 DEF tick_intrpt, tick_count_inc, Kernel
<1>3. a = tick_count_inc(k)
  OBVIOUS
<1> HIDE DEF a
<1>4. /\ Right(a, Task)
      /\ a.task_state = k.task_state /\ a.blk_obj = k.blk_obj
      /\ a.blk_state = k.blk_state /\ a.prio = k.prio
      /\ a.blk_list = k.blk_list /\ a.fatal = k.fatal
      /\ OnTick(a) = OnTick(k)
  BY <1>1, <1>3, TickCountRight
<1>5. a \in Kernel
  BY <1>4 DEF Right
<1>6. Unmoved(a, k')
  BY <1>2, <1>5 DEF Unmoved, SameLists, Kernel
<1>7. Right(k', Task) /\ OnTick(k') = OnTick(k)
  BY <1>1, <1>4, <1>6, SameListsRight DEF Unmoved
<1>8. /\ k'.task_state = k.task_state /\ k'.blk_obj = k.blk_obj
      /\ k'.blk_state = k.blk_state /\ k'.fatal = k.fatal
  BY <1>4, <1>6 DEF Unmoved, SameLists
<1>9. Spares(k, k', Idle) /\ Linked(k', Idle)
  <2>1. Linked(k, Idle)
    BY <1>1, TaskAssumption DEF WaitOK
  <2> QED
    BY <1>7, <1>8, <2>1 DEF Spares, Linked
<1>10. WaitOK(k')
  BY <1>1, <1>7, <1>9, WaitFrom, TaskAssumption
<1>11. Ungranted(k, k', Idle)
  BY <1>8, <1>9, <1>10 DEF Ungranted
<1> QED
  BY <1>11, TaskAssumption DEF NoGrant

\* tick_list_update: the head of the tick list is a task that sleeps or waits.
LEMMA TickNextWaits ==
    ASSUME WaitInv, tick_next
    PROVE  NoGrant
<1> DEFINE t == Head(k.tick_list)
<1>1. k \in Kernel /\ ReadyOK(k) /\ WaitOK(k) /\ k.tick_list \in Seq(Task)
  BY WaitInvFacts, KernelFields
<1>2. k' = tick_expire(k, t) /\ k.tick_list # <<>>
  BY DEF tick_next, tick_due
<1>3. t \in Task /\ t \in OnTick(k)
  <2>1. t = k.tick_list[1] /\ 1 \in DOMAIN k.tick_list
    BY <1>1, <1>2
  <2> DEFINE s == k.tick_list
  <2>2. t \in ToSet(s)
    BY <2>1, InToSet
  <2> QED
    BY <1>1, <1>2, <2>2 DEF OnTick
<1> HIDE DEF t
<1>4. Ungranted(k, k', t)
  BY <1>1, <1>2, <1>3, TickExpireWaits
<1> QED
  BY <1>3, <1>4 DEF NoGrant

\* The time slices are on no list of waiters.
LEMMA TickEndWaits ==
    ASSUME WaitInv, SchedInv', tick_end
    PROVE  NoGrant
<1>1. k \in Kernel /\ ReadyOK(k)
  BY WaitInvFacts
<1>2. Unmoved(k, k')
  <2>1. CASE SchedRR
    BY <1>1, <2>1, TimeSliceUnmoved DEF tick_end
  <2>2. CASE ~SchedRR
    BY <2>2 DEF tick_end, Unmoved, SameLists
  <2> QED
    BY <2>1, <2>2
<1> QED
  BY <1>2, UnmovedStep

\* The calls of RhinoTask: krhino_task_sleep.
LEMMA SleepWaitsStep ==
    ASSUME WaitInv, NEW ticks \in Nat \ {0}, krhino_task_sleep(ticks)
    PROVE  NoGrant
<1> DEFINE t == k.active
<1>1. k' = ready_list_rm(tick_list_insert([k EXCEPT !.task_state[t] = "K_SLEEP"], t, ticks), t)
  BY DEF krhino_task_sleep, critical_exit_block
<1>2. t \in Task \ {Idle} /\ k.task_state[t] = "K_RDY"
  BY CallerReady DEF krhino_task_sleep, WaitInv
<1> HIDE DEF t
<1>3. Ungranted(k, k', t)
  BY <1>1, <1>2, WaitInvFacts, SleepWaits
<1> QED
  BY <1>2, <1>3 DEF NoGrant

\* krhino_task_yield rotates a ready list.
LEMMA YieldWaits ==
    ASSUME WaitInv, SchedInv', krhino_task_yield
    PROVE  NoGrant
<1>1. k \in Kernel /\ k' = ready_list_head_to_tail(k, k.active)
  BY WaitInvFacts DEF krhino_task_yield, critical_exit_sched
<1>2. Unmoved(k, k')
  BY <1>1, QueueFields
<1> QED
  BY <1>2, UnmovedStep

\* krhino_task_suspend.
LEMMA SuspendWaits ==
    ASSUME WaitInv, NEW t \in Task, krhino_task_suspend(t)
    PROVE  NoGrant
<1>1. /\ t \in Task \ {Idle} /\ k.task_state[t] # "K_DELETED"
      /\ k.task_state[t] \in Suspended => k.suspend_count[t] < SuspendMax
      /\ k' = task_suspend(k, t)
  BY DEF krhino_task_suspend, critical_exit_sched, Suspended
<1>2. Ungranted(k, k', t)
  BY <1>1, WaitInvFacts, TaskSuspendWaits
<1> QED
  BY <1>2 DEF NoGrant

\* krhino_task_resume.
LEMMA ResumeWaits ==
    ASSUME WaitInv, NEW t \in Task, krhino_task_resume(t)
    PROVE  NoGrant
<1>1. k.task_state[t] \in Suspended /\ k' = task_resume(k, t)
  BY DEF krhino_task_resume, critical_exit_sched, Suspended
<1>2. Ungranted(k, k', t)
  BY <1>1, WaitInvFacts, TaskResumeWaits
<1> QED
  BY <1>2 DEF NoGrant

\* krhino_task_create.
LEMMA CreateWaitsStep ==
    ASSUME WaitInv, SchedInv', NEW t \in Task, NEW autorun \in BOOLEAN,
           krhino_task_create(t, autorun)
    PROVE  NoGrant
<1> DEFINE state == IF autorun THEN "K_RDY" ELSE "K_SUSPENDED"
           n == IF autorun THEN 0 ELSE 1
<1>1. /\ t \in Task \ {Idle} /\ k.task_state[t] = "K_DELETED"
      /\ \/ k' = ready_list_add_tail(Tcb(k, t, state, n), t)
         \/ k' = Tcb(k, t, state, n)
  BY DEF krhino_task_create, Tcb
<1>2. state \in {"K_RDY", "K_SUSPENDED"} /\ n \in Nat /\ k' \in Kernel
  BY DEF SchedInv, KernelTypeOK
<1> HIDE DEF state, n
<1>3. Ungranted(k, k', t)
  BY <1>1, <1>2, WaitInvFacts, CreateWaits
<1> QED
  BY <1>3 DEF NoGrant

\* krhino_task_del.
LEMMA DelWaits ==
    ASSUME WaitInv, NEW t \in Task, krhino_task_del(t)
    PROVE  NoGrant
<1>1. t \in Task \ {Idle} /\ k.task_state[t] # "K_DELETED" /\ k' = task_unlink(k, t)
  BY DEF krhino_task_del, critical_exit_sched
<1>2. Ungranted(k, k', t)
  BY <1>1, WaitInvFacts, TaskUnlinkWaits
<1> QED
  BY <1>2 DEF NoGrant

\* krhino_task_pri_change sets the base priority first, which is on no list either.
LEMMA PriChangeWaitsStep ==
    ASSUME WaitInv, NEW t \in Task, NEW p \in Pri, krhino_task_pri_change(t, p)
    PROVE  NoGrant
<1> DEFINE a == [k EXCEPT !.b_prio[t] = p]
<1>1. /\ k \in Kernel /\ ReadyOK(k) /\ WaitOK(k)
      /\ t \in Task \ {Idle} /\ k.task_state[t] # "K_DELETED" /\ k' = pri_change_one(a, t, p)
  BY WaitInvFacts DEF krhino_task_pri_change, critical_exit_sched
<1>2. Quiet(k, a)
  BY <1>1 DEF Kernel, Quiet, SameReady, SameCore
<1>3. Unmoved(k, a)
  BY <1>1 DEF Kernel, Unmoved, SameLists
<1> HIDE DEF a
<1>4. a \in Kernel /\ ReadyOK(a)
  BY <1>1, <1>2, QuietSteady DEF Quiet, Steady
<1>5. Ungranted(k, a, t)
  BY <1>1, <1>3, <1>4, UnmovedWaits
<1>6. WaitOK(a) /\ a.task_state = k.task_state /\ a.blk_obj = k.blk_obj
      /\ a.blk_state = k.blk_state
  BY <1>3, <1>5 DEF Ungranted, Unmoved, SameLists
<1>7. Ungranted(a, k', t)
  BY <1>1, <1>4, <1>6, PriChangeWaits
<1>8. Spares(k, k', t)
  BY <1>5, <1>7, SparesTrans DEF Ungranted
<1>9. Ungranted(k, k', t)
  BY <1>6, <1>7, <1>8 DEF Ungranted
<1> QED
  BY <1>9 DEF NoGrant

\* krhino_task_wait_abort.
LEMMA WaitAbortWaitsStep ==
    ASSUME WaitInv, NEW t \in Task, krhino_task_wait_abort(t)
    PROVE  NoGrant
<1>1. k.task_state[t] # "K_DELETED" /\ k' = task_wait_abort(k, t)
  BY DEF krhino_task_wait_abort, critical_exit_sched
<1>2. Ungranted(k, k', t)
  BY <1>1, WaitInvFacts, WaitAbortWaits
<1> QED
  BY <1>2 DEF NoGrant

\* The round-robin settings are about no waiter.
LEMMA RoundRobinUnmoved ==
    ASSUME WaitInv, NEW t \in Task,
           \/ \E slice \in Slices : krhino_task_time_slice_set(t, slice)
           \/ \E policy \in SchedPolicy : krhino_sched_policy_set(t, policy)
    PROVE  Unmoved(k, k')
<1>1. k \in Kernel
  BY WaitInvFacts
<1> QED
  BY <1>1 DEF krhino_task_time_slice_set, krhino_sched_policy_set, Unmoved, SameLists, Kernel

\* No step of the scheduler or of a task call wakes a waiter with what it waited for.
LEMMA WaitStep ==
    ASSUME WaitInv, SchedInv', [Next]_schedVars
    PROVE  NoGrant
<1>0. CASE UNCHANGED schedVars
  <2>1. Unmoved(k, k')
    BY <1>0 DEF schedVars, Unmoved, SameLists
  <2> QED
    BY <2>1, UnmovedStep
<1>1. CASE \/ \E t \in Task : core_sched(t)
           \/ krhino_intrpt_enter
           \/ krhino_intrpt_exit
           \/ krhino_sched_disable
           \/ krhino_sched_enable
  BY <1>1, SwitchUnmoved, UnmovedStep
<1>2. CASE tick_intrpt
  BY <1>2, TickIntrptWaits
<1>3. CASE tick_end
  BY <1>3, TickEndWaits
<1>4. ASSUME NEW ticks \in Ticks, krhino_task_sleep(ticks) PROVE NoGrant
  BY <1>4, SleepWaitsStep, TaskCallsAssumption
<1>5. CASE krhino_task_yield
  BY <1>5, YieldWaits
<1>6. ASSUME NEW t \in Suspendable, krhino_task_suspend(t) PROVE NoGrant
  BY <1>6, SuspendWaits, TaskCallsAssumption
<1>7. ASSUME NEW t \in Suspendable, krhino_task_resume(t) PROVE NoGrant
  BY <1>7, ResumeWaits, TaskCallsAssumption
<1>8. CASE tick_next
  BY <1>8, TickNextWaits
<1>9. ASSUME NEW t \in Task, pend_state_end_proc(t) PROVE NoGrant
  <2>1. Unmoved(k, k')
    BY <1>9 DEF pend_state_end_proc, Unmoved, SameLists
  <2> QED
    BY <2>1, UnmovedStep
<1>10. ASSUME NEW t \in Task, NEW autorun \in BOOLEAN, krhino_task_create(t, autorun)
       PROVE  NoGrant
  BY <1>10, CreateWaitsStep
<1>11. ASSUME NEW t \in Victims, krhino_task_del(t) PROVE NoGrant
  BY <1>11, DelWaits, TaskCallsAssumption
<1>12. ASSUME NEW t \in Movable, NEW p \in NewPri, krhino_task_pri_change(t, p) PROVE NoGrant
  BY <1>12, PriChangeWaitsStep, TaskCallsAssumption
<1>13. ASSUME NEW t \in Abortable, krhino_task_wait_abort(t) PROVE NoGrant
  BY <1>13, WaitAbortWaitsStep, TaskCallsAssumption
<1>14. CASE RoundRobinNext
  BY <1>14, RoundRobinUnmoved, UnmovedStep DEF RoundRobinNext
<1>15. CASE PlainNext
  BY <1>15, <1>1, <1>2, <1>3, <1>4, <1>5, <1>6, <1>7 DEF PlainNext, SwitchNext
<1>16. CASE TaskNext
  BY <1>16, <1>8, <1>9, <1>10, <1>11, <1>12, <1>13, <1>15 DEF TaskNext
<1> QED
  BY <1>0, <1>14, <1>16 DEF Next

\* The invariant is inductive.
LEMMA WaitInvStep == WaitInv /\ [Next]_schedVars => WaitInv'
<1> SUFFICES ASSUME WaitInv, [Next]_schedVars PROVE WaitInv'
  OBVIOUS
<1>1. SchedInv'
  BY SchedInvStep DEF WaitInv
<1>2. NoGrant
  BY <1>1, WaitStep
<1>3. WaitOK(k')
  BY <1>2 DEF NoGrant, Ungranted
<1> QED
  BY <1>1, <1>3 DEF WaitInv

-----------------------------------------------------------------------------
(* Who waits for an object *)

\* A list names its waiters.
LEMMA WaitersListed ==
    ASSUME NEW kk, WaitOK(kk), NEW o \in Obj
    PROVE  /\ ToSet(kk.blk_list[o]) = {t \in Task : kk.blk_obj[t] = o}
           /\ kk.blk_list[o] \in Seq(Task)
           /\ Ordered(kk.blk_list[o], kk.prio)
           /\ kk.blk_list[o] = <<>> <=> \A t \in Task : kk.blk_obj[t] # o
<1>1. kk \in Kernel /\ PendRight(kk, Task)
  BY DEF WaitOK, Right
<1>2. kk.blk_list[o] \in Seq(Task)
  BY <1>1, KernelFields
<1>3. /\ ToSet(kk.blk_list[o]) = {t \in Task : kk.blk_obj[t] = o}
      /\ Ordered(kk.blk_list[o], kk.prio)
  BY <1>1 DEF PendRight, Holds
<1>4. kk.blk_list[o] = <<>> => \A t \in Task : kk.blk_obj[t] # o
  <2>1. ToSet(<<>>) = {}
    BY DEF ToSet
  <2> QED
    BY <1>3, <2>1
<1>5. ASSUME kk.blk_list[o] # <<>> PROVE \E t \in Task : kk.blk_obj[t] = o
  <2>1. 1 \in DOMAIN kk.blk_list[o]
    BY <1>2, <1>5
  <2>2. kk.blk_list[o][1] \in ToSet(kk.blk_list[o])
    BY <2>1 DEF ToSet
  <2> QED
    BY <1>3, <2>2
<1> QED
  BY <1>2, <1>3, <1>4, <1>5

\* The first waiter waits, and nobody before it in urgency does.
LEMMA FirstWaiter ==
    ASSUME NEW kk, WaitOK(kk), NEW o \in Obj, kk.blk_list[o] # <<>>
    PROVE  /\ Head(kk.blk_list[o]) \in Task
           /\ kk.blk_obj[Head(kk.blk_list[o])] = o
           /\ \A u \in ToSet(kk.blk_list[o]) : kk.prio[Head(kk.blk_list[o])] <= kk.prio[u]
<1> DEFINE s == kk.blk_list[o]
<1>1. /\ ToSet(s) = {t \in Task : kk.blk_obj[t] = o} /\ s \in Seq(Task)
      /\ Ordered(s, kk.prio)
  BY WaitersListed
<1>2. 1 \in DOMAIN s /\ Head(s) = s[1] /\ Len(s) \in Nat /\ DOMAIN s = 1 .. Len(s)
  BY <1>1
<1>3. Head(s) \in ToSet(s)
  BY <1>2 DEF ToSet
<1>4. kk.prio \in [Task -> Int]
  BY KernelFields DEF WaitOK, Right
<1>5. ASSUME NEW u \in ToSet(s) PROVE kk.prio[Head(s)] <= kk.prio[u]
  <2>1. PICK i \in DOMAIN s : s[i] = u
    BY <1>1, ToSetIndex
  <2>2. CASE i = 1
    BY <1>1, <1>2, <1>3, <1>4, <2>1, <2>2
  <2>3. CASE i # 1
    <3>1. 1 < i
      BY <1>2, <2>1, <2>3
    <3> QED
      BY <1>1, <1>2, <2>1, <3>1 DEF Ordered
  <2> QED
    BY <2>2, <2>3
<1> QED
  BY <1>1, <1>3, <1>5

\* Who waits for q changes by t at most.
LEMMA OthersWait ==
    ASSUME k \in Kernel, k' \in Kernel, NEW t \in Task, Spares(k, k', t), NEW q
    PROVE  /\ {u \in Task : k'.blk_obj[u] = q} \ {t} = {u \in Task : k.blk_obj[u] = q} \ {t}
           /\ k'.blk_state = [k.blk_state EXCEPT ![t] = k'.blk_state[t]]
           /\ k'.blk_state[t] \in BlkState
<1>1. k.blk_state \in [Task -> BlkState] /\ k'.blk_state \in [Task -> BlkState]
  BY KernelFields
<1>2. \A u \in Task \ {t} : k'.blk_obj[u] = k.blk_obj[u] /\ k'.blk_state[u] = k.blk_state[u]
  BY DEF Spares
<1> QED
  BY <1>1, <1>2

\* Only the task a call concerns can leave a list.
LEMMA OnlyLeaver ==
    ASSUME WaitOK(k), WaitOK(k'), NEW t \in Task, Spares(k, k', t), NEW q \in Obj,
           NEW u \in ToSet(k.blk_list[q]), u \notin ToSet(k'.blk_list[q])
    PROVE  u = t /\ k.blk_obj[t] = q /\ k'.blk_obj[t] # q
<1>1. /\ ToSet(k.blk_list[q]) = {v \in Task : k.blk_obj[v] = q}
      /\ ToSet(k'.blk_list[q]) = {v \in Task : k'.blk_obj[v] = q}
  BY WaitersListed
<1>2. u \in Task /\ k.blk_obj[u] = q /\ k'.blk_obj[u] # q
  BY <1>1
<1>3. u = t
  BY <1>2 DEF Spares
<1> QED
  BY <1>2, <1>3

-----------------------------------------------------------------------------
(* Loops over waiters *)

\* f[n] is the record after n rounds of end_pend_each.
Loops(f, m, kk, s, bs) ==
    f = [n \in 0 .. m |-> IF n = 0 THEN kk ELSE end_pend(f[n - 1], s[n], bs)]

\* The recursive function of end_pend_each exists ...
LEMMA EachExists ==
    ASSUME NEW kk, NEW s, NEW l \in Nat, NEW bs
    PROVE  \E f : Loops(f, l, kk, s, bs)
<1> DEFINE S == {m \in Nat : \E f : Loops(f, m, kk, s, bs)}
<1>1. 0 \in S
  <2> DEFINE f == [n \in 0 .. 0 |-> kk]
  <2>1. Loops(f, 0, kk, s, bs)
    BY DEF Loops
  <2> QED
    BY <2>1
<1>2. ASSUME NEW m \in Nat, m \in S PROVE m + 1 \in S
  <2>1. PICK f : Loops(f, m, kk, s, bs)
    BY <1>2
  <2> DEFINE g == [n \in 0 .. m + 1 |-> IF n <= m THEN f[n] ELSE end_pend(f[m], s[m + 1], bs)]
  <2>2. ASSUME NEW n \in 0 .. m + 1
        PROVE  g[n] = IF n = 0 THEN kk ELSE end_pend(g[n - 1], s[n], bs)
    <3>1. CASE n = 0
      BY <2>1, <3>1 DEF Loops
    <3>2. CASE n \in 1 .. m
      <4>1. f[n] = end_pend(f[n - 1], s[n], bs)
        BY <2>1, <3>2 DEF Loops
      <4>2. g[n] = f[n] /\ g[n - 1] = f[n - 1]
        BY <3>2
      <4> QED
        BY <3>2, <4>1, <4>2
    <3>3. CASE n = m + 1
      BY <3>3
    <3> QED
      BY <3>1, <3>2, <3>3
  <2>3. Loops(g, m + 1, kk, s, bs)
    BY <2>2 DEF Loops
  <2> HIDE DEF g
  <2> QED
    BY <2>3
<1> HIDE DEF S
<1>3. l \in S
    BY <1>1, <1>2, NatInductive
<1> QED
  BY <1>3 DEF S

\* ... and its last value is what the loop leaves.
LEMMA EachIs ==
    ASSUME NEW kk, NEW s, Len(s) \in Nat, NEW bs
    PROVE  \E f : Loops(f, Len(s), kk, s, bs) /\ end_pend_each(kk, s, bs) = f[Len(s)]
<1> DEFINE g == CHOOSE f : Loops(f, Len(s), kk, s, bs)
<1>1. Loops(g, Len(s), kk, s, bs)
  BY EachExists
<1>2. end_pend_each(kk, s, bs) = g[Len(s)]
  BY DEF end_pend_each, Loops
<1> HIDE DEF g
<1> QED
  BY <1>1, <1>2

\* The tasks of W are woken one after the other, and nobody else.
Woken(kk1, kk2, W, bs) ==
    /\ ReadyOK(kk2) /\ WaitOK(kk2) /\ SameCore(kk1, kk2)
    /\ \A u \in W : /\ kk2.blk_obj[u] = NoObj
                    /\ kk2.blk_state[u] = bs
                    /\ kk2.task_state[u] # "K_DELETED"
    /\ \A u \in Task \ W : /\ kk2.blk_obj[u] = kk1.blk_obj[u]
                           /\ kk2.blk_state[u] = kk1.blk_state[u]
                           /\ kk2.task_state[u] = kk1.task_state[u]

\* One more is woken.
LEMMA WokenMore ==
    ASSUME NEW kk1, NEW kk2, NEW W \in SUBSET Task, NEW bs \in BlkState, Woken(kk1, kk2, W, bs),
           NEW t \in Task \ W, kk1.blk_obj[t] \in Obj, NEW kk3, kk3 = end_pend(kk2, t, bs)
    PROVE  Woken(kk1, kk3, W \cup {t}, bs)
<1>1. ReadyOK(kk2) /\ WaitOK(kk2) /\ kk2.blk_obj[t] \in Obj /\ SameCore(kk1, kk2)
  BY DEF Woken
<1>2. /\ WaitOK(kk3) /\ Spares(kk2, kk3, t)
      /\ kk3.blk_obj = [kk2.blk_obj EXCEPT ![t] = NoObj]
      /\ kk3.blk_obj[t] = NoObj
      /\ kk3.blk_state = [kk2.blk_state EXCEPT ![t] = bs]
      /\ kk3.blk_state[t] = bs
      /\ kk3.task_state[t] # "K_DELETED"
      /\ kk3.prio = kk2.prio
  BY <1>1, EndPendWaits
<1>3. Concerns(kk2, end_pend(kk2, t, bs), t)
  BY <1>1, EndPend
<1>4. ReadyOK(kk3) /\ SameCore(kk1, kk3)
  BY <1>1, <1>3 DEF Concerns, SameCore
<1>5. ASSUME NEW u \in W \cup {t}
      PROVE  /\ kk3.blk_obj[u] = NoObj
             /\ kk3.blk_state[u] = bs
             /\ kk3.task_state[u] # "K_DELETED"
  <2>1. CASE u = t
    BY <1>2, <2>1
  <2>2. CASE u # t
    BY <1>2, <2>2 DEF Woken, Spares
  <2> QED
    BY <2>1, <2>2
<1>6. ASSUME NEW u \in Task \ (W \cup {t})
      PROVE  /\ kk3.blk_obj[u] = kk1.blk_obj[u]
             /\ kk3.blk_state[u] = kk1.blk_state[u]
             /\ kk3.task_state[u] = kk1.task_state[u]
  <2>1. u \in Task \ W /\ u \in Task \ {t}
    OBVIOUS
  <2> QED
    BY <1>2, <2>1 DEF Woken, Spares
<1> QED
  BY <1>2, <1>4, <1>5, <1>6 DEF Woken

\* Nobody is woken.
LEMMA WokenNone ==
    ASSUME NEW kk, ReadyOK(kk), WaitOK(kk), NEW bs
    PROVE  Woken(kk, kk, {}, bs)
BY DEF Woken, SameCore

\* The loop wakes exactly the tasks it is given.
LEMMA EachWaits ==
    ASSUME NEW kk, ReadyOK(kk), WaitOK(kk), NEW s \in Seq(Task), IsInjective(s),
           \A t \in ToSet(s) : kk.blk_obj[t] \in Obj, NEW bs \in BlkState,
           NEW kk2, kk2 = end_pend_each(kk, s, bs)
    PROVE  Woken(kk, kk2, ToSet(s), bs)
<1>1. Len(s) \in Nat /\ DOMAIN s = 1 .. Len(s) /\ \A i \in 1 .. Len(s) : s[i] \in Task
  OBVIOUS
<1>2. PICK f : Loops(f, Len(s), kk, s, bs) /\ end_pend_each(kk, s, bs) = f[Len(s)]
  BY <1>1, EachIs
<1> DEFINE W(n) == {s[i] : i \in 1 .. n}
           S == {n \in Nat : n <= Len(s) => Woken(kk, f[n], W(n), bs)}
<1>3. 0 \in S
  <2>1. f[0] = kk
    BY <1>1, <1>2 DEF Loops
  <2>2. W(0) = {}
    OBVIOUS
  <2> HIDE DEF W
  <2> QED
    BY <2>1, <2>2, WokenNone
<1>4. ASSUME NEW n \in Nat, n \in S PROVE n + 1 \in S
  <2> SUFFICES ASSUME n + 1 <= Len(s) PROVE Woken(kk, f[n + 1], W(n + 1), bs)
    OBVIOUS
  <2>1. Woken(kk, f[n], W(n), bs)
    BY <1>1, <1>4
  <2>2. f[n + 1] = end_pend(f[n], s[n + 1], bs)
    BY <1>1, <1>2 DEF Loops
  <2>3. n + 1 \in DOMAIN s /\ s[n + 1] \in ToSet(s)
    BY <1>1 DEF ToSet
  <2>4. s[n + 1] \in Task \ W(n)
    <3>1. ASSUME NEW i \in 1 .. n PROVE s[i] # s[n + 1]
      BY <1>1, <2>3 DEF IsInjective
    <3> QED
      BY <1>1, <2>3, <3>1
  <2>5. W(n + 1) = W(n) \cup {s[n + 1]} /\ W(n) \in SUBSET Task
    <3>1. 1 .. n + 1 = (1 .. n) \cup {n + 1}
      OBVIOUS
    <3>2. \A i \in 1 .. n : s[i] \in Task
      BY <1>1
    <3> QED
      BY <3>1, <3>2
  <2> HIDE DEF W, S
  <2> QED
    BY <2>1, <2>2, <2>3, <2>4, <2>5, WokenMore
<1> HIDE DEF S
<1>5. Len(s) \in S
  BY <1>1, <1>3, <1>4, NatInductive
<1>6. W(Len(s)) = ToSet(s)
  BY <1>1 DEF ToSet
<1> HIDE DEF W
<1> QED
  BY <1>1, <1>2, <1>5, <1>6 DEF S

\* The tasks of W, waiters for q, are woken: who waits afterwards, and with which
\* outcomes, in the words of the abstract objects.
LEMMA WaitersWoken ==
    ASSUME NEW q \in Obj, NEW bs \in BlkState, k \in Kernel, k' \in Kernel,
           NEW W, W \subseteq {t \in Task : k.blk_obj[t] = q}, Woken(k, k', W, bs)
    PROVE  /\ {t \in Task : k'.blk_obj[t] = q} = {t \in Task : k.blk_obj[t] = q} \ W
           /\ k'.blk_state = [t \in Task |-> IF t \in W THEN bs ELSE k.blk_state[t]]
           /\ \A p \in Obj \ {q} : \A t \in Task :
                 /\ k'.blk_obj[t] = p <=> k.blk_obj[t] = p
                 /\ k.blk_obj[t] = p => t \notin W /\ k'.blk_state[t] = k.blk_state[t]
<1>1. /\ \A u \in W : k'.blk_obj[u] = NoObj /\ k'.blk_state[u] = bs
      /\ \A u \in Task \ W : k'.blk_obj[u] = k.blk_obj[u] /\ k'.blk_state[u] = k.blk_state[u]
  BY DEF Woken
<1>2. k'.blk_state \in [Task -> BlkState]
  BY KernelFields
<1>3. {t \in Task : k'.blk_obj[t] = q} = {t \in Task : k.blk_obj[t] = q} \ W
  BY <1>1, ObjAssumption
<1>4. k'.blk_state = [t \in Task |-> IF t \in W THEN bs ELSE k.blk_state[t]]
  BY <1>1, <1>2
<1>5. ASSUME NEW p \in Obj \ {q}, NEW t \in Task
      PROVE  /\ k'.blk_obj[t] = p <=> k.blk_obj[t] = p
             /\ k.blk_obj[t] = p => t \notin W /\ k'.blk_state[t] = k.blk_state[t]
  BY <1>1, ObjAssumption
<1> QED
  BY <1>3, <1>4, <1>5

-----------------------------------------------------------------------------
(* What the calls of the kernel objects do, in one step *)

\* A task blocks on o.
LEMMA BlockStep ==
    ASSUME WaitInv, NEW o \in Obj, NEW ticks \in Ticks \cup {WaitForever},
           TaskCalls(k.active), k.sched_lock = 0, UNCHANGED irq_off,
           critical_exit_block(pend_to_blk_obj(k, o, k.active, ticks))
    PROVE  /\ WaitInv'
           /\ \E t \in Task :
                 /\ t = k.active
                 /\ Spares(k, k', t)
                 /\ k.blk_obj[t] = NoObj
                 /\ k'.blk_obj = [k.blk_obj EXCEPT ![t] = o]
                 /\ k'.blk_obj[t] = o
                 /\ k'.blk_state = k.blk_state
<1>1. PICK t \in Task : t = k.active
  BY WaitInvFacts
<1>2. PICK k1 : k1 = pend_to_blk_obj(k, o, t, ticks) /\ k' = k1
  BY <1>1 DEF critical_exit_block
<1>3. t \in Task \ {Idle} /\ k.task_state[t] = "K_RDY"
  BY <1>1, CallerReady DEF WaitInv
<1>4. ticks \in Nat \cup {WaitForever}
  BY TaskCallsAssumption
<1>5. Concerns(k, pend_to_blk_obj(k, o, k.active, ticks), k.active)
  BY <1>1, <1>3, <1>4, WaitInvFacts, PendToBlkObj
<1>6. SchedInv'
  BY <1>5, ExitBlock DEF WaitInv
<1>7. /\ WaitOK(k1) /\ Spares(k, k1, t)
      /\ k.blk_obj[t] = NoObj
      /\ k1.blk_obj = [k.blk_obj EXCEPT ![t] = o]
      /\ k1.blk_obj[t] = o
      /\ k1.blk_state = k.blk_state
  BY <1>2, <1>3, <1>4, WaitInvFacts, PendToBlkObjWaits
<1> QED
  BY <1>1, <1>2, <1>6, <1>7 DEF WaitInv

\* Waiters are woken, all of a list or some; none of them holds the scheduler locked.
LEMMA WakeStep ==
    ASSUME WaitInv, NEW W \in SUBSET Task, \A t \in W : k.blk_obj[t] \in Obj,
           NEW bs \in BlkState, NEW STATE kk2, Woken(k, kk2, W, bs),
           critical_exit_sched(kk2), UNCHANGED irq_off
    PROVE  WaitInv' /\ Woken(k, k', W, bs)
<1>1. k' = kk2
  BY DEF critical_exit_sched
<1>2. Woken(k, k', W, bs) /\ WaitOK(k') /\ ReadyOK(k') /\ SameCore(k, k')
  BY <1>1 DEF Woken
<1>3. /\ k.active \in Task /\ k.nested \in Nat
      /\ pc \in [Task -> {"run", "sched", "block", "end"}]
  BY InvFacts DEF WaitInv
<1>4. /\ pc' \in [Task -> {"run", "sched", "block", "end"}]
      /\ k.nested > 0 \/ pc'[k.active] \notin {"run", "end"}
  BY <1>3 DEF critical_exit_sched
<1>5. ASSUME k.sched_lock > 0 PROVE k'.task_state[k.active] = "K_RDY"
  <2>1. k.task_state[k.active] = "K_RDY"
    BY <1>5 DEF WaitInv, SchedInv
  <2>2. k.active \notin W
    BY <1>3, <2>1 DEF WaitInv, WaitOK, Linked, Pending
  <2> QED
    BY <1>2, <1>3, <2>1, <2>2 DEF Woken
<1>6. SchedInv'
  BY <1>2, <1>4, <1>5, CallEnds DEF WaitInv
<1> QED
  BY <1>2, <1>6 DEF WaitInv

\* The loop over the waiters of s, in one step.
LEMMA WakeEachStep ==
    ASSUME WaitInv, NEW s \in Seq(Task), IsInjective(s),
           \A t \in ToSet(s) : k.blk_obj[t] \in Obj, NEW bs \in BlkState,
           critical_exit_sched(end_pend_each(k, s, bs)), UNCHANGED irq_off
    PROVE  WaitInv' /\ Woken(k, k', ToSet(s), bs)
<1>1. ToSet(s) \in SUBSET Task
  <2>1. ASSUME NEW u \in ToSet(s) PROVE u \in Task
    <3>1. PICK i \in DOMAIN s : s[i] = u
      BY <2>1, ToSetIndex
    <3> QED
      BY <3>1
  <2> QED
    BY <2>1
<1> DEFINE k1 == end_pend_each(k, s, bs)
<1>2. k1 = end_pend_each(k, s, bs)
  OBVIOUS
<1> HIDE DEF k1
<1>3. Woken(k, k1, ToSet(s), bs)
  BY <1>2, EachWaits, WaitInvFacts
<1>4. critical_exit_sched(k1)
  BY <1>2
<1> QED
  BY <1>1, <1>3, <1>4, WakeStep

-----------------------------------------------------------------------------
(* The theorems *)

\* The invariant holds in every reachable state, for any number of tasks, priorities
\* and objects.
THEOREM WaitInvAlways == Spec => []WaitInv
<1>1. Init => WaitInv
  BY SchedInvInit, WaitInvInit DEF WaitInv
<1> QED
  BY <1>1, WaitInvStep, PTL DEF Spec

\* What the invariant says of the lists.
LEMMA WaitFacts ==
    ASSUME WaitOK(k)
    PROVE  PendListsOK /\ PendListsSorted /\ TickListOK /\ NoFatalError
<1>1. /\ k \in Kernel /\ PendRight(k, Task) /\ TickRight(k)
      /\ \A t \in Task : Linked(k, t)
      /\ k.tick_list \in Seq(Task)
  BY KernelFields DEF WaitOK, Right
<1>2. PendListsOK
  <2>1. ASSUME NEW o \in Obj
        PROVE  {t \in Task : k.task_state[t] \in Pending /\ k.blk_obj[t] = o}
                  = {t \in Task : k.blk_obj[t] = o}
    BY <1>1 DEF Linked
  <2> QED
    BY <1>1, <2>1 DEF PendListsOK, PendRight, Linked
<1>3. PendListsSorted
  BY <1>1 DEF PendListsSorted, PendRight, Ordered
<1>4. TickListOK
  <2> DEFINE s == k.tick_list
  <2>0. s \in Seq(Task)
    BY <1>1
  <2>1. ASSUME NEW u \in ToSet(s) PROVE u \in Task
    <3>1. PICK i \in DOMAIN s : s[i] = u
      BY <2>1, ToSetIndex
    <3> QED
      BY <2>0, <3>1
  <2> QED
    BY <1>1, <2>1 DEF TickListOK, TickRight, Ordered, Linked, OnTick
<1> QED
  BY <1>2, <1>3, <1>4 DEF NoFatalError, WaitOK

\* Whatever calls, interrupts and timeouts come together, a task is on the pend list of
\* the object it waits for, once, and on no other: end_pend never unlinks a task from a
\* list it is not on, and no task that has gone is left on one.
THEOREM PendListsCorrect == Spec => []PendListsOK
<1>1. WaitInv => PendListsOK
  BY WaitFacts DEF WaitInv
<1> QED
  BY <1>1, WaitInvAlways, PTL

\* The head of a pend list is the most urgent waiter, also after the priorities of the
\* waiters have changed: pend_list_reorder is called wherever it must be.
THEOREM WaitersSorted == Spec => []PendListsSorted
<1>1. WaitInv => PendListsSorted
  BY WaitFacts DEF WaitInv
<1> QED
  BY <1>1, WaitInvAlways, PTL

\* tick_list_update may stop at the first task that is not due: every task asleep is
\* on the tick list, once, and behind no task that has longer to wait.
THEOREM TickListCorrect == Spec => []TickListOK
<1>1. WaitInv => TickListOK
  BY WaitFacts DEF WaitInv
<1> QED
  BY <1>1, WaitInvAlways, PTL

\* k_err_proc is not reached: what tick_list_update and end_pend find on a list is
\* always in a state that belongs there.
THEOREM NoFatalErrorEver == Spec => []NoFatalError
<1>1. WaitInv => NoFatalError
  BY WaitFacts DEF WaitInv
<1> QED
  BY <1>1, WaitInvAlways, PTL

=============================================================================
