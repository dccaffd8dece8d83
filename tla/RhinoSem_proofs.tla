--------------------------- MODULE RhinoSem_proofs ---------------------------
(***************************************************************************)
(* What TLAPS proves of the semaphores, for any number of semaphores,      *)
(* tasks and priorities: no task waits beside a unit, units go to the most *)
(* urgent waiter, and every semaphore implements the abstract one.         *)
(*                                                                         *)
(* A step of RhinoTask ends a wait at most, and never with a unit          *)
(* (RhinoTask_proofs); what is left are the semaphore's own calls.         *)
(***************************************************************************)
EXTENDS RhinoSem, RhinoTask_proofs

-----------------------------------------------------------------------------
(* The inductive invariant *)

\* A task waits only for a semaphore without units that exists, or whose waiters
\* the loop of krhino_sem_del is waking.
WaitsRightly(t) ==
    k.blk_obj[t] \in Obj =>
        /\ count[k.blk_obj[t]] = 0
        /\ k.blk_obj[t] \in exists \/ irq_off = Loop("sem_del", k.blk_obj[t])

SemInv ==
    /\ SchedInv
    /\ WaitOK(k)
    /\ SemTypeOK
    /\ \A t \in Task : WaitsRightly(t)

\* What a step must do: keep the invariant, hand units to the most urgent waiter,
\* and be a step of every abstract semaphore.
HandsOver ==
    \A s \in Obj : \A t \in ToSet(k.blk_list[s]) :
        (s \in exists /\ irq_off = <<>> /\ t \notin ToSet(k'.blk_list[s])
                       /\ k'.task_state[t] # "K_DELETED" /\ k'.blk_state[t] = "BLK_FINISH")
        => \A u \in ToSet(k.blk_list[s]) : k.prio[t] <= k.prio[u]

Simulates == \A s \in Obj : [Counting(s)!Next]_(Counting(s)!vars)

Correct == SemInv' /\ HandsOver /\ Simulates

\* The facts the steps start from.
LEMMA SemFacts ==
    ASSUME SemInv
    PROVE  /\ k \in Kernel /\ ReadyOK(k) /\ WaitOK(k) /\ k.active \in Task
           /\ count \in [Obj -> 0 .. SemMax] /\ SemMax \in Nat /\ exists \subseteq Obj
           /\ k.blk_obj \in [Task -> Obj \cup {NoObj}]
           /\ k.blk_state \in [Task -> BlkState]
BY InvFacts, KernelFields, SemAssumption DEF SemInv, SemTypeOK

\* A loop is not the tick's loop, and runs with interrupts off.
LEMMA LoopFacts ==
    ASSUME NEW op, NEW s
    PROVE  Loop(op, s) # <<>> /\ Loop(op, s) # <<"tick_list_update">>
<1>1. <<op, s>> # <<>>
  OBVIOUS
<1>2. <<op, s>> # <<"tick_list_update">>
  OBVIOUS
<1> QED
  BY <1>1, <1>2 DEF Loop

-----------------------------------------------------------------------------
(* Steps of the abstract semaphore *)

\* Nothing that concerns q happens.
LEMMA AbstractStutter ==
    ASSUME NEW q \in Obj, UNCHANGED k, count'[q] = count[q]
    PROVE  [Counting(q)!Next]_(Counting(q)!vars)
BY DEF Counting!vars

\* The wait of t has to do with another object.
LEMMA AbstractElsewhere ==
    ASSUME k \in Kernel, k' \in Kernel, NEW q \in Obj, NEW t \in Task, Spares(k, k', t),
           k.blk_obj[t] # q, k'.blk_obj[t] # q, count'[q] = count[q]
    PROVE  [Counting(q)!Next]_(Counting(q)!vars)
<1>1. /\ {u \in Task : k'.blk_obj[u] = q} \ {t} = {u \in Task : k.blk_obj[u] = q} \ {t}
      /\ k'.blk_state = [k.blk_state EXCEPT ![t] = k'.blk_state[t]]
      /\ k'.blk_state[t] \in BlkState
  BY OthersWait
<1>2. t \notin {u \in Task : k.blk_obj[u] = q} /\ t \notin {u \in Task : k'.blk_obj[u] = q}
  OBVIOUS
<1>3. {u \in Task : k'.blk_obj[u] = q} = {u \in Task : k.blk_obj[u] = q}
  BY <1>1, <1>2
<1>4. Counting(q)!Elsewhere(t)
  BY <1>1, <1>2, <1>3 DEF Counting!Elsewhere
<1> QED
  BY <1>4 DEF Counting!Next

\* The wait of t for q ends, with or without a unit.
LEMMA AbstractEnd ==
    ASSUME k \in Kernel, k' \in Kernel, NEW q \in Obj, NEW t \in Task, Spares(k, k', t),
           k.blk_obj[t] = q, k'.blk_obj[t] # q, count'[q] = count[q]
    PROVE  /\ k'.blk_state[t] = "BLK_FINISH" => Counting(q)!Grant(t)
           /\ k'.blk_state[t] # "BLK_FINISH" => Counting(q)!GiveUp(t)
           /\ k'.blk_state[t] = k.blk_state[t] => Counting(q)!GiveUp(t)
<1>1. /\ {u \in Task : k'.blk_obj[u] = q} \ {t} = {u \in Task : k.blk_obj[u] = q} \ {t}
      /\ k'.blk_state = [k.blk_state EXCEPT ![t] = k'.blk_state[t]]
      /\ k'.blk_state[t] \in BlkState
  BY OthersWait
<1>2. t \in {u \in Task : k.blk_obj[u] = q} /\ t \notin {u \in Task : k'.blk_obj[u] = q}
  OBVIOUS
<1>3. {u \in Task : k'.blk_obj[u] = q} = {u \in Task : k.blk_obj[u] = q} \ {t}
  BY <1>1, <1>2
<1>4. k'.blk_state[t] = "BLK_FINISH" => Counting(q)!Grant(t)
  BY <1>1, <1>2, <1>3 DEF Counting!Grant
<1>5. k'.blk_state[t] # "BLK_FINISH" => Counting(q)!GiveUp(t)
  BY <1>1, <1>2, <1>3 DEF Counting!GiveUp
<1>6. k'.blk_state[t] = k.blk_state[t] => Counting(q)!GiveUp(t)
  <2> SUFFICES ASSUME k'.blk_state[t] = k.blk_state[t] PROVE Counting(q)!GiveUp(t)
    OBVIOUS
  <2>1. k.blk_state \in [Task -> BlkState]
    BY KernelFields
  <2>2. k'.blk_state = k.blk_state
    BY <1>1, <2>1
  <2> QED
    BY <1>2, <1>3, <2>2 DEF Counting!GiveUp
<1> QED
  BY <1>4, <1>5, <1>6

\* t begins to wait for q.
LEMMA AbstractWait ==
    ASSUME k \in Kernel, k' \in Kernel, NEW q \in Obj, NEW t \in Task, Spares(k, k', t),
           k.blk_obj[t] # q, k'.blk_obj[t] = q, k'.blk_state[t] = k.blk_state[t],
           count[q] = 0, count'[q] = 0
    PROVE  [Counting(q)!Next]_(Counting(q)!vars)
<1>1. /\ {u \in Task : k'.blk_obj[u] = q} \ {t} = {u \in Task : k.blk_obj[u] = q} \ {t}
      /\ k'.blk_state = [k.blk_state EXCEPT ![t] = k'.blk_state[t]]
  BY OthersWait
<1>2. t \notin {u \in Task : k.blk_obj[u] = q} /\ t \in {u \in Task : k'.blk_obj[u] = q}
  OBVIOUS
<1>3. {u \in Task : k'.blk_obj[u] = q} = {u \in Task : k.blk_obj[u] = q} \cup {t}
  BY <1>1, <1>2
<1>4. k.blk_state \in [Task -> BlkState]
  BY KernelFields
<1>5. k'.blk_state = k.blk_state
  BY <1>1, <1>4
<1>6. Counting(q)!Wait(t)
  BY <1>2, <1>3, <1>5 DEF Counting!Wait
<1> QED
  BY <1>6 DEF Counting!Next

-----------------------------------------------------------------------------
(* Steps that do not change the kernel state *)

\* Loops over two semaphores are two loops.
LEMMA LoopOver ==
    ASSUME NEW q, NEW s, Loop("sem_del", q) \in {Loop("sem_give_all", s), Loop("sem_del", s)}
    PROVE  q = s
BY DEF Loop

\* Nobody leaves a list.
LEMMA StillCorrect ==
    ASSUME SemInv, UNCHANGED k, SchedInv', SemTypeOK', \A t \in Task : WaitsRightly(t)'
    PROVE  SemInv' /\ HandsOver
<1>1. WaitOK(k')
  BY SemFacts
<1>2. HandsOver
  BY DEF HandsOver
<1> QED
  BY <1>1, <1>2 DEF SemInv

\* The count of a semaphore nobody waits for is changed.
LEMMA CountCorrect ==
    ASSUME SemInv, UNCHANGED schedVars, NEW s \in Obj, \A t \in Task : k.blk_obj[t] # s,
           NEW n \in 0 .. SemMax, count' = [count EXCEPT ![s] = n],
           exists' \in {exists, exists \cup {s}}, Counting(s)!Next
    PROVE  Correct
<1>1. /\ count \in [Obj -> 0 .. SemMax] /\ exists \subseteq Obj
      /\ UNCHANGED <<k, irq_off>>
  BY SemFacts DEF schedVars
<1>2. SchedInv'
  BY SchedInvStep DEF SemInv
<1>3. SemTypeOK'
  BY <1>1 DEF SemTypeOK
<1>4. \A q \in Obj \ {s} : count'[q] = count[q]
  BY <1>1
<1>5. \A t \in Task : WaitsRightly(t)'
  BY <1>1, <1>4 DEF SemInv, WaitsRightly
<1>6. SemInv' /\ HandsOver
  BY <1>1, <1>2, <1>3, <1>5, StillCorrect
<1>7. Simulates
  BY <1>1, <1>4, AbstractStutter DEF Simulates
<1> QED
  BY <1>6, <1>7 DEF Correct

LEMMA CreateCorrect ==
    ASSUME SemInv, NEW s \in Obj, NEW n \in SemCounts, krhino_sem_create(s, n)
    PROVE  Correct
<1>1. /\ s \notin exists /\ irq_off = <<>> /\ UNCHANGED schedVars
      /\ count' = [count EXCEPT ![s] = n] /\ exists' = exists \cup {s}
  BY DEF krhino_sem_create, TaskCalls
<1>2. n \in 0 .. SemMax
  BY SemAssumption
<1>3. \A t \in Task : k.blk_obj[t] # s
  BY <1>1, LoopFacts DEF SemInv, WaitsRightly
<1>4. count'[s] = n /\ UNCHANGED k
  BY <1>1, SemFacts DEF schedVars
<1>5. {t \in Task : k.blk_obj[t] = s} = {}
  BY <1>3
<1>6. Counting(s)!Reset(n)
  BY <1>4, <1>5 DEF Counting!Reset
<1>7. Counting(s)!Next
  BY <1>2, <1>6 DEF Counting!Next
<1> QED
  BY <1>1, <1>2, <1>3, <1>7, CountCorrect

LEMMA TakeUnitCorrect ==
    ASSUME SemInv, NEW s \in Obj, sem_take_unit(s)
    PROVE  Correct
<1>1. /\ count[s] > 0 /\ count' = [count EXCEPT ![s] = @ - 1]
      /\ UNCHANGED schedVars /\ exists' = exists /\ UNCHANGED k
  BY DEF sem_take_unit, schedVars
<1>2. count \in [Obj -> 0 .. SemMax] /\ SemMax \in Nat
  BY SemFacts
<1>3. \A t \in Task : k.blk_obj[t] # s
  BY <1>1 DEF SemInv, WaitsRightly
<1>4. count[s] - 1 \in 0 .. SemMax /\ count'[s] = count[s] - 1
  BY <1>1, <1>2
<1>5. Counting(s)!Take
  BY <1>1, <1>4 DEF Counting!Take
<1>6. Counting(s)!Next
  BY <1>5 DEF Counting!Next
<1> QED
  BY <1>1, <1>3, <1>4, <1>6, CountCorrect

LEMMA GiveUnitCorrect ==
    ASSUME SemInv, NEW s \in Obj, sem_give_unit(s)
    PROVE  Correct
<1>1. /\ k.blk_list[s] = <<>> /\ count[s] < SemMax
      /\ count' = [count EXCEPT ![s] = @ + 1]
      /\ UNCHANGED schedVars /\ exists' = exists /\ UNCHANGED k
  BY DEF sem_give_unit, schedVars
<1>2. count \in [Obj -> 0 .. SemMax] /\ SemMax \in Nat
  BY SemFacts
<1>3. \A t \in Task : k.blk_obj[t] # s
  BY <1>1, WaitersListed, SemFacts
<1>4. count[s] + 1 \in 0 .. SemMax /\ count'[s] = count[s] + 1
  BY <1>1, <1>2
<1>5. {t \in Task : k.blk_obj[t] = s} = {}
  BY <1>3
<1>6. Counting(s)!Give
  BY <1>1, <1>4, <1>5 DEF Counting!Give
<1>7. Counting(s)!Next
  BY <1>6 DEF Counting!Next
<1> QED
  BY <1>1, <1>3, <1>4, <1>7, CountCorrect

LEMMA CountSetCorrect ==
    ASSUME SemInv, NEW s \in Obj, NEW n \in SemCounts, krhino_sem_count_set(s, n)
    PROVE  Correct
<1>1. /\ count[s] > 0 \/ k.blk_list[s] = <<>>
      /\ count' = [count EXCEPT ![s] = n]
      /\ UNCHANGED schedVars /\ exists' = exists /\ UNCHANGED k
  BY DEF krhino_sem_count_set, schedVars
<1>2. n \in 0 .. SemMax
  BY SemAssumption
<1>3. \A t \in Task : k.blk_obj[t] # s
  <2>1. CASE count[s] > 0
    BY <2>1 DEF SemInv, WaitsRightly
  <2>2. CASE k.blk_list[s] = <<>>
    BY <2>2, WaitersListed, SemFacts
  <2> QED
    BY <1>1, <2>1, <2>2
<1>4. count'[s] = n
  BY <1>1, SemFacts
<1>5. {t \in Task : k.blk_obj[t] = s} = {}
  BY <1>3
<1>6. Counting(s)!Reset(n)
  BY <1>1, <1>4, <1>5 DEF Counting!Reset
<1>7. Counting(s)!Next
  BY <1>2, <1>6 DEF Counting!Next
<1> QED
  BY <1>1, <1>2, <1>3, <1>7, CountCorrect

\* A loop begins.
LEMMA LoopBeginsCorrect ==
    ASSUME SemInv, NEW s \in Obj, sem_give_all_begin(s) \/ sem_del_begin(s)
    PROVE  Correct
<1>1. /\ irq_off = <<>> /\ UNCHANGED <<k, pc, count>>
      /\ \/ irq_off' = Loop("sem_give_all", s) /\ exists' = exists
         \/ irq_off' = Loop("sem_del", s) /\ exists' = exists \ {s}
  BY DEF sem_give_all_begin, sem_del_begin, AnyCalls, IsrCalls, TaskCalls
<1>2. irq_off' # <<>> /\ irq_off' # <<"tick_list_update">>
  BY <1>1, LoopFacts
<1>3. /\ ReadyOK(k') /\ SameCore(k, k')
      /\ pc' \in [Task -> {"run", "sched", "block", "end"}]
      /\ k.sched_lock > 0 => k'.task_state[k.active] = "K_RDY"
  BY <1>1, InvFacts DEF SemInv, SameCore
<1>4. SchedInv'
  BY <1>2, <1>3, CallEnds DEF SemInv
<1>5. SemTypeOK'
  BY <1>1, SemFacts DEF SemTypeOK
<1>6. \A t \in Task : WaitsRightly(t)'
  BY <1>1, LoopFacts DEF SemInv, WaitsRightly
<1>7. SemInv' /\ HandsOver
  BY <1>1, <1>4, <1>5, <1>6, StillCorrect
<1>8. Simulates
  BY <1>1, AbstractStutter DEF Simulates
<1> QED
  BY <1>7, <1>8 DEF Correct

\* A loop ends when nobody waits any more.
LEMMA LoopEndsCorrect ==
    ASSUME SemInv, NEW s \in Obj, sem_loop_end(s)
    PROVE  Correct
<1>1. /\ irq_off \in {Loop("sem_give_all", s), Loop("sem_del", s)}
      /\ k.blk_list[s] = <<>> /\ critical_exit_sched(k) /\ irq_off' = <<>>
      /\ UNCHANGED <<count, exists>>
  BY DEF sem_loop_end
<1>2. UNCHANGED k
  BY <1>1 DEF critical_exit_sched
<1>3. SchedInv'
  <2>1. Concerns(k, k, k.active) /\ k.active \in Task
    BY InvFacts DEF SemInv, Concerns, SameCore
  <2>2. k.sched_lock > 0 => k.task_state[k.active] = "K_RDY"
    BY DEF SemInv, SchedInv
  <2>3. irq_off' # <<"tick_list_update">>
    BY <1>1
  <2> QED
    BY <1>1, <2>1, <2>2, <2>3, ExitSched DEF SemInv
<1>4. SemTypeOK'
  BY <1>1, SemFacts DEF SemTypeOK
<1>5. \A t \in Task : k.blk_obj[t] # s
  BY <1>1, WaitersListed, SemFacts
<1>6. \A q : irq_off = Loop("sem_del", q) => q = s
  BY <1>1, LoopOver
<1>7. \A t \in Task : WaitsRightly(t)'
  BY <1>1, <1>2, <1>5, <1>6 DEF SemInv, WaitsRightly
<1>8. SemInv' /\ HandsOver
  BY <1>2, <1>3, <1>4, <1>7, StillCorrect
<1>9. Simulates
  BY <1>1, <1>2, AbstractStutter DEF Simulates
<1> QED
  BY <1>8, <1>9 DEF Correct

-----------------------------------------------------------------------------
(* Steps that begin or end a wait *)

\* Task management runs with interrupts on, or in the loop over the tick list.
LEMMA TaskNextOff ==
    ASSUME TaskNext
    PROVE  irq_off \in {<<>>, <<"tick_list_update">>}
<1>1. CASE PlainNext
  <2>1. CASE SwitchNext
    BY <2>1 DEF SwitchNext, core_sched, krhino_intrpt_enter, krhino_intrpt_exit,
                krhino_sched_disable, krhino_sched_enable, tick_intrpt, tick_end,
                TaskCalls, IsrCalls
  <2>2. CASE \E ticks \in Ticks : krhino_task_sleep(ticks)
    BY <2>2 DEF krhino_task_sleep, TaskCalls
  <2>3. CASE krhino_task_yield
    BY <2>3 DEF krhino_task_yield, AnyCalls, IsrCalls, TaskCalls
  <2>4. CASE \E t \in Suspendable : krhino_task_suspend(t) \/ krhino_task_resume(t)
    BY <2>4 DEF krhino_task_suspend, krhino_task_resume, AnyCalls, IsrCalls, TaskCalls
  <2> QED
    BY <1>1, <2>1, <2>2, <2>3, <2>4 DEF PlainNext
<1>2. CASE tick_next
  BY <1>2 DEF tick_next
<1>3. CASE \E t \in Task : pend_state_end_proc(t)
  BY <1>3 DEF pend_state_end_proc
<1>4. CASE \E t \in Task, autorun \in BOOLEAN : krhino_task_create(t, autorun)
  BY <1>4 DEF krhino_task_create, TaskCalls
<1>5. CASE \E t \in Victims : krhino_task_del(t)
  BY <1>5 DEF krhino_task_del, TaskCalls
<1>6. CASE \E t \in Movable, p \in NewPri : krhino_task_pri_change(t, p)
  BY <1>6 DEF krhino_task_pri_change, TaskCalls
<1>7. CASE \E t \in Abortable : krhino_task_wait_abort(t)
  BY <1>7 DEF krhino_task_wait_abort, TaskCalls
<1> QED
  BY <1>1, <1>2, <1>3, <1>4, <1>5, <1>6, <1>7 DEF TaskNext

\* Task management ends waits, but hands over no unit.
LEMMA TaskNextCorrect ==
    ASSUME SemInv, TaskNext, UNCHANGED <<count, exists>>
    PROVE  Correct
<1>1. SchedInv' /\ NoGrant
  <2>1. [Next]_schedVars /\ WaitInv
    BY DEF Next, SemInv, WaitInv
  <2>2. SchedInv'
    BY <2>1, SchedInvStep DEF WaitInv
  <2> QED
    BY <2>1, <2>2, WaitStep
<1>2. PICK t \in Task : Ungranted(k, k', t)
  BY <1>1 DEF NoGrant
<1>3. /\ WaitOK(k') /\ WaitOK(k) /\ Spares(k, k', t) /\ k \in Kernel /\ k' \in Kernel
  BY <1>2, SemFacts DEF Ungranted, WaitOK, Right
<1>4. irq_off \in {<<>>, <<"tick_list_update">>}
  BY TaskNextOff
<1>5. ASSUME NEW u \in Task PROVE k'.blk_obj[u] = k.blk_obj[u] \/ k'.blk_obj[u] = NoObj
  BY <1>2 DEF Ungranted, Spares
<1>6. ASSUME NEW u \in Task PROVE WaitsRightly(u)'
  <2> SUFFICES ASSUME k'.blk_obj[u] \in Obj
               PROVE  count'[k'.blk_obj[u]] = 0 /\ k'.blk_obj[u] \in exists'
    BY DEF WaitsRightly
  <2>1. k'.blk_obj[u] = k.blk_obj[u]
    BY <1>5, ObjAssumption
  <2>2. irq_off # Loop("sem_del", k.blk_obj[u])
    BY <1>4, LoopFacts
  <2>3. WaitsRightly(u)
    BY DEF SemInv
  <2> QED
    BY <2>1, <2>2, <2>3 DEF WaitsRightly
<1>7. SemInv'
  BY <1>1, <1>3, <1>6 DEF SemInv, SemTypeOK
<1>8. HandsOver
  <2> SUFFICES ASSUME NEW s \in Obj, NEW u \in ToSet(k.blk_list[s]),
                      u \notin ToSet(k'.blk_list[s])
               PROVE  k'.task_state[u] = "K_DELETED" \/ k'.blk_state[u] # "BLK_FINISH"
    BY DEF HandsOver
  <2>1. u = t /\ k.blk_obj[t] = s /\ k'.blk_obj[t] # s
    BY <1>3, OnlyLeaver
  <2> QED
    BY <1>2, <2>1 DEF Ungranted
<1>9. ASSUME NEW q \in Obj PROVE [Counting(q)!Next]_(Counting(q)!vars)
  <2>1. count'[q] = count[q]
    OBVIOUS
  <2>2. CASE k.blk_obj[t] # q
    <3>1. k'.blk_obj[t] # q
      BY <1>5, <2>2, ObjAssumption
    <3> QED
      BY <1>3, <2>1, <2>2, <3>1, AbstractElsewhere
  <2>3. CASE k.blk_obj[t] = q /\ k'.blk_obj[t] # q
    <3>1. k'.blk_state[t] # "BLK_FINISH" \/ k'.blk_state[t] = k.blk_state[t]
      BY <1>2, <2>3 DEF Ungranted
    <3>2. Counting(q)!GiveUp(t)
      BY <1>3, <2>1, <2>3, <3>1, AbstractEnd
    <3> QED
      BY <3>2 DEF Counting!Next
  <2>4. CASE k.blk_obj[t] = q /\ k'.blk_obj[t] = q
    <3>1. k'.blk_state[t] = k.blk_state[t]
      BY <1>2, <2>4, ObjAssumption DEF Ungranted
    <3>2. /\ {u \in Task : k'.blk_obj[u] = q} \ {t} = {u \in Task : k.blk_obj[u] = q} \ {t}
          /\ k'.blk_state = [k.blk_state EXCEPT ![t] = k'.blk_state[t]]
          /\ k'.blk_state[t] \in BlkState
      BY <1>3, OthersWait
    <3>3. {u \in Task : k'.blk_obj[u] = q} = {u \in Task : k.blk_obj[u] = q}
      BY <2>4, <3>2
    <3>4. k'.blk_state = k.blk_state
      BY <3>1, <3>2, SemFacts
    <3> QED
      BY <2>1, <3>3, <3>4 DEF Counting!vars
  <2> QED
    BY <2>2, <2>3, <2>4
<1> QED
  BY <1>7, <1>8, <1>9 DEF Correct, Simulates

\* The active task blocks on a semaphore without units.
LEMMA TakeWaitCorrect ==
    ASSUME SemInv, NEW s \in Obj, NEW ticks \in Ticks \cup {WaitForever},
           sem_take_wait(s, ticks)
    PROVE  Correct
<1> DEFINE t == k.active
           k1 == pend_to_blk_obj(k, s, t, ticks)
<1>1. /\ TaskCalls(k.active) /\ s \in exists /\ count[s] = 0 /\ k.sched_lock = 0
      /\ critical_exit_block(k1) /\ k' = k1 /\ UNCHANGED <<irq_off, count, exists>>
  BY DEF sem_take_wait, critical_exit_block
<1>2. t \in Task \ {Idle} /\ k.task_state[t] = "K_RDY" /\ ReadyOK(k) /\ WaitOK(k)
  BY <1>1, CallerReady, SemFacts DEF SemInv
<1>3. ticks \in Nat \cup {WaitForever}
  BY TaskCallsAssumption
<1>4. Concerns(k, k1, k.active)
  BY <1>2, <1>3, PendToBlkObj
<1>5. SchedInv'
  BY <1>1, <1>4, ExitBlock DEF SemInv
<1>6. /\ WaitOK(k') /\ Spares(k, k', t)
      /\ k.blk_obj[t] = NoObj
      /\ k'.blk_obj = [k.blk_obj EXCEPT ![t] = s]
      /\ k'.blk_obj[t] = s
      /\ k'.blk_state = k.blk_state
  <2> HIDE DEF t, k1
  <2>1. k1 = pend_to_blk_obj(k, s, t, ticks)
    BY DEF k1
  <2>2. /\ WaitOK(k1) /\ Spares(k, k1, t)
        /\ k.blk_obj[t] = NoObj
        /\ k1.blk_obj = [k.blk_obj EXCEPT ![t] = s]
        /\ k1.blk_obj[t] = s
        /\ k1.blk_state = k.blk_state
    BY <1>2, <1>3, <2>1, PendToBlkObjWaits
  <2> QED
    BY <1>1, <2>2
<1> HIDE DEF t, k1
<1>7. k \in Kernel /\ k' \in Kernel
  BY <1>6, SemFacts DEF WaitOK, Right
<1>8. ASSUME NEW u \in Task PROVE WaitsRightly(u)'
  <2>1. CASE u = t
    BY <1>1, <1>6, <2>1 DEF WaitsRightly
  <2>2. CASE u # t
    <3>1. k'.blk_obj[u] = k.blk_obj[u]
      BY <1>6, <2>2 DEF Spares
    <3> QED
      BY <1>1, <3>1 DEF SemInv, WaitsRightly
  <2> QED
    BY <2>1, <2>2
<1>9. SemInv'
  BY <1>1, <1>5, <1>6, <1>8 DEF SemInv, SemTypeOK
<1>10. HandsOver
  <2> SUFFICES ASSUME NEW q \in Obj, NEW u \in ToSet(k.blk_list[q]),
                      u \notin ToSet(k'.blk_list[q])
               PROVE  FALSE
    BY DEF HandsOver
  <2>1. u = t /\ k.blk_obj[t] = q /\ k'.blk_obj[t] # q
    BY <1>2, <1>6, OnlyLeaver
  <2> QED
    BY <1>6, <2>1, ObjAssumption
<1>11. ASSUME NEW q \in Obj PROVE [Counting(q)!Next]_(Counting(q)!vars)
  <2>1. k.blk_obj[t] # q /\ k'.blk_state[t] = k.blk_state[t]
    BY <1>6, ObjAssumption
  <2>2. CASE q = s
    BY <1>1, <1>2, <1>6, <1>7, <2>1, <2>2, AbstractWait
  <2>3. CASE q # s
    BY <1>1, <1>2, <1>6, <1>7, <2>1, <2>3, AbstractElsewhere
  <2> QED
    BY <2>2, <2>3
<1> QED
  BY <1>9, <1>10, <1>11 DEF Correct, Simulates

\* The first waiter is woken, with a unit or because the semaphore is deleted.
LEMMA WakeCorrect ==
    ASSUME SemInv, NEW s \in Obj, k.blk_list[s] # <<>>, NEW bs \in BlkState,
           k' = end_pend(k, Head(k.blk_list[s]), bs),
           SchedInv', UNCHANGED <<irq_off, count, exists>>
    PROVE  Correct
<1>1. PICK t \in Task : t = Head(k.blk_list[s])
  BY FirstWaiter, SemFacts
<1>2. /\ k.blk_obj[t] = s /\ k' = end_pend(k, t, bs)
      /\ \A u \in ToSet(k.blk_list[s]) : k.prio[t] <= k.prio[u]
  BY <1>1, FirstWaiter, SemFacts
<1>3. /\ WaitOK(k') /\ Spares(k, k', t)
      /\ k'.blk_obj = [k.blk_obj EXCEPT ![t] = NoObj]
      /\ k'.blk_obj[t] = NoObj
      /\ k'.blk_state = [k.blk_state EXCEPT ![t] = bs]
      /\ k'.blk_state[t] = bs
      /\ k'.task_state[t] # "K_DELETED"
      /\ k'.prio = k.prio
  <2>1. ReadyOK(k) /\ WaitOK(k) /\ k.blk_obj[t] \in Obj
    BY <1>2, SemFacts
  <2> QED
    BY <1>2, <2>1, EndPendWaits
<1>4. k \in Kernel /\ k' \in Kernel /\ WaitOK(k)
  BY <1>3, SemFacts DEF WaitOK, Right
<1>5. ASSUME NEW u \in Task PROVE WaitsRightly(u)'
  <2>1. CASE u = t
    BY <1>3, <2>1, ObjAssumption DEF WaitsRightly
  <2>2. CASE u # t
    <3>1. k'.blk_obj[u] = k.blk_obj[u]
      BY <1>3, <2>2 DEF Spares
    <3> QED
      BY <3>1 DEF SemInv, WaitsRightly
  <2> QED
    BY <2>1, <2>2
<1>6. SemInv'
  BY <1>3, <1>5 DEF SemInv, SemTypeOK
<1>7. HandsOver
  <2> SUFFICES ASSUME NEW q \in Obj, NEW u \in ToSet(k.blk_list[q]),
                      u \notin ToSet(k'.blk_list[q]), NEW v \in ToSet(k.blk_list[q])
               PROVE  k.prio[u] <= k.prio[v]
    BY DEF HandsOver
  <2>1. u = t /\ k.blk_obj[t] = q /\ k'.blk_obj[t] # q
    BY <1>3, <1>4, OnlyLeaver
  <2> QED
    BY <1>2, <2>1
<1>8. ASSUME NEW q \in Obj PROVE [Counting(q)!Next]_(Counting(q)!vars)
  <2>1. k'.blk_obj[t] # q
    BY <1>3, ObjAssumption
  <2>2. CASE q = s
    <3>1. k.blk_obj[t] = q /\ count'[q] = count[q]
      BY <1>2, <2>2
    <3>2. /\ k'.blk_state[t] = "BLK_FINISH" => Counting(q)!Grant(t)
          /\ k'.blk_state[t] # "BLK_FINISH" => Counting(q)!GiveUp(t)
          /\ k'.blk_state[t] = k.blk_state[t] => Counting(q)!GiveUp(t)
      BY <1>3, <1>4, <2>1, <3>1, AbstractEnd
    <3> QED
      BY <3>2 DEF Counting!Next
  <2>3. CASE q # s
    BY <1>2, <1>3, <1>4, <2>1, <2>3, AbstractElsewhere
  <2> QED
    BY <2>2, <2>3
<1> QED
  BY <1>6, <1>7, <1>8 DEF Correct, Simulates

\* A waiter is not ready, so it does not hold the scheduler locked.
LEMMA WakeConcerns ==
    ASSUME SemInv, NEW s \in Obj, k.blk_list[s] # <<>>, NEW bs \in BlkState
    PROVE  /\ Head(k.blk_list[s]) \in Task
           /\ Concerns(k, end_pend(k, Head(k.blk_list[s]), bs), Head(k.blk_list[s]))
           /\ k.sched_lock > 0 => Head(k.blk_list[s]) # k.active
<1> DEFINE t == Head(k.blk_list[s])
<1>1. t \in Task /\ k.blk_obj[t] = s
  BY FirstWaiter, SemFacts
<1> HIDE DEF t
<1>2. Concerns(k, end_pend(k, t, bs), t)
  BY <1>1, EndPend, SemFacts
<1>3. k.task_state[t] \in Pending
  BY <1>1 DEF SemInv, WaitOK, Linked
<1>4. k.sched_lock > 0 => t # k.active
  BY <1>3 DEF SemInv, SchedInv, Pending
<1> QED
  BY <1>1, <1>2, <1>4 DEF t

LEMMA GiveWakeCorrect ==
    ASSUME SemInv, NEW s \in Obj, sem_give_wake(s)
    PROVE  Correct
<1> DEFINE t == Head(k.blk_list[s])
           k1 == end_pend(k, t, "BLK_FINISH")
<1>1. /\ k.blk_list[s] # <<>> /\ critical_exit_sched(k1)
      /\ UNCHANGED <<irq_off, count, exists>>
  BY DEF sem_give_wake, pend_task_wakeup
<1>2. "BLK_FINISH" \in BlkState
  BY DEF BlkState
<1>3. /\ t \in Task /\ Concerns(k, k1, t)
      /\ k.sched_lock > 0 => t # k.active
  BY <1>1, <1>2, WakeConcerns
<1> HIDE DEF t, k1
<1>4. SchedInv'
  BY <1>1, <1>3, ExitSched DEF SemInv
<1>5. k' = end_pend(k, Head(k.blk_list[s]), "BLK_FINISH")
  BY <1>1 DEF critical_exit_sched, t, k1
<1> QED
  BY <1>1, <1>2, <1>4, <1>5, WakeCorrect

\* One iteration of a loop, with interrupts off.
LEMMA LoopNextCorrect ==
    ASSUME SemInv, NEW s \in Obj, sem_loop_next(s)
    PROVE  Correct
<1>1. PICK bs \in BlkState : k' = end_pend(k, Head(k.blk_list[s]), bs)
  <2>1. CASE irq_off = Loop("sem_del", s)
    BY <2>1 DEF sem_loop_next, pend_task_rm, BlkState
  <2>2. CASE irq_off # Loop("sem_del", s)
    BY <2>2 DEF sem_loop_next, pend_task_wakeup, BlkState
  <2> QED
    BY <2>1, <2>2
<1>2. /\ irq_off \in {Loop("sem_give_all", s), Loop("sem_del", s)}
      /\ k.blk_list[s] # <<>> /\ UNCHANGED <<pc, irq_off, count, exists>>
  BY DEF sem_loop_next
<1> DEFINE t == Head(k.blk_list[s])
<1>3. /\ t \in Task /\ Concerns(k, k', t)
      /\ k.sched_lock > 0 => t # k.active
  BY <1>1, <1>2, WakeConcerns
<1> HIDE DEF t
<1>4. irq_off' # <<>> /\ irq_off' # <<"tick_list_update">>
  BY <1>2, LoopFacts
<1>5. /\ ReadyOK(k') /\ SameCore(k, k')
      /\ pc' \in [Task -> {"run", "sched", "block", "end"}]
      /\ k.sched_lock > 0 => k'.task_state[k.active] = "K_RDY"
  BY <1>2, <1>3, InvFacts DEF SemInv, Concerns
<1>6. SchedInv'
  BY <1>4, <1>5, CallEnds DEF SemInv
<1> QED
  BY <1>1, <1>2, <1>6, WakeCorrect

-----------------------------------------------------------------------------
(* The theorems *)

\* At the start no semaphore exists and nobody waits.
LEMMA SemInitCorrect == SemInit => SemInv /\ \A s \in Obj : Counting(s)!Init
<1> SUFFICES ASSUME SemInit PROVE SemInv /\ \A s \in Obj : Counting(s)!Init
  OBVIOUS
<1>1. SchedInv /\ WaitOK(k)
  BY SchedInvInit, WaitInvInit DEF SemInit, Init
<1>2. /\ \A t \in Task : k.blk_obj[t] = NoObj
      /\ exists = {} /\ count = [s \in Obj |-> 0]
  BY DEF SemInit, SchedInit, KernelInit
<1>3. SemInv
  BY <1>1, <1>2, SemAssumption, ObjAssumption DEF SemInv, SemTypeOK, WaitsRightly
<1>4. ASSUME NEW s \in Obj PROVE Counting(s)!Init
  <2>1. {t \in Task : k.blk_obj[t] = s} = {}
    BY <1>2, ObjAssumption
  <2> QED
    BY <1>2, <1>3, <2>1, SemFacts DEF Counting!Init
<1> QED
  BY <1>3, <1>4

\* Every step keeps the invariant and is a step of every abstract semaphore.
LEMMA SemStep == SemInv /\ [SemNext]_semVars => Correct
<1> SUFFICES ASSUME SemInv, [SemNext]_semVars PROVE Correct
  OBVIOUS
<1>1. CASE UNCHANGED semVars
  <2>1. UNCHANGED <<k, irq_off, count, exists>> /\ UNCHANGED schedVars
    BY <1>1 DEF semVars, schedVars
  <2>2. SchedInv'
    BY <2>1, SchedInvStep DEF SemInv
  <2>3. SemTypeOK' /\ \A t \in Task : WaitsRightly(t)'
    BY <2>1 DEF SemInv, SemTypeOK, WaitsRightly
  <2>4. SemInv' /\ HandsOver
    BY <2>1, <2>2, <2>3, StillCorrect
  <2>5. Simulates
    BY <2>1, AbstractStutter DEF Simulates
  <2> QED
    BY <2>4, <2>5 DEF Correct
<1>2. CASE TaskNext /\ UNCHANGED <<count, exists>>
  BY <1>2, TaskNextCorrect
<1>3. ASSUME NEW s \in Obj, SemCalls(s) PROVE Correct
  <2>1. CASE krhino_sem_take(s)
    BY <2>1, TakeUnitCorrect, TakeWaitCorrect DEF krhino_sem_take
  <2>2. CASE krhino_sem_give(s)
    BY <2>2, GiveUnitCorrect, GiveWakeCorrect DEF krhino_sem_give
  <2>3. CASE krhino_sem_give_all(s)
    BY <2>3, GiveUnitCorrect, LoopBeginsCorrect DEF krhino_sem_give_all
  <2>4. CASE krhino_sem_del(s)
    BY <2>4, LoopBeginsCorrect DEF krhino_sem_del
  <2>5. CASE sem_loop_next(s)
    BY <2>5, LoopNextCorrect
  <2>6. CASE sem_loop_end(s)
    BY <2>6, LoopEndsCorrect
  <2>7. ASSUME NEW n \in SemCounts, krhino_sem_create(s, n) \/ krhino_sem_count_set(s, n)
        PROVE  Correct
    BY <2>7, CreateCorrect, CountSetCorrect
  <2> QED
    BY <1>3, <2>1, <2>2, <2>3, <2>4, <2>5, <2>6, <2>7 DEF SemCalls
<1> QED
  BY <1>1, <1>2, <1>3 DEF SemNext

\* The invariant holds in every reachable state.
THEOREM SemInvAlways == SemSpec => []SemInv
<1>1. SemInv /\ [SemNext]_semVars => SemInv'
  BY SemStep DEF Correct
<1> QED
  BY <1>1, SemInitCorrect, PTL DEF SemSpec

\* What RhinoTask_proofs says of the kernel's lists and of who
\* executes holds with semaphores too.
THEOREM KernelCorrectWithSemaphores ==
    SemSpec => [](/\ KernelTypeOK /\ ReadyListsOK /\ HighestPriOK /\ OnlyReadyExecutes
                  /\ PendListsOK /\ PendListsSorted /\ TickListOK /\ NoFatalError)
<1>1. SemInv => /\ KernelTypeOK /\ ReadyListsOK /\ HighestPriOK /\ OnlyReadyExecutes
                /\ PendListsOK /\ PendListsSorted /\ TickListOK /\ NoFatalError
  BY ReadyQueueFacts, ExecutingIsReady, WaitFacts DEF SemInv, SchedInv
<1> QED
  BY <1>1, SemInvAlways, PTL

\* No task sleeps on a semaphore that has units, whatever calls, timeouts, aborts and
\* deletions come in between.
THEOREM NobodyWaitsBesideUnits == SemSpec => []NoWaiterBesideUnit
<1>1. SemInv => NoWaiterBesideUnit
  <2> SUFFICES ASSUME SemInv, NEW s \in Obj, k.blk_list[s] # <<>> PROVE count[s] = 0
    BY DEF NoWaiterBesideUnit
  <2>1. /\ Head(k.blk_list[s]) \in Task
        /\ k.blk_obj[Head(k.blk_list[s])] = s
    BY FirstWaiter, SemFacts
  <2> QED
    BY <2>1 DEF SemInv, WaitsRightly
<1> QED
  BY <1>1, SemInvAlways, PTL

\* A unit goes to a waiter of the highest priority.
THEOREM MostUrgentGranted == SemSpec => GrantsMostUrgent
<1>1. SemInv /\ [SemNext]_semVars => HandsOver
  BY SemStep DEF Correct
<1> QED
  BY <1>1, SemInvAlways, PTL DEF SemSpec, GrantsMostUrgent, HandsOver

\* Every semaphore of the kernel is a counting semaphore: the refinement, for any
\* number of semaphores, tasks and units.
THEOREM SemaphoreImplemented == SemSpec => ImplementsSemaphore
<1>1. SemInit => \A s \in Obj : Counting(s)!Init
  BY SemInitCorrect
<1>2. SemInv /\ [SemNext]_semVars => Simulates
  BY SemStep DEF Correct
<1>3. SemSpec => [][Simulates]_semVars
  BY <1>2, SemInvAlways, PTL DEF SemSpec
<1>4. ImplementsSemaphore <=> (\A s \in Obj : Counting(s)!Init) /\ [][Simulates]_semVars
  BY DEF ImplementsSemaphore, Simulates
<1> QED
  BY <1>1, <1>3, <1>4, PTL DEF SemSpec

\* The same, in the form of the abstract specification.
THEOREM EachSemaphoreImplemented == SemSpec => \A s \in Obj : Counting(s)!Spec
<1>1. ASSUME NEW s \in Obj PROVE SemSpec => Counting(s)!Spec
  <2>1. SemInit => Counting(s)!Init
    BY SemInitCorrect
  <2>2. SemInv /\ [SemNext]_semVars => [Counting(s)!Next]_(Counting(s)!vars)
    BY SemStep DEF Correct, Simulates
  <2> QED
    BY <2>1, <2>2, SemInvAlways, PTL DEF SemSpec, Counting!Spec
<1> QED
  BY <1>1
=============================================================================
