-------------------------- MODULE RhinoQueue_proofs --------------------------
(***************************************************************************)
(* What TLAPS proves of the message queues, for any number of queues,      *)
(* tasks and priorities and any size: the count of a queue is the number   *)
(* of its messages, no task waits beside a message, and every queue        *)
(* implements the abstract one.                                            *)
(*                                                                         *)
(* The calls of RhinoTask and the loops over waiters are dealt with in     *)
(* RhinoTask_proofs; what is left is what the queue itself does.           *)
(***************************************************************************)
EXTENDS RhinoQueue, RhinoTask_proofs

-----------------------------------------------------------------------------
(* The inductive invariant *)

QueueTypeOK ==
    /\ ringbuf \in [Obj -> Seq(Msg)]
    /\ cur_num \in [Obj -> Nat]
    /\ exists \subseteq Obj
    /\ msg \in [Task -> Msg \cup {NoMsg}]
    /\ out \in Msg \cup {NoMsg}

\* The two counts of q's messages agree: cur_num, by which msg_send refuses and
\* queue_recv blocks, and the ring buffer's.
CountsAgree(q) == cur_num[q] = Len(ringbuf[q]) /\ cur_num[q] <= Size

\* A task waits only for a queue that exists and is empty.
WaitsRightly(t) ==
    k.blk_obj[t] \in Obj => k.blk_obj[t] \in exists /\ cur_num[k.blk_obj[t]] = 0

QueueInv ==
    /\ WaitInv
    /\ QueueTypeOK
    /\ \A q \in exists : CountsAgree(q)
    /\ \A t \in Task : WaitsRightly(t)

\* What a step must do: keep the invariant, and be a step of every abstract queue.
Simulates == \A q \in Obj : [Messages(q)!Next]_(Messages(q)!vars)

Correct == QueueInv' /\ Simulates

\* The facts the steps start from.
LEMMA QueueFacts ==
    ASSUME QueueInv
    PROVE  /\ k \in Kernel /\ ReadyOK(k) /\ WaitOK(k) /\ WaitInv
           /\ ringbuf \in [Obj -> Seq(Msg)]
           /\ cur_num \in [Obj -> Nat]
           /\ exists \subseteq Obj
           /\ msg \in [Task -> Msg \cup {NoMsg}]
           /\ out \in Msg \cup {NoMsg}
           /\ Size \in Nat /\ Size > 0
BY WaitInvFacts, QueueAssumption DEF QueueInv, QueueTypeOK

\* The kernel state and the waits are as before.
LEMMA KernelStays ==
    ASSUME QueueInv, UNCHANGED schedVars
    PROVE  WaitInv' /\ UNCHANGED k /\ k \in Kernel
BY WaitInvStep, QueueFacts DEF QueueInv, schedVars

-----------------------------------------------------------------------------
(* Steps of the abstract queue *)

\* Nothing happens to p, its messages or its waiters.
Untouched(p) ==
    /\ ringbuf'[p] = ringbuf[p]
    /\ \A t \in Task : /\ k'.blk_obj[t] = p <=> k.blk_obj[t] = p
                       /\ k.blk_obj[t] = p => /\ msg'[t] = msg[t]
                                              /\ k'.blk_state[t] = k.blk_state[t]

LEMMA AbstractElsewhere ==
    ASSUME QueueTypeOK', k' \in Kernel, NEW p \in Obj, Untouched(p)
    PROVE  Messages(p)!Next
<1>1. k'.blk_state \in [Task -> BlkState]
  BY KernelFields
<1>2. {t \in Task : k'.blk_obj[t] = p} = {t \in Task : k.blk_obj[t] = p}
  BY DEF Untouched
<1>3. Messages(p)!Elsewhere
  BY <1>1, <1>2 DEF Messages!Elsewhere, Untouched, QueueTypeOK
<1> QED
  BY <1>3 DEF Messages!Next

-----------------------------------------------------------------------------
(* Steps that do not change the kernel state *)

\* The content of a queue nobody waits for, or that is empty, is changed.
LEMMA ContentCorrect ==
    ASSUME QueueInv, UNCHANGED schedVars, NEW q \in Obj, QueueTypeOK', UNCHANGED msg,
           \A p \in Obj \ {q} : ringbuf'[p] = ringbuf[p] /\ cur_num'[p] = cur_num[p],
           exists' \in {exists, exists \cup {q}}, CountsAgree(q)',
           (\A t \in Task : k.blk_obj[t] # q) \/ (cur_num'[q] = 0 /\ exists' = exists),
           Messages(q)!Next
    PROVE  Correct
<1>1. WaitInv' /\ UNCHANGED k /\ k \in Kernel
  BY KernelStays
<1>2. ASSUME NEW p \in exists' PROVE CountsAgree(p)'
  <2>1. p \in Obj
    BY <1>2 DEF QueueTypeOK
  <2>2. CASE p # q
    <3>1. CountsAgree(p)
      BY <1>2, <2>2 DEF QueueInv
    <3> QED
      BY <2>1, <2>2, <3>1 DEF CountsAgree
  <2> QED
    BY <2>2
<1>3. ASSUME NEW t \in Task PROVE WaitsRightly(t)'
  <2>1. WaitsRightly(t)
    BY DEF QueueInv
  <2> QED
    BY <1>1, <2>1 DEF WaitsRightly
<1>4. QueueInv'
  BY <1>1, <1>2, <1>3 DEF QueueInv
<1>5. ASSUME NEW p \in Obj \ {q} PROVE Messages(p)!Next
  <2>1. Untouched(p)
    BY <1>1 DEF Untouched
  <2> QED
    BY <1>1, <2>1, AbstractElsewhere
<1> QED
  BY <1>4, <1>5 DEF Correct, Simulates

\* Nobody waits for a queue that has messages, has been deleted or has no waiter listed.
LEMMA NobodyWaits ==
    ASSUME QueueInv, NEW q \in Obj,
           q \notin exists \/ cur_num[q] > 0 \/ k.blk_list[q] = <<>>
    PROVE  \A t \in Task : k.blk_obj[t] # q
<1>1. CASE q \notin exists \/ cur_num[q] > 0
  BY <1>1 DEF QueueInv, WaitsRightly
<1>2. CASE k.blk_list[q] = <<>>
  BY <1>2, WaitersListed, QueueFacts
<1> QED
  BY <1>1, <1>2

LEMMA CreateCorrect ==
    ASSUME QueueInv, NEW q \in Obj, krhino_queue_create(q)
    PROVE  Correct
<1>1. /\ q \notin exists /\ UNCHANGED schedVars /\ UNCHANGED msg /\ UNCHANGED out
      /\ exists' = exists \cup {q}
      /\ ringbuf' = [ringbuf EXCEPT ![q] = <<>>] /\ cur_num' = [cur_num EXCEPT ![q] = 0]
      /\ UNCHANGED k
  BY DEF krhino_queue_create, schedVars
<1>2. \A t \in Task : k.blk_obj[t] # q
  BY <1>1, NobodyWaits
<1>3. ringbuf'[q] = <<>> /\ cur_num'[q] = 0
  BY <1>1, QueueFacts
<1>4. QueueTypeOK'
  BY <1>1, QueueFacts DEF QueueTypeOK
<1>5. CountsAgree(q)'
  BY <1>3, QueueFacts DEF CountsAgree
<1>6. \A p \in Obj \ {q} : ringbuf'[p] = ringbuf[p] /\ cur_num'[p] = cur_num[p]
  BY <1>1, QueueFacts
<1>7. Messages(q)!Flush
  BY <1>1, <1>3 DEF Messages!Flush
<1>8. Messages(q)!Next
  BY <1>7 DEF Messages!Next
<1> QED
  BY <1>1, <1>2, <1>4, <1>5, <1>6, <1>8, ContentCorrect

LEMMA FlushCorrect ==
    ASSUME QueueInv, NEW q \in Obj, krhino_queue_flush(q)
    PROVE  Correct
<1>1. /\ UNCHANGED schedVars /\ UNCHANGED msg /\ UNCHANGED out /\ exists' = exists
      /\ ringbuf' = [ringbuf EXCEPT ![q] = <<>>] /\ cur_num' = [cur_num EXCEPT ![q] = 0]
      /\ UNCHANGED k
  BY DEF krhino_queue_flush, schedVars
<1>3. ringbuf'[q] = <<>> /\ cur_num'[q] = 0
  BY <1>1, QueueFacts
<1>4. QueueTypeOK'
  BY <1>1, QueueFacts DEF QueueTypeOK
<1>5. CountsAgree(q)'
  BY <1>3, QueueFacts DEF CountsAgree
<1>6. \A p \in Obj \ {q} : ringbuf'[p] = ringbuf[p] /\ cur_num'[p] = cur_num[p]
  BY <1>1, QueueFacts
<1>7. Messages(q)!Flush
  BY <1>1, <1>3 DEF Messages!Flush
<1>8. Messages(q)!Next
  BY <1>7 DEF Messages!Next
<1> QED
  BY <1>1, <1>3, <1>4, <1>5, <1>6, <1>8, ContentCorrect

\* A message is kept, when nobody waits.
LEMMA KeepCorrect ==
    ASSUME QueueInv, NEW q \in Obj, NEW m \in Msg, msg_send_keep(q, m)
    PROVE  Correct
<1>1. /\ q \in exists /\ cur_num[q] < Size /\ k.blk_list[q] = <<>>
      /\ UNCHANGED schedVars /\ UNCHANGED msg /\ UNCHANGED out /\ exists' = exists
      /\ ringbuf' = [ringbuf EXCEPT ![q] = Append(@, m)]
      /\ cur_num' = [cur_num EXCEPT ![q] = @ + 1]
      /\ UNCHANGED k
  BY DEF msg_send_keep, msg_accepted, schedVars
<1>2. \A t \in Task : k.blk_obj[t] # q
  BY <1>1, NobodyWaits
<1>3. /\ ringbuf'[q] = Append(ringbuf[q], m) /\ cur_num'[q] = cur_num[q] + 1
      /\ ringbuf[q] \in Seq(Msg) /\ cur_num[q] \in Nat /\ Size \in Nat
  BY <1>1, QueueFacts
<1>4. QueueTypeOK'
  BY <1>1, QueueFacts DEF QueueTypeOK
<1>5. cur_num[q] = Len(ringbuf[q])
  BY <1>1 DEF QueueInv, CountsAgree
<1>6. CountsAgree(q)'
  BY <1>1, <1>3, <1>5 DEF CountsAgree
<1>7. \A p \in Obj \ {q} : ringbuf'[p] = ringbuf[p] /\ cur_num'[p] = cur_num[p]
  BY <1>1, QueueFacts
<1>8. {t \in Task : k.blk_obj[t] = q} = {}
  BY <1>2
<1>9. Messages(q)!Send(m)
  BY <1>1, <1>3, <1>5, <1>8 DEF Messages!Send
<1>10. Messages(q)!Next
  BY <1>9 DEF Messages!Next
<1> QED
  BY <1>1, <1>2, <1>4, <1>6, <1>7, <1>10, ContentCorrect

\* The oldest message is received.
LEMMA RecvNowCorrect ==
    ASSUME QueueInv, NEW q \in Obj, queue_recv_now(q)
    PROVE  Correct
<1>1. /\ q \in exists /\ cur_num[q] > 0
      /\ UNCHANGED schedVars /\ UNCHANGED msg /\ exists' = exists /\ UNCHANGED k
      /\ cur_num' = [cur_num EXCEPT ![q] = @ - 1]
  BY DEF queue_recv_now, schedVars
<1>2. \A t \in Task : k.blk_obj[t] # q
  BY <1>1, NobodyWaits
<1>3. ringbuf[q] \in Seq(Msg) /\ cur_num[q] \in Nat /\ Size \in Nat
  BY QueueFacts
<1>4. cur_num[q] = Len(ringbuf[q]) /\ cur_num[q] <= Size
  BY <1>1 DEF QueueInv, CountsAgree
<1>5. ringbuf[q] # <<>>
  BY <1>1, <1>3, <1>4
<1>6. out' = Head(ringbuf[q]) /\ ringbuf' = [ringbuf EXCEPT ![q] = Tail(@)]
  BY <1>5 DEF queue_recv_now
<1>7. ringbuf'[q] = Tail(ringbuf[q]) /\ cur_num'[q] = cur_num[q] - 1
  BY <1>1, <1>6, QueueFacts
<1>8. /\ Tail(ringbuf[q]) \in Seq(Msg) /\ Len(Tail(ringbuf[q])) = Len(ringbuf[q]) - 1
      /\ Head(ringbuf[q]) \in Msg
  BY <1>3, <1>5
<1>9. QueueTypeOK'
  BY <1>1, <1>3, <1>6, <1>8, QueueFacts DEF QueueTypeOK
<1>10. CountsAgree(q)'
  BY <1>1, <1>3, <1>4, <1>7, <1>8 DEF CountsAgree
<1>11. \A p \in Obj \ {q} : ringbuf'[p] = ringbuf[p] /\ cur_num'[p] = cur_num[p]
  BY <1>1, <1>6, QueueFacts
<1>12. Messages(q)!Receive
  BY <1>1, <1>5, <1>6, <1>7 DEF Messages!Receive
<1>13. Messages(q)!Next
  BY <1>12 DEF Messages!Next
<1> QED
  BY <1>1, <1>2, <1>9, <1>10, <1>11, <1>13, ContentCorrect

-----------------------------------------------------------------------------
(* Steps that begin or end waits *)

\* The counts are the same, and nobody begins to wait.
LEMMA FewerWait ==
    ASSUME QueueInv, WaitInv', QueueTypeOK', UNCHANGED <<ringbuf, cur_num, exists>>,
           \A t \in Task : k'.blk_obj[t] = k.blk_obj[t] \/ k'.blk_obj[t] = NoObj
    PROVE  QueueInv'
<1>1. ASSUME NEW t \in Task PROVE WaitsRightly(t)'
  BY ObjAssumption DEF QueueInv, WaitsRightly
<1>2. ASSUME NEW q \in exists' PROVE CountsAgree(q)'
  BY DEF QueueInv, CountsAgree
<1> QED
  BY <1>1, <1>2 DEF QueueInv

\* Task management ends waits, but hands over no message.
LEMMA TaskNextCorrect ==
    ASSUME QueueInv, TaskNext, UNCHANGED <<ringbuf, cur_num, exists, msg, out>>
    PROVE  Correct
<1>1. WaitInv' /\ NoGrant
  <2>1. [Next]_schedVars /\ WaitInv
    BY DEF Next, QueueInv
  <2>2. WaitInv'
    BY <2>1, WaitInvStep
  <2>3. SchedInv'
    BY <2>2 DEF WaitInv
  <2> QED
    BY <2>1, <2>2, <2>3, WaitStep
<1>2. PICK t \in Task : Ungranted(k, k', t)
  BY <1>1 DEF NoGrant
<1>3. Spares(k, k', t) /\ k \in Kernel /\ k' \in Kernel /\ QueueTypeOK'
  BY <1>2, QueueFacts DEF Ungranted, WaitOK, Right, QueueTypeOK
<1>4. QueueInv'
  <2>1. \A u \in Task : k'.blk_obj[u] = k.blk_obj[u] \/ k'.blk_obj[u] = NoObj
    BY <1>2 DEF Ungranted, Spares
  <2> QED
    BY <1>1, <1>3, <2>1, FewerWait
<1>5. ASSUME NEW q \in Obj PROVE Messages(q)!Next
  <2>1. CASE k.blk_obj[t] = q /\ k'.blk_obj[t] # q
    <3>1. /\ {u \in Task : k'.blk_obj[u] = q} \ {t} = {u \in Task : k.blk_obj[u] = q} \ {t}
          /\ k'.blk_state = [k.blk_state EXCEPT ![t] = k'.blk_state[t]]
          /\ k'.blk_state[t] \in BlkState
      BY <1>3, OthersWait
    <3>2. /\ t \in {u \in Task : k.blk_obj[u] = q}
          /\ {u \in Task : k'.blk_obj[u] = q} = {u \in Task : k.blk_obj[u] = q} \ {t}
      BY <2>1, <3>1
    <3>3. k.blk_state \in [Task -> BlkState]
      BY <1>3, KernelFields
    <3>4. k'.blk_state[t] # "BLK_FINISH" \/ k'.blk_state = k.blk_state
      BY <1>2, <2>1, <3>1, <3>3 DEF Ungranted
    <3>5. Messages(q)!GiveUp(t)
      BY <3>1, <3>2, <3>4 DEF Messages!GiveUp
    <3> QED
      BY <3>5 DEF Messages!Next
  <2>2. CASE ~(k.blk_obj[t] = q /\ k'.blk_obj[t] # q)
    <3>1. k'.blk_obj[t] = q <=> k.blk_obj[t] = q
      BY <1>2, <2>2, ObjAssumption DEF Ungranted
    <3>2. k.blk_obj[t] = q => k'.blk_state[t] = k.blk_state[t]
      BY <1>2, <3>1, ObjAssumption DEF Ungranted
    <3>3. Untouched(q)
      BY <1>3, <3>1, <3>2 DEF Untouched, Spares
    <3> QED
      BY <1>3, <3>3, AbstractElsewhere
  <2> QED
    BY <2>1, <2>2
<1> QED
  BY <1>4, <1>5 DEF Correct, Simulates

\* The active task waits for a message.
LEMMA RecvWaitCorrect ==
    ASSUME QueueInv, NEW q \in Obj, NEW ticks \in Ticks \cup {WaitForever},
           queue_recv_wait(q, ticks)
    PROVE  Correct
<1>1. /\ TaskCalls(k.active) /\ q \in exists /\ cur_num[q] = 0 /\ k.sched_lock = 0
      /\ critical_exit_block(pend_to_blk_obj(k, q, k.active, ticks))
      /\ UNCHANGED irq_off /\ UNCHANGED <<ringbuf, cur_num, exists, msg, out>>
  BY DEF queue_recv_wait
<1>2. PICK t \in Task : /\ WaitInv'
                        /\ Spares(k, k', t)
                        /\ k.blk_obj[t] = NoObj
                        /\ k'.blk_obj = [k.blk_obj EXCEPT ![t] = q]
                        /\ k'.blk_obj[t] = q
                        /\ k'.blk_state = k.blk_state
  BY <1>1, BlockStep, QueueFacts
<1>3. k \in Kernel /\ k' \in Kernel /\ QueueTypeOK'
  BY <1>1, <1>2, QueueFacts DEF WaitInv, WaitOK, Right, QueueTypeOK
<1>4. ASSUME NEW u \in Task PROVE WaitsRightly(u)'
  <2>1. CASE u = t
    BY <1>1, <1>2, <2>1 DEF WaitsRightly
  <2>2. CASE u # t
    <3>1. k'.blk_obj[u] = k.blk_obj[u]
      BY <1>2, <2>2 DEF Spares
    <3> QED
      BY <1>1, <3>1 DEF QueueInv, WaitsRightly
  <2> QED
    BY <2>1, <2>2
<1>5. \A p \in exists' : CountsAgree(p)'
  BY <1>1 DEF QueueInv, CountsAgree
<1>6. QueueInv'
  BY <1>2, <1>3, <1>4, <1>5 DEF QueueInv
<1>7. Messages(q)!Next
  <2>1. {u \in Task : k'.blk_obj[u] = q} \ {t} = {u \in Task : k.blk_obj[u] = q} \ {t}
    BY <1>2, <1>3, OthersWait
  <2>2. /\ t \notin {u \in Task : k.blk_obj[u] = q}
        /\ {u \in Task : k'.blk_obj[u] = q} = {u \in Task : k.blk_obj[u] = q} \cup {t}
    BY <1>2, <2>1, ObjAssumption
  <2>3. ringbuf[q] = <<>>
    <3>1. ringbuf[q] \in Seq(Msg) /\ Len(ringbuf[q]) = 0
      BY <1>1, QueueFacts DEF QueueInv, CountsAgree
    <3> QED
      BY <3>1
  <2>4. Messages(q)!Wait(t)
    BY <1>1, <1>2, <2>2, <2>3 DEF Messages!Wait
  <2> QED
    BY <2>4 DEF Messages!Next
<1>8. ASSUME NEW p \in Obj \ {q} PROVE Messages(p)!Next
  <2>1. \A u \in Task : k'.blk_obj[u] = p <=> k.blk_obj[u] = p
    BY <1>2, ObjAssumption DEF Spares
  <2>2. Untouched(p)
    BY <1>1, <1>2, <2>1 DEF Untouched
  <2> QED
    BY <1>3, <2>2, AbstractElsewhere
<1> QED
  BY <1>6, <1>7, <1>8 DEF Correct, Simulates

\* A message is handed to the tasks of a list of waiters.
LEMMA WakeCorrect ==
    ASSUME QueueInv, NEW q \in Obj, NEW m \in Msg, NEW s \in Seq(Task), IsInjective(s),
           ToSet(s) \subseteq {t \in Task : k.blk_obj[t] = q},
           msg_send_wake(q, m, s)
    PROVE  /\ QueueInv' /\ Messages(q)!Hand(ToSet(s), m)
           /\ \A p \in Obj \ {q} : Messages(p)!Next
<1>1. /\ critical_exit_sched(end_pend_each(k, s, "BLK_FINISH")) /\ UNCHANGED irq_off
      /\ msg' = [t \in Task |-> IF t \in ToSet(s) THEN m ELSE msg[t]]
      /\ UNCHANGED <<ringbuf, cur_num, exists, out>>
  BY DEF msg_send_wake
<1>2. "BLK_FINISH" \in BlkState
  BY DEF BlkState
<1>3. WaitInv' /\ Woken(k, k', ToSet(s), "BLK_FINISH")
  <2>1. \A t \in ToSet(s) : k.blk_obj[t] \in Obj
    OBVIOUS
  <2> QED
    BY <1>1, <1>2, <2>1, WakeEachStep, QueueFacts
<1>4. k \in Kernel /\ k' \in Kernel /\ QueueTypeOK'
  BY <1>1, <1>3, QueueFacts DEF WaitInv, WaitOK, Right, QueueTypeOK
<1>5. QueueInv'
  <2>1. \A t \in Task : k'.blk_obj[t] = k.blk_obj[t] \/ k'.blk_obj[t] = NoObj
    BY <1>3 DEF Woken
  <2> QED
    BY <1>1, <1>3, <1>4, <2>1, FewerWait
<1> DEFINE W == ToSet(s)
<1> HIDE DEF W
<1>6. /\ {t \in Task : k'.blk_obj[t] = q} = {t \in Task : k.blk_obj[t] = q} \ W
      /\ k'.blk_state = [t \in Task |-> IF t \in W THEN "BLK_FINISH" ELSE k.blk_state[t]]
      /\ \A p \in Obj \ {q} : \A t \in Task :
            /\ k'.blk_obj[t] = p <=> k.blk_obj[t] = p
            /\ k.blk_obj[t] = p => t \notin W /\ k'.blk_state[t] = k.blk_state[t]
  <2>1. W \subseteq {t \in Task : k.blk_obj[t] = q} /\ Woken(k, k', W, "BLK_FINISH")
    BY <1>3 DEF W
  <2> QED
    BY <1>2, <1>4, <2>1, WaitersWoken
<1>7. Messages(q)!Hand(W, m)
  BY <1>1, <1>6 DEF Messages!Hand, W
<1>8. ASSUME NEW p \in Obj \ {q} PROVE Messages(p)!Next
  <2>1. Untouched(p)
    BY <1>1, <1>6 DEF Untouched, W
  <2> QED
    BY <1>4, <2>1, AbstractElsewhere
<1> QED
  BY <1>5, <1>7, <1>8 DEF W

\* krhino_queue_back_send to a queue with waiters.
LEMMA BackSendCorrect ==
    ASSUME QueueInv, NEW q \in Obj, NEW m \in Msg, k.blk_list[q] # <<>>,
           msg_send_wake(q, m, <<Head(k.blk_list[q])>>)
    PROVE  Correct
<1>1. PICK t \in Task : t = Head(k.blk_list[q]) /\ k.blk_obj[t] = q
  BY FirstWaiter, QueueFacts
<1>2. /\ <<t>> \in Seq(Task) /\ IsInjective(<<t>>) /\ ToSet(<<t>>) = {t}
      /\ msg_send_wake(q, m, <<t>>)
  BY <1>1 DEF IsInjective, ToSet
<1>3. ToSet(<<t>>) \subseteq {u \in Task : k.blk_obj[u] = q}
  BY <1>1, <1>2
<1>4. /\ QueueInv' /\ Messages(q)!Hand(ToSet(<<t>>), m)
      /\ \A p \in Obj \ {q} : Messages(p)!Next
  BY <1>2, <1>3, WakeCorrect
<1>5. Messages(q)!Hand({t}, m) /\ t \in {u \in Task : k.blk_obj[u] = q}
  BY <1>1, <1>2, <1>4
<1>6. Messages(q)!SendOne(m)
  BY <1>5 DEF Messages!SendOne
<1>7. Messages(q)!Next
  BY <1>6 DEF Messages!Next
<1> QED
  BY <1>4, <1>7 DEF Correct, Simulates

\* krhino_queue_all_send to a queue with waiters.
LEMMA AllSendCorrect ==
    ASSUME QueueInv, NEW q \in Obj, NEW m \in Msg, msg_send_wake(q, m, k.blk_list[q])
    PROVE  Correct
<1>1. PICK s \in Seq(Task) : s = k.blk_list[q]
  BY WaitersListed, QueueFacts
<1>2. ToSet(s) = {t \in Task : k.blk_obj[t] = q} /\ msg_send_wake(q, m, s)
  BY <1>1, WaitersListed, QueueFacts
<1>3. IsInjective(s)
  BY <1>1, QueueFacts DEF WaitOK, Right, PendRight, Holds
<1>4. /\ QueueInv' /\ Messages(q)!Hand(ToSet(s), m)
      /\ \A p \in Obj \ {q} : Messages(p)!Next
  BY <1>2, <1>3, WakeCorrect
<1>5. Messages(q)!SendAll(m)
  BY <1>2, <1>4 DEF Messages!SendAll
<1>6. Messages(q)!Next
  BY <1>5 DEF Messages!Next
<1> QED
  BY <1>4, <1>6 DEF Correct, Simulates

\* krhino_queue_del wakes all waiters and drops all messages.
LEMMA DelCorrect ==
    ASSUME QueueInv, NEW q \in Obj, krhino_queue_del(q)
    PROVE  Correct
<1>1. /\ exists' = exists \ {q} /\ ringbuf' = [ringbuf EXCEPT ![q] = <<>>]
      /\ critical_exit_sched(end_pend_each(k, k.blk_list[q], "BLK_DEL"))
      /\ UNCHANGED irq_off /\ UNCHANGED <<cur_num, msg, out>>
  BY DEF krhino_queue_del
<1>2. PICK s \in Seq(Task) : s = k.blk_list[q]
  BY WaitersListed, QueueFacts
<1>3. ToSet(s) = {t \in Task : k.blk_obj[t] = q}
  BY <1>2, WaitersListed, QueueFacts
<1>4. IsInjective(s)
  BY <1>2, QueueFacts DEF WaitOK, Right, PendRight, Holds
<1>5. "BLK_DEL" \in BlkState
  BY DEF BlkState
<1>6. WaitInv' /\ Woken(k, k', ToSet(s), "BLK_DEL")
  <2>1. \A t \in ToSet(s) : k.blk_obj[t] \in Obj
    BY <1>3
  <2>2. critical_exit_sched(end_pend_each(k, s, "BLK_DEL"))
    BY <1>1, <1>2
  <2> QED
    BY <1>1, <1>4, <1>5, <2>1, <2>2, WakeEachStep, QueueFacts
<1>7. /\ k \in Kernel /\ k' \in Kernel
      /\ ringbuf'[q] = <<>> /\ \A p \in Obj \ {q} : ringbuf'[p] = ringbuf[p]
  BY <1>1, <1>6, QueueFacts DEF WaitInv, WaitOK, Right
<1>8. QueueTypeOK'
  BY <1>1, QueueFacts DEF QueueTypeOK
<1> DEFINE W == {t \in Task : k.blk_obj[t] = q}
<1>9. /\ {t \in Task : k'.blk_obj[t] = q} = {t \in Task : k.blk_obj[t] = q} \ W
      /\ k'.blk_state = [t \in Task |-> IF t \in W THEN "BLK_DEL" ELSE k.blk_state[t]]
      /\ \A p \in Obj \ {q} : \A t \in Task :
            /\ k'.blk_obj[t] = p <=> k.blk_obj[t] = p
            /\ k.blk_obj[t] = p => t \notin W /\ k'.blk_state[t] = k.blk_state[t]
  <2>1. Woken(k, k', W, "BLK_DEL")
    BY <1>3, <1>6
  <2> HIDE DEF W
  <2>2. W \subseteq {t \in Task : k.blk_obj[t] = q}
    BY DEF W
  <2> QED
    BY <1>5, <1>7, <2>1, <2>2, WaitersWoken
<1>10. \A t \in Task : WaitsRightly(t)'
  <2> SUFFICES ASSUME NEW t \in Task, k'.blk_obj[t] \in Obj
               PROVE  k'.blk_obj[t] \in exists' /\ cur_num'[k'.blk_obj[t]] = 0
    BY DEF WaitsRightly
  <2>1. k'.blk_obj[t] # q
    BY <1>9
  <2>2. k.blk_obj[t] = k'.blk_obj[t]
    BY <1>9, <2>1
  <2> QED
    BY <1>1, <2>1, <2>2 DEF QueueInv, WaitsRightly
<1>11. \A p \in exists' : CountsAgree(p)'
  BY <1>1, <1>7, QueueFacts DEF QueueInv, CountsAgree
<1>12. QueueInv'
  BY <1>6, <1>8, <1>10, <1>11 DEF QueueInv
<1>13. Messages(q)!Delete
  <2>1. {t \in Task : k'.blk_obj[t] = q} = {}
    BY <1>9
  <2>2. "BLK_DEL" \in BlkState \ {"BLK_FINISH"}
    BY <1>5
  <2> QED
    BY <1>1, <1>7, <1>9, <2>1, <2>2 DEF Messages!Delete
<1>14. Messages(q)!Next
  BY <1>13 DEF Messages!Next
<1>15. ASSUME NEW p \in Obj \ {q} PROVE Messages(p)!Next
  <2>1. Untouched(p)
    BY <1>1, <1>7, <1>9 DEF Untouched
  <2> QED
    BY <1>7, <1>8, <2>1, AbstractElsewhere
<1> QED
  BY <1>12, <1>14, <1>15 DEF Correct, Simulates

-----------------------------------------------------------------------------
(* The theorems *)

\* At the start no queue exists and nobody waits.
LEMMA QueueInitCorrect == QueueInit => QueueInv /\ \A q \in Obj : Messages(q)!Init
<1> SUFFICES ASSUME QueueInit PROVE QueueInv /\ \A q \in Obj : Messages(q)!Init
  OBVIOUS
<1>1. WaitInv
  BY SchedInvInit, WaitInvInit DEF QueueInit, Init, WaitInv
<1>2. /\ \A t \in Task : k.blk_obj[t] = NoObj
      /\ exists = {} /\ ringbuf = [q \in Obj |-> <<>>] /\ cur_num = [q \in Obj |-> 0]
      /\ msg = [t \in Task |-> NoMsg] /\ out = NoMsg
  BY DEF QueueInit, SchedInit, KernelInit
<1>3. QueueTypeOK
  BY <1>2 DEF QueueTypeOK
<1>4. QueueInv
  BY <1>1, <1>2, <1>3, ObjAssumption DEF QueueInv, WaitsRightly
<1>5. ASSUME NEW q \in Obj PROVE Messages(q)!Init
  <2>1. {t \in Task : k.blk_obj[t] = q} = {}
    BY <1>2, ObjAssumption
  <2>2. k.blk_state \in [Task -> BlkState]
    BY <1>4, QueueFacts, KernelFields
  <2> QED
    BY <1>2, <2>1, <2>2 DEF Messages!Init
<1> QED
  BY <1>4, <1>5

\* Every step keeps the invariant and is a step of every abstract queue.
LEMMA QueueStep == QueueInv /\ [QueueNext]_queueVars => Correct
<1> SUFFICES ASSUME QueueInv, [QueueNext]_queueVars PROVE Correct
  OBVIOUS
<1>1. CASE UNCHANGED queueVars
  <2>1. /\ UNCHANGED <<k, ringbuf, cur_num, exists, msg, out>> /\ UNCHANGED schedVars
    BY <1>1 DEF queueVars, schedVars
  <2>2. WaitInv' /\ k' \in Kernel
    BY <2>1, KernelStays
  <2>3. QueueTypeOK'
    BY <2>1 DEF QueueInv, QueueTypeOK
  <2>4. QueueInv'
    BY <2>1, <2>2, <2>3, FewerWait
  <2>5. \A q \in Obj : Untouched(q)
    BY <2>1 DEF Untouched
  <2>6. Simulates
    BY <2>2, <2>3, <2>5, AbstractElsewhere DEF Simulates
  <2> QED
    BY <2>4, <2>6 DEF Correct
<1>2. CASE TaskNext /\ UNCHANGED <<ringbuf, cur_num, exists, msg, out>>
  BY <1>2, TaskNextCorrect
<1>3. ASSUME NEW q \in Obj, QueueCalls(q) PROVE Correct
  <2>1. CASE krhino_queue_create(q)
    BY <2>1, CreateCorrect
  <2>2. CASE krhino_queue_del(q)
    BY <2>2, DelCorrect
  <2>3. CASE krhino_queue_flush(q)
    BY <2>3, FlushCorrect
  <2>4. CASE krhino_queue_recv(q)
    BY <2>4, RecvNowCorrect, RecvWaitCorrect DEF krhino_queue_recv
  <2>5. ASSUME NEW m \in Msg, krhino_queue_back_send(q, m) PROVE Correct
    BY <2>5, KeepCorrect, BackSendCorrect DEF krhino_queue_back_send
  <2>6. ASSUME NEW m \in Msg, krhino_queue_all_send(q, m) PROVE Correct
    BY <2>6, KeepCorrect, AllSendCorrect DEF krhino_queue_all_send
  <2> QED
    BY <1>3, <2>1, <2>2, <2>3, <2>4, <2>5, <2>6 DEF QueueCalls
<1> QED
  BY <1>1, <1>2, <1>3 DEF QueueNext

\* The invariant holds in every reachable state.
THEOREM QueueInvAlways == QueueSpec => []QueueInv
<1>1. QueueInv /\ [QueueNext]_queueVars => QueueInv'
  BY QueueStep DEF Correct
<1> QED
  BY <1>1, QueueInitCorrect, PTL DEF QueueSpec

\* What RhinoTask_proofs says of the kernel's lists and of who
\* executes holds with message queues too.
THEOREM KernelCorrectWithQueues ==
    QueueSpec => [](/\ KernelTypeOK /\ ReadyListsOK /\ HighestPriOK /\ OnlyReadyExecutes
                    /\ PendListsOK /\ PendListsSorted /\ TickListOK /\ NoFatalError)
<1>1. QueueInv => /\ KernelTypeOK /\ ReadyListsOK /\ HighestPriOK /\ OnlyReadyExecutes
                  /\ PendListsOK /\ PendListsSorted /\ TickListOK /\ NoFatalError
  BY ReadyQueueFacts, ExecutingIsReady, WaitFacts DEF QueueInv, WaitInv, SchedInv
<1> QED
  BY <1>1, QueueInvAlways, PTL

\* No task sleeps on a queue that holds messages, by either count of them: msg_send may
\* hand a message to a waiter without looking for older ones.
THEOREM NobodyWaitsBesideMessages == QueueSpec => []NoReceiverBesideMessage
<1>1. QueueInv => NoReceiverBesideMessage
  <2> SUFFICES ASSUME QueueInv, NEW q \in exists, k.blk_list[q] # <<>>
               PROVE  cur_num[q] = 0 /\ ringbuf[q] = <<>>
    BY DEF NoReceiverBesideMessage
  <2>1. q \in Obj /\ ringbuf[q] \in Seq(Msg)
    BY QueueFacts
  <2>2. /\ Head(k.blk_list[q]) \in Task
        /\ k.blk_obj[Head(k.blk_list[q])] = q
    BY <2>1, FirstWaiter, QueueFacts
  <2>3. cur_num[q] = 0 /\ cur_num[q] = Len(ringbuf[q])
    BY <2>1, <2>2 DEF QueueInv, WaitsRightly, CountsAgree
  <2> QED
    BY <2>1, <2>3
<1> QED
  BY <1>1, QueueInvAlways, PTL

\* Every queue of the kernel is a message queue: messages come out in the order they
\* went in, and each send is one step although it wakes waiters in a loop; for any number
\* of queues, tasks and messages, and any size.
THEOREM MessageQueueImplemented == QueueSpec => ImplementsMessageQueue
<1>1. QueueInit => \A q \in Obj : Messages(q)!Init
  BY QueueInitCorrect
<1>2. QueueInv /\ [QueueNext]_queueVars => Simulates
  BY QueueStep DEF Correct
<1>3. QueueSpec => [][Simulates]_queueVars
  BY <1>2, QueueInvAlways, PTL DEF QueueSpec
<1>4. ImplementsMessageQueue <=> (\A q \in Obj : Messages(q)!Init) /\ [][Simulates]_queueVars
  BY DEF ImplementsMessageQueue, Simulates
<1> QED
  BY <1>1, <1>3, <1>4, PTL DEF QueueSpec

\* The same, in the form of the abstract specification.
THEOREM EachQueueImplemented == QueueSpec => \A q \in Obj : Messages(q)!Spec
<1>1. ASSUME NEW q \in Obj PROVE QueueSpec => Messages(q)!Spec
  <2>1. QueueInit => Messages(q)!Init
    BY QueueInitCorrect
  <2>2. QueueInv /\ [QueueNext]_queueVars => [Messages(q)!Next]_(Messages(q)!vars)
    BY QueueStep DEF Correct, Simulates
  <2> QED
    BY <2>1, <2>2, QueueInvAlways, PTL DEF QueueSpec, Messages!Spec
<1> QED
  BY <1>1
=============================================================================
