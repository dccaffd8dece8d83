-------------------------- MODULE RhinoEvent_proofs --------------------------
(***************************************************************************)
(* What TLAPS proves of the event flags, for any number of events, flags,  *)
(* tasks and priorities: no task waits beside the flags it asked for, and  *)
(* every event implements the abstract group of flags.                     *)
(*                                                                         *)
(* The hard part is the loop of event_set: its rounds compare each waiter  *)
(* with the flags that were read before the loop, and clear flags as they  *)
(* go along.                                                               *)
(***************************************************************************)
EXTENDS RhinoEvent, RhinoTask_proofs

-----------------------------------------------------------------------------
(* The inductive invariant *)

EventTypeOK ==
    /\ flags \in [Obj -> SUBSET Flag]
    /\ exists \subseteq Obj
    /\ want \in [Task -> Request]
    /\ got \in [Task -> SUBSET Flag]

\* A task waits only for an event that exists and does not meet its request.
WaitsRightly(t) ==
    k.blk_obj[t] \in Obj => /\ k.blk_obj[t] \in exists
                            /\ ~Met(want[t], flags[k.blk_obj[t]])

EventInv ==
    /\ WaitInv
    /\ EventTypeOK
    /\ \A t \in Task : WaitsRightly(t)

\* What a step must do: keep the invariant, and be a step of every abstract group.
Simulates == \A e \in Obj : [Group(e)!Next]_(Group(e)!vars)

Correct == EventInv' /\ Simulates

\* The facts the steps start from.
LEMMA EventFacts ==
    ASSUME EventInv
    PROVE  /\ k \in Kernel /\ ReadyOK(k) /\ WaitOK(k) /\ WaitInv
           /\ flags \in [Obj -> SUBSET Flag]
           /\ exists \subseteq Obj
           /\ want \in [Task -> Request]
           /\ got \in [Task -> SUBSET Flag]
           /\ Requests \subseteq Request
           /\ FlagSets \subseteq SUBSET Flag
BY WaitInvFacts, EventAssumption DEF EventInv, EventTypeOK

\* The kernel state and the waits are as before.
LEMMA KernelStays ==
    ASSUME EventInv, UNCHANGED schedVars
    PROVE  WaitInv' /\ UNCHANGED k /\ k \in Kernel
BY WaitInvStep, EventFacts DEF EventInv, schedVars

\* Fewer flags meet fewer requests.
LEMMA MetGrows ==
    ASSUME NEW r \in Request, NEW f, NEW g, g \subseteq f, Met(r, g)
    PROVE  Met(r, f)
BY DEF Met, Request

\* The abstract group means the same by a request that is met, and by what it leaves.
LEMMA SameMet ==
    ASSUME NEW e \in Obj, NEW r \in Request, NEW f
    PROVE  /\ Group(e)!Met(r, f) <=> Met(r, f)
           /\ f \ {x \in r.flags : r.clear} = Left(r, f)
<1>1. r.all \in BOOLEAN /\ r.clear \in BOOLEAN
  BY DEF Request
<1>2. Group(e)!Met(r, f) <=> Met(r, f)
  <2>1. CASE r.all
    BY <2>1 DEF Met, Group!Met
  <2>2. CASE ~r.all
    <3>1. r.flags \cap f # {} <=> \E x \in r.flags : x \in f
      OBVIOUS
    <3> QED
      BY <2>2, <3>1 DEF Met, Group!Met
  <2> QED
    BY <2>1, <2>2
<1>3. f \ {x \in r.flags : r.clear} = Left(r, f)
  BY <1>1 DEF Left
<1> QED
  BY <1>2, <1>3

-----------------------------------------------------------------------------
(* Steps of the abstract group *)

\* Nothing happens to p or its waiters.
Untouched(p) ==
    /\ flags'[p] = flags[p]
    /\ \A t \in Task : /\ k'.blk_obj[t] = p <=> k.blk_obj[t] = p
                       /\ k.blk_obj[t] = p => /\ want'[t] = want[t]
                                              /\ got'[t] = got[t]
                                              /\ k'.blk_state[t] = k.blk_state[t]

LEMMA AbstractElsewhere ==
    ASSUME EventTypeOK', k' \in Kernel, NEW p \in Obj, Untouched(p)
    PROVE  Group(p)!Next
<1>1. k'.blk_state \in [Task -> BlkState]
  BY KernelFields
<1>2. {t \in Task : k'.blk_obj[t] = p} = {t \in Task : k.blk_obj[t] = p}
  BY DEF Untouched
<1>3. Group(p)!Elsewhere
  BY <1>1, <1>2 DEF Group!Elsewhere, Untouched, EventTypeOK, Request
<1> QED
  BY <1>3 DEF Group!Next

\* The requests are the same, no event has more flags, and nobody begins to wait.
LEMMA FewerWait ==
    ASSUME EventInv, WaitInv', EventTypeOK', UNCHANGED <<exists, want>>,
           \A p \in Obj : flags'[p] \subseteq flags[p],
           \A t \in Task : k'.blk_obj[t] = k.blk_obj[t] \/ k'.blk_obj[t] = NoObj
    PROVE  EventInv'
<1>1. ASSUME NEW t \in Task PROVE WaitsRightly(t)'
  <2> SUFFICES ASSUME k'.blk_obj[t] \in Obj
               PROVE  k'.blk_obj[t] \in exists' /\ ~Met(want'[t], flags'[k'.blk_obj[t]])
    BY DEF WaitsRightly, Met
  <2>1. k'.blk_obj[t] = k.blk_obj[t]
    BY ObjAssumption
  <2>2. k.blk_obj[t] \in exists /\ ~Met(want[t], flags[k.blk_obj[t]])
    BY <2>1 DEF EventInv, WaitsRightly
  <2>3. want[t] \in Request /\ want'[t] = want[t]
    BY EventFacts
  <2> QED
    BY <2>1, <2>2, <2>3, MetGrows
<1> QED
  BY <1>1 DEF EventInv

-----------------------------------------------------------------------------
(* Steps that do not change the kernel state *)

\* The flags of an event that exists are changed, but none is set.
LEMMA FlagsCorrect ==
    ASSUME EventInv, UNCHANGED schedVars, NEW e \in Obj, EventTypeOK',
           UNCHANGED <<exists, want>>, flags'[e] \subseteq flags[e],
           \A p \in Obj \ {e} : flags'[p] = flags[p],
           \A t \in Task : k.blk_obj[t] \in Obj => got'[t] = got[t],
           Group(e)!Next
    PROVE  Correct
<1>1. WaitInv' /\ UNCHANGED k /\ k \in Kernel
  BY KernelStays
<1>2. EventInv'
  <2>1. \A p \in Obj : flags'[p] \subseteq flags[p]
    OBVIOUS
  <2>2. \A t \in Task : k'.blk_obj[t] = k.blk_obj[t] \/ k'.blk_obj[t] = NoObj
    BY <1>1
  <2> QED
    BY <1>1, <2>1, <2>2, FewerWait
<1>3. ASSUME NEW p \in Obj \ {e} PROVE Group(p)!Next
  <2>1. Untouched(p)
    BY <1>1 DEF Untouched
  <2> QED
    BY <1>1, <2>1, AbstractElsewhere
<1> QED
  BY <1>2, <1>3 DEF Correct, Simulates

LEMMA CreateCorrect ==
    ASSUME EventInv, NEW e \in Obj, NEW f \in FlagSets, krhino_event_create(e, f)
    PROVE  Correct
<1>1. /\ e \notin exists /\ UNCHANGED schedVars /\ UNCHANGED <<want, got>>
      /\ exists' = exists \cup {e} /\ flags' = [flags EXCEPT ![e] = f]
  BY DEF krhino_event_create, schedVars
<1>2. f \in SUBSET Flag
  BY EventFacts
<1>3. WaitInv' /\ UNCHANGED k /\ k \in Kernel
  BY <1>1, KernelStays
<1>4. \A t \in Task : k.blk_obj[t] # e
  BY <1>1 DEF EventInv, WaitsRightly
<1>5. EventTypeOK'
  BY <1>1, <1>2, EventFacts DEF EventTypeOK
<1>6. flags'[e] = f /\ \A p \in Obj \ {e} : flags'[p] = flags[p]
  BY <1>1, EventFacts
<1>7. ASSUME NEW t \in Task PROVE WaitsRightly(t)'
  <2> SUFFICES ASSUME k'.blk_obj[t] \in Obj
               PROVE  k'.blk_obj[t] \in exists' /\ ~Met(want'[t], flags'[k'.blk_obj[t]])
    BY DEF WaitsRightly, Met
  <2>1. k.blk_obj[t] \in Obj \ {e} /\ k'.blk_obj[t] = k.blk_obj[t]
    BY <1>3, <1>4
  <2>2. k.blk_obj[t] \in exists /\ ~Met(want[t], flags[k.blk_obj[t]])
    BY <2>1 DEF EventInv, WaitsRightly
  <2> QED
    BY <1>1, <1>6, <2>1, <2>2
<1>8. EventInv'
  BY <1>3, <1>5, <1>7 DEF EventInv
<1>9. {t \in Task : k.blk_obj[t] = e} = {}
  BY <1>4
<1>10. Group(e)!Create(f)
  BY <1>1, <1>3, <1>6, <1>9 DEF Group!Create
<1>11. Group(e)!Next
  BY <1>2, <1>10 DEF Group!Next
<1>12. ASSUME NEW p \in Obj \ {e} PROVE Group(p)!Next
  <2>1. Untouched(p)
    BY <1>1, <1>3, <1>6 DEF Untouched
  <2> QED
    BY <1>3, <1>5, <2>1, AbstractElsewhere
<1> QED
  BY <1>8, <1>11, <1>12 DEF Correct, Simulates

LEMMA MaskCorrect ==
    ASSUME EventInv, NEW e \in Obj, NEW f \in FlagSets, event_mask(e, f)
    PROVE  Correct
<1>1. /\ UNCHANGED schedVars /\ UNCHANGED <<exists, want, got>> /\ UNCHANGED k
      /\ flags' = [flags EXCEPT ![e] = @ \cap f]
  BY DEF event_mask, schedVars
<1>2. f \in SUBSET Flag
  BY EventFacts
<1>3. flags'[e] = flags[e] \cap f /\ \A p \in Obj \ {e} : flags'[p] = flags[p]
  BY <1>1, EventFacts
<1>4. EventTypeOK'
  BY <1>1, EventFacts DEF EventTypeOK
<1>5. Group(e)!Mask(f)
  BY <1>1, <1>3 DEF Group!Mask
<1>6. Group(e)!Next
  BY <1>2, <1>5 DEF Group!Next
<1>7. flags'[e] \subseteq flags[e] /\ \A t \in Task : k.blk_obj[t] \in Obj => got'[t] = got[t]
  BY <1>1, <1>3
<1> QED
  BY <1>1, <1>3, <1>4, <1>6, <1>7, FlagsCorrect

\* A request is met at once; whoever makes it waits for nothing.
LEMMA GetNowCorrect ==
    ASSUME EventInv, NEW e \in Obj, NEW r \in Requests, event_get_now(e, r)
    PROVE  Correct
<1>1. /\ TaskCalls(k.active) /\ Met(r, flags[e])
      /\ got' = [got EXCEPT ![k.active] = flags[e]]
      /\ flags' = [flags EXCEPT ![e] = Left(r, @)]
      /\ UNCHANGED schedVars /\ UNCHANGED <<exists, want>> /\ UNCHANGED k
  BY DEF event_get_now, schedVars
<1>2. PICK t \in Task : t = k.active
  BY WaitInvFacts, EventFacts
<1>3. k.blk_obj[t] \notin Obj
  <2>1. k.task_state[t] = "K_RDY" /\ Linked(k, t)
    BY <1>1, <1>2, CallerReady, EventFacts DEF WaitInv, WaitOK
  <2> QED
    BY <2>1 DEF Linked, Pending
<1>4. r \in Request /\ flags[e] \in SUBSET Flag
  BY EventFacts
<1>5. /\ flags'[e] = Left(r, flags[e]) /\ \A p \in Obj \ {e} : flags'[p] = flags[p]
      /\ Left(r, flags[e]) \subseteq flags[e]
      /\ got' = [got EXCEPT ![t] = flags[e]]
  BY <1>1, <1>2, EventFacts DEF Left
<1>6. EventTypeOK'
  BY <1>1, <1>4, <1>5, EventFacts DEF EventTypeOK
<1>7. /\ Group(e)!Met(r, flags[e])
      /\ flags[e] \ {x \in r.flags : r.clear} = Left(r, flags[e])
  BY <1>1, <1>4, SameMet
<1>8. Group(e)!Get(t, r)
  BY <1>1, <1>3, <1>5, <1>7 DEF Group!Get
<1>9. Group(e)!Next
  BY <1>8 DEF Group!Next
<1>10. flags'[e] \subseteq flags[e] /\ \A u \in Task : k.blk_obj[u] \in Obj => got'[u] = got[u]
  BY <1>3, <1>5, EventFacts
<1> QED
  BY <1>1, <1>5, <1>6, <1>9, <1>10, FlagsCorrect

-----------------------------------------------------------------------------
(* The loop of event_set *)

\* f[n] is what the loop over list has made after n rounds.
Rounds(f, m, list, cur) ==
    f = [n \in 0 .. m |-> IF n = 0 THEN [k |-> k, flags |-> cur, got |-> got]
                                   ELSE event_wake(f[n - 1], list[n], cur)]

\* The flags the waiters in W have asked to clear.
Cleared(W) == UNION {want[t].flags : t \in {u \in W : want[u].clear}}

\* The tasks of W have been woken with the flags cur.
AfterRounds(s, W, cur) ==
    /\ Woken(k, s.k, W, "BLK_FINISH")
    /\ s.flags = cur \ Cleared(W)
    /\ s.got = [t \in Task |-> IF t \in W THEN cur ELSE got[t]]

\* The recursive function of event_loop exists ...
LEMMA RoundsExist ==
    ASSUME NEW l \in Nat, NEW list, NEW cur
    PROVE  \E f : Rounds(f, l, list, cur)
<1> DEFINE S == {m \in Nat : \E f : Rounds(f, m, list, cur)}
           start == [k |-> k, flags |-> cur, got |-> got]
<1>1. 0 \in S
  <2> DEFINE f == [n \in 0 .. 0 |-> start]
  <2>1. Rounds(f, 0, list, cur)
    BY DEF Rounds
  <2> QED
    BY <2>1
<1>2. ASSUME NEW m \in Nat, m \in S PROVE m + 1 \in S
  <2>1. PICK f : Rounds(f, m, list, cur)
    BY <1>2
  <2> DEFINE g == [n \in 0 .. m + 1 |->
                      IF n <= m THEN f[n] ELSE event_wake(f[m], list[m + 1], cur)]
  <2>2. ASSUME NEW n \in 0 .. m + 1
        PROVE  g[n] = IF n = 0 THEN start ELSE event_wake(g[n - 1], list[n], cur)
    <3>1. CASE n = 0
      BY <2>1, <3>1 DEF Rounds
    <3>2. CASE n \in 1 .. m
      <4>1. f[n] = event_wake(f[n - 1], list[n], cur)
        BY <2>1, <3>2 DEF Rounds
      <4>2. g[n] = f[n] /\ g[n - 1] = f[n - 1]
        BY <3>2
      <4> QED
        BY <3>2, <4>1, <4>2
    <3>3. CASE n = m + 1
      BY <3>3
    <3> QED
      BY <3>1, <3>2, <3>3
  <2>3. Rounds(g, m + 1, list, cur)
    BY <2>2 DEF Rounds
  <2> HIDE DEF g
  <2> QED
    BY <2>3
<1> HIDE DEF S
<1>3. l \in S
  BY <1>1, <1>2, NatInductive
<1> QED
  BY <1>3 DEF S

\* ... and its last value is what the loop leaves.
LEMMA LoopIs ==
    ASSUME NEW e \in Obj, NEW cur, Len(k.blk_list[e]) \in Nat
    PROVE  \E f : /\ Rounds(f, Len(k.blk_list[e]), k.blk_list[e], cur)
                  /\ event_loop(e, cur) = f[Len(k.blk_list[e])]
<1> DEFINE g == CHOOSE f : Rounds(f, Len(k.blk_list[e]), k.blk_list[e], cur)
<1>1. Rounds(g, Len(k.blk_list[e]), k.blk_list[e], cur)
  BY RoundsExist
<1>2. event_loop(e, cur) = g[Len(k.blk_list[e])]
  BY DEF event_loop, Rounds
<1> HIDE DEF g
<1> QED
  BY <1>1, <1>2

\* A round wakes the waiter it looks at when cur meets its request.
LEMMA RoundWakes ==
    ASSUME EventInv, NEW s, NEW W \in SUBSET Task, NEW cur, AfterRounds(s, W, cur),
           NEW t \in Task \ W, k.blk_obj[t] \in Obj
    PROVE  AfterRounds(event_wake(s, t, cur),
                       IF Met(want[t], cur) THEN W \cup {t} ELSE W, cur)
<1>1. CASE ~Met(want[t], cur)
  BY <1>1 DEF event_wake
<1>2. CASE Met(want[t], cur)
  <2> DEFINE s2 == [k     |-> pend_task_wakeup(s.k, t),
                    flags |-> Left(want[t], s.flags),
                    got   |-> [s.got EXCEPT ![t] = cur]]
  <2>1. event_wake(s, t, cur) = s2
    BY <1>2 DEF event_wake
  <2>2. Woken(k, s.k, W, "BLK_FINISH") /\ "BLK_FINISH" \in BlkState
    BY DEF AfterRounds, BlkState
  <2>3. s2.k = end_pend(s.k, t, "BLK_FINISH")
    BY DEF pend_task_wakeup
  <2>4. Woken(k, s2.k, W \cup {t}, "BLK_FINISH")
    <3> DEFINE k1 == s.k
               k3 == s2.k
    <3>1. Woken(k, k1, W, "BLK_FINISH") /\ k3 = end_pend(k1, t, "BLK_FINISH")
      BY <2>2, <2>3
    <3> HIDE DEF k1, k3
    <3>2. Woken(k, k3, W \cup {t}, "BLK_FINISH")
      BY <2>2, <3>1, WokenMore
    <3> QED
      BY <3>2 DEF k3
  <2>5. s2.flags = cur \ Cleared(W \cup {t})
    <3>1. s.flags = cur \ Cleared(W) /\ s2.flags = Left(want[t], s.flags)
      BY DEF AfterRounds
    <3>2. CASE want[t].clear
      <4>1. Cleared(W \cup {t}) = Cleared(W) \cup want[t].flags
        BY <3>2 DEF Cleared
      <4> QED
        BY <3>1, <3>2, <4>1 DEF Left
    <3>3. CASE ~want[t].clear
      <4>1. {u \in W \cup {t} : want[u].clear} = {u \in W : want[u].clear}
        BY <3>3
      <4> QED
        BY <3>1, <3>3, <4>1 DEF Left, Cleared
    <3> QED
      BY <3>2, <3>3
  <2>6. s2.got = [u \in Task |-> IF u \in W \cup {t} THEN cur ELSE got[u]]
    BY DEF AfterRounds
  <2> HIDE DEF s2
  <2>7. AfterRounds(s2, W \cup {t}, cur)
    BY <2>4, <2>5, <2>6 DEF AfterRounds
  <2> QED
    BY <1>2, <2>1, <2>7
<1> QED
  BY <1>1, <1>2

\* The loop wakes exactly the waiters whose requests cur meets, and clears what they
\* have asked to clear.
LEMMA LoopWakes ==
    ASSUME EventInv, NEW e \in Obj, NEW cur
    PROVE  AfterRounds(event_loop(e, cur),
                       {t \in Task : k.blk_obj[t] = e /\ Met(want[t], cur)}, cur)
<1>1. PICK s \in Seq(Task) : s = k.blk_list[e]
  BY WaitersListed, EventFacts
<1>2. /\ Len(s) \in Nat /\ DOMAIN s = 1 .. Len(s) /\ \A i \in 1 .. Len(s) : s[i] \in Task
      /\ ToSet(s) = {t \in Task : k.blk_obj[t] = e}
  BY <1>1, WaitersListed, EventFacts
<1>3. IsInjective(s)
  BY <1>1, EventFacts DEF WaitOK, Right, PendRight, Holds
<1>4. PICK f : Rounds(f, Len(s), s, cur) /\ event_loop(e, cur) = f[Len(s)]
  BY <1>1, <1>2, LoopIs
<1> DEFINE W(n) == {t \in {s[i] : i \in 1 .. n} : Met(want[t], cur)}
           S == {n \in Nat : n <= Len(s) => AfterRounds(f[n], W(n), cur)}
<1>5. 0 \in S
  <2>1. f[0] = [k |-> k, flags |-> cur, got |-> got]
    BY <1>2, <1>4 DEF Rounds
  <2>2. W(0) = {}
    OBVIOUS
  <2>3. Woken(k, k, {}, "BLK_FINISH")
    BY WokenNone, EventFacts
  <2>4. Cleared({}) = {} /\ got = [t \in Task |-> got[t]]
    BY EventFacts DEF Cleared
  <2>5. AfterRounds(f[0], {}, cur)
    BY <2>1, <2>3, <2>4 DEF AfterRounds
  <2> HIDE DEF W
  <2> QED
    BY <2>2, <2>5
<1>6. ASSUME NEW n \in Nat, n \in S PROVE n + 1 \in S
  <2> SUFFICES ASSUME n + 1 <= Len(s) PROVE AfterRounds(f[n + 1], W(n + 1), cur)
    OBVIOUS
  <2>1. AfterRounds(f[n], W(n), cur)
    BY <1>2, <1>6
  <2>2. PICK t : t = s[n + 1]
    OBVIOUS
  <2>3. f[n + 1] = event_wake(f[n], t, cur)
    BY <1>2, <1>4, <2>2 DEF Rounds
  <2>4. n + 1 \in DOMAIN s /\ t \in ToSet(s)
    BY <1>2, <2>2 DEF ToSet
  <2>5. ASSUME NEW i \in 1 .. n PROVE s[i] # t
    BY <1>2, <1>3, <2>2, <2>4 DEF IsInjective
  <2>6. t \in Task \ W(n) /\ k.blk_obj[t] \in Obj
    BY <1>2, <2>4, <2>5
  <2>7. {s[i] : i \in 1 .. n + 1} = {s[i] : i \in 1 .. n} \cup {t}
    <3>1. 1 .. n + 1 = (1 .. n) \cup {n + 1}
      OBVIOUS
    <3> QED
      BY <2>2, <3>1
  <2>8. W(n + 1) = IF Met(want[t], cur) THEN W(n) \cup {t} ELSE W(n)
    <3> DEFINE A == {s[i] : i \in 1 .. n}
               B == {s[i] : i \in 1 .. n + 1}
    <3>1. B = A \cup {t}
      BY <2>7
    <3> HIDE DEF A, B
    <3>2. {u \in B : Met(want[u], cur)}
             = IF Met(want[t], cur) THEN {u \in A : Met(want[u], cur)} \cup {t}
                                    ELSE {u \in A : Met(want[u], cur)}
      BY <3>1
    <3> QED
      BY <3>2 DEF A, B
  <2>9. W(n) \in SUBSET Task
    BY <1>2
  <2> HIDE DEF W, S
  <2>10. AfterRounds(event_wake(f[n], t, cur),
                     IF Met(want[t], cur) THEN W(n) \cup {t} ELSE W(n), cur)
    BY <2>1, <2>6, <2>9, RoundWakes
  <2> QED
    BY <2>3, <2>8, <2>10
<1> HIDE DEF S
<1>7. Len(s) \in S
  BY <1>2, <1>5, <1>6, NatInductive
<1>8. W(Len(s)) = {t \in Task : k.blk_obj[t] = e /\ Met(want[t], cur)}
  <2>1. ToSet(s) = {s[i] : i \in 1 .. Len(s)}
    BY <1>2 DEF ToSet
  <2> QED
    BY <1>2, <2>1
<1> DEFINE V == W(Len(s))
           l == event_loop(e, cur)
<1>9. AfterRounds(l, V, cur)
  <2> HIDE DEF W
  <2>1. AfterRounds(f[Len(s)], V, cur)
    BY <1>2, <1>7 DEF S
  <2> QED
    BY <1>4, <2>1
<1> HIDE DEF W, V, l
<1>10. V = {t \in Task : k.blk_obj[t] = e /\ Met(want[t], cur)}
  BY <1>8 DEF V
<1> QED
  BY <1>9, <1>10 DEF l

-----------------------------------------------------------------------------
(* Steps that begin or end waits *)

\* Task management ends waits, but grants no request.
LEMMA TaskNextCorrect ==
    ASSUME EventInv, TaskNext, UNCHANGED <<flags, exists, want, got>>
    PROVE  Correct
<1>1. WaitInv' /\ NoGrant
  <2>1. [Next]_schedVars /\ WaitInv
    BY DEF Next, EventInv
  <2>2. WaitInv'
    BY <2>1, WaitInvStep
  <2>3. SchedInv'
    BY <2>2 DEF WaitInv
  <2> QED
    BY <2>1, <2>2, <2>3, WaitStep
<1>2. PICK t \in Task : Ungranted(k, k', t)
  BY <1>1 DEF NoGrant
<1>3. Spares(k, k', t) /\ k \in Kernel /\ k' \in Kernel /\ EventTypeOK'
  BY <1>2, EventFacts DEF Ungranted, WaitOK, Right, EventTypeOK
<1>4. EventInv'
  <2>1. \A u \in Task : k'.blk_obj[u] = k.blk_obj[u] \/ k'.blk_obj[u] = NoObj
    BY <1>2 DEF Ungranted, Spares
  <2>2. \A p \in Obj : flags'[p] \subseteq flags[p]
    OBVIOUS
  <2> QED
    BY <1>1, <1>3, <2>1, <2>2, FewerWait
<1>5. ASSUME NEW e \in Obj PROVE Group(e)!Next
  <2>1. CASE k.blk_obj[t] = e /\ k'.blk_obj[t] # e
    <3>1. /\ {u \in Task : k'.blk_obj[u] = e} \ {t} = {u \in Task : k.blk_obj[u] = e} \ {t}
          /\ k'.blk_state = [k.blk_state EXCEPT ![t] = k'.blk_state[t]]
          /\ k'.blk_state[t] \in BlkState
      BY <1>3, OthersWait
    <3>2. /\ t \in {u \in Task : k.blk_obj[u] = e}
          /\ {u \in Task : k'.blk_obj[u] = e} = {u \in Task : k.blk_obj[u] = e} \ {t}
      BY <2>1, <3>1
    <3>3. k.blk_state \in [Task -> BlkState]
      BY <1>3, KernelFields
    <3>4. k'.blk_state[t] # "BLK_FINISH" \/ k'.blk_state = k.blk_state
      BY <1>2, <2>1, <3>1, <3>3 DEF Ungranted
    <3>5. Group(e)!GiveUp(t)
      BY <3>1, <3>2, <3>4 DEF Group!GiveUp
    <3> QED
      BY <3>5 DEF Group!Next
  <2>2. CASE ~(k.blk_obj[t] = e /\ k'.blk_obj[t] # e)
    <3>1. k'.blk_obj[t] = e <=> k.blk_obj[t] = e
      BY <1>2, <2>2, ObjAssumption DEF Ungranted
    <3>2. k.blk_obj[t] = e => k'.blk_state[t] = k.blk_state[t]
      BY <1>2, <3>1, ObjAssumption DEF Ungranted
    <3>3. Untouched(e)
      BY <1>3, <3>1, <3>2 DEF Untouched, Spares
    <3> QED
      BY <1>3, <3>3, AbstractElsewhere
  <2> QED
    BY <2>1, <2>2
<1> QED
  BY <1>4, <1>5 DEF Correct, Simulates

\* The active task waits for flags.
LEMMA GetWaitCorrect ==
    ASSUME EventInv, NEW e \in Obj, NEW r \in Requests,
           NEW ticks \in Ticks \cup {WaitForever}, event_get_wait(e, r, ticks)
    PROVE  Correct
<1>1. /\ TaskCalls(k.active) /\ e \in exists /\ ~Met(r, flags[e]) /\ k.sched_lock = 0
      /\ want' = [want EXCEPT ![k.active] = r]
      /\ critical_exit_block(pend_to_blk_obj(k, e, k.active, ticks))
      /\ UNCHANGED irq_off /\ UNCHANGED <<flags, exists, got>>
  BY DEF event_get_wait
<1>2. PICK t \in Task : /\ WaitInv'
                        /\ t = k.active
                        /\ Spares(k, k', t)
                        /\ k.blk_obj[t] = NoObj
                        /\ k'.blk_obj = [k.blk_obj EXCEPT ![t] = e]
                        /\ k'.blk_obj[t] = e
                        /\ k'.blk_state = k.blk_state
  BY <1>1, BlockStep, EventFacts
<1>3. r \in Request /\ want' = [want EXCEPT ![t] = r] /\ want'[t] = r
  BY <1>1, <1>2, EventFacts
<1>4. k \in Kernel /\ k' \in Kernel /\ EventTypeOK'
  BY <1>1, <1>2, <1>3, EventFacts DEF WaitInv, WaitOK, Right, EventTypeOK
<1>5. ASSUME NEW u \in Task PROVE WaitsRightly(u)'
  <2> SUFFICES ASSUME k'.blk_obj[u] \in Obj
               PROVE  k'.blk_obj[u] \in exists' /\ ~Met(want'[u], flags'[k'.blk_obj[u]])
    BY DEF WaitsRightly, Met
  <2>1. CASE u = t
    BY <1>1, <1>2, <1>3, <2>1
  <2>2. CASE u # t
    <3>1. k'.blk_obj[u] = k.blk_obj[u] /\ want'[u] = want[u]
      BY <1>2, <1>3, <2>2, EventFacts DEF Spares
    <3> QED
      BY <1>1, <3>1 DEF EventInv, WaitsRightly
  <2> QED
    BY <2>1, <2>2
<1>6. EventInv'
  BY <1>2, <1>4, <1>5 DEF EventInv
<1>7. Group(e)!Next
  <2>1. {u \in Task : k'.blk_obj[u] = e} \ {t} = {u \in Task : k.blk_obj[u] = e} \ {t}
    BY <1>2, <1>4, OthersWait
  <2>2. /\ t \notin {u \in Task : k.blk_obj[u] = e}
        /\ {u \in Task : k'.blk_obj[u] = e} = {u \in Task : k.blk_obj[u] = e} \cup {t}
    BY <1>2, <2>1, ObjAssumption
  <2>3. ~Group(e)!Met(r, flags[e])
    BY <1>1, <1>3, SameMet
  <2>4. Group(e)!Wait(t, r)
    BY <1>1, <1>2, <1>3, <2>2, <2>3 DEF Group!Wait
  <2> QED
    BY <2>4 DEF Group!Next
<1>8. ASSUME NEW p \in Obj \ {e} PROVE Group(p)!Next
  <2>1. \A u \in Task : k'.blk_obj[u] = p <=> k.blk_obj[u] = p
    BY <1>2, ObjAssumption DEF Spares
  <2>2. \A u \in Task : k.blk_obj[u] = p => want'[u] = want[u]
    BY <1>2, <1>3, ObjAssumption, EventFacts
  <2>3. Untouched(p)
    BY <1>1, <1>2, <2>1, <2>2 DEF Untouched
  <2> QED
    BY <1>4, <2>3, AbstractElsewhere
<1> QED
  BY <1>6, <1>7, <1>8 DEF Correct, Simulates

\* Flags are set: one step of the group, however many waiters the loop wakes.
LEMMA SetCorrect ==
    ASSUME EventInv, NEW e \in Obj, NEW f \in FlagSets, event_set(e, f)
    PROVE  Correct
<1> DEFINE now == flags[e] \cup f
           l == event_loop(e, now)
           waiting == {t \in Task : k.blk_obj[t] = e}
           W == {t \in waiting : Met(want[t], now)}
<1>1. /\ e \in exists /\ critical_exit_sched(l.k)
      /\ flags' = [flags EXCEPT ![e] = l.flags] /\ got' = l.got
      /\ UNCHANGED irq_off /\ UNCHANGED <<exists, want>>
  BY DEF event_set
<1>2. /\ f \in SUBSET Flag /\ flags[e] \in SUBSET Flag /\ now \in SUBSET Flag
      /\ W \in SUBSET Task /\ W \subseteq {t \in Task : k.blk_obj[t] = e}
      /\ \A t \in W : k.blk_obj[t] = e
      /\ \A t \in Task : k.blk_obj[t] = e /\ t \notin W => ~Met(want[t], now)
      /\ "BLK_FINISH" \in BlkState
  BY EventFacts DEF BlkState
<1>3. AfterRounds(l, W, now)
  <2> HIDE DEF l
  <2>1. W = {t \in Task : k.blk_obj[t] = e /\ Met(want[t], now)}
    OBVIOUS
  <2>2. AfterRounds(l, {t \in Task : k.blk_obj[t] = e /\ Met(want[t], now)}, now)
    BY LoopWakes DEF l
  <2> QED
    BY <2>1, <2>2
<1>4. W = {t \in waiting : Met(want[t], now)}
  OBVIOUS
<1>5. now = flags[e] \cup f
  OBVIOUS
<1> HIDE DEF l, W, now
<1>6. WaitInv' /\ Woken(k, k', W, "BLK_FINISH")
  <2>1. Woken(k, l.k, W, "BLK_FINISH") /\ \A t \in W : k.blk_obj[t] \in Obj
    BY <1>2, <1>3 DEF AfterRounds
  <2> QED
    BY <1>1, <1>2, <2>1, WakeStep, EventFacts
<1>7. /\ flags'[e] = now \ Cleared(W)
      /\ \A p \in Obj \ {e} : flags'[p] = flags[p]
      /\ got' = [t \in Task |-> IF t \in W THEN now ELSE got[t]]
  BY <1>1, <1>3, EventFacts DEF AfterRounds
<1>8. k \in Kernel /\ k' \in Kernel
  BY <1>6, EventFacts DEF WaitInv, WaitOK, Right
<1>9. EventTypeOK'
  <2>1. flags' \in [Obj -> SUBSET Flag]
    <3>1. now \ Cleared(W) \in SUBSET Flag /\ flags' = [flags EXCEPT ![e] = now \ Cleared(W)]
      BY <1>1, <1>2, <1>3 DEF AfterRounds
    <3> QED
      BY <3>1, EventFacts
  <2>2. got' \in [Task -> SUBSET Flag]
    BY <1>2, <1>7, EventFacts
  <2> QED
    BY <1>1, <2>1, <2>2, EventFacts DEF EventTypeOK
<1>10. /\ {t \in Task : k'.blk_obj[t] = e} = {t \in Task : k.blk_obj[t] = e} \ W
       /\ k'.blk_state = [t \in Task |-> IF t \in W THEN "BLK_FINISH" ELSE k.blk_state[t]]
       /\ \A p \in Obj \ {e} : \A t \in Task :
             /\ k'.blk_obj[t] = p <=> k.blk_obj[t] = p
             /\ k.blk_obj[t] = p => t \notin W /\ k'.blk_state[t] = k.blk_state[t]
  BY <1>2, <1>6, <1>8, WaitersWoken
<1>11. ASSUME NEW t \in Task PROVE WaitsRightly(t)'
  <2> SUFFICES ASSUME k'.blk_obj[t] \in Obj
               PROVE  k'.blk_obj[t] \in exists' /\ ~Met(want'[t], flags'[k'.blk_obj[t]])
    BY DEF WaitsRightly, Met
  <2>1. CASE k'.blk_obj[t] = e
    <3>1. k.blk_obj[t] = e /\ t \notin W
      BY <1>10, <2>1
    <3>2. ~Met(want[t], now) /\ want[t] \in Request /\ now \ Cleared(W) \subseteq now
      BY <1>2, <3>1, EventFacts
    <3>3. ~Met(want[t], now \ Cleared(W))
      BY <3>2, MetGrows
    <3> QED
      BY <1>1, <1>7, <2>1, <3>3
  <2>2. CASE k'.blk_obj[t] # e
    <3>1. k.blk_obj[t] = k'.blk_obj[t]
      BY <1>10, <2>2
    <3> QED
      BY <1>1, <1>7, <2>2, <3>1 DEF EventInv, WaitsRightly
  <2> QED
    BY <2>1, <2>2
<1>12. EventInv'
  BY <1>6, <1>9, <1>11 DEF EventInv
<1>13. Group(e)!Set(f)
  <2>1. W = {t \in waiting : Group(e)!Met(want[t], now)}
    <3>1. ASSUME NEW t \in waiting PROVE Group(e)!Met(want[t], now) <=> Met(want[t], now)
      <4>1. want[t] \in Request
        BY EventFacts
      <4> QED
        BY <4>1, SameMet
    <3> QED
      BY <1>4, <3>1
  <2> HIDE DEF waiting
  <2>2. /\ {t \in Task : k'.blk_obj[t] = e} = waiting \ W
        /\ waiting = {t \in Task : k.blk_obj[t] = e}
    BY <1>10 DEF waiting
  <2>3. UNCHANGED want
    BY <1>1
  <2>4. flags'[e] = now \ UNION {want[t].flags : t \in {u \in W : want[u].clear}}
    BY <1>7 DEF Cleared
  <2> QED
    BY <1>5, <1>7, <1>10, <2>1, <2>2, <2>3, <2>4 DEF Group!Set
<1>14. Group(e)!Next
  BY <1>2, <1>13 DEF Group!Next
<1>15. ASSUME NEW p \in Obj \ {e} PROVE Group(p)!Next
  <2>1. Untouched(p)
    BY <1>1, <1>7, <1>10 DEF Untouched
  <2> QED
    BY <1>8, <1>9, <2>1, AbstractElsewhere
<1> QED
  BY <1>12, <1>14, <1>15 DEF Correct, Simulates

\* krhino_event_del wakes all waiters.
LEMMA DelCorrect ==
    ASSUME EventInv, NEW e \in Obj, krhino_event_del(e)
    PROVE  Correct
<1>1. /\ exists' = exists \ {e} /\ flags' = [flags EXCEPT ![e] = {}]
      /\ critical_exit_sched(end_pend_each(k, k.blk_list[e], "BLK_DEL"))
      /\ UNCHANGED irq_off /\ UNCHANGED <<want, got>>
  BY DEF krhino_event_del
<1>2. PICK s \in Seq(Task) : s = k.blk_list[e]
  BY WaitersListed, EventFacts
<1>3. ToSet(s) = {t \in Task : k.blk_obj[t] = e}
  BY <1>2, WaitersListed, EventFacts
<1>4. IsInjective(s)
  BY <1>2, EventFacts DEF WaitOK, Right, PendRight, Holds
<1>5. "BLK_DEL" \in BlkState
  BY DEF BlkState
<1>6. WaitInv' /\ Woken(k, k', ToSet(s), "BLK_DEL")
  <2>1. \A t \in ToSet(s) : k.blk_obj[t] \in Obj
    BY <1>3
  <2>2. critical_exit_sched(end_pend_each(k, s, "BLK_DEL"))
    BY <1>1, <1>2
  <2> QED
    BY <1>1, <1>4, <1>5, <2>1, <2>2, WakeEachStep, EventFacts
<1>7. /\ k \in Kernel /\ k' \in Kernel
      /\ flags'[e] = {} /\ \A p \in Obj \ {e} : flags'[p] = flags[p]
  BY <1>1, <1>6, EventFacts DEF WaitInv, WaitOK, Right
<1>8. EventTypeOK'
  BY <1>1, EventFacts DEF EventTypeOK
<1> DEFINE W == {t \in Task : k.blk_obj[t] = e}
<1>9. /\ {t \in Task : k'.blk_obj[t] = e} = {t \in Task : k.blk_obj[t] = e} \ W
      /\ k'.blk_state = [t \in Task |-> IF t \in W THEN "BLK_DEL" ELSE k.blk_state[t]]
      /\ \A p \in Obj \ {e} : \A t \in Task :
            /\ k'.blk_obj[t] = p <=> k.blk_obj[t] = p
            /\ k.blk_obj[t] = p => t \notin W /\ k'.blk_state[t] = k.blk_state[t]
  <2>1. Woken(k, k', W, "BLK_DEL")
    BY <1>3, <1>6
  <2> HIDE DEF W
  <2>2. W \subseteq {t \in Task : k.blk_obj[t] = e}
    BY DEF W
  <2> QED
    BY <1>5, <1>7, <2>1, <2>2, WaitersWoken
<1>10. ASSUME NEW t \in Task PROVE WaitsRightly(t)'
  <2> SUFFICES ASSUME k'.blk_obj[t] \in Obj
               PROVE  k'.blk_obj[t] \in exists' /\ ~Met(want'[t], flags'[k'.blk_obj[t]])
    BY DEF WaitsRightly, Met
  <2>1. k'.blk_obj[t] # e
    BY <1>9
  <2>2. k.blk_obj[t] = k'.blk_obj[t]
    BY <1>9, <2>1
  <2> QED
    BY <1>1, <1>7, <2>1, <2>2 DEF EventInv, WaitsRightly
<1>11. EventInv'
  BY <1>6, <1>8, <1>10 DEF EventInv
<1>12. Group(e)!Delete
  <2>1. {t \in Task : k'.blk_obj[t] = e} = {}
    BY <1>9
  <2>2. "BLK_DEL" \in BlkState \ {"BLK_FINISH"}
    BY <1>5
  <2> QED
    BY <1>1, <1>7, <1>9, <2>1, <2>2 DEF Group!Delete
<1>13. Group(e)!Next
  BY <1>12 DEF Group!Next
<1>14. ASSUME NEW p \in Obj \ {e} PROVE Group(p)!Next
  <2>1. Untouched(p)
    BY <1>1, <1>7, <1>9 DEF Untouched
  <2> QED
    BY <1>7, <1>8, <2>1, AbstractElsewhere
<1> QED
  BY <1>11, <1>13, <1>14 DEF Correct, Simulates

-----------------------------------------------------------------------------
(* The theorems *)

\* At the start no event exists and nobody waits.
LEMMA EventInitCorrect == EventInit => EventInv /\ \A e \in Obj : Group(e)!Init
<1> SUFFICES ASSUME EventInit PROVE EventInv /\ \A e \in Obj : Group(e)!Init
  OBVIOUS
<1>1. WaitInv
  BY SchedInvInit, WaitInvInit DEF EventInit, Init, WaitInv
<1>2. /\ \A t \in Task : k.blk_obj[t] = NoObj
      /\ exists = {} /\ flags = [e \in Obj |-> {}]
      /\ want = [t \in Task |-> NoRequest] /\ got = [t \in Task |-> {}]
  BY DEF EventInit, SchedInit, KernelInit
<1>3. EventTypeOK
  <2>1. NoRequest \in Request
    BY DEF NoRequest, Request
  <2> QED
    BY <1>2, <2>1 DEF EventTypeOK
<1>4. EventInv
  BY <1>1, <1>2, <1>3, ObjAssumption DEF EventInv, WaitsRightly
<1>5. ASSUME NEW e \in Obj PROVE Group(e)!Init
  <2>1. {t \in Task : k.blk_obj[t] = e} = {}
    BY <1>2, ObjAssumption
  <2>2. k.blk_state \in [Task -> BlkState]
    BY <1>4, EventFacts, KernelFields
  <2> QED
    BY <1>2, <1>3, <2>1, <2>2 DEF Group!Init, EventTypeOK, Request
<1> QED
  BY <1>4, <1>5

\* Every step keeps the invariant and is a step of every abstract group.
LEMMA EventStep == EventInv /\ [EventNext]_eventVars => Correct
<1> SUFFICES ASSUME EventInv, [EventNext]_eventVars PROVE Correct
  OBVIOUS
<1>1. CASE UNCHANGED eventVars
  <2>1. /\ UNCHANGED <<k, flags, exists, want, got>> /\ UNCHANGED schedVars
    BY <1>1 DEF eventVars, schedVars
  <2>2. WaitInv' /\ k' \in Kernel
    BY <2>1, KernelStays
  <2>3. EventTypeOK'
    BY <2>1 DEF EventInv, EventTypeOK
  <2>4. EventInv'
    BY <2>1, <2>2, <2>3, FewerWait
  <2>5. \A e \in Obj : Untouched(e)
    BY <2>1 DEF Untouched
  <2>6. Simulates
    BY <2>2, <2>3, <2>5, AbstractElsewhere DEF Simulates
  <2> QED
    BY <2>4, <2>6 DEF Correct
<1>2. CASE TaskNext /\ UNCHANGED <<flags, exists, want, got>>
  BY <1>2, TaskNextCorrect
<1>3. ASSUME NEW e \in Obj, EventCalls(e) PROVE Correct
  <2>1. CASE krhino_event_del(e)
    BY <2>1, DelCorrect
  <2>2. ASSUME NEW r \in Requests, krhino_event_get(e, r) PROVE Correct
    BY <2>2, GetNowCorrect, GetWaitCorrect DEF krhino_event_get
  <2>3. ASSUME NEW f \in FlagSets, krhino_event_create(e, f) PROVE Correct
    BY <2>3, CreateCorrect
  <2>4. ASSUME NEW f \in FlagSets, krhino_event_set(e, f) PROVE Correct
    BY <2>4, MaskCorrect, SetCorrect DEF krhino_event_set
  <2> QED
    BY <1>3, <2>1, <2>2, <2>3, <2>4 DEF EventCalls
<1> QED
  BY <1>1, <1>2, <1>3 DEF EventNext

\* The invariant holds in every reachable state.
THEOREM EventInvAlways == EventSpec => []EventInv
<1>1. EventInv /\ [EventNext]_eventVars => EventInv'
  BY EventStep DEF Correct
<1> QED
  BY <1>1, EventInitCorrect, PTL DEF EventSpec

\* What RhinoTask_proofs says of the kernel's lists and of who
\* executes holds with event flags too.
THEOREM KernelCorrectWithEvents ==
    EventSpec => [](/\ KernelTypeOK /\ ReadyListsOK /\ HighestPriOK /\ OnlyReadyExecutes
                    /\ PendListsOK /\ PendListsSorted /\ TickListOK /\ NoFatalError)
<1>1. EventInv => /\ KernelTypeOK /\ ReadyListsOK /\ HighestPriOK /\ OnlyReadyExecutes
                  /\ PendListsOK /\ PendListsSorted /\ TickListOK /\ NoFatalError
  BY ReadyQueueFacts, ExecutingIsReady, WaitFacts DEF EventInv, WaitInv, SchedInv
<1> QED
  BY <1>1, EventInvAlways, PTL

\* No task sleeps beside flags that meet its request, also when one call of
\* krhino_event_set wakes several tasks and some of them clear flags.
THEOREM NobodyWaitsBesideFlags == EventSpec => []NoWaiterBesideFlags
<1>1. EventInv => NoWaiterBesideFlags
  <2> SUFFICES ASSUME EventInv, NEW e \in Obj, NEW t \in ToSet(k.blk_list[e])
               PROVE  ~Met(want[t], flags[e])
    BY DEF NoWaiterBesideFlags
  <2>1. t \in Task /\ k.blk_obj[t] = e
    BY WaitersListed, EventFacts
  <2> QED
    BY <2>1 DEF EventInv, WaitsRightly
<1> QED
  BY <1>1, EventInvAlways, PTL

\* Every event of the kernel is a group of flags: each set wakes exactly the tasks whose
\* requests are met, at once, and clears what all of them asked to clear, whatever the
\* order of the pend list; for any number of events, flags and tasks.
THEOREM EventGroupImplemented == EventSpec => ImplementsEventGroup
<1>1. EventInit => \A e \in Obj : Group(e)!Init
  BY EventInitCorrect
<1>2. EventInv /\ [EventNext]_eventVars => Simulates
  BY EventStep DEF Correct
<1>3. EventSpec => [][Simulates]_eventVars
  BY <1>2, EventInvAlways, PTL DEF EventSpec
<1>4. ImplementsEventGroup <=> (\A e \in Obj : Group(e)!Init) /\ [][Simulates]_eventVars
  BY DEF ImplementsEventGroup, Simulates
<1> QED
  BY <1>1, <1>3, <1>4, PTL DEF EventSpec

\* The same, in the form of the abstract specification.
THEOREM EachEventImplemented == EventSpec => \A e \in Obj : Group(e)!Spec
<1>1. ASSUME NEW e \in Obj PROVE EventSpec => Group(e)!Spec
  <2>1. EventInit => Group(e)!Init
    BY EventInitCorrect
  <2>2. EventInv /\ [EventNext]_eventVars => [Group(e)!Next]_(Group(e)!vars)
    BY EventStep DEF Correct, Simulates
  <2> QED
    BY <2>1, <2>2, EventInvAlways, PTL DEF EventSpec, Group!Spec
<1> QED
  BY <1>1
=============================================================================
