----------------------------- MODULE RhinoEvent ------------------------------
(***************************************************************************)
(* Event flags (k_event.c), with every call of RhinoTask going on around   *)
(* them.  The objects of the kernel state are the events; a word of flags  *)
(* is the set of its bits.                                                 *)
(*                                                                         *)
(* The loops of event_set and krhino_event_del over the waiting tasks run  *)
(* with interrupts off and are part of the action of the call.             *)
(***************************************************************************)
EXTENDS RhinoTask

CONSTANTS
    Flag,         \* the bits of a word of flags
    Requests,     \* the flags and options given to krhino_event_get
    FlagSets,     \* the flags given to krhino_event_create and krhino_event_set
    Deletable     \* the events programs delete

\* opt: RHINO_FLAGS_AND_MASK and RHINO_FLAGS_CLEAR_MASK.
Request == [flags : SUBSET Flag, all : BOOLEAN, clear : BOOLEAN]

ASSUME EventAssumption ==
    /\ Requests \subseteq Request
    /\ FlagSets \subseteq SUBSET Flag
    /\ Deletable \subseteq Obj

VARIABLES
    flags,    \* flags[e]: the flags that are set
    exists,   \* the events with obj_type = RHINO_EVENT_OBJ_TYPE
    want,     \* want[t]: pend_flags and pend_option, of the last wait of t
    got       \* got[t]: *actl_flags, of the last request of t that was met

eventVars == <<k, pc, irq_off, flags, exists, want, got>>

NoRequest == [flags |-> {}, all |-> FALSE, clear |-> FALSE]

EventInit ==
    /\ SchedInit
    /\ flags = [e \in Obj |-> {}]
    /\ exists = {}
    /\ want = [t \in Task |-> NoRequest]
    /\ got = [t \in Task |-> {}]

\* An event is created, also in the memory of one that was deleted.
krhino_event_create(e, f) ==
    /\ TaskCalls(k.active)
    /\ e \notin exists
    /\ exists' = exists \cup {e}
    /\ flags' = [flags EXCEPT ![e] = f]
    /\ UNCHANGED <<k, pc, irq_off, want, got>>

krhino_event_del(e) ==
    /\ TaskCalls(k.active)
    /\ e \in exists \cap Deletable
    /\ exists' = exists \ {e}
    /\ flags' = [flags EXCEPT ![e] = {}]
    /\ critical_exit_sched(end_pend_each(k, k.blk_list[e], "BLK_DEL"))
    /\ UNCHANGED <<irq_off, want, got>>

-----------------------------------------------------------------------------
(* Requests *)

\* The flags f meet request r: all of its flags are set, or one of them.
Met(r, f) == IF r.all THEN r.flags \subseteq f ELSE r.flags \cap f # {}

\* What a request that is met leaves of f.
Left(r, f) == IF r.clear THEN f \ r.flags ELSE f

event_get_now(e, r) ==
    /\ TaskCalls(k.active)
    /\ e \in exists
    /\ Met(r, flags[e])
    /\ got' = [got EXCEPT ![k.active] = flags[e]]
    /\ flags' = [flags EXCEPT ![e] = Left(r, @)]
    /\ UNCHANGED <<k, pc, irq_off, exists, want>>

\* With ticks = RHINO_NO_WAIT the call returns an error instead.
event_get_wait(e, r, ticks) ==
    /\ TaskCalls(k.active)
    /\ e \in exists
    /\ ~Met(r, flags[e])
    /\ k.sched_lock = 0
    /\ want' = [want EXCEPT ![k.active] = r]
    /\ critical_exit_block(pend_to_blk_obj(k, e, k.active, ticks))
    /\ UNCHANGED <<irq_off, flags, exists, got>>

krhino_event_get(e, r) ==
    \/ event_get_now(e, r)
    \/ \E ticks \in Ticks \cup {WaitForever} : event_get_wait(e, r, ticks)

-----------------------------------------------------------------------------
(* Setting flags *)

\* With RHINO_AND, flags are cleared and nobody is woken.
event_mask(e, f) ==
    /\ AnyCalls
    /\ e \in exists
    /\ flags' = [flags EXCEPT ![e] = @ \cap f]
    /\ UNCHANGED <<k, pc, irq_off, exists, want, got>>

\* Mutant: a waiter is compared with the flags its predecessors have left.
event_wake_left(s, t, cur) ==
    IF Met(want[t], s.flags)
    THEN [k     |-> pend_task_wakeup(s.k, t),
          flags |-> Left(want[t], s.flags),
          got   |-> [s.got EXCEPT ![t] = s.flags]]
    ELSE s

\* One round of the loop of event_set.  s holds what the loop changes; cur are the
\* flags that were read before it.
event_wake(s, t, cur) ==
    IF Met(want[t], cur)
    THEN [k     |-> pend_task_wakeup(s.k, t),
          flags |-> Left(want[t], s.flags),
          got   |-> [s.got EXCEPT ![t] = cur]]
    ELSE s

\* Mutant: only the first waiter is looked at.
event_loop_once(e, cur) ==
    LET start == [k |-> k, flags |-> cur, got |-> got] IN
    IF k.blk_list[e] = <<>> THEN start
                            ELSE event_wake(start, Head(k.blk_list[e]), cur)

\* The loop, from the head of the pend list.
event_loop(e, cur) ==
    LET list == k.blk_list[e]
        after[n \in 0 .. Len(list)] ==
            IF n = 0 THEN [k |-> k, flags |-> cur, got |-> got]
                     ELSE event_wake(after[n - 1], list[n], cur)
    IN  after[Len(list)]

event_set(e, f) ==
    /\ AnyCalls
    /\ e \in exists
    /\ LET end == event_loop(e, flags[e] \cup f) IN
       /\ critical_exit_sched(end.k)
       /\ flags' = [flags EXCEPT ![e] = end.flags]
       /\ got' = end.got
    /\ UNCHANGED <<irq_off, exists, want>>

krhino_event_set(e, f) == event_mask(e, f) \/ event_set(e, f)

-----------------------------------------------------------------------------
EventCalls(e) ==
    \/ krhino_event_del(e)
    \/ \E r \in Requests : krhino_event_get(e, r)
    \/ \E f \in FlagSets : krhino_event_create(e, f) \/ krhino_event_set(e, f)

EventNext ==
    \/ TaskNext /\ UNCHANGED <<flags, exists, want, got>>
    \/ \E e \in Obj : EventCalls(e)

EventSpec == EventInit /\ [][EventNext]_eventVars

-----------------------------------------------------------------------------
(* Correctness *)

\* No task waits for flags that are set: whoever blocks was not met, and each set
\* looks at every waiter.  Violated, a task would sleep through its event.
NoWaiterBesideFlags ==
    \A e \in Obj : \A t \in ToSet(k.blk_list[e]) : ~Met(want[t], flags[e])

\* Each event is an event group: the loop over the pend list amounts to one step that
\* wakes every task whose request is met, in whatever order.
Group(e) == INSTANCE EventGroup
                WITH flags    <- flags[e],
                     waiting  <- {t \in Task : k.blk_obj[t] = e},
                     request  <- want,
                     info     <- got,
                     outcome  <- k.blk_state,
                     Outcomes <- BlkState,
                     Granted  <- "BLK_FINISH"

\* Group(e)!Spec for every e, as one initial predicate and one action property.
ImplementsEventGroup ==
    /\ \A e \in Obj : Group(e)!Init
    /\ [][\A e \in Obj : [Group(e)!Next]_(Group(e)!vars)]_eventVars

=============================================================================
