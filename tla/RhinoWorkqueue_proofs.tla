----------------------- MODULE RhinoWorkqueue_proofs ------------------------
(***************************************************************************)
(* The units of the semaphores match the works on the lists, for any works *)
(* and queues and any finite number of callers.  The inductive invariant,  *)
(* WorkInv, adds to UnitPerWork the types and that a work is on a list     *)
(* once and only while it is marked, so that taking it off and unmarking   *)
(* it leaves the other lists alone.                                        *)
(***************************************************************************)
EXTENDS RhinoWorkqueue, FiniteSetTheorems, SequenceTheorems, TLAPS

WorkTypeOK ==
    /\ work_list \in [Queue -> Seq(Work)]
    /\ work_current \in [Queue -> Work \cup {None}]
    /\ sem \in [Queue -> Nat]
    /\ worker \in [Queue -> {"take", "get", "run"}]
    /\ work_exit \in SUBSET Work
    /\ wq \in [Work -> Queue \cup {None}]
    /\ caller \in [Caller -> Pending]
    /\ commands \in Seq(Commands)
    /\ armed \in [Work -> Queue \cup {None}]
    /\ expired \in Queue \cup {None}

\* The two parts of WorksQueuedOnce, of the lists and the marks before or after a step.
Marked(lists, marks) ==
    \A q \in Queue : \A i \in 1 .. Len(lists[q]) : lists[q][i] \in marks

OnList(lists, w) == \E q \in Queue : \E i \in 1 .. Len(lists[q]) : lists[q][i] = w

Once(lists) ==
    \A q, r \in Queue : \A i \in 1 .. Len(lists[q]), j \in 1 .. Len(lists[r]) :
        lists[q][i] = lists[r][j] => q = r /\ i = j

\* UnitPerWork, a queue at a time.
UnitsOf(q) ==
    Len(work_list[q]) = sem[q] + Cardinality(Givers(q)) + (IF expired = q THEN 1 ELSE 0)
                               + (IF worker[q] = "get" THEN 1 ELSE 0)

ListsOK ==
    /\ Marked(work_list, work_exit)
    /\ \A w \in work_exit : OnList(work_list, w)
    /\ Once(work_list)

WorkInv ==
    /\ WorkTypeOK
    /\ ListsOK
    /\ UnitPerWork

-----------------------------------------------------------------------------
(* What a caller still has to do *)

LEMMA PendingKinds ==
    ASSUME NEW p \in Pending
    PROVE  \/ p = Idle
           \/ p.op = "give" /\ \E q \in Queue : p = Give(q) /\ p.queue = q
           \/ p.op = "stop" /\ \E w \in Work : p = Stop(w) /\ p.work = w
           \/ p.op = "cancel" /\ \E w \in Work, q \in Queue : p = Cancel(w, q) /\ p.work = w /\ p.queue = q
  BY DEF Pending, Idle, Give, Stop, Cancel

LEMMA PendingHas ==
    /\ Idle \in Pending
    /\ \A q \in Queue : Give(q) \in Pending
    /\ \A w \in Work : Stop(w) \in Pending
    /\ \A w \in Work, q \in Queue : Cancel(w, q) \in Pending
  BY DEF Pending

LEMMA NotGive ==
    ASSUME NEW q
    PROVE  /\ Idle # Give(q)
           /\ \A w : Stop(w) # Give(q)
           /\ \A w, r : Cancel(w, r) # Give(q)
           /\ \A r : Give(r) = Give(q) => r = q
<1>1. Give(q).op = "give" /\ Give(q).queue = q
  BY DEF Give
<1>2. Idle.op = "idle" /\ \A w : Stop(w).op = "stop" /\ \A r : Cancel(w, r).op = "cancel"
  BY DEF Idle, Stop, Cancel
<1>3. \A r : Give(r).queue = r
  BY DEF Give
<1> QED
  BY <1>1, <1>2, <1>3

LEMMA GiversFinite ==
    ASSUME NEW q
    PROVE  IsFiniteSet(Givers(q)) /\ Cardinality(Givers(q)) \in Nat
<1>1. Givers(q) \subseteq Caller /\ IsFiniteSet(Caller)
  BY WorkAssumption DEF Givers
<1> QED
  BY <1>1, FS_Subset, FS_CardinalityType

\* A caller that gives nothing before and after its step is no giver.
LEMMA SameGivers ==
    ASSUME WorkTypeOK, NEW c \in Caller, NEW p, caller' = [caller EXCEPT ![c] = p],
           \A q : caller[c] # Give(q) /\ p # Give(q)
    PROVE  \A q : Givers(q)' = Givers(q)
  BY DEF WorkTypeOK, Givers

LEMMA OneGiverMore ==
    ASSUME WorkTypeOK, NEW c \in Caller, NEW r \in Queue, caller[c] = Idle,
           caller' = [caller EXCEPT ![c] = Give(r)]
    PROVE  /\ Cardinality(Givers(r)') = Cardinality(Givers(r)) + 1
           /\ \A q \in Queue \ {r} : Givers(q)' = Givers(q)
<1>1. c \notin Givers(r)
  BY NotGive DEF Givers
<1>2. Givers(r)' = Givers(r) \cup {c}
  BY DEF WorkTypeOK, Givers
<1>3. \A q \in Queue \ {r} : Givers(q)' = Givers(q)
  BY NotGive DEF WorkTypeOK, Givers
<1> QED
  BY <1>1, <1>2, <1>3, GiversFinite, FS_AddElement

LEMMA OneGiverLess ==
    ASSUME WorkTypeOK, NEW c \in Caller, NEW r \in Queue, caller[c] = Give(r),
           caller' = [caller EXCEPT ![c] = Idle]
    PROVE  /\ Cardinality(Givers(r)') = Cardinality(Givers(r)) - 1
           /\ \A q \in Queue \ {r} : Givers(q)' = Givers(q)
<1>1. c \in Givers(r)
  BY DEF Givers
<1>2. Givers(r)' = Givers(r) \ {c}
  BY NotGive DEF WorkTypeOK, Givers
<1>3. \A q \in Queue \ {r} : Givers(q)' = Givers(q)
  BY NotGive DEF WorkTypeOK, Givers
<1> QED
  BY <1>1, <1>2, <1>3, GiversFinite, FS_RemoveElement

-----------------------------------------------------------------------------
(* The lists *)

\* A work that is not marked is on no list: klist_rm_init does nothing.
LEMMA NothingToRemove ==
    ASSUME WorkTypeOK, ListsOK, NEW w, w \notin work_exit
    PROVE  klist_rm_init(work_list, w) = work_list
<1>1. \A q \in Queue : w \notin ToSet(work_list[q])
  BY DEF ListsOK, Marked, ToSet, WorkTypeOK
<1>2. klist_rm_init(work_list, w) = [q \in Queue |-> work_list[q]]
  BY <1>1 DEF klist_rm_init, klist_rm
<1> QED
  BY <1>2 DEF WorkTypeOK

\* put, for a work that is not marked: one more work on the list of r.
LEMMA PutFacts ==
    ASSUME WorkTypeOK, ListsOK, NEW w \in Work, NEW r \in Queue, w \notin work_exit, put(w, r)
    PROVE  /\ work_list' \in [Queue -> Seq(Work)]
           /\ wq' \in [Work -> Queue \cup {None}]
           /\ work_exit' \in SUBSET Work
           /\ ListsOK'
           /\ Len(work_list'[r]) = Len(work_list[r]) + 1
           /\ \A q \in Queue \ {r} : work_list'[q] = work_list[q]
<1>1. work_list' = [work_list EXCEPT ![r] = Append(@, w)]
  BY NothingToRemove DEF put
<1>2. /\ work_list'[r] = Append(work_list[r], w)
      /\ \A q \in Queue \ {r} : work_list'[q] = work_list[q]
      /\ work_list' \in [Queue -> Seq(Work)]
  BY <1>1 DEF WorkTypeOK
<1>3. /\ Len(work_list'[r]) = Len(work_list[r]) + 1
      /\ \A i \in 1 .. Len(work_list[r]) : work_list'[r][i] = work_list[r][i]
      /\ work_list'[r][Len(work_list[r]) + 1] = w
  BY <1>2 DEF WorkTypeOK
<1>4. \A q \in Queue : Len(work_list[q]) \in Nat /\ Len(work_list'[q]) \in Nat
  BY <1>2 DEF WorkTypeOK
<1>5. work_exit' = work_exit \cup {w}
  BY DEF put
<1>6. ASSUME NEW q \in Queue, NEW i \in 1 .. Len(work_list'[q])
      PROVE  \/ i \in 1 .. Len(work_list[q]) /\ work_list'[q][i] = work_list[q][i]
             \/ q = r /\ i = Len(work_list[r]) + 1 /\ work_list'[q][i] = w
  <2>1. CASE q = r
    BY <1>3, <1>4, <2>1
  <2>2. CASE q # r
    BY <1>2, <2>2
  <2> QED
    BY <2>1, <2>2
<1>7. Marked(work_list, work_exit)'
  BY <1>5, <1>6 DEF Marked, ListsOK
<1>8. ASSUME NEW v \in work_exit'
      PROVE  OnList(work_list, v)'
  <2>1. CASE v = w
    BY <1>3, <1>4, <2>1 DEF OnList
  <2>2. CASE v \in work_exit
    <3>1. PICK q \in Queue : \E i \in 1 .. Len(work_list[q]) : work_list[q][i] = v
      BY <2>2 DEF ListsOK, OnList
    <3>2. PICK i \in 1 .. Len(work_list[q]) : work_list[q][i] = v
      BY <3>1
    <3>3. i \in 1 .. Len(work_list'[q]) /\ work_list'[q][i] = v
      <4>1. CASE q = r
        BY <1>3, <1>4, <3>2, <4>1
      <4>2. CASE q # r
        BY <1>2, <3>2, <4>2
      <4> QED
        BY <4>1, <4>2
    <3> QED
      BY <3>3 DEF OnList
  <2> QED
    BY <1>5, <2>1, <2>2
<1>9. Once(work_list)'
  <2> SUFFICES ASSUME NEW q \in Queue, NEW s \in Queue, NEW i \in 1 .. Len(work_list'[q]),
                      NEW j \in 1 .. Len(work_list'[s]), work_list'[q][i] = work_list'[s][j]
               PROVE  q = s /\ i = j
    BY DEF Once
  <2>1. \A p \in Queue : \A l \in 1 .. Len(work_list[p]) : work_list[p][l] # w
    BY DEF Marked, ListsOK
  <2>2. CASE i \in 1 .. Len(work_list[q]) /\ work_list'[q][i] = work_list[q][i]
    <3>1. work_list'[s][j] # w
      BY <2>1, <2>2
    <3>2. j \in 1 .. Len(work_list[s]) /\ work_list'[s][j] = work_list[s][j]
      BY <1>6, <3>1
    <3>3. work_list[q][i] = work_list[s][j]
      BY <2>2, <3>2
    <3> QED
      BY <2>2, <3>2, <3>3 DEF Once, ListsOK
  <2>3. CASE q = r /\ i = Len(work_list[r]) + 1 /\ work_list'[q][i] = w
    <3>1. s = r /\ j = Len(work_list[r]) + 1
      BY <1>6, <2>1, <2>3
    <3> QED
      BY <2>3, <3>1
  <2> QED
    BY <1>6, <2>2, <2>3
<1> QED
  BY <1>2, <1>3, <1>5, <1>7, <1>8, <1>9 DEF put, WorkTypeOK, ListsOK

\* worker_get takes the head off: the marks still say what is on the lists.
LEMMA GetFacts ==
    ASSUME WorkTypeOK, ListsOK, NEW r \in Queue, worker_get(r)
    PROVE  /\ work_list' \in [Queue -> Seq(Work)]
           /\ work_current' \in [Queue -> Work \cup {None}]
           /\ work_exit' \in SUBSET Work
           /\ ListsOK'
           /\ Len(work_list'[r]) = Len(work_list[r]) - 1
           /\ \A q \in Queue \ {r} : work_list'[q] = work_list[q]
<1> DEFINE w == work_list[r][1]
<1>1. /\ work_list' = [work_list EXCEPT ![r] = Tail(@)]
      /\ work_current' = [work_current EXCEPT ![r] = Head(work_list[r])]
      /\ work_exit' = work_exit \ {Head(work_list[r])}
      /\ work_list[r] # <<>>
  BY DEF worker_get
<1>2. work_list[r] \in Seq(Work) /\ Len(work_list[r]) \in Nat /\ Len(work_list[r]) >= 1
  BY <1>1 DEF WorkTypeOK
<1>3. Head(work_list[r]) = w /\ w \in Work /\ work_exit' = work_exit \ {w}
  BY <1>1, <1>2
<1>4. /\ work_list'[r] = Tail(work_list[r])
      /\ \A q \in Queue \ {r} : work_list'[q] = work_list[q]
      /\ work_list' \in [Queue -> Seq(Work)]
  BY <1>1, <1>2 DEF WorkTypeOK
<1>5. /\ Len(work_list'[r]) = Len(work_list[r]) - 1
      /\ \A i \in 1 .. Len(work_list[r]) - 1 : work_list'[r][i] = work_list[r][i + 1]
  BY <1>1, <1>2, <1>4
<1>6. \A q \in Queue : Len(work_list[q]) \in Nat /\ Len(work_list'[q]) \in Nat
  BY <1>4 DEF WorkTypeOK
<1> DEFINE at(q, i) == IF q = r THEN i + 1 ELSE i
<1>7. ASSUME NEW q \in Queue, NEW i \in 1 .. Len(work_list'[q])
      PROVE  /\ at(q, i) \in 1 .. Len(work_list[q])
             /\ work_list'[q][i] = work_list[q][at(q, i)]
             /\ q = r => at(q, i) # 1
  <2>1. CASE q = r
    <3>1. at(q, i) = i + 1 /\ i \in 1 .. Len(work_list[r]) - 1
      BY <1>5, <2>1
    <3>2. work_list'[q][i] = work_list[q][at(q, i)]
      BY <1>5, <2>1, <3>1
    <3> QED
      BY <1>6, <2>1, <3>1, <3>2
  <2>2. CASE q # r
    BY <1>4, <2>2
  <2> QED
    BY <2>1, <2>2
<1>8. ASSUME NEW q \in Queue, NEW i \in 1 .. Len(work_list'[q])
      PROVE  work_list'[q][i] # w /\ work_list'[q][i] \in work_exit
  <2>1. 1 \in 1 .. Len(work_list[r])
    BY <1>2
  <2>2. work_list[q][at(q, i)] = work_list[r][1] => q = r /\ at(q, i) = 1
    BY <1>7, <2>1 DEF ListsOK, Once
  <2>3. work_list[q][at(q, i)] \in work_exit
    BY <1>7 DEF ListsOK, Marked
  <2> QED
    BY <1>7, <2>2, <2>3
<1>9. Marked(work_list, work_exit)'
  <2> HIDE DEF w, at
  <2> SUFFICES ASSUME NEW q \in Queue, NEW i \in 1 .. Len(work_list'[q])
               PROVE  work_list'[q][i] \in work_exit'
    BY DEF Marked
  <2> QED
    BY <1>3, <1>8
<1>10. ASSUME NEW v \in work_exit'
       PROVE  OnList(work_list, v)'
  <2>1. v \in work_exit /\ v # w
    BY <1>1, <1>3
  <2>2. PICK q \in Queue : \E i \in 1 .. Len(work_list[q]) : work_list[q][i] = v
    BY <2>1 DEF ListsOK, OnList
  <2>3. PICK i \in 1 .. Len(work_list[q]) : work_list[q][i] = v
    BY <2>2
  <2>4. CASE q = r
    <3>1. i # 1
      BY <2>1, <2>3, <2>4
    <3>2. i - 1 \in 1 .. Len(work_list'[r]) /\ work_list'[r][i - 1] = v
      BY <1>5, <1>6, <2>3, <2>4, <3>1
    <3> QED
      BY <3>2 DEF OnList
  <2>5. CASE q # r
    BY <1>4, <2>3, <2>5 DEF OnList
  <2> QED
    BY <2>4, <2>5
<1>11. Once(work_list)'
  <2> SUFFICES ASSUME NEW q \in Queue, NEW s \in Queue, NEW i \in 1 .. Len(work_list'[q]),
                      NEW j \in 1 .. Len(work_list'[s]), work_list'[q][i] = work_list'[s][j]
               PROVE  q = s /\ i = j
    BY DEF Once
  <2>1. work_list[q][at(q, i)] = work_list[s][at(s, j)]
    BY <1>7
  <2>2. q = s /\ at(q, i) = at(s, j)
    <3>1. at(q, i) \in 1 .. Len(work_list[q]) /\ at(s, j) \in 1 .. Len(work_list[s])
      BY <1>7
    <3> HIDE DEF at
    <3> QED
      BY <2>1, <3>1 DEF ListsOK, Once
  <2> QED
    BY <2>2
<1> QED
  BY <1>1, <1>3, <1>4, <1>5, <1>9, <1>10, <1>11 DEF WorkTypeOK, ListsOK

\* The queues whose numbers a step leaves alone still match.
LEMMA ListsKept ==
    ASSUME ListsOK, UNCHANGED <<work_list, work_exit>>
    PROVE  ListsOK'
  BY DEF ListsOK, Marked, OnList, Once

LEMMA NoGiver ==
    ASSUME UNCHANGED caller
    PROVE  \A q : Givers(q)' = Givers(q)
  BY DEF Givers

\* Every number that UnitPerWork compares is a number.
LEMMA Numbers ==
    ASSUME WorkTypeOK, NEW q \in Queue
    PROVE  Len(work_list[q]) \in Nat /\ sem[q] \in Nat /\ Cardinality(Givers(q)) \in Nat
  BY GiversFinite DEF WorkTypeOK

-----------------------------------------------------------------------------
(* The worker *)

LEMMA CreateStep ==
    ASSUME WorkInv, NEW r \in Queue, krhino_workqueue_create(r)
    PROVE  WorkInv'
<1>1. UNCHANGED <<queueVars, caller, timerVars>>
  BY DEF krhino_workqueue_create
<1>2. ListsOK' /\ WorkTypeOK'
  BY <1>1, ListsKept DEF WorkInv, WorkTypeOK, queueVars, timerVars
<1>3. UnitPerWork'
  BY <1>1, NoGiver DEF WorkInv, UnitPerWork, queueVars, timerVars
<1> QED
  BY <1>2, <1>3 DEF WorkInv

LEMMA TakeStep ==
    ASSUME WorkInv, NEW r \in Queue, worker_take(r)
    PROVE  WorkInv'
<1>1. /\ worker[r] = "take" /\ sem[r] > 0
      /\ sem' = [sem EXCEPT ![r] = @ - 1]
      /\ worker' = [worker EXCEPT ![r] = "get"]
      /\ UNCHANGED <<work_list, work_current, work_exit, wq, caller, commands, armed, expired>>
  BY DEF worker_take, timerVars
<1>2. ListsOK' /\ WorkTypeOK'
  BY <1>1, ListsKept DEF WorkInv, WorkTypeOK
<1>3. ASSUME NEW q \in Queue
      PROVE  UnitsOf(q)'
  <2>1. Givers(q)' = Givers(q)
    BY <1>1, NoGiver
  <2>2. UnitsOf(q)
    BY DEF WorkInv, UnitPerWork, UnitsOf
  <2>3. CASE q = r
    BY <1>1, <2>1, <2>2, <2>3, Numbers DEF WorkInv, WorkTypeOK, UnitsOf
  <2>4. CASE q # r
    BY <1>1, <2>1, <2>2, <2>4 DEF WorkInv, WorkTypeOK, UnitsOf
  <2> QED
    BY <2>3, <2>4
<1> QED
  BY <1>2, <1>3 DEF WorkInv, UnitPerWork, UnitsOf

LEMMA GetStep ==
    ASSUME WorkInv, NEW r \in Queue, worker_get(r)
    PROVE  WorkInv'
<1>1. /\ worker[r] = "get"
      /\ worker' = [worker EXCEPT ![r] = "run"]
      /\ UNCHANGED <<sem, wq, caller, commands, armed, expired>>
  BY DEF worker_get, timerVars
<1>2. ListsOK' /\ WorkTypeOK'
  BY <1>1, GetFacts DEF WorkInv, WorkTypeOK
<1>3. ASSUME NEW q \in Queue
      PROVE  UnitsOf(q)'
  <2>1. Givers(q)' = Givers(q)
    BY <1>1, NoGiver
  <2>2. UnitsOf(q)
    BY DEF WorkInv, UnitPerWork, UnitsOf
  <2>3. CASE q = r
    BY <1>1, <2>1, <2>2, <2>3, Numbers, GetFacts DEF WorkInv, WorkTypeOK, UnitsOf
  <2>4. CASE q # r
    BY <1>1, <2>1, <2>2, <2>4, GetFacts DEF WorkInv, WorkTypeOK, UnitsOf
  <2> QED
    BY <2>3, <2>4
<1> QED
  BY <1>2, <1>3 DEF WorkInv, UnitPerWork, UnitsOf

LEMMA DoneStep ==
    ASSUME WorkInv, NEW r \in Queue, worker_done(r)
    PROVE  WorkInv'
<1>1. /\ worker[r] = "run"
      /\ work_current' = [work_current EXCEPT ![r] = None]
      /\ worker' = [worker EXCEPT ![r] = "take"]
      /\ UNCHANGED <<work_list, sem, work_exit, wq, caller, commands, armed, expired>>
  BY DEF worker_done, timerVars
<1>2. ListsOK' /\ WorkTypeOK'
  BY <1>1, ListsKept DEF WorkInv, WorkTypeOK
<1>3. \A q \in Queue : (worker'[q] = "get") = (worker[q] = "get")
  BY <1>1 DEF WorkInv, WorkTypeOK
<1>4. UnitPerWork'
  BY <1>1, <1>3, NoGiver DEF WorkInv, UnitPerWork
<1> QED
  BY <1>2, <1>4 DEF WorkInv

-----------------------------------------------------------------------------
(* Running a work *)

LEMMA RunNowStep ==
    ASSUME WorkInv, NEW c \in Caller, NEW w \in Work, NEW r \in Queue,
           caller[c] = Idle, work_run_now(c, w, r)
    PROVE  WorkInv'
<1>1. /\ w \notin work_exit /\ put(w, r)
      /\ caller' = [caller EXCEPT ![c] = Give(r)]
      /\ UNCHANGED <<work_current, sem, worker, commands, armed, expired>>
  BY DEF work_run_now, work_idle, timerVars
<1>2. caller' \in [Caller -> Pending]
  BY <1>1, PendingHas DEF WorkInv, WorkTypeOK
<1>3. ListsOK' /\ WorkTypeOK'
  BY <1>1, <1>2, PutFacts DEF WorkInv, WorkTypeOK
<1>4. WorkTypeOK /\ \A q \in Queue : UnitsOf(q)
  BY DEF WorkInv, UnitPerWork, UnitsOf
<1>5. UnitsOf(r)'
  <2>1. Len(work_list'[r]) = Len(work_list[r]) + 1
    BY <1>1, PutFacts DEF WorkInv
  <2>2. Cardinality(Givers(r)') = Cardinality(Givers(r)) + 1
    <3>1. WorkTypeOK /\ caller[c] = Idle /\ caller' = [caller EXCEPT ![c] = Give(r)]
      BY <1>1, <1>4
    <3> QED
      BY <3>1, OneGiverMore
  <2>3. UnitsOf(r) /\ Len(work_list[r]) \in Nat /\ sem[r] \in Nat /\ Cardinality(Givers(r)) \in Nat
    BY <1>4, Numbers
  <2> QED
    BY <1>1, <2>1, <2>2, <2>3 DEF UnitsOf
<1>6. ASSUME NEW q \in Queue \ {r}
      PROVE  UnitsOf(q)'
  <2>1. work_list'[q] = work_list[q]
    BY <1>1, PutFacts DEF WorkInv
  <2>2. Givers(q)' = Givers(q)
    BY <1>1, <1>4, OneGiverMore
  <2> QED
    BY <1>1, <1>4, <2>1, <2>2 DEF UnitsOf
<1> QED
  BY <1>3, <1>5, <1>6 DEF WorkInv, UnitPerWork, UnitsOf

\* Steps that leave the works, the semaphores and the givers alone.
LEMMA UnitsKept ==
    ASSUME WorkInv, UNCHANGED <<work_list, sem, worker, expired>>,
           \A q \in Queue : Givers(q)' = Givers(q)
    PROVE  UnitPerWork'
  BY DEF WorkInv, UnitPerWork

LEMMA RunDelayedStep ==
    ASSUME WorkInv, NEW c \in Caller, NEW w \in Work, NEW r \in Queue,
           work_run_delayed(c, w, r)
    PROVE  WorkInv'
<1>1. /\ commands' = Append(commands, [work |-> w, queue |-> r])
      /\ UNCHANGED <<work_list, work_current, sem, worker, work_exit, wq, caller, armed, expired>>
  BY DEF work_run_delayed, queueVars
<1>2. [work |-> w, queue |-> r] \in Commands
  BY DEF Commands
<1>3. ListsOK' /\ WorkTypeOK'
  BY <1>1, <1>2, ListsKept DEF WorkInv, WorkTypeOK
<1>4. UnitPerWork'
  BY <1>1, UnitsKept, NoGiver
<1> QED
  BY <1>3, <1>4 DEF WorkInv

LEMMA GiveStep ==
    ASSUME WorkInv, NEW c \in Caller, work_give(c)
    PROVE  WorkInv'
<1>1. /\ caller[c].op = "give"
      /\ sem' = [sem EXCEPT ![caller[c].queue] = @ + 1]
      /\ caller' = [caller EXCEPT ![c] = Idle]
      /\ UNCHANGED <<work_list, work_current, worker, work_exit, wq, commands, armed, expired>>
  BY DEF work_give, sem_give, timerVars
<1>2. caller[c] \in Pending
  BY DEF WorkInv, WorkTypeOK
<1>3. PICK r \in Queue : caller[c] = Give(r) /\ caller[c].queue = r
  BY <1>1, <1>2, PendingKinds DEF Idle, Stop, Cancel
<1>4. caller' \in [Caller -> Pending]
  BY <1>1, PendingHas DEF WorkInv, WorkTypeOK
<1>5. ListsOK' /\ WorkTypeOK'
  BY <1>1, <1>3, <1>4, ListsKept DEF WorkInv, WorkTypeOK
<1>6. ASSUME NEW q \in Queue
      PROVE  UnitsOf(q)'
  <2>1. UnitsOf(q)
    BY DEF WorkInv, UnitPerWork, UnitsOf
  <2>2. CASE q = r
    <3>1. sem'[q] = sem[q] + 1 /\ Cardinality(Givers(q)') = Cardinality(Givers(q)) - 1
      BY <1>1, <1>3, <2>2, OneGiverLess DEF WorkInv, WorkTypeOK
    <3> QED
      BY <1>1, <2>1, <3>1, Numbers DEF WorkInv, UnitsOf
  <2>3. CASE q # r
    <3>1. sem'[q] = sem[q] /\ Givers(q)' = Givers(q)
      BY <1>1, <1>3, <2>3, OneGiverLess DEF WorkInv, WorkTypeOK
    <3> QED
      BY <1>1, <2>1, <3>1 DEF UnitsOf
  <2> QED
    BY <2>2, <2>3
<1> QED
  BY <1>5, <1>6 DEF WorkInv, UnitPerWork, UnitsOf

-----------------------------------------------------------------------------
(* Cancelling a work *)

LEMMA CancelStep ==
    ASSUME WorkInv, NEW c \in Caller, NEW w \in Work, krhino_work_cancel(c, w)
    PROVE  WorkInv'
<1>1. /\ caller[c] = Idle
      /\ UNCHANGED <<work_list, work_current, sem, worker, work_exit, wq, commands, armed, expired>>
  BY DEF krhino_work_cancel, queueVars, timerVars
<1>2. wq[w] \in Queue \cup {None}
  BY DEF WorkInv, WorkTypeOK
<1>3. \/ wq[w] \in Queue /\ caller' = [caller EXCEPT ![c] = Cancel(w, wq[w])]
      \/ caller' = [caller EXCEPT ![c] = Stop(w)]
      \/ caller' = caller
  BY <1>2 DEF krhino_work_cancel
<1>4. caller' \in [Caller -> Pending]
  BY <1>3, PendingHas DEF WorkInv, WorkTypeOK
<1>5. \A q : Givers(q)' = Givers(q)
  BY <1>1, <1>3, NotGive, SameGivers, NoGiver DEF WorkInv
<1>6. ListsOK' /\ WorkTypeOK'
  BY <1>1, <1>4, ListsKept DEF WorkInv, WorkTypeOK
<1>7. UnitPerWork'
  BY <1>1, <1>5, UnitsKept
<1> QED
  BY <1>6, <1>7 DEF WorkInv

LEMMA CancelStopStep ==
    ASSUME WorkInv, NEW c \in Caller, work_cancel_stop(c)
    PROVE  WorkInv'
<1>1. /\ caller[c].op = "stop"
      /\ caller' = [caller EXCEPT ![c] = Idle]
      /\ UNCHANGED <<work_list, work_current, sem, worker, work_exit, wq, armed, expired>>
  BY DEF work_cancel_stop, queueVars
<1>2. caller[c] \in Pending
  BY DEF WorkInv, WorkTypeOK
<1>3. PICK w \in Work : caller[c] = Stop(w) /\ caller[c].work = w
  BY <1>1, <1>2, PendingKinds DEF Idle, Give, Cancel
<1>4. [work |-> w, queue |-> None] \in Commands
  BY DEF Commands
<1>5. commands' \in Seq(Commands)
  BY <1>3, <1>4 DEF work_cancel_stop, WorkInv, WorkTypeOK
<1>6. caller' \in [Caller -> Pending]
  BY <1>1, PendingHas DEF WorkInv, WorkTypeOK
<1>7. \A q : Givers(q)' = Givers(q)
  BY <1>1, <1>3, NotGive, SameGivers DEF WorkInv
<1>8. ListsOK' /\ WorkTypeOK'
  BY <1>1, <1>5, <1>6, ListsKept DEF WorkInv, WorkTypeOK
<1>9. UnitPerWork'
  BY <1>1, <1>7, UnitsKept
<1> QED
  BY <1>8, <1>9 DEF WorkInv

\* Only an idle work is cancelled, and that one is on no list.
LEMMA CancelLockedStep ==
    ASSUME WorkInv, NEW c \in Caller, work_cancel_locked(c)
    PROVE  WorkInv'
<1>1. /\ caller[c].op = "cancel"
      /\ caller' = [caller EXCEPT ![c] = Idle]
      /\ UNCHANGED <<work_current, sem, worker, work_exit, commands, armed, expired>>
  BY DEF work_cancel_locked, timerVars
<1>2. caller[c] \in Pending
  BY DEF WorkInv, WorkTypeOK
<1>3. PICK w \in Work, r \in Queue : caller[c] = Cancel(w, r) /\ caller[c].work = w
  BY <1>1, <1>2, PendingKinds DEF Idle, Give, Stop
<1>4. work_list' = work_list /\ wq' \in [Work -> Queue \cup {None}]
  <2>1. CASE work_idle(w, caller[c].queue)
    BY <1>3, <2>1, NothingToRemove DEF work_cancel_locked, work_idle, WorkInv, WorkTypeOK
  <2>2. CASE ~work_idle(w, caller[c].queue)
    BY <1>3, <2>2 DEF work_cancel_locked, WorkInv, WorkTypeOK
  <2> QED
    BY <2>1, <2>2
<1>5. caller' \in [Caller -> Pending]
  BY <1>1, PendingHas DEF WorkInv, WorkTypeOK
<1>6. \A q : Givers(q)' = Givers(q)
  BY <1>1, <1>3, NotGive, SameGivers DEF WorkInv
<1>7. ListsOK' /\ WorkTypeOK'
  BY <1>1, <1>4, <1>5, ListsKept DEF WorkInv, WorkTypeOK
<1>8. UnitPerWork'
  BY <1>1, <1>4, <1>6, UnitsKept
<1> QED
  BY <1>7, <1>8 DEF WorkInv

-----------------------------------------------------------------------------
(* The timer task *)

LEMMA CommandStep ==
    ASSUME WorkInv, timer_command
    PROVE  WorkInv'
<1>1. /\ commands # <<>> /\ commands' = Tail(commands)
      /\ armed' = [armed EXCEPT ![Head(commands).work] = Head(commands).queue]
      /\ UNCHANGED <<work_list, work_current, sem, worker, work_exit, wq, caller, expired>>
  BY DEF timer_command, queueVars
<1>2. Head(commands) \in Commands /\ commands' \in Seq(Commands)
  BY <1>1 DEF WorkInv, WorkTypeOK
<1>3. armed' \in [Work -> Queue \cup {None}]
  BY <1>1, <1>2 DEF WorkInv, WorkTypeOK, Commands
<1>4. ListsOK' /\ WorkTypeOK'
  BY <1>1, <1>2, <1>3, ListsKept DEF WorkInv, WorkTypeOK
<1>5. UnitPerWork'
  BY <1>1, UnitsKept, NoGiver
<1> QED
  BY <1>4, <1>5 DEF WorkInv

LEMMA TimerCbStep ==
    ASSUME WorkInv, NEW w \in Work, work_timer_cb(w)
    PROVE  WorkInv'
<1> DEFINE r == armed[w]
<1>1. /\ expired = None /\ r \in Queue
      /\ armed' = [armed EXCEPT ![w] = None]
      /\ UNCHANGED <<work_current, sem, worker, caller, commands>>
  BY DEF work_timer_cb, WorkInv, WorkTypeOK
<1>2. armed' \in [Work -> Queue \cup {None}] /\ None \notin Queue
  BY <1>1, WorkAssumption DEF WorkInv, WorkTypeOK
<1>3. \A q : Givers(q)' = Givers(q)
  BY <1>1, NoGiver
<1>4. CASE work_idle(w, r)
  <2>1. w \notin work_exit /\ put(w, r) /\ expired' = r
    BY <1>4 DEF work_timer_cb, work_idle
  <2> HIDE DEF r
  <2>2. ListsOK' /\ WorkTypeOK'
    BY <1>1, <1>2, <2>1, PutFacts DEF WorkInv, WorkTypeOK
  <2>3. ASSUME NEW q \in Queue
        PROVE  UnitsOf(q)'
    <3>1. UnitsOf(q) /\ expired # q
      BY <1>1, <1>2 DEF WorkInv, UnitPerWork, UnitsOf
    <3>2. CASE q = r
      <4>1. Len(work_list'[q]) = Len(work_list[q]) + 1
        BY <1>1, <2>1, <3>2, PutFacts DEF WorkInv
      <4> QED
        BY <1>1, <1>3, <2>1, <3>1, <3>2, <4>1, Numbers DEF WorkInv, UnitsOf
    <3>3. CASE q # r
      <4>1. work_list'[q] = work_list[q]
        BY <1>1, <2>1, <3>3, PutFacts DEF WorkInv
      <4> QED
        BY <1>1, <1>3, <2>1, <3>1, <3>3, <4>1 DEF UnitsOf
    <3> QED
      BY <3>2, <3>3
  <2> QED
    BY <2>2, <2>3 DEF WorkInv, UnitPerWork, UnitsOf
<1>5. CASE ~work_idle(w, r)
  <2>1. UNCHANGED <<work_list, wq, work_exit, expired>>
    BY <1>5 DEF work_timer_cb
  <2>2. ListsOK' /\ WorkTypeOK'
    BY <1>1, <1>2, <2>1, ListsKept DEF WorkInv, WorkTypeOK
  <2>3. UnitPerWork'
    BY <1>1, <1>3, <2>1, UnitsKept
  <2> QED
    BY <2>2, <2>3 DEF WorkInv
<1> QED
  BY <1>4, <1>5

LEMMA TimerGiveStep ==
    ASSUME WorkInv, work_timer_give
    PROVE  WorkInv'
<1>1. /\ expired \in Queue /\ expired' = None
      /\ sem' = [sem EXCEPT ![expired] = @ + 1]
      /\ UNCHANGED <<work_list, work_current, worker, work_exit, wq, caller, commands, armed>>
  BY DEF work_timer_give, sem_give, WorkInv, WorkTypeOK
<1>2. ListsOK' /\ WorkTypeOK'
  BY <1>1, ListsKept DEF WorkInv, WorkTypeOK
<1>3. \A q : Givers(q)' = Givers(q)
  BY <1>1, NoGiver
<1>4. None \notin Queue
  BY WorkAssumption
<1>5. ASSUME NEW q \in Queue
      PROVE  UnitsOf(q)'
  <2>1. UnitsOf(q)
    BY DEF WorkInv, UnitPerWork, UnitsOf
  <2>2. sem'[q] = IF expired = q THEN sem[q] + 1 ELSE sem[q]
    BY <1>1 DEF WorkInv, WorkTypeOK
  <2> QED
    BY <1>1, <1>3, <1>4, <2>1, <2>2, Numbers DEF WorkInv, UnitsOf
<1> QED
  BY <1>2, <1>5 DEF WorkInv, UnitPerWork, UnitsOf

-----------------------------------------------------------------------------
(* The specification *)

LEMMA InitWorkInv ==
    ASSUME Init
    PROVE  WorkInv
<1>1. WorkTypeOK
  BY DEF Init, WorkTypeOK, Pending
<1>2. ListsOK
  BY DEF Init, ListsOK, Marked, OnList, Once
<1>3. ASSUME NEW q \in Queue
      PROVE  Givers(q) = {}
  BY NotGive DEF Init, Givers
<1>4. UnitPerWork
  <2>1. \A q \in Queue : Cardinality(Givers(q)) = 0
    BY <1>3, FS_EmptySet
  <2>2. \A q \in Queue : Len(work_list[q]) = 0 /\ sem[q] = 0 /\ worker[q] # "get" /\ expired # q
    BY WorkAssumption DEF Init
  <2> QED
    BY <2>1, <2>2 DEF UnitPerWork
<1> QED
  BY <1>1, <1>2, <1>4 DEF WorkInv

LEMMA StepWorkInv ==
    ASSUME WorkInv, [Next]_vars
    PROVE  WorkInv'
<1>1. CASE \E q \in Queue : krhino_workqueue_create(q) \/ worker_task(q)
  BY <1>1, CreateStep, TakeStep, GetStep, DoneStep DEF worker_task
<1>2. CASE \E c \in Caller : \E w \in Work, q \in Queue : krhino_work_run(c, w, q)
  BY <1>2, RunNowStep, RunDelayedStep DEF krhino_work_run
<1>3. CASE \E c \in Caller : \/ \E w \in Work : krhino_work_cancel(c, w)
                             \/ work_give(c) \/ work_cancel_stop(c) \/ work_cancel_locked(c)
  BY <1>3, CancelStep, GiveStep, CancelStopStep, CancelLockedStep
<1>4. CASE timer_command \/ (\E w \in Work : work_timer_cb(w)) \/ work_timer_give
  BY <1>4, CommandStep, TimerCbStep, TimerGiveStep
<1>5. CASE UNCHANGED vars
  <2>1. UNCHANGED <<work_list, work_current, sem, worker, work_exit, wq, caller, commands, armed,
                    expired>>
    BY <1>5 DEF vars, queueVars, timerVars
  <2>2. ListsOK' /\ WorkTypeOK'
    BY <2>1, ListsKept DEF WorkInv, WorkTypeOK
  <2> QED
    BY <2>1, <2>2, UnitsKept, NoGiver DEF WorkInv
<1> QED
  BY <1>1, <1>2, <1>3, <1>4, <1>5 DEF Next

\* The inductive invariant holds in every reachable state.
THEOREM WorkInvAlways == Spec => []WorkInv
  BY InitWorkInv, StepWorkInv, PTL DEF Spec

\* sem_take in worker_task returns once for each work that is queued: a worker that was
\* woken finds a work, and no work is left when the units are used up.
THEOREM UnitsMatchWorks == Spec => []UnitPerWork
<1>1. WorkInv => UnitPerWork
  BY DEF WorkInv
<1> QED
  BY <1>1, WorkInvAlways, PTL

\* work_exit is 1 for the works that are on a list, and klist_insert never links a work
\* twice.
THEOREM QueuedOnce == Spec => []WorksQueuedOnce
<1>1. WorkInv => WorksQueuedOnce
  BY DEF WorkInv, ListsOK, Marked, OnList, Once, WorksQueuedOnce
<1> QED
  BY <1>1, WorkInvAlways, PTL

=============================================================================
