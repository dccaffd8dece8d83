-------------------------- MODULE RhinoMutex_proofs --------------------------
(***************************************************************************)
(* What TLAPS proves of the mutexes, for finitely many mutexes and tasks   *)
(* and any number of priorities: the lists of mutexes are right, priority  *)
(* inheritance is exact, a lock call that succeeds has the mutex, which    *)
(* goes to the most urgent waiter.                                         *)
(*                                                                         *)
(* MutexOK says of a kernel record and of the mutexes that the list of a   *)
(* task links the mutexes it owns (Listings), that owners are alive and    *)
(* whoever waits waits for another task (Owners, Blockers), and that every *)
(* task has the priority it is due (Dues).  Inside a call one task is not  *)
(* settled: the loop of task_pri_change hands that on along the chain of   *)
(* owners (Unsettled), changes no task twice, and so comes to its end.     *)
(* The last part follows krhino_mutex_lock calls from the block to the     *)
(* return (LockOK).                                                        *)
(***************************************************************************)
EXTENDS RhinoMutex, RhinoTask_proofs, FiniteSetTheorems

-----------------------------------------------------------------------------
(* The list of mutexes a task holds *)

\* The mutexes that exist and belong to t.
Owned(x, t) == {m \in x.exists : x.mutex_task[m] = t}

\* Element i of a list, and the NULL pointer behind its end.
Nth(s, i) == IF i <= Len(s) THEN s[i] ELSE NoObj

\* A task is no mutex.
LEMMA TaskNotObj == \A t \in Task : t \notin Obj
  BY MutexAssumption

\* The pointers of mutex_list link t to the mutexes in s, in that order.
Links(x, t, s) ==
    /\ x.mutex_list[t] = Nth(s, 1)
    /\ \A i \in 1 .. Len(s) : x.mutex_list[s[i]] = Nth(s, i + 1)

\* They link t to the mutexes of S, each once.
Listed(x, t, S) == \E s \in Seq(Obj) : Links(x, t, s) /\ Holds(s, S)

\* How many numbers there are from a on.
LEMMA IntervalSize ==
    ASSUME NEW a \in Int, NEW n \in Nat
    PROVE  Cardinality(a .. a + n - 1) = n
<1>1. a + n - 1 \in Int
  OBVIOUS
<1>2. Cardinality(a .. a + n - 1) = IF a > a + n - 1 THEN 0 ELSE (a + n - 1) - a + 1
  BY <1>1, FS_Interval
<1> QED
  BY <1>2

\* A list without repetition is no longer than there are objects.
LEMMA ListBounded ==
    ASSUME NEW s \in Seq(Obj), IsInjective(s)
    PROVE  Len(s) <= Cardinality(Obj) /\ Cardinality(Obj) \in Nat
<1>1. IsFiniteSet(Obj)
  BY MutexAssumption
<1>2. s \in Injection(1 .. Len(s), Obj)
  <2>1. s \in [1 .. Len(s) -> Obj]
    OBVIOUS
  <2> QED
    BY <2>1 DEF Injection
<1>3. Cardinality(1 .. Len(s)) = Len(s)
  <2>1. 1 .. Len(s) = 1 .. 1 + Len(s) - 1 /\ Len(s) \in Nat
    OBVIOUS
  <2> QED
    BY <2>1, IntervalSize
<1>4. Cardinality(1 .. Len(s)) <= Cardinality(Obj)
  BY <1>1, <1>2, FS_Injection
<1> QED
  BY <1>1, <1>3, <1>4, FS_CardinalityType

\* mutex_chain follows the pointers to the end of the list.
LEMMA ChainIs ==
    ASSUME NEW x, NEW t, NEW s \in Seq(Obj), IsInjective(s), Links(x, t, s)
    PROVE  mutex_chain(x, t) = s
<1> DEFINE N == Cardinality(Obj)
           Follows(f) == f = [i \in 0 .. N |->
                                IF i = 0 THEN x.mutex_list[t]
                                ELSE IF f[i - 1] = NoObj THEN NoObj ELSE x.mutex_list[f[i - 1]]]
           at == CHOOSE f : Follows(f)
           f0 == [i \in 0 .. N |-> Nth(s, i + 1)]
<1>1. N \in Nat /\ Len(s) \in Nat /\ Len(s) <= N /\ \A i \in 1 .. Len(s) : s[i] \in Obj
  BY ListBounded
<1>2. \A i \in 1 .. Len(s) : s[i] # NoObj
  BY <1>1, ObjAssumption
<1> HIDE DEF N
<1>3. Follows(f0)
  <2> SUFFICES ASSUME NEW i \in 0 .. N
               PROVE  f0[i] = IF i = 0 THEN x.mutex_list[t]
                              ELSE IF f0[i - 1] = NoObj THEN NoObj ELSE x.mutex_list[f0[i - 1]]
    OBVIOUS
  <2>1. CASE i = 0
    BY <2>1, <1>1 DEF Links
  <2>2. CASE i \in 1 .. Len(s)
    <3>1. f0[i - 1] = s[i] /\ s[i] # NoObj /\ f0[i] = Nth(s, i + 1) /\ i # 0
      BY <1>1, <1>2, <2>2 DEF Nth
    <3>2. x.mutex_list[s[i]] = Nth(s, i + 1)
      BY <2>2 DEF Links
    <3> QED
      BY <3>1, <3>2
  <2>3. CASE i > Len(s) /\ i # 0
    BY <1>1, <2>3 DEF Nth
  <2> QED
    BY <1>1, <2>1, <2>2, <2>3
<1>4. Follows(at)
  <2> HIDE DEF f0, Follows
  <2>1. \E f : Follows(f)
    BY <1>3
  <2> QED
    BY <2>1
<1> DEFINE S == {i \in Nat : i <= N => at[i] = Nth(s, i + 1)}
<1>5. 0 \in S
  <2>1. 0 \in 0 .. N /\ 0 + 1 = 1
    BY <1>1
  <2>2. at[0] = x.mutex_list[t]
    BY <1>4, <2>1, Zenon
  <2> HIDE DEF at
  <2> QED
    BY <2>1, <2>2 DEF Links
<1>6. ASSUME NEW n \in Nat, n \in S PROVE n + 1 \in S
  <2> SUFFICES ASSUME n + 1 <= N PROVE at[n + 1] = Nth(s, n + 2)
    OBVIOUS
  <2>1. at[n] = Nth(s, n + 1) /\ n + 1 \in 0 .. N /\ n + 1 # 0 /\ (n + 1) - 1 = n
    BY <1>1, <1>6
  <2>2. at[n + 1] = IF at[n] = NoObj THEN NoObj ELSE x.mutex_list[at[n]]
    BY <1>4, <2>1, Zenon
  <2> HIDE DEF at
  <2>3. CASE n + 1 \in 1 .. Len(s)
    <3>1. at[n] = s[n + 1] /\ s[n + 1] # NoObj
      BY <1>2, <2>1, <2>3 DEF Nth
    <3>2. x.mutex_list[s[n + 1]] = Nth(s, n + 2)
      BY <2>3 DEF Links
    <3> QED
      BY <2>2, <3>1, <3>2
  <2>4. CASE n + 1 > Len(s)
    BY <1>1, <2>1, <2>2, <2>4 DEF Nth
  <2> QED
    BY <1>1, <2>3, <2>4
<1> HIDE DEF S
<1>7. ASSUME NEW i \in 0 .. N PROVE at[i] = Nth(s, i + 1)
  <2>1. i \in S
    BY <1>1, <1>5, <1>6, NatInductive
  <2> QED
    BY <2>1 DEF S
<1>8. DOMAIN at = 0 .. N
  BY <1>4, Zenon
<1>9. mutex_chain(x, t) = [i \in 1 .. Cardinality({j \in DOMAIN at : at[j] # NoObj}) |-> at[i - 1]]
  BY DEF mutex_chain, N
<1> HIDE DEF at
<1>10. {j \in DOMAIN at : at[j] # NoObj} = 0 .. Len(s) - 1
  <2>1. ASSUME NEW j \in 0 .. N PROVE at[j] # NoObj <=> j \in 0 .. Len(s) - 1
    <3>1. CASE j + 1 \in 1 .. Len(s)
      BY <1>1, <1>2, <1>7, <3>1 DEF Nth
    <3>2. CASE j + 1 > Len(s)
      BY <1>1, <1>7, <3>2 DEF Nth
    <3> QED
      BY <1>1, <3>1, <3>2
  <2>2. ASSUME NEW j \in 0 .. Len(s) - 1 PROVE j \in 0 .. N
    BY <1>1
  <2>3. {j \in DOMAIN at : at[j] # NoObj} = {j \in 0 .. N : j \in 0 .. Len(s) - 1}
    BY <1>8, <2>1
  <2> QED
    BY <2>2, <2>3
<1>11. Cardinality(0 .. Len(s) - 1) = Len(s)
  <2>1. 0 .. Len(s) - 1 = 0 .. 0 + Len(s) - 1
    BY <1>1
  <2>2. 0 \in Int
    OBVIOUS
  <2>3. Cardinality(0 .. 0 + Len(s) - 1) = Len(s)
    BY <1>1, <2>2, IntervalSize, Zenon
  <2> QED
    BY <2>1, <2>3
<1>12. ASSUME NEW i \in 1 .. Len(s) PROVE at[i - 1] = s[i]
  <2>1. i - 1 \in 0 .. N
    BY <1>1
  <2>2. (i - 1) + 1 = i
    OBVIOUS
  <2> QED
    BY <1>7, <2>1, <2>2 DEF Nth
<1>13. mutex_chain(x, t) = [i \in 1 .. Len(s) |-> s[i]]
  BY <1>9, <1>10, <1>11, <1>12
<1> QED
  BY <1>13

\* So it lists what the pointers link.
LEMMA ListedChain ==
    ASSUME NEW x, NEW t, NEW S, Listed(x, t, S)
    PROVE  Holds(mutex_chain(x, t), S) /\ mutex_chain(x, t) \in Seq(Obj) /\ S \subseteq Obj
<1>1. PICK s \in Seq(Obj) : Links(x, t, s) /\ Holds(s, S)
  BY DEF Listed
<1>2. mutex_chain(x, t) = s
  BY <1>1, ChainIs DEF Holds
<1>3. ASSUME NEW m \in ToSet(s) PROVE m \in Obj
  BY ToSetIndex
<1> QED
  BY <1>1, <1>2, <1>3 DEF Holds

\* Pointers elsewhere do not matter.
LEMMA SameLinks ==
    ASSUME NEW x, NEW x2, NEW t, NEW S, Listed(x, t, S),
           \A y \in {t} \cup S : x2.mutex_list[y] = x.mutex_list[y]
    PROVE  Listed(x2, t, S)
<1>1. PICK s \in Seq(Obj) : Links(x, t, s) /\ Holds(s, S)
  BY DEF Listed
<1>2. ASSUME NEW i \in 1 .. Len(s) PROVE s[i] \in S
  <2>1. i \in DOMAIN s
    OBVIOUS
  <2> QED
    BY <1>1, <2>1, InToSet DEF Holds
<1>3. Links(x2, t, s)
  BY <1>1, <1>2 DEF Links
<1> QED
  BY <1>1, <1>3 DEF Listed

\* A NULL pointer links nothing.
LEMMA NothingListed ==
    ASSUME NEW x, NEW t, x.mutex_list[t] = NoObj
    PROVE  Listed(x, t, {})
<1>1. Links(x, t, <<>>)
  BY DEF Links, Nth
<1>2. <<>> \in Seq(Obj) /\ Holds(<<>>, {})
  BY DEF Holds, ToSet, IsInjective
<1> QED
  BY <1>1, <1>2 DEF Listed

\* What mutex_push does to the pointers ...
LEMMA PushFields ==
    ASSUME NEW x \in MutexState, NEW t \in Task, NEW m \in Obj,
           NEW x2, x2.mutex_list = mutex_push(x, t, m).mutex_list
    PROVE  /\ x2.mutex_list[m] = x.mutex_list[t]
           /\ x2.mutex_list[t] = m
           /\ \A y \in (Task \cup Obj) \ {t, m} : x2.mutex_list[y] = x.mutex_list[y]
<1>1. t # m
  BY TaskNotObj
<1>2. x2.mutex_list = [x.mutex_list EXCEPT ![m] = x.mutex_list[t], ![t] = m]
  BY DEF mutex_push, MutexState
<1>3. DOMAIN x.mutex_list = Task \cup Obj
  BY DEF MutexState
<1> QED
  BY <1>1, <1>2, <1>3

\* ... is to put m in front of the list of t.
LEMMA PushListed ==
    ASSUME NEW x \in MutexState, NEW t \in Task, NEW m \in Obj, NEW S, Listed(x, t, S), m \notin S,
           NEW x2, x2.mutex_list = mutex_push(x, t, m).mutex_list
    PROVE  Listed(x2, t, S \cup {m})
<1>1. PICK s \in Seq(Obj) : Links(x, t, s) /\ Holds(s, S)
  BY DEF Listed
<1> DEFINE s2 == Cons(m, s)
<1>2. s2 \in Seq(Obj) /\ Holds(s2, S \cup {m})
  BY <1>1, ConsHolds DEF Holds
<1>3. Len(s2) = Len(s) + 1 /\ s2[1] = m /\ \A i \in 1 .. Len(s) : s2[i + 1] = s[i]
  BY DEF Cons
<1>4. ASSUME NEW i \in 1 .. Len(s) PROVE s[i] \in S /\ s[i] \in Obj /\ s[i] # m /\ s[i] # t
  <2>1. i \in DOMAIN s
    OBVIOUS
  <2>2. s[i] \in S /\ s[i] \in Obj
    BY <1>1, <2>1, InToSet DEF Holds
  <2> QED
    BY <2>2, TaskNotObj
<1>5. /\ x2.mutex_list[m] = x.mutex_list[t] /\ x2.mutex_list[t] = m
      /\ \A y \in (Task \cup Obj) \ {t, m} : x2.mutex_list[y] = x.mutex_list[y]
  BY PushFields
<1> HIDE DEF s2
<1>6. x2.mutex_list[t] = Nth(s2, 1)
  BY <1>3, <1>5 DEF Nth
<1>7. ASSUME NEW i \in 1 .. Len(s2) PROVE x2.mutex_list[s2[i]] = Nth(s2, i + 1)
  <2>1. CASE i = 1
    <3>1. x2.mutex_list[s2[i]] = Nth(s, 1)
      BY <1>1, <1>3, <1>5, <2>1 DEF Links
    <3>2. Nth(s2, i + 1) = Nth(s, 1)
      BY <1>3, <2>1 DEF Nth
    <3> QED
      BY <3>1, <3>2
  <2>2. CASE i # 1
    <3>1. PICK j \in 1 .. Len(s) : i = j + 1
      BY <1>3, <2>2
    <3>2. s2[i] = s[j]
      BY <1>3, <3>1
    <3>3. x2.mutex_list[s[j]] = x.mutex_list[s[j]]
      BY <1>4, <1>5
    <3>4. x.mutex_list[s[j]] = Nth(s, j + 1)
      BY <1>1 DEF Links
    <3>5. Nth(s2, i + 1) = Nth(s, j + 1)
      BY <1>3, <3>1 DEF Nth
    <3> QED
      BY <3>2, <3>3, <3>4, <3>5
  <2> QED
    BY <2>1, <2>2
<1>8. Links(x2, t, s2)
  BY <1>6, <1>7 DEF Links
<1> QED
  BY <1>2, <1>8 DEF Listed

\* The lists of other tasks are as they were.
LEMMA PushOthers ==
    ASSUME NEW x \in MutexState, NEW t \in Task, NEW m \in Obj, NEW u \in Task \ {t},
           NEW S, Listed(x, u, S), m \notin S,
           NEW x2, x2.mutex_list = mutex_push(x, t, m).mutex_list
    PROVE  Listed(x2, u, S)
<1>1. S \subseteq Obj
  BY ListedChain
<1>2. {u} \cup S \subseteq (Task \cup Obj) \ {t, m}
  BY <1>1, TaskNotObj
<1>3. \A y \in {u} \cup S : x2.mutex_list[y] = x.mutex_list[y]
  BY <1>2, PushFields
<1> QED
  BY <1>3, SameLinks

\* What mutex_unlink does to the pointers ...
LEMMA UnlinkFields ==
    ASSUME NEW x \in MutexState, NEW t \in Task, NEW m \in Obj, NEW S, Listed(x, t, S),
           NEW x2, x2.mutex_list = mutex_unlink(x, t, m).mutex_list
    PROVE  \A y \in Task \cup Obj :
               x2.mutex_list[y] = IF y \in {t} \cup S /\ x.mutex_list[y] = m
                                  THEN x.mutex_list[m] ELSE x.mutex_list[y]
<1>1. ToSet(mutex_chain(x, t)) = S
  BY ListedChain DEF Holds
<1>2. x2.mutex_list = [y \in Task \cup Obj |->
          IF y \in {t} \cup ToSet(mutex_chain(x, t)) /\ x.mutex_list[y] = m
          THEN x.mutex_list[m] ELSE x.mutex_list[y]]
  BY DEF mutex_unlink, MutexState
<1> QED
  BY <1>1, <1>2

\* ... is to take m out of the list of t.
LEMMA UnlinkListed ==
    ASSUME NEW x \in MutexState, NEW t \in Task, NEW S, Listed(x, t, S), NEW m \in S,
           NEW x2, x2.mutex_list = mutex_unlink(x, t, m).mutex_list
    PROVE  Listed(x2, t, S \ {m})
<1>1. PICK s \in Seq(Obj) : Links(x, t, s) /\ Holds(s, S)
  BY DEF Listed
<1>2. m \in Obj /\ m # NoObj /\ S \subseteq Obj
  BY ListedChain, ObjAssumption
<1>3. PICK j \in DOMAIN s : s[j] = m /\ klist_rm(s, m) = RemoveAt(s, j)
  <2>1. m \in ToSet(s) /\ \E i \in DOMAIN s : s[i] = m
    BY <1>1, ToSetIndex DEF Holds
  <2>2. s[CHOOSE i \in DOMAIN s : s[i] = m] = m /\ (CHOOSE i \in DOMAIN s : s[i] = m) \in DOMAIN s
    BY <2>1
  <2> QED
    BY <2>1, <2>2 DEF klist_rm
<1>4. j \in 1 .. Len(s) /\ Len(s) \in Nat
  OBVIOUS
<1>5. PICK s2 \in Seq(Obj) : /\ s2 = RemoveAt(s, j) /\ Holds(s2, S \ {m})
                            /\ Len(s2) = Len(s) - 1
                            /\ \A i \in 1 .. Len(s) - 1 : s2[i] = IF i < j THEN s[i] ELSE s[i + 1]
  BY <1>1, <1>3, <1>4, KlistRmHolds, RemoveFacts, SMTT(40) DEF Holds
<1>6. ASSUME NEW i \in 1 .. Len(s) PROVE s[i] \in S /\ s[i] \in Task \cup Obj /\ (s[i] = m <=> i = j)
  <2>1. i \in DOMAIN s
    OBVIOUS
  <2>2. s[i] \in S
    BY <1>1, <2>1, InToSet DEF Holds
  <2>3. s[i] = m <=> i = j
    BY <1>1, <1>3, <2>1 DEF Holds, IsInjective
  <2> QED
    BY <1>2, <2>2, <2>3
<1>7. ASSUME NEW i \in 1 .. Len(s) + 1 PROVE Nth(s, i) = m <=> i = j
  BY <1>2, <1>4, <1>6 DEF Nth
<1>8. ASSUME NEW i \in 1 .. Len(s) PROVE Nth(s2, i) = IF i < j THEN Nth(s, i) ELSE Nth(s, i + 1)
  BY <1>4, <1>5 DEF Nth
<1>9. x.mutex_list[m] = Nth(s, j + 1)
  BY <1>1, <1>3, <1>4 DEF Links
<1>10. \A y \in Task \cup Obj :
          x2.mutex_list[y] = IF y \in {t} \cup S /\ x.mutex_list[y] = m
                             THEN x.mutex_list[m] ELSE x.mutex_list[y]
  BY <1>2, UnlinkFields
<1>11. ASSUME NEW y \in {t} \cup S, NEW i \in 1 .. Len(s) + 1, x.mutex_list[y] = Nth(s, i)
       PROVE  x2.mutex_list[y] = IF i = j THEN Nth(s, j + 1) ELSE Nth(s, i)
  <2>1. y \in Task \cup Obj
    BY <1>2
  <2> QED
    BY <1>7, <1>9, <1>10, <1>11, <2>1
<1>12. x2.mutex_list[t] = Nth(s2, 1)
  <2>1. x.mutex_list[t] = Nth(s, 1)
    BY <1>1 DEF Links
  <2>2. 1 \in 1 .. Len(s) /\ 1 \in 1 .. Len(s) + 1
    BY <1>4
  <2>3. x2.mutex_list[t] = IF 1 = j THEN Nth(s, j + 1) ELSE Nth(s, 1)
    BY <1>11, <2>1, <2>2
  <2>4. Nth(s2, 1) = IF 1 < j THEN Nth(s, 1) ELSE Nth(s, 1 + 1)
    BY <1>8, <2>2
  <2> QED
    BY <1>4, <2>3, <2>4
<1>13. ASSUME NEW i \in 1 .. Len(s2) PROVE x2.mutex_list[s2[i]] = Nth(s2, i + 1)
  <2>1. i \in 1 .. Len(s) - 1 /\ i \in 1 .. Len(s) /\ i + 1 \in 1 .. Len(s)
    BY <1>4, <1>5
  <2>2. Nth(s2, i + 1) = IF i + 1 < j THEN Nth(s, i + 1) ELSE Nth(s, (i + 1) + 1)
    BY <1>8, <2>1
  <2>3. CASE i < j
    <3>1. s2[i] = s[i]
      BY <1>5, <2>1, <2>3
    <3>2. x.mutex_list[s[i]] = Nth(s, i + 1) /\ s[i] \in S
      BY <1>1, <1>6, <2>1 DEF Links
    <3>3. x2.mutex_list[s[i]] = IF i + 1 = j THEN Nth(s, j + 1) ELSE Nth(s, i + 1)
      BY <1>4, <1>11, <2>1, <3>2
    <3>4. CASE i + 1 = j
      <4>1. ~(i + 1 < j) /\ (i + 1) + 1 = j + 1
        BY <3>4, <1>4, <2>1
      <4> QED
        BY <2>2, <3>1, <3>3, <3>4, <4>1
    <3>5. CASE i + 1 # j
      <4>1. i + 1 < j
        BY <3>5, <1>4, <2>1, <2>3
      <4> QED
        BY <2>2, <3>1, <3>3, <3>5, <4>1
    <3> QED
      BY <3>4, <3>5
  <2>4. CASE i >= j
    <3>1. s2[i] = s[i + 1]
      BY <1>4, <1>5, <2>1, <2>4
    <3>2. x.mutex_list[s[i + 1]] = Nth(s, (i + 1) + 1) /\ s[i + 1] \in S
      BY <1>1, <1>6, <2>1 DEF Links
    <3>3. (i + 1) + 1 \in 1 .. Len(s) + 1
      BY <2>1, <1>4
    <3>4. x2.mutex_list[s[i + 1]] = IF (i + 1) + 1 = j THEN Nth(s, j + 1) ELSE Nth(s, (i + 1) + 1)
      BY <1>11, <3>2, <3>3
    <3> QED
      BY <1>4, <2>1, <2>2, <2>4, <3>1, <3>4
  <2> QED
    BY <1>4, <2>1, <2>3, <2>4
<1>14. Links(x2, t, s2)
  BY <1>12, <1>13 DEF Links
<1> QED
  BY <1>5, <1>14 DEF Listed

\* The lists of other tasks are as they were.
LEMMA UnlinkOthers ==
    ASSUME NEW x \in MutexState, NEW t \in Task, NEW T, Listed(x, t, T), NEW m \in T,
           NEW u \in Task \ {t}, NEW S, Listed(x, u, S), S \cap T = {},
           NEW x2, x2.mutex_list = mutex_unlink(x, t, m).mutex_list
    PROVE  Listed(x2, u, S)
<1>1. S \subseteq Obj /\ T \subseteq Obj /\ m \in Obj
  BY ListedChain
<1>2. ASSUME NEW y \in {u} \cup S PROVE y \in Task \cup Obj /\ y \notin {t} \cup T
  BY <1>1, <1>2, MutexAssumption
<1>3. \A y \in {u} \cup S : x2.mutex_list[y] = x.mutex_list[y]
  BY <1>1, <1>2, UnlinkFields
<1> QED
  BY <1>3, SameLinks

-----------------------------------------------------------------------------
(* The calls that move tasks between lists change no priority *)

SamePri(kk1, kk2) == kk2.prio = kk1.prio /\ kk2.b_prio = kk1.b_prio

LEMMA QueuePri ==
    ASSUME NEW kk \in Kernel, NEW t,
           NEW kk2 \in {ready_list_add(kk, t), ready_list_add_tail(kk, t),
                        ready_list_add_head(kk, t), ready_list_rm(kk, t),
                        ready_list_head_to_tail(kk, t)}
    PROVE  SamePri(kk, kk2)
<1>1. kk2 = ready_list_add_tail(kk, t) => SamePri(kk, kk2)
  BY DEF ready_list_add_tail, SamePri, Kernel
<1>2. kk2 = ready_list_add_head(kk, t) => SamePri(kk, kk2)
  BY DEF ready_list_add_head, SamePri, Kernel
<1>3. kk2 = ready_list_add(kk, t) => SamePri(kk, kk2)
  BY <1>1, <1>2 DEF ready_list_add
<1>4. kk2 = ready_list_rm(kk, t) => SamePri(kk, kk2)
  BY DEF ready_list_rm, SamePri, Kernel
<1>5. kk2 = ready_list_head_to_tail(kk, t) => SamePri(kk, kk2)
  BY DEF ready_list_head_to_tail, SamePri, Kernel
<1> QED
  BY <1>1, <1>2, <1>3, <1>4, <1>5

LEMMA MakeReadyPri ==
    ASSUME NEW kk \in Kernel, NEW t \in Task, NEW kk2, kk2 = make_ready(kk, t)
    PROVE  SamePri(kk, kk2)
<1> DEFINE a == [kk EXCEPT !.task_state[t] = "K_RDY"]
<1>1. a \in Kernel /\ SamePri(kk, a)
  BY DEF Kernel, SamePri, TaskState
<1>2. kk2 = ready_list_add(a, t)
  BY DEF make_ready
<1> HIDE DEF a
<1>3. SamePri(a, kk2)
  BY <1>1, <1>2, QueuePri
<1> QED
  BY <1>1, <1>3 DEF SamePri

LEMMA TickPri ==
    ASSUME NEW kk \in Kernel, NEW t, NEW ticks,
           NEW kk2 \in {tick_list_rm(kk, t), tick_list_insert(kk, t, ticks), tick_count_inc(kk)}
    PROVE  SamePri(kk, kk2)
<1>1. kk2 = tick_list_rm(kk, t) => SamePri(kk, kk2)
  BY DEF tick_list_rm, SamePri, Kernel
<1>2. kk2 = tick_list_insert(kk, t, ticks) => SamePri(kk, kk2)
  BY DEF tick_list_insert, SamePri, Kernel
<1>3. kk2 = tick_count_inc(kk) => SamePri(kk, kk2)
  BY DEF tick_count_inc, SamePri, Kernel
<1> QED
  BY <1>1, <1>2, <1>3

LEMMA PendAddPri ==
    ASSUME NEW kk \in Kernel, NEW o, NEW t, NEW kk2, kk2 = pend_list_add(kk, o, t)
    PROVE  SamePri(kk, kk2)
  BY DEF pend_list_add, SamePri, Kernel

LEMMA LeaveListsPri ==
    ASSUME NEW kk \in Kernel, NEW t \in Task, NEW kk2, kk2 = leave_lists(kk, t)
    PROVE  SamePri(kk, kk2) /\ kk2 \in Kernel
<1> DEFINE a == [kk EXCEPT !.blk_list[kk.blk_obj[t]] = klist_rm(@, t), !.blk_obj[t] = NoObj]
           b == [kk EXCEPT !.blk_list[kk.blk_obj[t]] = klist_rm(@, t)]
<1>1. b \in Kernel
  BY UnlinkQuiet DEF Quiet
<1>2. a = [b EXCEPT !.blk_obj[t] = NoObj] /\ SamePri(kk, b)
  BY DEF Kernel, SamePri
<1> HIDE DEF b
<1>3. a \in Kernel /\ SamePri(b, a)
  BY <1>1, <1>2 DEF Kernel, SamePri
<1>4. kk2 = tick_list_rm(a, t)
  BY DEF leave_lists
<1>5. kk2 \in Kernel
  BY LeaveListsQuiet DEF Quiet
<1> HIDE DEF a
<1>6. SamePri(a, kk2)
  BY <1>3, <1>4, TickPri
<1> QED
  BY <1>2, <1>3, <1>5, <1>6 DEF SamePri

\* The end of a wait for an object, ...
LEMMA EndPendPri ==
    ASSUME NEW kk \in Kernel, NEW t \in Task, NEW bs \in BlkState, NEW kk2, kk2 = end_pend(kk, t, bs)
    PROVE  SamePri(kk, kk2)
<1> DEFINE a == leave_lists(kk, t)
           b == [a EXCEPT !.blk_state[t] = bs]
<1>1. SamePri(kk, a) /\ a \in Kernel
  BY LeaveListsPri
<1> HIDE DEF a
<1>2. SamePri(a, b) /\ b \in Kernel
  BY <1>1 DEF SamePri, Kernel
<1>3. CASE kk.task_state[t] = "K_PEND"
  <2>1. kk2 = make_ready(b, t)
    BY <1>3 DEF end_pend, a
  <2> HIDE DEF b
  <2>2. SamePri(b, kk2)
    BY <1>2, <2>1, MakeReadyPri
  <2> QED
    BY <1>1, <1>2, <2>2 DEF SamePri
<1>4. CASE kk.task_state[t] = "K_PEND_SUSPENDED"
  <2>1. kk2 = [b EXCEPT !.task_state[t] = "K_SUSPENDED"]
    BY <1>4 DEF end_pend, a
  <2> HIDE DEF b
  <2>2. SamePri(b, kk2)
    BY <1>2, <2>1 DEF SamePri, Kernel
  <2> QED
    BY <1>1, <1>2, <2>2 DEF SamePri
<1>5. CASE kk.task_state[t] \notin {"K_PEND", "K_PEND_SUSPENDED"}
  <2>1. kk2 = k_err_proc(kk)
    BY <1>5 DEF end_pend
  <2> QED
    BY <2>1 DEF k_err_proc, SamePri, Kernel
<1> QED
  BY <1>3, <1>4, <1>5

\* ... a timeout, ...
LEMMA TickExpirePri ==
    ASSUME NEW kk \in Kernel, NEW t \in Task, NEW kk2, kk2 = tick_expire(kk, t)
    PROVE  SamePri(kk, kk2)
<1> DEFINE a == tick_list_rm(kk, t)
           b == [a EXCEPT !.blk_state[t] = "BLK_FINISH"]
<1>1. SamePri(kk, a) /\ a \in Kernel
  BY TickPri, TickRmQuiet DEF Quiet
<1> HIDE DEF a
<1>2. SamePri(a, b) /\ b \in Kernel
  BY <1>1 DEF SamePri, Kernel, BlkState
<1>3. CASE kk.task_state[t] = "K_SLEEP"
  <2>1. kk2 = make_ready(b, t)
    BY <1>3 DEF tick_expire, a, Pending
  <2> HIDE DEF b
  <2>2. SamePri(b, kk2)
    BY <1>2, <2>1, MakeReadyPri
  <2> QED
    BY <1>1, <1>2, <2>2 DEF SamePri
<1>4. CASE kk.task_state[t] = "K_SLEEP_SUSPENDED"
  <2>1. kk2 = [a EXCEPT !.blk_state[t] = "BLK_FINISH", !.task_state[t] = "K_SUSPENDED"]
    BY <1>4 DEF tick_expire, a, Pending
  <2>2. SamePri(a, kk2)
    BY <1>1, <2>1 DEF SamePri, Kernel
  <2> QED
    BY <1>1, <2>2 DEF SamePri
<1>5. CASE kk.task_state[t] \in Pending
  <2>1. kk2 = end_pend(kk, t, "BLK_TIMEOUT")
    BY <1>5 DEF tick_expire, Pending
  <2> QED
    BY <2>1, EndPendPri DEF BlkState
<1>6. CASE kk.task_state[t] \notin Pending \cup {"K_SLEEP", "K_SLEEP_SUSPENDED"}
  <2>1. kk2 = k_err_proc(kk)
    BY <1>6 DEF tick_expire
  <2> QED
    BY <2>1 DEF k_err_proc, SamePri, Kernel
<1> QED
  BY <1>3, <1>4, <1>5, <1>6

\* ... an abort, ...
LEMMA WaitAbortPri ==
    ASSUME NEW kk \in Kernel, NEW t \in Task, kk.task_state[t] # "K_DELETED",
           NEW kk2, kk2 = task_wait_abort(kk, t)
    PROVE  SamePri(kk, kk2)
<1>1. ASSUME NEW a \in Kernel, SamePri(kk, a), kk2 = [make_ready(a, t) EXCEPT !.blk_state[t] = "BLK_ABORT"]
      PROVE  SamePri(kk, kk2)
  <2> DEFINE b == make_ready(a, t)
  <2>1. SamePri(a, b)
    BY <1>1, MakeReadyPri
  <2>2. SamePri(b, kk2)
    BY <1>1 DEF SamePri, make_ready, ready_list_add, ready_list_add_tail, ready_list_add_head, Kernel
  <2> HIDE DEF b
  <2> QED
    BY <1>1, <2>1, <2>2 DEF SamePri
<1>2. CASE kk.task_state[t] = "K_RDY"
  BY <1>2 DEF task_wait_abort, SamePri, Pending, Sleeping
<1>3. CASE kk.task_state[t] = "K_SUSPENDED"
  <2>1. kk2 = make_ready(kk, t)
    BY <1>3 DEF task_wait_abort, Pending, Sleeping
  <2> QED
    BY <2>1, MakeReadyPri
<1>4. CASE kk.task_state[t] \in Sleeping
  <2> DEFINE a == tick_list_rm(kk, t)
  <2>1. SamePri(kk, a) /\ a \in Kernel
    BY TickPri, TickRmQuiet DEF Quiet
  <2>2. kk2 = [make_ready(a, t) EXCEPT !.blk_state[t] = "BLK_ABORT"]
    BY <1>4 DEF task_wait_abort, Pending, Sleeping
  <2> HIDE DEF a
  <2> QED
    BY <1>1, <2>1, <2>2
<1>5. CASE kk.task_state[t] \in Pending
  <2> DEFINE a == leave_lists(kk, t)
  <2>1. SamePri(kk, a) /\ a \in Kernel
    BY LeaveListsPri
  <2>2. kk2 = [make_ready(a, t) EXCEPT !.blk_state[t] = "BLK_ABORT"]
    BY <1>5 DEF task_wait_abort, Pending, Sleeping
  <2> HIDE DEF a
  <2> QED
    BY <1>1, <2>1, <2>2
<1>6. kk.task_state[t] \in TaskState
  BY DEF Kernel
<1> QED
  BY <1>2, <1>3, <1>4, <1>5, <1>6 DEF TaskState, Pending, Sleeping

\* ... a deletion, ...
LEMMA TaskUnlinkPri ==
    ASSUME NEW kk \in Kernel, NEW t \in Task, kk.task_state[t] # "K_DELETED",
           NEW kk2, kk2 = task_unlink(kk, t)
    PROVE  SamePri(kk, kk2)
<1>1. ASSUME SamePri(kk, kk), NEW a, SamePri(kk, a), DOMAIN a = DOMAIN kk, kk2 = Gone(a, t)
      PROVE  SamePri(kk, kk2)
  BY <1>1 DEF Gone, SamePri, Kernel
<1>2. SamePri(kk, kk)
  BY DEF SamePri
<1>3. CASE kk.task_state[t] = "K_RDY"
  <2> DEFINE a == ready_list_rm(kk, t)
  <2>1. SamePri(kk, a) /\ DOMAIN a = DOMAIN kk
    BY QueuePri, Zenon DEF ready_list_rm
  <2>2. kk2 = Gone(a, t)
    BY <1>3 DEF task_unlink, Gone, Pending, Sleeping
  <2> HIDE DEF a
  <2> QED
    BY <1>1, <1>2, <2>1, <2>2
<1>4. CASE kk.task_state[t] = "K_SUSPENDED"
  <2>1. kk2 = Gone(kk, t)
    BY <1>4 DEF task_unlink, Gone, Pending, Sleeping
  <2> QED
    BY <1>1, <1>2, <2>1
<1>5. CASE kk.task_state[t] \in Sleeping
  <2> DEFINE a == tick_list_rm(kk, t)
  <2>1. SamePri(kk, a) /\ DOMAIN a = DOMAIN kk
    BY TickPri, Zenon DEF tick_list_rm
  <2>2. kk2 = Gone(a, t)
    BY <1>5 DEF task_unlink, Gone, Pending, Sleeping
  <2> HIDE DEF a
  <2> QED
    BY <1>1, <1>2, <2>1, <2>2
<1>6. CASE kk.task_state[t] \in Pending
  <2> DEFINE a == leave_lists(kk, t)
  <2>1. SamePri(kk, a) /\ DOMAIN a = DOMAIN kk
    BY LeaveListsPri, Zenon DEF leave_lists, tick_list_rm
  <2>2. kk2 = Gone(a, t)
    BY <1>6 DEF task_unlink, Gone, Pending, Sleeping
  <2> HIDE DEF a
  <2> QED
    BY <1>1, <1>2, <2>1, <2>2
<1>7. kk.task_state[t] \in TaskState
  BY DEF Kernel
<1> QED
  BY <1>3, <1>4, <1>5, <1>6, <1>7 DEF TaskState, Pending, Sleeping

\* ... and the beginning of a wait.
LEMMA PendToBlkObjPri ==
    ASSUME NEW kk \in Kernel, NEW o \in Obj, NEW t \in Task, NEW timeout \in Nat \cup {WaitForever},
           NEW kk2, kk2 = pend_to_blk_obj(kk, o, t, timeout)
    PROVE  SamePri(kk, kk2)
<1> DEFINE a == IF timeout = WaitForever THEN kk ELSE tick_list_insert(kk, t, timeout)
           b == [a EXCEPT !.blk_obj[t] = o, !.task_state[t] = "K_PEND"]
           c == ready_list_rm(b, t)
<1>1. a \in Kernel /\ SamePri(kk, a)
  <2>1. CASE timeout = WaitForever
    BY <2>1 DEF SamePri
  <2>2. CASE timeout # WaitForever
    <3>1. tick_list_insert(kk, t, timeout) \in Kernel /\ SamePri(kk, tick_list_insert(kk, t, timeout))
      BY <2>2, TickPri, TickInsertQuiet DEF Quiet
    <3> QED
      BY <2>2, <3>1
  <2> QED
    BY <2>1, <2>2
<1>2. kk2 = pend_list_add(c, o, t)
  BY DEF pend_to_blk_obj
<1> HIDE DEF a
<1>3. b \in Kernel /\ SamePri(a, b)
  BY <1>1 DEF Kernel, SamePri, TaskState
<1> HIDE DEF b
<1>4. SamePri(b, c)
  BY <1>3, QueuePri
<1>5. SamePri(c, kk2)
  BY <1>2, <1>3, SMTT(40) DEF pend_list_add, SamePri, c, ready_list_rm, Kernel
<1> QED
  BY <1>1, <1>3, <1>4, <1>5 DEF SamePri

-----------------------------------------------------------------------------
(* The priority a task is due *)

\* p is what a task with base priority b is due when it holds the mutexes of O: b or
\* the best priority among the tasks that wait for them.
Due(kk, O, b, p) ==
    /\ p <= b
    /\ \A u \in Task : kk.blk_obj[u] \in O => p <= kk.prio[u]
    /\ p = b \/ \E u \in Task : kk.blk_obj[u] \in O /\ p = kk.prio[u]

\* The code looks at the first waiter of each mutex only, and at no other.
LEMMA LookIsDue ==
    ASSUME NEW kk, WaitOK(kk), NEW O \in SUBSET Obj, NEW b \in Pri,
           NEW p, p = Min({b} \cup first_waiters(kk, O))
    PROVE  p \in Pri /\ Due(kk, O, b, p)
<1> DEFINE T == {b} \cup first_waiters(kk, O)
<1>1. kk.prio \in [Task -> Pri]
  BY KernelFields DEF WaitOK, Right
<1>2. ASSUME NEW m \in O, kk.blk_list[m] # <<>>
      PROVE  /\ Head(kk.blk_list[m]) \in Task
             /\ kk.blk_obj[Head(kk.blk_list[m])] = m
             /\ kk.prio[Head(kk.blk_list[m])] \in T
             /\ kk.prio[Head(kk.blk_list[m])] \in Pri
  <2>1. Head(kk.blk_list[m]) \in Task /\ kk.blk_obj[Head(kk.blk_list[m])] = m
    BY <1>2, FirstWaiter
  <2>2. kk.prio[Head(kk.blk_list[m])] \in first_waiters(kk, O)
    BY <1>2 DEF first_waiters
  <2> QED
    BY <1>1, <2>1, <2>2
<1>3. ASSUME NEW n \in T
      PROVE  n = b \/ \E u \in Task : kk.blk_obj[u] \in O /\ n = kk.prio[u]
  <2>1. CASE n \in first_waiters(kk, O)
    <3>1. PICK m \in O : kk.blk_list[m] # <<>> /\ n = kk.prio[Head(kk.blk_list[m])]
      BY <2>1 DEF first_waiters
    <3> QED
      BY <1>2, <3>1
  <2> QED
    BY <2>1
<1>4. T \in SUBSET Pri
  BY <1>1, <1>3
<1>5. T \in SUBSET Nat /\ T # {}
  BY <1>4, PriNat
<1>6. \E n \in T : \A q \in T : n <= q
  BY <1>5, MinExists
<1>7. p = CHOOSE n \in T : \A q \in T : n <= q
  BY DEF Min
<1> HIDE DEF T
<1>8. p \in T /\ \A q \in T : p <= q
  BY <1>6, <1>7
<1>9. b \in T
  BY DEF T
<1>10. ASSUME NEW u \in Task, kk.blk_obj[u] \in O PROVE p <= kk.prio[u]
  <2> DEFINE m == kk.blk_obj[u]
  <2>1. m \in O /\ m \in Obj
    BY <1>10
  <2>2. u \in ToSet(kk.blk_list[m]) /\ kk.blk_list[m] # <<>>
    BY <2>1, WaitersListed
  <2>3. kk.prio[Head(kk.blk_list[m])] <= kk.prio[u]
    BY <2>1, <2>2, FirstWaiter
  <2>4. kk.prio[Head(kk.blk_list[m])] \in T /\ kk.prio[Head(kk.blk_list[m])] \in Pri
    BY <1>2, <2>1, <2>2, SMTT(40)
  <2> DEFINE a == kk.prio[Head(kk.blk_list[m])]
             b1 == kk.prio[u]
  <2>5. p <= a /\ p \in Int /\ a \in Int /\ b1 \in Int /\ a <= b1
    BY <1>1, <1>4, <1>8, <2>3, <2>4, PriNat
  <2> HIDE DEF a, b1
  <2>6. p <= b1
    BY <2>5
  <2> QED
    BY <2>6 DEF b1
<1> QED
  BY <1>3, <1>4, <1>8, <1>9, <1>10 DEF Due

\* There is one such priority.
LEMMA DueUnique ==
    ASSUME NEW kk, kk.prio \in [Task -> Int], NEW O, NEW b \in Int, NEW p \in Int, NEW q \in Int,
           Due(kk, O, b, p), Due(kk, O, b, q)
    PROVE  p = q
  BY DEF Due

\* Priorities change, and nothing else that concerns waits and mutexes.
Repriced(kk1, kk2) ==
    /\ ReadyOK(kk2) /\ WaitOK(kk2) /\ SameCore(kk1, kk2)
    /\ kk2.task_state = kk1.task_state
    /\ kk2.blk_obj = kk1.blk_obj
    /\ kk2.blk_state = kk1.blk_state
    /\ kk2.b_prio = kk1.b_prio

LEMMA RepricedTrans ==
    ASSUME NEW kk1, NEW kk2, NEW kk3, Repriced(kk1, kk2), Repriced(kk2, kk3)
    PROVE  Repriced(kk1, kk3)
  BY DEF Repriced, SameCore

\* One round of the loop.
LEMMA OneRepriced ==
    ASSUME NEW kk, ReadyOK(kk), WaitOK(kk), NEW t \in Task \ {Idle},
           kk.task_state[t] # "K_DELETED", NEW p \in Pri,
           NEW kk2, kk2 = pri_change_one(kk, t, p)
    PROVE  /\ Repriced(kk, kk2)
           /\ kk2.prio = [kk.prio EXCEPT ![t] = p]
           /\ kk.prio[t] = p => kk2 = kk
<1> DEFINE F(a) == a.blk_obj = kk.blk_obj /\ a.blk_state = kk.blk_state /\ a.b_prio = kk.b_prio
           a0 == [kk EXCEPT !.prio[t] = p]
<1>1. /\ kk \in Kernel /\ kk.prio \in [Task -> Pri] /\ kk.task_state[t] \in TaskState
      /\ kk.blk_obj \in [Task -> Obj \cup {NoObj}]
  BY KernelFields DEF ReadyOK
<1>2. ReadyOK(kk2) /\ SameCore(kk, kk2) /\ kk2.task_state = kk.task_state
  BY PriChangeOne DEF Steady
<1>3. WaitOK(kk2)
  BY PriChangeWaits DEF Ungranted
<1>4. a0 \in Kernel /\ F(a0) /\ a0.prio = [kk.prio EXCEPT ![t] = p] /\ F(kk)
  BY <1>1 DEF Kernel
<1>5. CASE kk.prio[t] = p
  <2>1. kk2 = kk
    BY <1>5 DEF pri_change_one
  <2> QED
    BY <1>1, <1>2, <1>3, <1>5, <2>1 DEF Repriced
<1>6. CASE kk.prio[t] # p /\ kk.task_state[t] = "K_RDY"
  <2> DEFINE r == ready_list_rm(kk, t)
             b == [r EXCEPT !.prio[t] = p]
  <2>1. kk2 \in {ready_list_add_head(b, t), ready_list_add_tail(b, t)}
    BY <1>6 DEF pri_change_one, Pending
  <2>2. r \in Kernel /\ Unmoved(kk, r) /\ SamePri(kk, r)
    BY <1>1, <1>6, RmUnmoved, QueuePri
  <2> HIDE DEF r
  <2>3. b \in Kernel /\ F(b) /\ b.prio = [kk.prio EXCEPT ![t] = p]
    BY <2>2 DEF Kernel, Unmoved, SameLists, SamePri
  <2> HIDE DEF b
  <2>4. Unmoved(b, kk2) /\ SamePri(b, kk2)
    BY <2>1, <2>3, QueueFields, QueuePri
  <2> QED
    BY <1>2, <1>3, <1>6, <2>3, <2>4 DEF Repriced, Unmoved, SameLists, SamePri
<1>7. CASE kk.prio[t] # p /\ kk.task_state[t] \in Pending
  <2>1. kk2 = pend_list_reorder(a0, t)
    BY <1>7 DEF pri_change_one, Pending
  <2> DEFINE b == [a0 EXCEPT !.blk_list[a0.blk_obj[t]] = klist_rm(@, t)]
  <2>2. b \in Kernel
    BY <1>4, UnlinkQuiet DEF Quiet
  <2>3. SamePri(a0, b) /\ b.blk_obj = a0.blk_obj /\ b.blk_state = a0.blk_state
    BY <1>4 DEF SamePri, Kernel
  <2>4. kk2 = pend_list_add(b, a0.blk_obj[t], t)
    BY <2>1 DEF pend_list_reorder
  <2> HIDE DEF b
  <2>5. SamePri(b, kk2) /\ kk2.blk_obj = b.blk_obj /\ kk2.blk_state = b.blk_state
    BY <2>2, <2>4 DEF pend_list_add, SamePri, Kernel
  <2> HIDE DEF a0
  <2> QED
    BY <1>2, <1>3, <1>4, <1>7, <2>3, <2>5 DEF Repriced, SamePri
<1>8. CASE kk.prio[t] # p /\ kk.task_state[t] \notin Pending \cup {"K_RDY"}
  <2>1. kk2 = a0
    BY <1>8 DEF pri_change_one
  <2> QED
    BY <1>2, <1>3, <1>4, <1>8, <2>1 DEF Repriced
<1> QED
  BY <1>5, <1>6, <1>7, <1>8

-----------------------------------------------------------------------------
(* Inheritance along a chain of owners *)

Alive(kk, t) == kk.task_state[t] # "K_DELETED"

\* O[w] are the mutexes that count for w, B[w] is its base.
Settled(kk, O, B, w) == Due(kk, O[w], B[w], kk.prio[w])

\* Whoever waits for a mutex that exists waits for its owner, another task.
Graph(kk, x, O) ==
    /\ O \in [Task -> SUBSET Obj]
    /\ \A w \in Task : \A m \in O[w] : m \in x.exists /\ x.mutex_task[m] = w
    /\ \A u \in Task : kk.blk_obj[u] \in x.exists =>
          LET w == x.mutex_task[kk.blk_obj[u]] IN
          w \in Task \ {Idle, u} /\ Alive(kk, w) /\ kk.blk_obj[u] \in O[w]

\* Everybody but t is settled, and t is due p.
Unsettled(kk, O, B, t, p) ==
    /\ t \in Task \ {Idle} /\ Alive(kk, t) /\ p \in Pri
    /\ \A w \in Task \ {t} : Alive(kk, w) => Settled(kk, O, B, w)
    /\ Due(kk, O[t], B[t], p)

AllSettled(kk, O, B) == \A w \in Task : Alive(kk, w) => Settled(kk, O, B, w)

\* The mutexes and the base the code finds for w are those that count.
Found(kk, x, O, B, w) == ToSet(mutex_chain(x, w)) = O[w] /\ B[w] = kk.b_prio[w]

\* One round settles t, and leaves at most the owner t waits for to be settled.
LEMMA Round ==
    ASSUME NEW kk, ReadyOK(kk), WaitOK(kk), NEW x, x.exists \subseteq Obj, NEW O, Graph(kk, x, O),
           NEW B \in [Task -> Pri], NEW t, NEW p, Unsettled(kk, O, B, t, p),
           \A w \in Task \ {t} : Alive(kk, w) /\ p > kk.prio[t] /\ kk.prio[w] = kk.prio[t]
                                 => Found(kk, x, O, B, w),
           NEW c1, c1 = pri_change_round([k |-> kk, task |-> t, pri |-> p], x)
    PROVE  \E k1, o, q :
             /\ c1 = [k |-> k1, task |-> o, pri |-> q]
             /\ Repriced(kk, k1)
             /\ k1.prio = [kk.prio EXCEPT ![t] = p]
             /\ \/ o = NoTask /\ AllSettled(k1, O, B)
                \/ /\ o # t /\ p # kk.prio[t] /\ Unsettled(k1, O, B, o, q)
                   /\ p < kk.prio[t] => q = p /\ p < k1.prio[o]
                   /\ p > kk.prio[t] => k1.prio[o] = kk.prio[t] /\ q > kk.prio[t]
<1> DEFINE k1  == pri_change_one(kk, t, p)
           m   == k1.blk_obj[t]
           o   == x.mutex_task[m]
           due == mutex_pri_look(k1, x, o, NoObj)
<1>1. t \in Task \ {Idle} /\ Alive(kk, t) /\ p \in Pri /\ O \in [Task -> SUBSET Obj]
  BY DEF Unsettled, Graph
<1>2. /\ Repriced(kk, k1)
      /\ k1.prio = [kk.prio EXCEPT ![t] = p]
      /\ kk.prio[t] = p => k1 = kk
  BY <1>1, OneRepriced DEF Alive
<1>3. c1 = IF kk.prio[t] = p \/ k1.task_state[t] \notin Pending \/ m \notin x.exists
           THEN [k |-> k1, task |-> NoTask, pri |-> p]
           ELSE IF k1.prio[o] > p THEN [k |-> k1, task |-> o, pri |-> p]
           ELSE IF k1.prio[o] = kk.prio[t] /\ due # k1.prio[o]
           THEN [k |-> k1, task |-> o, pri |-> due]
           ELSE [k |-> k1, task |-> NoTask, pri |-> p]
  <2> DEFINE c == [k |-> kk, task |-> t, pri |-> p]
             over == [c EXCEPT !.k = k1, !.task = NoTask]
  <2>1. /\ over = [k |-> k1, task |-> NoTask, pri |-> p]
        /\ [over EXCEPT !.task = o] = [k |-> k1, task |-> o, pri |-> p]
        /\ [over EXCEPT !.task = o, !.pri = due] = [k |-> k1, task |-> o, pri |-> due]
    <3> HIDE DEF k1, o, due
    <3> DEFINE d  == [c EXCEPT !.k = k1]
               c2 == [k |-> k1, task |-> NoTask, pri |-> p]
               e  == [c2 EXCEPT !.task = o]
    <3>1. d = [k |-> k1, task |-> t, pri |-> p] /\ over = [d EXCEPT !.task = NoTask]
      OBVIOUS
    <3>2. e = [k |-> k1, task |-> o, pri |-> p] /\ [c2 EXCEPT !.task = o, !.pri = due] = [e EXCEPT !.pri = due]
      OBVIOUS
    <3> HIDE DEF d, e, over
    <3>3. over = c2
      BY <3>1
    <3>4. [e EXCEPT !.pri = due] = [k |-> k1, task |-> o, pri |-> due]
      BY <3>2
    <3> HIDE DEF c2
    <3>5. [over EXCEPT !.task = o, !.pri = due] = [e EXCEPT !.pri = due] /\ [over EXCEPT !.task = o] = e
      BY <3>2, <3>3 DEF e
    <3> QED
      BY <3>2, <3>3, <3>4, <3>5 DEF c2
  <2>2. c.k = kk /\ c.task = t /\ c.pri = p
    OBVIOUS
  <2>3. c1 = IF kk.prio[t] = p \/ k1.task_state[t] \notin Pending \/ m \notin x.exists THEN over
             ELSE IF k1.prio[o] > p THEN [over EXCEPT !.task = o]
             ELSE IF k1.prio[o] = kk.prio[t] /\ due # k1.prio[o]
             THEN [over EXCEPT !.task = o, !.pri = due] ELSE over
    BY <2>2, Zenon DEF pri_change_round
  <2> HIDE DEF over, k1, m, o, due
  <2> QED
    BY <2>1, <2>3
<1> HIDE DEF k1
<1>4. /\ kk.prio \in [Task -> Pri] /\ kk.prio[t] \in Pri /\ kk.prio \in [Task -> Int]
      /\ k1.prio \in [Task -> Pri] /\ k1.prio \in [Task -> Int]
      /\ k1.blk_obj = kk.blk_obj /\ k1.task_state = kk.task_state /\ k1.b_prio = kk.b_prio
      /\ WaitOK(k1)
  BY <1>1, <1>2, KernelFields DEF ReadyOK, Repriced
<1>5. \A w \in Task : Alive(k1, w) <=> Alive(kk, w)
  BY <1>4 DEF Alive
<1>6. \A u \in Task \ {t} : k1.prio[u] = kk.prio[u]
  BY <1>1, <1>2, <1>4
<1>7. k1.prio[t] = p
  BY <1>1, <1>2, <1>4
\* Nobody is due anything because of t but the owner of the mutex t waits for.
<1>8. ASSUME NEW w \in Task \ {t}, Alive(kk, w), kk.blk_obj[t] \notin O[w]
      PROVE  Settled(k1, O, B, w)
  <2>1. Settled(kk, O, B, w)
    BY <1>8 DEF Unsettled
  <2>2. \A u \in Task : k1.blk_obj[u] \in O[w] => k1.prio[u] = kk.prio[u]
    BY <1>4, <1>6, <1>8
  <2> QED
    BY <1>4, <1>6, <2>1, <2>2 DEF Settled, Due
<1>9. Settled(k1, O, B, t)
  <2>1. kk.blk_obj[t] \notin O[t]
    BY <1>1 DEF Graph
  <2>2. Due(kk, O[t], B[t], p)
    BY DEF Unsettled
  <2>3. \A u \in Task : k1.blk_obj[u] \in O[t] => k1.prio[u] = kk.prio[u]
    BY <1>4, <1>6, <2>1
  <2> QED
    BY <1>4, <1>7, <2>2, <2>3 DEF Settled, Due
<1>10. CASE kk.prio[t] = p
  <2>1. \A w \in Task : Alive(kk, w) => Settled(kk, O, B, w)
    BY <1>1, <1>2, <1>9, <1>10 DEF Unsettled
  <2>2. AllSettled(k1, O, B)
    BY <1>2, <1>10, <2>1 DEF AllSettled
  <2>3. c1 = [k |-> k1, task |-> NoTask, pri |-> p]
    BY <1>3, <1>10
  <2> QED
    BY <1>2, <2>2, <2>3
<1>11. CASE kk.prio[t] # p /\ (k1.task_state[t] \notin Pending \/ m \notin x.exists)
  <2>1. m = kk.blk_obj[t]
    BY <1>4
  <2>2. kk.blk_obj[t] \notin x.exists
    <3>1. kk.task_state[t] \in Pending <=> kk.blk_obj[t] \in Obj
      BY <1>1 DEF WaitOK, Linked
    <3> QED
      BY <1>4, <1>11, <2>1, <3>1
  <2>3. \A w \in Task : kk.blk_obj[t] \notin O[w]
    BY <2>2 DEF Graph
  <2>4. AllSettled(k1, O, B)
    BY <1>5, <1>8, <1>9, <2>3 DEF AllSettled
  <2>5. c1 = [k |-> k1, task |-> NoTask, pri |-> p]
    BY <1>3, <1>11
  <2> QED
    BY <1>2, <2>4, <2>5
<1>12. CASE kk.prio[t] # p /\ k1.task_state[t] \in Pending /\ m \in x.exists
  <2>1. m = kk.blk_obj[t] /\ m \in Obj
    BY <1>4, <1>12
  <2>2. /\ o \in Task \ {Idle, t} /\ Alive(kk, o) /\ m \in O[o]
    BY <1>1, <1>12, <2>1 DEF Graph
  <2>3. \A w \in Task \ {o} : kk.blk_obj[t] \notin O[w]
    BY <1>1, <2>1, <2>2 DEF Graph
  <2>4. \A w \in Task \ {o} : Alive(k1, w) => Settled(k1, O, B, w)
    BY <1>5, <1>8, <1>9, <2>3
  <2>5. Due(kk, O[o], B[o], kk.prio[o]) /\ k1.prio[o] = kk.prio[o]
    BY <1>6, <2>2 DEF Unsettled, Settled
  <2>6. kk.prio[o] \in Pri /\ kk.prio[o] <= kk.prio[t] /\ B[o] \in Pri /\ O[o] \in SUBSET Obj
    BY <1>1, <1>4, <2>1, <2>2, <2>5, Zenon DEF Due
  <2>7. c1 = IF k1.prio[o] > p THEN [k |-> k1, task |-> o, pri |-> p]
             ELSE IF k1.prio[o] = kk.prio[t] /\ due # k1.prio[o]
             THEN [k |-> k1, task |-> o, pri |-> due]
             ELSE [k |-> k1, task |-> NoTask, pri |-> p]
    BY <1>3, <1>12
  <2>8. Found(kk, x, O, B, o) => due \in Pri /\ Due(k1, O[o], B[o], due)
    <3> SUFFICES ASSUME Found(kk, x, O, B, o) PROVE due \in Pri /\ Due(k1, O[o], B[o], due)
      OBVIOUS
    <3>1. ToSet(mutex_chain(x, o)) \ {NoObj} = O[o] /\ k1.b_prio[o] = B[o]
      BY <1>4, <2>6, ObjAssumption, SMTT(40) DEF Found
    <3>2. due = Min({B[o]} \cup first_waiters(k1, O[o]))
      BY <3>1 DEF mutex_pri_look
    <3> QED
      BY <1>4, <2>6, <3>2, LookIsDue
  <2> HIDE DEF due, o, m
  <2>9. p \in Int /\ kk.prio[t] \in Int /\ kk.prio[o] \in Int /\ B[o] \in Int
    BY <1>1, <1>4, <2>6, PriNat
  <2>10. \A u \in Task : k1.blk_obj[u] \in O[o] => k1.prio[u] = IF u = t THEN p ELSE kk.prio[u]
    BY <1>6, <1>7
  <2>11. CASE kk.prio[o] > p
    <3>1. p < kk.prio[t]
      BY <2>6, <2>9, <2>11
    <3>2. c1 = [k |-> k1, task |-> o, pri |-> p]
      BY <2>5, <2>7, <2>11
    <3>3. p <= B[o]
      BY <2>5, <2>9, <2>11 DEF Due
    <3>4. ASSUME NEW u \in Task, k1.blk_obj[u] \in O[o] PROVE p <= k1.prio[u]
      <4>1. kk.prio[o] <= kk.prio[u] /\ kk.prio[u] \in Int
        BY <1>4, <2>5, <3>4 DEF Due
      <4> QED
        BY <2>9, <2>10, <2>11, <3>4, <4>1
    <3>5. k1.blk_obj[t] \in O[o] /\ p = k1.prio[t]
      BY <1>4, <1>7, <2>1, <2>2
    <3>6. Due(k1, O[o], B[o], p)
      BY <1>1, <3>3, <3>4, <3>5 DEF Due
    <3>7. Unsettled(k1, O, B, o, p)
      BY <1>1, <1>5, <2>2, <2>4, <3>6 DEF Unsettled
    <3>8. p # kk.prio[t] /\ p < k1.prio[o] /\ ~(p > kk.prio[t])
      BY <2>5, <2>9, <2>11, <3>1
    <3> QED
      BY <1>2, <2>2, <3>2, <3>7, <3>8
  <2>12. CASE ~(kk.prio[o] > p) /\ kk.prio[o] = kk.prio[t] /\ due # kk.prio[o]
    <3>1. p > kk.prio[t]
      BY <1>12, <2>9, <2>12
    <3>2. c1 = [k |-> k1, task |-> o, pri |-> due]
      BY <2>5, <2>7, <2>12
    <3>3. due \in Pri /\ Due(k1, O[o], B[o], due)
      BY <2>2, <2>8, <2>12, <3>1
    <3>4. due >= kk.prio[t]
      <4>1. CASE due = B[o]
        BY <2>5, <2>12, <4>1, <2>9 DEF Due
      <4>2. CASE \E u \in Task : k1.blk_obj[u] \in O[o] /\ due = k1.prio[u]
        <5>1. PICK u \in Task : k1.blk_obj[u] \in O[o] /\ due = k1.prio[u]
          BY <4>2
        <5>2. kk.prio[o] <= kk.prio[u] /\ kk.prio[u] \in Int
          BY <1>4, <2>5, <5>1 DEF Due
        <5> QED
          BY <2>9, <2>10, <2>12, <3>1, <5>1, <5>2
      <4> QED
        BY <3>3, <4>1, <4>2 DEF Due
    <3>5. due > kk.prio[t]
      BY <2>9, <2>12, <3>3, <3>4, PriNat
    <3>6. Unsettled(k1, O, B, o, due)
      BY <1>5, <2>2, <2>4, <3>3 DEF Unsettled
    <3> QED
      BY <1>2, <1>12, <2>2, <2>5, <2>9, <2>12, <3>1, <3>2, <3>5, <3>6
  <2>13. CASE ~(kk.prio[o] > p) /\ ~(kk.prio[o] = kk.prio[t] /\ due # kk.prio[o])
    <3>1. c1 = [k |-> k1, task |-> NoTask, pri |-> p]
      BY <2>5, <2>7, <2>13
    <3>2. ASSUME kk.prio[o] = kk.prio[t] PROVE Settled(k1, O, B, o)
      <4>1. p > kk.prio[t] /\ due = kk.prio[o]
        BY <1>12, <2>9, <2>13, <3>2
      <4>2. Found(kk, x, O, B, o)
        BY <2>2, <3>2, <4>1
      <4> QED
        BY <2>5, <2>8, <4>1, <4>2 DEF Settled
    <3>3. ASSUME kk.prio[o] # kk.prio[t] PROVE Settled(k1, O, B, o)
      <4>1. kk.prio[o] <= B[o]
        BY <2>5 DEF Due
      <4>2. ASSUME NEW u \in Task, k1.blk_obj[u] \in O[o] PROVE kk.prio[o] <= k1.prio[u]
        <5>1. kk.prio[o] <= kk.prio[u] /\ kk.prio[u] \in Int
          BY <1>4, <2>5, <4>2 DEF Due
        <5> QED
          BY <2>9, <2>10, <2>13, <4>2, <5>1
      <4>3. kk.prio[o] = B[o] \/ \E u \in Task : k1.blk_obj[u] \in O[o] /\ kk.prio[o] = k1.prio[u]
        <5>1. CASE \E u \in Task : kk.blk_obj[u] \in O[o] /\ kk.prio[o] = kk.prio[u]
          <6>1. PICK u \in Task : kk.blk_obj[u] \in O[o] /\ kk.prio[o] = kk.prio[u]
            BY <5>1
          <6>2. u # t /\ k1.blk_obj[u] \in O[o]
            BY <1>4, <3>3, <6>1
          <6> QED
            BY <1>6, <6>1, <6>2
        <5> QED
          BY <2>5, <5>1 DEF Due
      <4>4. Due(k1, O[o], B[o], kk.prio[o])
        BY <4>1, <4>2, <4>3 DEF Due
      <4> QED
        BY <2>5, <4>4 DEF Settled
    <3>4. Settled(k1, O, B, o)
      BY <3>2, <3>3, Zenon
    <3>5. AllSettled(k1, O, B)
      BY <2>4, <3>4 DEF AllSettled
    <3> QED
      BY <1>2, <3>1, <3>5
  <2> QED
    BY <2>11, <2>12, <2>13
<1> QED
  BY <1>10, <1>11, <1>12

\* The function the loop of task_pri_change defines, for any number of rounds, exists ...
PriLoops(f, m, kk, x, t, p) ==
    f = [n \in 0 .. m |-> IF n = 0 THEN [k |-> kk, task |-> t, pri |-> p]
                          ELSE IF f[n - 1].task = NoTask THEN f[n - 1]
                          ELSE pri_change_round(f[n - 1], x)]

LEMMA PriLoopExists ==
    ASSUME NEW kk, NEW x, NEW t, NEW p, NEW l \in Nat
    PROVE  \E f : PriLoops(f, l, kk, x, t, p)
<1> DEFINE c0 == [k |-> kk, task |-> t, pri |-> p]
           next(c) == IF c.task = NoTask THEN c ELSE pri_change_round(c, x)
           Is(f, m) == f = [n \in 0 .. m |-> IF n = 0 THEN c0 ELSE next(f[n - 1])]
           S == {m \in Nat : \E f : Is(f, m)}
<1> HIDE DEF c0, next
<1>1. 0 \in S
  <2> DEFINE f == [n \in 0 .. 0 |-> c0]
  <2>1. Is(f, 0)
    OBVIOUS
  <2> QED
    BY <2>1
<1>2. ASSUME NEW m \in Nat, m \in S PROVE m + 1 \in S
  <2>1. PICK f : Is(f, m)
    BY <1>2
  <2> DEFINE g == [n \in 0 .. m + 1 |-> IF n <= m THEN f[n] ELSE next(f[m])]
  <2>2. ASSUME NEW n \in 0 .. m + 1
        PROVE  g[n] = IF n = 0 THEN c0 ELSE next(g[n - 1])
    <3>1. CASE n = 0
      BY <2>1, <3>1
    <3>2. CASE n \in 1 .. m
      <4>1. f[n] = next(f[n - 1])
        BY <2>1, <3>2
      <4>2. g[n] = f[n] /\ g[n - 1] = f[n - 1]
        BY <3>2
      <4> QED
        BY <3>2, <4>1, <4>2
    <3>3. CASE n = m + 1
      BY <3>3
    <3> QED
      BY <3>1, <3>2, <3>3
  <2>3. Is(g, m + 1)
    BY <2>2
  <2> HIDE DEF g
  <2> QED
    BY <2>3
<1> HIDE DEF S, Is
<1>3. l \in S
  BY <1>1, <1>2, NatInductive
<1>4. PICK f : Is(f, l)
  BY <1>3 DEF S
<1> QED
  BY <1>4 DEF Is, next, c0, PriLoops

\* ... and its last value is what the loop leaves.
LEMMA PriLoopIs ==
    ASSUME NEW kk, NEW x, NEW t, NEW p
    PROVE  \E f : /\ PriLoops(f, PriRounds, kk, x, t, p)
                  /\ task_pri_change(kk, x, t, p) =
                        IF f[PriRounds].task = NoTask THEN f[PriRounds].k
                                                      ELSE k_err_proc(f[PriRounds].k)
<1> DEFINE g == CHOOSE f : PriLoops(f, PriRounds, kk, x, t, p)
<1>1. PriRounds \in Nat
  BY MutexAssumption, FS_CardinalityType DEF PriRounds
<1>2. \E f : PriLoops(f, PriRounds, kk, x, t, p)
  BY <1>1, PriLoopExists
<1>3. PriLoops(g, PriRounds, kk, x, t, p)
  BY <1>2
<1>4. task_pri_change(kk, x, t, p) = IF g[PriRounds].task = NoTask THEN g[PriRounds].k
                                                                  ELSE k_err_proc(g[PriRounds].k)
  BY DEF task_pri_change, PriLoops
<1> HIDE DEF g
<1> QED
  BY <1>3, <1>4

LEMMA GraphRepriced ==
    ASSUME NEW kk, NEW k1, NEW x, NEW O, Graph(kk, x, O), Repriced(kk, k1)
    PROVE  Graph(k1, x, O)
  BY DEF Graph, Repriced, Alive

\* The tasks the loop may still change: those less urgent than the priority that is handed
\* on, or those that have the priority that is lost.
Late(kk, p, q0) == IF p < q0 THEN {u \in Task : kk.prio[u] > p} ELSE {u \in Task : kk.prio[u] = q0}

\* After n rounds of the loop that began with kk, t and p.
Looping(kk, O, B, t, p, n, k1, o, q) ==
    /\ Repriced(kk, k1)
    /\ p < kk.prio[t] => \A w \in Task : kk.prio[w] <= p => k1.prio[w] = kk.prio[w]
    /\ \/ o = NoTask /\ AllSettled(k1, O, B)
       \/ /\ Unsettled(k1, O, B, o, q)
          /\ p < kk.prio[t] => q = p /\ k1.prio[o] > p
          /\ ~(p < kk.prio[t]) => /\ k1.prio[o] = kk.prio[t] /\ q >= kk.prio[t]
                                  /\ p = kk.prio[t] => q = p
                                  /\ o = t \/ k1.prio[t] # kk.prio[t]
          /\ Cardinality(Late(k1, p, kk.prio[t])) + n <= PriRounds

LEMMA LoopRound ==
    ASSUME NEW kk, ReadyOK(kk), WaitOK(kk), NEW x, x.exists \subseteq Obj, NEW O, Graph(kk, x, O),
           NEW B \in [Task -> Pri], NEW t, NEW p, Unsettled(kk, O, B, t, p),
           \A w \in Task \ {t} : Alive(kk, w) /\ p > kk.prio[t] => Found(kk, x, O, B, w),
           NEW n \in Nat, NEW k1, NEW o, NEW q, Looping(kk, O, B, t, p, n, k1, o, q), o # NoTask,
           NEW c1, c1 = pri_change_round([k |-> k1, task |-> o, pri |-> q], x)
    PROVE  \E k2, o2, q2 : /\ c1 = [k |-> k2, task |-> o2, pri |-> q2]
                           /\ Looping(kk, O, B, t, p, n + 1, k2, o2, q2)
<1> DEFINE q0 == kk.prio[t]
<1>1. /\ Repriced(kk, k1) /\ Unsettled(k1, O, B, o, q)
      /\ p < q0 => q = p /\ k1.prio[o] > p
      /\ ~(p < q0) => /\ k1.prio[o] = q0 /\ q >= q0
                      /\ p = q0 => q = p
                      /\ o = t \/ k1.prio[t] # q0
      /\ Cardinality(Late(k1, p, q0)) + n <= PriRounds
      /\ p < q0 => \A w \in Task : kk.prio[w] <= p => k1.prio[w] = kk.prio[w]
  BY DEF Looping
<1>2. ReadyOK(k1) /\ WaitOK(k1) /\ Graph(k1, x, O)
  BY <1>1, GraphRepriced DEF Repriced
<1>3. /\ kk.prio \in [Task -> Pri] /\ k1.prio \in [Task -> Pri] /\ t \in Task /\ o \in Task
      /\ p \in Pri /\ q \in Pri
  BY <1>1, <1>2, KernelFields DEF ReadyOK, Unsettled
<1>4. /\ q0 \in Int /\ p \in Int /\ q \in Int /\ k1.prio[o] \in Int /\ k1.prio[t] \in Int
      /\ \A w \in Task : k1.prio[w] \in Int /\ kk.prio[w] \in Int
  BY <1>3, PriNat
<1> HIDE DEF q0
<1>5. ASSUME NEW w \in Task \ {o}, Alive(k1, w), q > k1.prio[o], k1.prio[w] = k1.prio[o]
      PROVE  Found(k1, x, O, B, w)
  <2>1. ~(p < q0)
    BY <1>1, <1>4, <1>5
  <2>2. w # t /\ p > q0
    BY <1>1, <1>4, <1>5, <2>1
  <2>3. Found(kk, x, O, B, w)
    BY <1>1, <1>5, <2>2 DEF q0, Alive, Repriced
  <2> QED
    BY <1>1, <2>3 DEF Found, Repriced
<1>6. PICK k2, o2, q2 :
             /\ c1 = [k |-> k2, task |-> o2, pri |-> q2]
             /\ Repriced(k1, k2)
             /\ k2.prio = [k1.prio EXCEPT ![o] = q]
             /\ \/ o2 = NoTask /\ AllSettled(k2, O, B)
                \/ /\ o2 # o /\ q # k1.prio[o] /\ Unsettled(k2, O, B, o2, q2)
                   /\ q < k1.prio[o] => q2 = q /\ q < k2.prio[o2]
                   /\ q > k1.prio[o] => k2.prio[o2] = k1.prio[o] /\ q2 > k1.prio[o]
  BY <1>1, <1>2, <1>5, Round
<1>7. k2.prio[o] = q /\ \A u \in Task \ {o} : k2.prio[u] = k1.prio[u]
  BY <1>3, <1>6
<1>8. Repriced(kk, k2)
  BY <1>1, <1>6, RepricedTrans
<1>9. ASSUME p < q0, NEW w \in Task, kk.prio[w] <= p PROVE k2.prio[w] = kk.prio[w]
  <2>1. k1.prio[w] = kk.prio[w]
    BY <1>1, <1>9
  <2>2. w # o
    BY <1>1, <1>4, <1>9, <2>1
  <2> QED
    BY <1>7, <2>1, <2>2
<1>10. CASE o2 = NoTask
  <2>1. AllSettled(k2, O, B)
    BY <1>6, <1>10, MutexAssumption DEF Unsettled
  <2>2. Looping(kk, O, B, t, p, n + 1, k2, o2, q2)
    BY <1>8, <1>9, <1>10, <2>1 DEF Looping, q0
  <2> QED
    BY <1>6, <2>2
<1>11. CASE o2 # NoTask
  <2>1. /\ o2 # o /\ q # k1.prio[o] /\ Unsettled(k2, O, B, o2, q2)
        /\ q < k1.prio[o] => q2 = q /\ q < k2.prio[o2]
        /\ q > k1.prio[o] => k2.prio[o2] = k1.prio[o] /\ q2 > k1.prio[o]
    BY <1>6, <1>11
  <2>2. o2 \in Task /\ q2 \in Pri /\ q2 \in Int /\ k2.prio[o2] = k1.prio[o2] /\ k1.prio[o2] \in Int
    BY <1>4, <1>7, <2>1, PriNat DEF Unsettled
  <2>3. ASSUME p < q0 PROVE q2 = p /\ k2.prio[o2] > p
    BY <1>1, <1>4, <2>1, <2>2, <2>3
  <2>4. ASSUME ~(p < q0)
        PROVE  /\ k2.prio[o2] = q0 /\ q2 >= q0
               /\ p = q0 => q2 = p
               /\ o2 = t \/ k2.prio[t] # q0
    <3>1. k1.prio[o] = q0 /\ q > q0 /\ p # q0
      BY <1>1, <1>4, <2>1, <2>4
    <3>2. k2.prio[o2] = q0 /\ q2 > q0
      BY <2>1, <3>1
    <3>3. k2.prio[t] # q0
      BY <1>1, <1>3, <1>4, <1>7, <2>4, <3>1
    <3> QED
      BY <1>4, <2>2, <3>1, <3>2, <3>3
  <2> DEFINE L1 == Late(k1, p, q0)
             L2 == Late(k2, p, q0)
  <2>5. o \in L1 /\ L1 \in SUBSET Task
    BY <1>1, <1>3 DEF Late
  <2>6. L2 = L1 \ {o}
    <3>1. CASE p < q0
      <4>1. q = p
        BY <1>1, <3>1
      <4>2. L1 = {u \in Task : k1.prio[u] > p} /\ L2 = {u \in Task : k2.prio[u] > p}
        BY <3>1 DEF Late
      <4>3. ASSUME NEW u \in Task PROVE k2.prio[u] > p <=> k1.prio[u] > p /\ u # o
        BY <1>4, <1>7, <4>1
      <4> HIDE DEF L1, L2
      <4> QED
        BY <4>2, <4>3
    <3>2. CASE ~(p < q0)
      <4>1. q # q0
        BY <1>1, <2>1, <3>2
      <4>2. L1 = {u \in Task : k1.prio[u] = q0} /\ L2 = {u \in Task : k2.prio[u] = q0}
        BY <3>2 DEF Late
      <4>3. ASSUME NEW u \in Task PROVE k2.prio[u] = q0 <=> k1.prio[u] = q0 /\ u # o
        BY <1>7, <4>1
      <4> HIDE DEF L1, L2
      <4> QED
        BY <4>2, <4>3
    <3> QED
      BY <3>1, <3>2
  <2> HIDE DEF L1, L2
  <2>7. IsFiniteSet(L1)
    BY <2>5, MutexAssumption, FS_Subset
  <2>8. Cardinality(L2) = Cardinality(L1) - 1 /\ Cardinality(L1) \in Nat
    BY <2>5, <2>6, <2>7, FS_RemoveElement, FS_CardinalityType
  <2>9. PriRounds \in Int
    BY MutexAssumption, FS_CardinalityType DEF PriRounds
  <2>10. Cardinality(L2) + (n + 1) <= PriRounds
    <3>1. Cardinality(L1) + n <= PriRounds
      BY <1>1 DEF L1
    <3> QED
      BY <2>8, <2>9, <3>1
  <2>11. Looping(kk, O, B, t, p, n + 1, k2, o2, q2)
    BY <1>8, <1>9, <2>1, <2>3, <2>4, <2>10 DEF Looping, q0, L2
  <2> QED
    BY <1>6, <2>11
<1> QED
  BY <1>10, <1>11

\* The loop ends, changes no task twice, and leaves everybody settled.  A raise changes
\* no task that is as urgent as the priority it hands on.
LEMMA PriChangeSettles ==
    ASSUME NEW kk, ReadyOK(kk), WaitOK(kk), NEW x, x.exists \subseteq Obj, NEW O, Graph(kk, x, O),
           NEW B \in [Task -> Pri], NEW t, NEW p, Unsettled(kk, O, B, t, p),
           \A w \in Task \ {t} : Alive(kk, w) /\ p > kk.prio[t] => Found(kk, x, O, B, w),
           NEW kk2, kk2 = task_pri_change(kk, x, t, p)
    PROVE  /\ Repriced(kk, kk2)
           /\ AllSettled(kk2, O, B)
           /\ p < kk.prio[t] => \A w \in Task : kk.prio[w] <= p => kk2.prio[w] = kk.prio[w]
<1>1. PICK f : /\ PriLoops(f, PriRounds, kk, x, t, p)
               /\ kk2 = IF f[PriRounds].task = NoTask THEN f[PriRounds].k
                                                     ELSE k_err_proc(f[PriRounds].k)
  BY PriLoopIs
<1>2. PriRounds \in Nat /\ IsFiniteSet(Task)
  BY MutexAssumption, FS_CardinalityType DEF PriRounds
<1>3. kk.prio \in [Task -> Pri] /\ t \in Task /\ p \in Pri /\ kk.prio[t] \in Int /\ p \in Int
  BY KernelFields, PriNat DEF ReadyOK, Unsettled
<1> DEFINE At(n) == \E k1, o, q : /\ f[n] = [k |-> k1, task |-> o, pri |-> q]
                                  /\ Looping(kk, O, B, t, p, n, k1, o, q)
           S == {n \in Nat : n <= PriRounds => At(n)}
<1>4. 0 \in S
  <2>1. f[0] = [k |-> kk, task |-> t, pri |-> p]
    BY <1>1, <1>2 DEF PriLoops
  <2>2. Repriced(kk, kk)
    BY DEF Repriced, SameCore
  <2> DEFINE L == Late(kk, p, kk.prio[t])
  <2>3. L \in SUBSET Task
    BY DEF Late
  <2> HIDE DEF L
  <2>4. Cardinality(L) <= PriRounds /\ Cardinality(L) \in Nat
    BY <1>2, <2>3, FS_Subset, FS_CardinalityType DEF PriRounds
  <2>5. Cardinality(L) + 0 <= PriRounds
    BY <1>2, <2>4
  <2>6. p < kk.prio[t] => kk.prio[t] > p
    BY <1>3
  <2>7. ~(p < kk.prio[t]) => p >= kk.prio[t]
    BY <1>3
  <2>8. Looping(kk, O, B, t, p, 0, kk, t, p)
    BY <2>2, <2>5, <2>6, <2>7 DEF Looping, L
  <2> QED
    BY <2>1, <2>8
<1>5. ASSUME NEW n \in Nat, n \in S PROVE n + 1 \in S
  <2> SUFFICES ASSUME n + 1 <= PriRounds PROVE At(n + 1)
    <3> HIDE DEF At
    <3> QED
      OBVIOUS
  <2>1. n <= PriRounds /\ n + 1 \in 0 .. PriRounds /\ n + 1 # 0 /\ (n + 1) - 1 = n
    BY <1>2
  <2>2. PICK k1, o, q : f[n] = [k |-> k1, task |-> o, pri |-> q] /\ Looping(kk, O, B, t, p, n, k1, o, q)
    BY <1>5, <2>1
  <2>3. f[n + 1] = IF f[n].task = NoTask THEN f[n] ELSE pri_change_round(f[n], x)
    BY <1>1, <2>1 DEF PriLoops
  <2>4. CASE o = NoTask
    <3>1. f[n + 1] = [k |-> k1, task |-> o, pri |-> q]
      BY <2>2, <2>3, <2>4
    <3>2. Looping(kk, O, B, t, p, n + 1, k1, o, q)
      BY <2>2, <2>4, MutexAssumption DEF Looping, Unsettled
    <3> QED
      BY <3>1, <3>2
  <2>5. CASE o # NoTask
    <3>1. f[n + 1] = pri_change_round([k |-> k1, task |-> o, pri |-> q], x)
      BY <2>2, <2>3, <2>5
    <3>2. \E k2, o2, q2 : /\ f[n + 1] = [k |-> k2, task |-> o2, pri |-> q2]
                          /\ Looping(kk, O, B, t, p, n + 1, k2, o2, q2)
      BY <2>2, <2>5, <3>1, LoopRound
    <3> QED
      BY <3>2
  <2> QED
    BY <2>4, <2>5
<1> HIDE DEF S
<1>6. PriRounds \in S
  BY <1>2, <1>4, <1>5, NatInductive
<1>7. PICK k1, o, q : /\ f[PriRounds] = [k |-> k1, task |-> o, pri |-> q]
                      /\ Looping(kk, O, B, t, p, PriRounds, k1, o, q)
  BY <1>2, <1>6 DEF S
<1>8. o = NoTask
  <2> SUFFICES ASSUME o # NoTask PROVE FALSE
    OBVIOUS
  <2> DEFINE L == Late(k1, p, kk.prio[t])
  <2>1. Cardinality(L) + PriRounds <= PriRounds
    BY <1>7 DEF Looping
  <2>2. o \in Task
    BY <1>7 DEF Looping, Unsettled
  <2>3. o \in L /\ L \in SUBSET Task
    BY <1>7, <2>2 DEF Looping, Late
  <2> HIDE DEF L
  <2>4. IsFiniteSet(L) /\ Cardinality(L) \in Nat
    BY <1>2, <2>3, FS_Subset, FS_CardinalityType
  <2>5. Cardinality(L) = 0
    BY <1>2, <2>1, <2>4
  <2> QED
    BY <2>3, <2>4, <2>5, FS_EmptySet
<1>9. kk2 = k1
  BY <1>1, <1>7, <1>8
<1> QED
  BY <1>7, <1>8, <1>9, MutexAssumption DEF Looping, Unsettled

\* A task that waits for nothing hands its priority on to nobody.
LEMMA PriChangeAlone ==
    ASSUME NEW kk, ReadyOK(kk), WaitOK(kk), NEW x, NEW t \in Task, NEW p,
           kk.task_state[t] = "K_RDY", t # Idle, p \in Pri,
           NEW kk2, kk2 = task_pri_change(kk, x, t, p)
    PROVE  kk2 = pri_change_one(kk, t, p)
<1> DEFINE k1 == pri_change_one(kk, t, p)
           c0 == [k |-> kk, task |-> t, pri |-> p]
           c1 == [k |-> k1, task |-> NoTask, pri |-> p]
<1>1. PICK f : /\ PriLoops(f, PriRounds, kk, x, t, p)
               /\ kk2 = IF f[PriRounds].task = NoTask THEN f[PriRounds].k
                                                     ELSE k_err_proc(f[PriRounds].k)
  BY PriLoopIs
<1>2. IsFiniteSet(Task) /\ PriRounds \in Nat /\ PriRounds # 0
  <2>1. IsFiniteSet(Task) /\ PriRounds = Cardinality(Task)
    BY MutexAssumption DEF PriRounds
  <2>2. Task # {}
    OBVIOUS
  <2> QED
    BY <2>1, <2>2, FS_CardinalityType, FS_EmptySet
<1>3. k1.task_state[t] \notin Pending
  <2>1. Repriced(kk, k1)
    BY OneRepriced
  <2> HIDE DEF k1
  <2> QED
    BY <2>1 DEF Repriced, Pending
<1>4. f[0] = c0
  BY <1>1, <1>2 DEF PriLoops
<1>5. 1 \in 0 .. PriRounds /\ 1 # 0 /\ 1 - 1 = 0
  BY <1>2
<1>6. f[1] = IF f[0].task = NoTask THEN f[0] ELSE pri_change_round(f[0], x)
  BY <1>1, <1>5 DEF PriLoops
<1>7. c0.task # NoTask /\ c0.k = kk /\ c0.task = t /\ c0.pri = p
  BY MutexAssumption
<1>8. f[1] = pri_change_round(c0, x)
  BY <1>4, <1>6, <1>7
<1> HIDE DEF c0
<1>9. f[1] = [c0 EXCEPT !.k = k1, !.task = NoTask]
  BY <1>3, <1>7, <1>8 DEF pri_change_round
<1>10. f[1].k = k1 /\ f[1].task = NoTask
  <2> HIDE DEF k1
  <2> QED
    BY <1>9 DEF c0
<1> DEFINE S == {n \in Nat : n + 1 <= PriRounds => f[n + 1] = f[1]}
<1>11. 0 \in S
  OBVIOUS
<1>12. ASSUME NEW n \in Nat, n \in S PROVE n + 1 \in S
  <2> SUFFICES ASSUME n + 2 <= PriRounds PROVE f[n + 2] = f[1]
    OBVIOUS
  <2>1. n + 2 \in 0 .. PriRounds /\ n + 2 # 0 /\ (n + 2) - 1 = n + 1 /\ n + 1 <= PriRounds
    BY <1>2
  <2>2. f[n + 2] = IF f[n + 1].task = NoTask THEN f[n + 1] ELSE pri_change_round(f[n + 1], x)
    BY <1>1, <2>1 DEF PriLoops
  <2> QED
    BY <1>10, <1>12, <2>1, <2>2
<1> HIDE DEF S
<1>13. PriRounds - 1 \in S
  <2>1. PriRounds - 1 \in Nat
    BY <1>2
  <2> QED
    BY <1>11, <1>12, <2>1, NatInductive
<1>14. f[PriRounds] = f[1]
  BY <1>2, <1>13 DEF S
<1> QED
  BY <1>1, <1>10, <1>14

-----------------------------------------------------------------------------
(* The invariant of the mutexes *)

Living(kk) == {t \in Task : Alive(kk, t)}

\* The list of every task of A links the mutexes it owns.
Listings(x, A) == \A t \in A : Listed(x, t, Owned(x, t))

\* Owners are tasks that have not been deleted.
Owners(kk, x) ==
    \A m \in x.exists : x.mutex_task[m] # NoTask =>
        x.mutex_task[m] \in Task \ {Idle} /\ Alive(kk, x.mutex_task[m])

\* Whoever waits for a mutex of M waits for another task.
Blockers(kk, x, M) ==
    \A u \in Task : kk.blk_obj[u] \in M =>
        kk.blk_obj[u] \in x.exists /\ x.mutex_task[kk.blk_obj[u]] \notin {NoTask, u}

\* Every task of A has the priority it is due.
Dues(kk, x, A) == \A t \in A : Due(kk, Owned(x, t), kk.b_prio[t], kk.prio[t])

MutexOK(kk, x, A, M) ==
    /\ x \in MutexState
    /\ Listings(x, A)
    /\ Owners(kk, x)
    /\ Blockers(kk, x, M)
    /\ Dues(kk, x, A)

\* What the mutexes of all tasks are.
AllOwned(x) == [t \in Task |-> Owned(x, t)]

\* Only priorities, waits and deletions matter.
LEMMA SameOK ==
    ASSUME NEW kk, NEW kk2, NEW x, NEW A, A \subseteq Task, NEW M, MutexOK(kk, x, A, M), SamePri(kk, kk2),
           kk2.blk_obj = kk.blk_obj, \A u \in Task : Alive(kk, u) => Alive(kk2, u)
    PROVE  MutexOK(kk2, x, A, M)
<1>1. Owners(kk2, x) /\ Blockers(kk2, x, M)
  BY DEF MutexOK, Owners, Blockers
<1>2. ASSUME NEW t \in A PROVE Due(kk2, Owned(x, t), kk2.b_prio[t], kk2.prio[t])
  <2>1. Due(kk, Owned(x, t), kk.b_prio[t], kk.prio[t])
    BY DEF MutexOK, Dues
  <2> QED
    BY <2>1 DEF Due, SamePri
<1> QED
  BY <1>1, <1>2 DEF MutexOK, Dues

\* Nobody owns a mutex twice, and what is owned exists.
LEMMA OwnedFacts ==
    ASSUME NEW x \in MutexState
    PROVE  /\ x.exists \subseteq Obj
           /\ \A t : Owned(x, t) \subseteq Obj
           /\ \A t : \A m \in Owned(x, t) : m \in x.exists /\ x.mutex_task[m] = t
           /\ \A t, u : t # u => Owned(x, t) \cap Owned(x, u) = {}
           /\ AllOwned(x) \in [Task -> SUBSET Obj]
           /\ \A t \in Task : AllOwned(x)[t] = Owned(x, t)
<1>1. x.exists \subseteq Obj
  BY DEF MutexState
<1> QED
  BY <1>1 DEF Owned, AllOwned

LEMMA GraphOf ==
    ASSUME NEW kk, NEW x, NEW A, MutexOK(kk, x, A, Obj)
    PROVE  Graph(kk, x, AllOwned(x))
<1>1. x \in MutexState /\ Owners(kk, x) /\ Blockers(kk, x, Obj)
  BY DEF MutexOK
<1>2. /\ x.exists \subseteq Obj
      /\ AllOwned(x) \in [Task -> SUBSET Obj]
      /\ \A t \in Task : AllOwned(x)[t] = Owned(x, t)
      /\ \A t : \A m \in Owned(x, t) : m \in x.exists /\ x.mutex_task[m] = t
  BY <1>1, OwnedFacts
<1>3. ASSUME NEW u \in Task, kk.blk_obj[u] \in x.exists
      PROVE  /\ x.mutex_task[kk.blk_obj[u]] \in Task \ {Idle, u}
             /\ Alive(kk, x.mutex_task[kk.blk_obj[u]])
             /\ kk.blk_obj[u] \in AllOwned(x)[x.mutex_task[kk.blk_obj[u]]]
  <2>1. kk.blk_obj[u] \in Obj
    BY <1>2, <1>3
  <2>2. x.mutex_task[kk.blk_obj[u]] \notin {NoTask, u}
    BY <1>1, <2>1 DEF Blockers
  <2>3. x.mutex_task[kk.blk_obj[u]] \in Task \ {Idle} /\ Alive(kk, x.mutex_task[kk.blk_obj[u]])
    BY <1>1, <1>3, <2>2 DEF Owners
  <2> QED
    BY <1>2, <1>3, <2>2, <2>3 DEF Owned
<1> QED
  BY <1>2, <1>3 DEF Graph

\* When the loop is over, the invariant holds again.
LEMMA SettledOK ==
    ASSUME NEW kk, NEW x, NEW A \in SUBSET Task, MutexOK(kk, x, {}, Obj), Listings(x, A),
           \A t \in A : Alive(kk, t), NEW kk2, Repriced(kk, kk2),
           AllSettled(kk2, AllOwned(x), kk.b_prio)
    PROVE  MutexOK(kk2, x, A, Obj)
<1>1. x \in MutexState /\ Owners(kk2, x) /\ Blockers(kk2, x, Obj)
  BY DEF MutexOK, Owners, Blockers, Repriced, Alive
<1>2. ASSUME NEW t \in A PROVE Due(kk2, Owned(x, t), kk2.b_prio[t], kk2.prio[t])
  <2>1. Settled(kk2, AllOwned(x), kk.b_prio, t)
    BY DEF AllSettled, Repriced, Alive
  <2>2. AllOwned(x)[t] = Owned(x, t) /\ kk2.b_prio = kk.b_prio
    BY <1>1, OwnedFacts DEF Repriced
  <2> QED
    BY <2>1, <2>2 DEF Settled
<1> QED
  BY <1>1, <1>2 DEF MutexOK, Dues

\* t is given the priority it is due without the mutex it releases.
LEMMA ReleaseSettles ==
    ASSUME NEW kk, ReadyOK(kk), WaitOK(kk), NEW x, x.exists \subseteq Obj, NEW O, Graph(kk, x, O),
           NEW t \in Task \ {Idle}, Alive(kk, t), NEW m,
           \A w \in Task \ {t} : Alive(kk, w) => /\ Settled(kk, O, kk.b_prio, w)
                                               /\ ToSet(mutex_chain(x, w)) = O[w],
           ToSet(mutex_chain(x, t)) \ {m} = O[t],
           NEW kk2, kk2 = mutex_release(kk, x, t, m)
    PROVE  Repriced(kk, kk2) /\ AllSettled(kk2, O, kk.b_prio)
<1> DEFINE due == mutex_pri_look(kk, x, t, m)
<1>1. O[t] \in SUBSET Obj /\ kk.b_prio \in [Task -> Pri] /\ kk.b_prio[t] \in Pri
  BY DEF Graph, ReadyOK, Kernel
<1>2. due = Min({kk.b_prio[t]} \cup first_waiters(kk, O[t]))
  BY DEF mutex_pri_look
<1>3. kk2 = IF due = kk.prio[t] THEN kk ELSE task_pri_change(kk, x, t, due)
  BY DEF mutex_release
<1> HIDE DEF due
<1>4. due \in Pri /\ Due(kk, O[t], kk.b_prio[t], due)
  BY <1>1, <1>2, LookIsDue
<1>5. CASE due = kk.prio[t]
  <2>1. kk2 = kk /\ Repriced(kk, kk)
    BY <1>3, <1>5 DEF Repriced, SameCore
  <2>2. Settled(kk, O, kk.b_prio, t)
    BY <1>4, <1>5 DEF Settled
  <2> QED
    BY <2>1, <2>2 DEF AllSettled
<1>6. CASE due # kk.prio[t]
  <2>1. kk2 = task_pri_change(kk, x, t, due)
    BY <1>3, <1>6
  <2>2. Unsettled(kk, O, kk.b_prio, t, due)
    BY <1>4 DEF Unsettled
  <2>3. \A w \in Task \ {t} : Alive(kk, w) => Found(kk, x, O, kk.b_prio, w)
    BY DEF Found
  <2> QED
    BY <1>1, <2>1, <2>2, <2>3, PriChangeSettles
<1> QED
  BY <1>5, <1>6

\* The chains the code follows are what the tasks own.
LEMMA ChainOwned ==
    ASSUME NEW x \in MutexState, NEW A \in SUBSET Task, Listings(x, A), NEW w \in A
    PROVE  ToSet(mutex_chain(x, w)) = AllOwned(x)[w]
<1>1. Listed(x, w, Owned(x, w))
  BY DEF Listings
<1> QED
  BY <1>1, ListedChain, OwnedFacts DEF Holds

\* t waits no longer, and mutex_task_pri_reset takes its priority from the owner of the
\* mutex it waited for.
LEMMA WaitEndsOK ==
    ASSUME NEW kk0, NEW x, NEW t \in Task, NEW kk, ReadyOK(kk), WaitOK(kk),
           NEW A, A = Living(kk), MutexOK(kk0, x, A, Obj), Owners(kk, x),
           SamePri(kk0, kk), kk.blk_obj[t] = NoObj,
           \A u \in Task \ {t} : kk.blk_obj[u] = kk0.blk_obj[u],
           NEW kk2, kk2 = mutex_task_pri_reset(kk, x, t, kk0.blk_obj[t])
    PROVE  MutexOK(kk2, x, A, Obj) /\ Repriced(kk, kk2)
<1> DEFINE m == kk0.blk_obj[t]
           o == x.mutex_task[m]
           O == AllOwned(x)
<1>1. x \in MutexState /\ Listings(x, A) /\ Blockers(kk0, x, Obj) /\ Dues(kk0, x, A) /\ A \in SUBSET Task
  BY DEF MutexOK, Living
<1>2. /\ x.exists \subseteq Obj /\ \A w \in Task : O[w] = Owned(x, w)
      /\ \A w : \A n \in Owned(x, w) : n \in x.exists /\ x.mutex_task[n] = w
  BY <1>1, OwnedFacts
<1>3. Blockers(kk, x, Obj)
  BY <1>1, ObjAssumption DEF Blockers
<1>4. MutexOK(kk, x, {}, Obj)
  BY <1>1, <1>3 DEF MutexOK, Listings, Dues
<1>5. Graph(kk, x, O)
  BY <1>4, GraphOf
<1>6. kk.prio = kk0.prio /\ kk.b_prio = kk0.b_prio
  BY DEF SamePri
<1>7. ASSUME NEW w \in A, m \notin Owned(x, w) \/ kk.prio[w] # kk.prio[t]
      PROVE  Settled(kk, O, kk.b_prio, w)
  <2> DEFINE S == Owned(x, w)
             p == kk.prio[w]
             b == kk.b_prio[w]
  <2>1. Due(kk0, S, b, p)
    BY <1>1, <1>6 DEF Dues
  <2> HIDE DEF S, p, b
  <2>2. p <= b /\ \A u \in Task : kk.blk_obj[u] \in S => p <= kk.prio[u]
    <3>1. NoObj \notin S
      BY <1>2, ObjAssumption DEF S
    <3> QED
      BY <1>6, <2>1, <3>1 DEF Due
  <2>3. p = b \/ \E u \in Task : kk.blk_obj[u] \in S /\ p = kk.prio[u]
    <3>1. CASE \E u \in Task : kk0.blk_obj[u] \in S /\ p = kk0.prio[u]
      <4>1. PICK u \in Task : kk0.blk_obj[u] \in S /\ p = kk0.prio[u]
        BY <3>1
      <4>2. u # t
        BY <1>6, <1>7, <4>1 DEF S, p
      <4> QED
        BY <1>6, <4>1, <4>2
    <3> QED
      BY <2>1, <3>1 DEF Due
  <2>4. Due(kk, S, b, p)
    BY <2>2, <2>3 DEF Due
  <2>5. O[w] = S
    BY <1>1, <1>2 DEF S
  <2> HIDE DEF O
  <2> QED
    BY <2>4, <2>5 DEF Settled, b, p
<1>8. \A w \in A : ToSet(mutex_chain(x, w)) = O[w]
  BY <1>1, ChainOwned
<1>9. kk2 = IF m \in x.exists /\ kk.prio[o] = kk.prio[t] THEN mutex_release(kk, x, o, NoObj) ELSE kk
  BY DEF mutex_task_pri_reset
<1>10. \A w \in Task : Alive(kk, w) <=> w \in A
  BY DEF Living
<1>11. Repriced(kk, kk2) /\ AllSettled(kk2, O, kk.b_prio)
  <2>1. CASE m \in x.exists /\ kk.prio[o] = kk.prio[t]
    <3>1. o \in Task \ {Idle} /\ Alive(kk, o)
      <4>1. m \in Obj
        BY <1>2, <2>1
      <4>2. o # NoTask
        BY <1>1, <4>1 DEF Blockers
      <4> QED
        BY <2>1, <4>2 DEF Owners
    <3>2. \A w \in Task \ {o} : Alive(kk, w) => /\ Settled(kk, O, kk.b_prio, w)
                                               /\ ToSet(mutex_chain(x, w)) = O[w]
      BY <1>2, <1>7, <1>8, <1>10
    <3>3. ToSet(mutex_chain(x, o)) \ {NoObj} = O[o]
      <4>1. ToSet(mutex_chain(x, o)) = O[o] /\ O[o] \subseteq Obj
        BY <1>8, <1>10, <3>1, <1>2
      <4> QED
        BY <4>1, ObjAssumption
    <3>4. kk2 = mutex_release(kk, x, o, NoObj)
      BY <1>9, <2>1
    <3> HIDE DEF O, o
    <3> QED
      BY <1>2, <1>5, <3>1, <3>2, <3>3, <3>4, ReleaseSettles
  <2>2. CASE ~(m \in x.exists /\ kk.prio[o] = kk.prio[t])
    <3>1. kk2 = kk /\ Repriced(kk, kk)
      BY <1>9, <2>2 DEF Repriced, SameCore
    <3>2. ASSUME NEW w \in A PROVE m \notin Owned(x, w) \/ kk.prio[w] # kk.prio[t]
      BY <1>2, <2>2
    <3>3. AllSettled(kk, O, kk.b_prio)
      BY <1>7, <1>10, <3>2 DEF AllSettled
    <3> QED
      BY <3>1, <3>3
  <2> QED
    BY <2>1, <2>2
<1> QED
  BY <1>1, <1>4, <1>10, <1>11, SettledOK

\* A task that has been woken does not sleep.
LEMMA WokenAwake ==
    ASSUME NEW kk \in Kernel, NEW t \in Task, kk.blk_obj[t] \in Obj, kk.task_state[t] \in Pending,
           NEW bs \in BlkState, NEW kk2, kk2 = end_pend(kk, t, bs)
    PROVE  kk2.task_state[t] \notin Sleeping
<1> DEFINE a == leave_lists(kk, t)
           b == [a EXCEPT !.blk_state[t] = bs]
<1>1. a \in Kernel
  BY LeaveListsPri
<1> HIDE DEF a
<1>2. b \in Kernel
  BY <1>1 DEF Kernel
<1>3. CASE kk.task_state[t] = "K_PEND"
  <2>1. kk2 = make_ready(b, t)
    BY <1>3 DEF end_pend, a
  <2> HIDE DEF b
  <2>2. kk2.task_state = [b.task_state EXCEPT ![t] = "K_RDY"] /\ b.task_state \in [Task -> TaskState]
    BY <1>2, <2>1, MakeReadyFields, KernelFields
  <2> QED
    BY <2>2 DEF Sleeping
<1>4. CASE kk.task_state[t] = "K_PEND_SUSPENDED"
  <2>1. kk2 = [b EXCEPT !.task_state[t] = "K_SUSPENDED"]
    BY <1>4 DEF end_pend, a
  <2> HIDE DEF b
  <2>2. kk2.task_state[t] = "K_SUSPENDED"
    BY <1>2, <2>1 DEF Kernel
  <2> QED
    BY <2>2 DEF Sleeping
<1> QED
  BY <1>3, <1>4 DEF Pending

\* A task that waits for an object is woken with the outcome bs.
LEMMA WokenUp ==
    ASSUME NEW kk, ReadyOK(kk), WaitOK(kk), NEW t \in Task, kk.blk_obj[t] \in Obj,
           NEW bs \in BlkState, NEW kk2, kk2 = end_pend(kk, t, bs)
    PROVE  /\ Concerns(kk, kk2, t) /\ WaitOK(kk2) /\ Spares(kk, kk2, t) /\ SamePri(kk, kk2)
           /\ kk2.blk_obj = [kk.blk_obj EXCEPT ![t] = NoObj]
           /\ kk2.blk_obj[t] = NoObj
           /\ kk2.blk_state[t] = bs
           /\ kk2.task_state[t] # "K_DELETED" /\ kk2.task_state[t] \notin Sleeping
           /\ t # Idle
<1>1. /\ WaitOK(kk2) /\ Spares(kk, kk2, t)
      /\ kk2.blk_obj = [kk.blk_obj EXCEPT ![t] = NoObj]
      /\ kk2.blk_obj[t] = NoObj
      /\ kk2.blk_state = [kk.blk_state EXCEPT ![t] = bs]
      /\ kk2.blk_state[t] = bs
      /\ kk2.task_state[t] # "K_DELETED"
      /\ kk2.prio = kk.prio
  BY EndPendWaits
<1>2. Concerns(kk, kk2, t)
  BY EndPend
<1>3. SamePri(kk, kk2)
  BY EndPendPri DEF ReadyOK
<1>4. t # Idle
  <2>1. kk.task_state[t] \in Pending /\ kk.task_state[Idle] = "K_RDY"
    BY DEF WaitOK, Linked, ReadyOK, Ready
  <2> QED
    BY <2>1 DEF Pending
<1>5. kk2.task_state[t] \notin Sleeping
  <2>1. kk \in Kernel /\ kk.task_state[t] \in Pending
    BY DEF WaitOK, Linked, ReadyOK
  <2> QED
    BY <2>1, WokenAwake
<1> QED
  BY <1>1, <1>2, <1>3, <1>4, <1>5

\* m is given to t, and put in front of its list.
Pushed(x, x2, t, m) ==
    /\ x2 \in MutexState /\ x2.exists = x.exists
    /\ x2.mutex_list = mutex_push(x, t, m).mutex_list
    /\ x2.mutex_task[m] = t
    /\ \A n \in Obj \ {m} : x2.mutex_task[n] = x.mutex_task[n]

MoreOwned(x, x2, A, next, m) ==
    /\ Owned(x2, next) = Owned(x, next) \cup {m}
    /\ \A w \in A \ {next} : Owned(x2, w) = Owned(x, w)
    /\ \A w \in A : m \notin Owned(x, w)

LEMMA GivenOwned ==
    ASSUME NEW A \in SUBSET Task, NEW x \in MutexState, NEW m \in x.exists, Listings(x, A),
           x.mutex_task[m] = NoTask, NEW next \in A,
           NEW x2, Pushed(x, x2, next, m)
    PROVE  MoreOwned(x, x2, A, next, m) /\ Listings(x2, A)
<1>1. /\ x2 \in MutexState /\ x2.exists = x.exists
      /\ x2.mutex_list = mutex_push(x, next, m).mutex_list
      /\ x2.mutex_task[m] = next
      /\ \A n \in Obj \ {m} : x2.mutex_task[n] = x.mutex_task[n]
  BY DEF Pushed
<1>2. m \in Obj /\ m # NoObj /\ x.exists \subseteq Obj
  BY OwnedFacts, ObjAssumption
<1>12. /\ Owned(x2, next) = Owned(x, next) \cup {m} /\ m \notin Owned(x, next)
       /\ \A w \in A \ {next} : Owned(x2, w) = Owned(x, w)
       /\ \A w \in A : m \notin Owned(x, w)
  <2>1. next # NoTask /\ \A w \in A : w # NoTask
    BY MutexAssumption
  <2>2. \A w : \A n \in Obj \ {m} : n \in Owned(x2, w) <=> n \in Owned(x, w)
    BY <1>1 DEF Owned
  <2>3. \A w : Owned(x, w) \subseteq Obj /\ Owned(x2, w) \subseteq Obj
    BY <1>1, OwnedFacts
  <2>4. \A w \in A : m \notin Owned(x, w)
    BY <2>1 DEF Owned
  <2>5. m \in Owned(x2, next) /\ \A w \in A \ {next} : m \notin Owned(x2, w)
    BY <1>1 DEF Owned
  <2>6. Owned(x2, next) = Owned(x, next) \cup {m}
    BY <1>2, <2>2, <2>3, <2>5
  <2>7. ASSUME NEW w \in A \ {next} PROVE Owned(x2, w) = Owned(x, w)
    <3>1. Owned(x, w) \subseteq Obj \ {m} /\ Owned(x2, w) \subseteq Obj \ {m}
      BY <2>3, <2>4, <2>5
    <3>2. \A n \in Obj \ {m} : n \in Owned(x2, w) <=> n \in Owned(x, w)
      BY <2>2
    <3> QED
      BY <3>1, <3>2
  <2> QED
    BY <2>4, <2>6, <2>7
<1>13. Listings(x2, A)
  <2>1. ASSUME NEW w \in A PROVE Listed(x, w, Owned(x, w)) /\ w \in Task
    BY DEF Listings
  <2>2. Listed(x2, next, Owned(x, next) \cup {m})
    BY <1>2, <1>12, <2>1, <1>1, PushListed
  <2>3. ASSUME NEW w \in A \ {next} PROVE Listed(x2, w, Owned(x, w))
    <3>1. w \in Task \ {next} /\ m \notin Owned(x, w) /\ Listed(x, w, Owned(x, w))
      BY <1>12, <2>1
    <3> QED
      BY <1>2, <3>1, <1>1, PushOthers
  <2> QED
    BY <1>12, <2>2, <2>3 DEF Listings
<1> QED
  BY <1>12, <1>13 DEF MoreOwned

\* m, which belongs to nobody, goes to the first task that waits for it.
LEMMA HandOverOK ==
    ASSUME NEW kk, ReadyOK(kk), WaitOK(kk), NEW A \in SUBSET Task, NEW x, NEW m \in x.exists,
           x.mutex_task[m] = NoTask, MutexOK(kk, x, A, Obj \ {m}),
           NEW next \in A, kk.blk_obj[next] = m,
           \A u \in Task : kk.blk_obj[u] = m => kk.prio[next] <= kk.prio[u],
           NEW kk2, SamePri(kk, kk2), kk2.blk_obj[next] = NoObj,
           \A u \in Task \ {next} : kk2.blk_obj[u] = kk.blk_obj[u],
           \A u \in Task : Alive(kk, u) => Alive(kk2, u), Alive(kk2, next), next # Idle,
           NEW x2, Pushed(x, x2, next, m)
    PROVE  MutexOK(kk2, x2, A, Obj)
<1>1. /\ x \in MutexState /\ Listings(x, A) /\ Owners(kk, x) /\ Blockers(kk, x, Obj \ {m})
      /\ Dues(kk, x, A)
  BY DEF MutexOK
<1>2. m \in Obj /\ m # NoObj /\ x.exists \subseteq Obj
  BY <1>1, OwnedFacts, ObjAssumption
<1>3. /\ kk.blk_obj[next] = m /\ next \in Task
      /\ \A u \in Task : kk.blk_obj[u] = m => kk.prio[next] <= kk.prio[u]
  OBVIOUS
<1>4. kk \in Kernel /\ kk.blk_obj \in [Task -> Obj \cup {NoObj}]
  BY KernelFields DEF ReadyOK
<1>10. /\ \A u \in Task \ {next} : kk2.blk_obj[u] = kk.blk_obj[u]
       /\ kk2.blk_obj[next] = NoObj
       /\ kk2.prio = kk.prio /\ kk2.b_prio = kk.b_prio
       /\ \A u \in Task : Alive(kk, u) => Alive(kk2, u)
  BY DEF SamePri
<1>11. /\ x2 \in MutexState /\ x2.exists = x.exists /\ x2.mutex_task[m] = next
       /\ \A n \in Obj \ {m} : x2.mutex_task[n] = x.mutex_task[n]
  BY DEF Pushed
<1>12. MoreOwned(x, x2, A, next, m) /\ Listings(x2, A)
  BY <1>1, <1>2, GivenOwned
<1>13. /\ Owned(x2, next) = Owned(x, next) \cup {m}
       /\ \A w \in A \ {next} : Owned(x2, w) = Owned(x, w)
       /\ \A w \in A : m \notin Owned(x, w)
  BY <1>12 DEF MoreOwned
<1>14. Owners(kk2, x2)
  <2> SUFFICES ASSUME NEW n \in x2.exists, x2.mutex_task[n] # NoTask
               PROVE  x2.mutex_task[n] \in Task \ {Idle} /\ Alive(kk2, x2.mutex_task[n])
    BY DEF Owners
  <2>1. CASE n = m
    BY <1>3, <1>11, <2>1
  <2>2. CASE n # m
    BY <1>1, <1>2, <1>10, <1>11, <2>2 DEF Owners
  <2> QED
    BY <2>1, <2>2
<1>15. Blockers(kk2, x2, Obj)
  <2> SUFFICES ASSUME NEW u \in Task, kk2.blk_obj[u] \in Obj
               PROVE  /\ kk2.blk_obj[u] \in x2.exists
                      /\ x2.mutex_task[kk2.blk_obj[u]] \notin {NoTask, u}
    BY DEF Blockers
  <2>1. u # next /\ kk2.blk_obj[u] = kk.blk_obj[u]
    BY <1>10, ObjAssumption
  <2>2. CASE kk.blk_obj[u] = m
    BY <1>3, <1>11, <2>1, <2>2, MutexAssumption
  <2>3. CASE kk.blk_obj[u] # m
    BY <1>1, <1>11, <2>1, <2>3 DEF Blockers
  <2> QED
    BY <2>2, <2>3
<1>16. ASSUME NEW w \in A PROVE Due(kk2, Owned(x2, w), kk2.b_prio[w], kk2.prio[w])
  <2>1. Due(kk, Owned(x, w), kk.b_prio[w], kk.prio[w])
    BY <1>1 DEF Dues
  <2>2. NoObj \notin Owned(x2, w)
    BY <1>11, OwnedFacts, ObjAssumption
  <2>3. ASSUME NEW u \in Task, kk.blk_obj[u] \in Owned(x, w)
        PROVE  kk2.blk_obj[u] \in Owned(x2, w)
    BY <1>3, <1>10, <1>13, <2>3
  <2>4. ASSUME NEW u \in Task, kk2.blk_obj[u] \in Owned(x2, w)
        PROVE  kk.prio[w] <= kk.prio[u]
    <3>1. u # next /\ kk.blk_obj[u] \in Owned(x2, w)
      BY <1>10, <2>2, <2>4
    <3>2. CASE kk.blk_obj[u] \in Owned(x, w)
      BY <2>1, <3>2 DEF Due
    <3>3. CASE kk.blk_obj[u] \notin Owned(x, w)
      <4>1. w = next /\ kk.blk_obj[u] = m
        BY <1>13, <3>1, <3>3
      <4> QED
        BY <1>3, <4>1
    <3> QED
      BY <3>2, <3>3
  <2>5. kk.prio[w] = kk.b_prio[w] \/ \E u \in Task : kk2.blk_obj[u] \in Owned(x2, w) /\ kk.prio[w] = kk.prio[u]
    BY <2>1, <2>3 DEF Due
  <2>6. kk.prio[w] <= kk.b_prio[w]
    BY <2>1 DEF Due
  <2> QED
    BY <1>10, <2>4, <2>5, <2>6 DEF Due
<1> QED
  BY <1>11, <1>12, <1>14, <1>15, <1>16 DEF MutexOK, Dues

\* m loses its owner, and xm is what x becomes.
Orphaned(kk, x, A, m, xm) ==
    /\ xm \in MutexState /\ xm.exists = x.exists /\ xm.mutex_task[m] = NoTask
    /\ \A n \in Obj \ {m} : xm.mutex_task[n] = x.mutex_task[n]
    /\ \A w \in A : /\ Listed(xm, w, Owned(x, w) \ {m})
                    /\ Due(kk, Owned(x, w) \ {m}, kk.b_prio[w], kk.prio[w])

OwnedLess(x, xm, m) == \A w \in Task : Owned(xm, w) = Owned(x, w) \ {m}

LEMMA OrphanOK ==
    ASSUME NEW kk, NEW x, MutexOK(kk, x, {}, Obj), NEW A \in SUBSET Task, NEW m \in x.exists,
           NEW xm, Orphaned(kk, x, A, m, xm)
    PROVE  /\ OwnedLess(x, xm, m)
           /\ MutexOK(kk, xm, A, Obj \ {m})
           /\ (\A u \in Task : kk.blk_obj[u] # m) => MutexOK(kk, xm, A, Obj)
<1>1. x \in MutexState /\ Owners(kk, x) /\ Blockers(kk, x, Obj)
  BY DEF MutexOK
<1>2. m \in Obj /\ x.exists \subseteq Obj
  BY <1>1, OwnedFacts
<1>3. /\ xm \in MutexState /\ xm.exists = x.exists /\ xm.mutex_task[m] = NoTask
      /\ \A n \in Obj \ {m} : xm.mutex_task[n] = x.mutex_task[n]
      /\ \A w \in A : /\ Listed(xm, w, Owned(x, w) \ {m})
                      /\ Due(kk, Owned(x, w) \ {m}, kk.b_prio[w], kk.prio[w])
  BY DEF Orphaned
<1>4. ASSUME NEW w \in Task PROVE Owned(xm, w) = Owned(x, w) \ {m}
  <2>1. w # NoTask
    BY MutexAssumption
  <2>2. Owned(xm, w) \subseteq Obj /\ Owned(x, w) \subseteq Obj
    BY <1>1, <1>3, OwnedFacts
  <2>3. m \notin Owned(xm, w)
    BY <1>3, <2>1 DEF Owned
  <2>4. \A n \in Obj \ {m} : n \in Owned(xm, w) <=> n \in Owned(x, w)
    BY <1>3 DEF Owned
  <2> QED
    BY <2>2, <2>3, <2>4
<1>5. Listings(xm, A) /\ Dues(kk, xm, A)
  BY <1>3, <1>4 DEF Listings, Dues
<1>6. Owners(kk, xm)
  BY <1>1, <1>2, <1>3 DEF Owners
<1>7. Blockers(kk, xm, Obj \ {m})
  BY <1>1, <1>3 DEF Blockers
<1>8. ASSUME \A u \in Task : kk.blk_obj[u] # m PROVE Blockers(kk, xm, Obj)
  BY <1>7, <1>8 DEF Blockers
<1> QED
  BY <1>3, <1>4, <1>5, <1>6, <1>7, <1>8 DEF MutexOK, OwnedLess

\* n is whom m goes to: one of the most urgent tasks that wait for it, or nobody.
Successor(kk, m, n) ==
    \/ n = NoTask /\ \A u \in Task : kk.blk_obj[u] # m
    \/ /\ n \in Task /\ kk.blk_obj[n] = m
       /\ \A u \in Task : kk.blk_obj[u] = m => kk.prio[n] <= kk.prio[u]

\* The loop of task_mutex_free, which began with kk0 and x0, has left t the mutexes of R.
Freed(kk0, x0, t, kk, x, R) ==
    /\ ReadyOK(kk) /\ WaitOK(kk) /\ SameCore(kk0, kk) /\ SamePri(kk0, kk)
    /\ MutexOK(kk, x, Living(kk0) \ {t}, Obj)
    /\ x.exists = x0.exists
    /\ Owned(x, t) = R
    /\ \A m \in Obj \ Owned(x0, t) : x.mutex_task[m] = x0.mutex_task[m]
    /\ \A m \in Owned(x0, t) \ R : Successor(kk0, m, x.mutex_task[m])
    /\ \A u \in Task :
          \/ /\ kk.task_state[u] = kk0.task_state[u] /\ kk.blk_obj[u] = kk0.blk_obj[u]
             /\ kk.blk_state[u] = kk0.blk_state[u]
          \/ /\ Alive(kk, u) /\ Alive(kk0, u) /\ kk.blk_obj[u] = NoObj /\ kk.task_state[u] \notin Sleeping
             /\ kk.blk_state[u] = "BLK_FINISH"
             /\ kk0.blk_obj[u] \in Owned(x0, t) \ R /\ x.mutex_task[kk0.blk_obj[u]] = u

\* What the loop works on.
IsPair(c) == c = [k |-> c.k, x |-> c.x]

LEMMA FreeOneOK ==
    ASSUME NEW kk0, NEW x0 \in MutexState, NEW t \in Task, NEW kk, NEW x, NEW R \in SUBSET Owned(x0, t),
           NEW m \in R, Freed(kk0, x0, t, kk, x, R),
           NEW c, IsPair(c), c.k = kk, c.x = x, NEW s, s = mutex_free_one(c, m)
    PROVE  IsPair(s) /\ Freed(kk0, x0, t, s.k, s.x, R \ {m})
<1>0. c = [k |-> kk, x |-> x]
  BY DEF IsPair
<1> DEFINE A == Living(kk0) \ {t}
           xm == [x EXCEPT !.mutex_task[m] = NoTask]
           next == Head(kk.blk_list[m])
<1>1. /\ ReadyOK(kk) /\ WaitOK(kk) /\ SameCore(kk0, kk) /\ SamePri(kk0, kk)
      /\ MutexOK(kk, x, A, Obj) /\ x.exists = x0.exists /\ Owned(x, t) = R
      /\ x \in MutexState /\ Listings(x, A) /\ Owners(kk, x) /\ Blockers(kk, x, Obj) /\ Dues(kk, x, A)
  BY DEF Freed, MutexOK
<1>2. A \in SUBSET Task /\ t \notin A
  BY DEF Living
<1>3. /\ m \in x.exists /\ m \in Obj /\ m # NoObj /\ x.mutex_task[m] = t /\ x.exists \subseteq Obj
      /\ \A w \in A : m \notin Owned(x, w)
  BY <1>1, <1>2, OwnedFacts, ObjAssumption DEF Owned
<1>4. /\ xm \in MutexState /\ xm.exists = x.exists /\ xm.mutex_list = x.mutex_list
      /\ xm.mutex_task = [x.mutex_task EXCEPT ![m] = NoTask]
  BY <1>1 DEF MutexState
<1> HIDE DEF xm
<1>5. /\ OwnedLess(x, xm, m)
      /\ MutexOK(kk, xm, A, Obj \ {m})
      /\ (\A u \in Task : kk.blk_obj[u] # m) => MutexOK(kk, xm, A, Obj)
  <2>1. MutexOK(kk, x, {}, Obj)
    BY <1>1 DEF MutexOK, Listings, Dues
  <2>2. ASSUME NEW w \in A
        PROVE  /\ Listed(xm, w, Owned(x, w) \ {m})
               /\ Due(kk, Owned(x, w) \ {m}, kk.b_prio[w], kk.prio[w])
    <3>1. Listed(x, w, Owned(x, w)) /\ Due(kk, Owned(x, w), kk.b_prio[w], kk.prio[w])
      BY <1>1 DEF Listings, Dues
    <3>2. Listed(xm, w, Owned(x, w))
      BY <1>4, <3>1, SameLinks
    <3>3. Owned(x, w) \ {m} = Owned(x, w)
      BY <1>3
    <3> QED
      BY <3>1, <3>2, <3>3
  <2>3. Orphaned(kk, x, A, m, xm)
    <3>1. /\ xm.mutex_task[m] = NoTask
          /\ \A n \in Obj \ {m} : xm.mutex_task[n] = x.mutex_task[n]
      BY <1>1, <1>3, <1>4 DEF MutexState
    <3> QED
      BY <1>4, <2>2, <3>1 DEF Orphaned
  <2>4. A \in SUBSET Task /\ m \in x.exists
    BY <1>2, <1>3
  <2> HIDE DEF A
  <2> QED
    BY <2>1, <2>3, <2>4, OrphanOK
<1>6. /\ \A n \in Obj \ {m} : xm.mutex_task[n] = x.mutex_task[n]
      /\ \A n \in Obj \ Owned(x0, t) : x.mutex_task[n] = x0.mutex_task[n] /\ n # m
      /\ Owned(xm, t) = R \ {m}
  BY <1>1, <1>3, <1>4, <1>5 DEF Freed, MutexState, OwnedLess
<1>7. \A u \in Task :
          \/ /\ kk.task_state[u] = kk0.task_state[u] /\ kk.blk_obj[u] = kk0.blk_obj[u]
             /\ kk.blk_state[u] = kk0.blk_state[u]
          \/ /\ Alive(kk, u) /\ Alive(kk0, u) /\ kk.blk_obj[u] = NoObj /\ kk.task_state[u] \notin Sleeping
             /\ kk.blk_state[u] = "BLK_FINISH"
             /\ kk0.blk_obj[u] \in Owned(x0, t) \ R /\ x.mutex_task[kk0.blk_obj[u]] = u
  BY DEF Freed
<1>7a. /\ \A u \in Task : kk.blk_obj[u] = m <=> kk0.blk_obj[u] = m
       /\ kk.prio = kk0.prio
       /\ \A n \in Owned(x0, t) \ R : Successor(kk0, n, x.mutex_task[n]) /\ n \in Obj \ {m}
       /\ \A n \in Owned(x0, t) \ (R \ {m}) : n = m \/ n \in Owned(x0, t) \ R
  <2>1. \A n \in Owned(x0, t) \ R : Successor(kk0, n, x.mutex_task[n]) /\ n \in Obj \ {m}
    BY OwnedFacts DEF Freed
  <2> QED
    BY <1>1, <1>3, <1>7, <2>1 DEF SamePri
<1>8. CASE kk.blk_list[m] = <<>>
  <2>1. s = [k |-> kk, x |-> xm]
    BY <1>0, <1>8 DEF mutex_free_one, xm
  <2>2. \A u \in Task : kk.blk_obj[u] # m
    BY <1>1, <1>3, <1>8, WaitersListed
  <2>3. MutexOK(kk, xm, A, Obj)
    BY <1>5, <2>2
  <2>4. ASSUME NEW u \in Task
        PROVE  \/ /\ kk.task_state[u] = kk0.task_state[u] /\ kk.blk_obj[u] = kk0.blk_obj[u]
                  /\ kk.blk_state[u] = kk0.blk_state[u]
               \/ /\ Alive(kk, u) /\ Alive(kk0, u) /\ kk.blk_obj[u] = NoObj /\ kk.task_state[u] \notin Sleeping
                  /\ kk.blk_state[u] = "BLK_FINISH"
                  /\ kk0.blk_obj[u] \in Owned(x0, t) \ (R \ {m})
                  /\ xm.mutex_task[kk0.blk_obj[u]] = u
    <3>1. \A n \in Owned(x0, t) \ R : n \in Obj \ {m}
      BY OwnedFacts
    <3> QED
      BY <1>6, <1>7, <3>1
  <2>4a. \A n \in Owned(x0, t) \ (R \ {m}) : Successor(kk0, n, xm.mutex_task[n])
    <3>1. Successor(kk0, m, xm.mutex_task[m])
      BY <1>1, <1>3, <1>4, <1>7a, <2>2 DEF Successor, MutexState
    <3> QED
      BY <1>6, <1>7a, <3>1
  <2>5. Freed(kk0, x0, t, kk, xm, R \ {m})
    BY <1>1, <1>4, <1>6, <2>3, <2>4, <2>4a DEF Freed
  <2>6. s.k = kk /\ s.x = xm /\ IsPair(s)
    BY <2>1 DEF IsPair
  <2> QED
    BY <2>5, <2>6
<1>9. CASE kk.blk_list[m] # <<>>
  <2> DEFINE kk2 == pend_task_wakeup(kk, next)
             x2 == mutex_hand_over(x, next, m)
  <2>1. s = [k |-> kk2, x |-> x2]
    BY <1>0, <1>9 DEF mutex_free_one
  <2>2. next \in Task /\ kk.blk_obj[next] = m
    BY <1>1, <1>3, <1>9, FirstWaiter
  <2>3. /\ x2 \in MutexState /\ x2.exists = xm.exists
        /\ x2.mutex_list = mutex_push(xm, next, m).mutex_list
        /\ x2.mutex_task = [x.mutex_task EXCEPT ![m] = next]
    <3> HIDE DEF next
    <3>1. mutex_push(x, next, m).mutex_list = mutex_push(xm, next, m).mutex_list
      BY <1>1, <1>4 DEF mutex_push, MutexState
    <3>2. mutex_push(x, next, m) = [x EXCEPT !.mutex_list = mutex_push(x, next, m).mutex_list]
      BY <1>1 DEF mutex_push, MutexState
    <3>3. mutex_push(x, next, m).mutex_list \in [Task \cup Obj -> Obj \cup {NoObj}]
      BY <1>1, <1>3, <2>2 DEF mutex_push, MutexState
    <3>4. /\ mutex_push(x, next, m) \in MutexState
          /\ mutex_push(x, next, m).exists = x.exists
          /\ mutex_push(x, next, m).mutex_task = x.mutex_task
      BY <1>1, <3>2, <3>3 DEF MutexState
    <3>5. /\ x2 \in MutexState /\ x2.exists = x.exists
          /\ x2.mutex_list = mutex_push(x, next, m).mutex_list
          /\ x2.mutex_task = [x.mutex_task EXCEPT ![m] = next]
      BY <1>3, <2>2, <3>4 DEF mutex_hand_over, MutexState
    <3> QED
      BY <1>4, <3>1, <3>5
  <2> HIDE DEF x2
  <2>4. kk.task_state[next] \in Pending /\ kk.blk_obj[next] \in Obj
    BY <1>1, <1>3, <2>2 DEF WaitOK, Linked
  <2>5. /\ Concerns(kk, kk2, next) /\ WaitOK(kk2) /\ Spares(kk, kk2, next) /\ SamePri(kk, kk2)
        /\ kk2.blk_obj = [kk.blk_obj EXCEPT ![next] = NoObj]
        /\ kk2.blk_obj[next] = NoObj
        /\ kk2.blk_state[next] = "BLK_FINISH"
        /\ kk2.task_state[next] # "K_DELETED" /\ kk2.task_state[next] \notin Sleeping
        /\ next # Idle
    <3> HIDE DEF next
    <3>1. kk2 = end_pend(kk, next, "BLK_FINISH") /\ "BLK_FINISH" \in BlkState
      BY DEF pend_task_wakeup, BlkState
    <3> HIDE DEF kk2
    <3> QED
      BY <1>1, <2>2, <2>4, <3>1, WokenUp
  <2> HIDE DEF kk2
  <2>6. /\ ReadyOK(kk2) /\ SameCore(kk, kk2)
        /\ \A u \in Task \ {next} : /\ kk2.task_state[u] = kk.task_state[u]
                                    /\ kk2.blk_obj[u] = kk.blk_obj[u]
                                    /\ kk2.blk_state[u] = kk.blk_state[u]
    BY <2>5 DEF Concerns, Spares
  <2>7. next \in A /\ next # t /\ Alive(kk0, next) /\ kk0.blk_obj[next] = m
    <3>1. x.mutex_task[kk.blk_obj[next]] # next
      BY <1>1, <2>2, <2>4 DEF Blockers
    <3>2. next # t
      BY <1>3, <2>2, <3>1
    <3>3. kk.task_state[next] = kk0.task_state[next] /\ kk0.blk_obj[next] = m
      BY <1>3, <1>7, <2>2
    <3>4. Alive(kk0, next)
      BY <2>4, <3>3 DEF Alive, Pending
    <3> QED
      BY <2>2, <3>2, <3>3, <3>4 DEF Living
  <2>7a. \A u \in Task : kk.blk_obj[u] = m => kk.prio[next] <= kk.prio[u]
    <3>1. \A u \in ToSet(kk.blk_list[m]) : kk.prio[next] <= kk.prio[u]
      BY <1>1, <1>3, <1>9, FirstWaiter
    <3>2. ToSet(kk.blk_list[m]) = {u \in Task : kk.blk_obj[u] = m}
      BY <1>1, <1>3, WaitersListed
    <3> QED
      BY <3>1, <3>2
  <2>8. MutexOK(kk2, x2, A, Obj)
    <3>1. xm.mutex_task[m] = NoTask /\ m \in xm.exists
      BY <1>1, <1>3, <1>4 DEF MutexState
    <3>2. \A u \in Task : Alive(kk, u) => Alive(kk2, u)
      BY <2>5, <2>6 DEF Alive
    <3>3. Alive(kk2, next)
      BY <2>5 DEF Alive
    <3>4. \A u \in Task : kk.blk_obj[u] = m => kk.prio[next] <= kk.prio[u]
      BY <2>7a
    <3> HIDE DEF next, A
    <3> QED
      <4>1. /\ MutexOK(kk, xm, A, Obj \ {m}) /\ A \in SUBSET Task /\ next \in A
            /\ SamePri(kk, kk2) /\ kk2.blk_obj[next] = NoObj /\ next # Idle
            /\ \A u \in Task \ {next} : kk2.blk_obj[u] = kk.blk_obj[u]
        BY <1>2, <1>5, <2>5, <2>6, <2>7
      <4>2. Pushed(xm, x2, next, m)
        <5>1. /\ x2.mutex_task[m] = next
              /\ \A n \in Obj \ {m} : x2.mutex_task[n] = xm.mutex_task[n]
          BY <1>1, <1>3, <1>4, <2>3 DEF MutexState
        <5> QED
          BY <2>3, <5>1 DEF Pushed
      <4>3. ReadyOK(kk) /\ WaitOK(kk)
        BY <1>1
      <4> QED
        BY <2>2, <3>1, <3>2, <3>3, <3>4, <4>1, <4>2, <4>3, HandOverOK
  <2> HIDE DEF next
  <2>9. /\ \A n \in Obj \ {m} : x2.mutex_task[n] = x.mutex_task[n]
        /\ x2.mutex_task[m] = next
    BY <1>1, <1>3, <2>3 DEF MutexState
  <2>10. Owned(x2, t) = R \ {m}
    <3>1. \A n \in Obj \ {m} : n \in Owned(x2, t) <=> n \in Owned(x, t)
      BY <1>4, <2>3, <2>9 DEF Owned
    <3>2. m \notin Owned(x2, t)
      BY <2>7, <2>9 DEF Owned
    <3>3. Owned(x2, t) \subseteq Obj /\ Owned(x, t) \subseteq Obj
      BY <1>1, <2>3, OwnedFacts
    <3> QED
      BY <1>1, <3>1, <3>2, <3>3
  <2>11. ASSUME NEW u \in Task
         PROVE  \/ /\ kk2.task_state[u] = kk0.task_state[u] /\ kk2.blk_obj[u] = kk0.blk_obj[u]
                   /\ kk2.blk_state[u] = kk0.blk_state[u]
                \/ /\ Alive(kk2, u) /\ Alive(kk0, u) /\ kk2.blk_obj[u] = NoObj /\ kk2.task_state[u] \notin Sleeping
                   /\ kk2.blk_state[u] = "BLK_FINISH"
                   /\ kk0.blk_obj[u] \in Owned(x0, t) \ (R \ {m})
                   /\ x2.mutex_task[kk0.blk_obj[u]] = u
    <3>1. CASE u = next
      BY <2>5, <2>7, <2>9, <3>1 DEF Alive
    <3>2. CASE u # next
      <4>1. /\ kk2.task_state[u] = kk.task_state[u] /\ kk2.blk_obj[u] = kk.blk_obj[u]
            /\ kk2.blk_state[u] = kk.blk_state[u]
        BY <2>6, <3>2
      <4>2. \A n \in Owned(x0, t) \ R : n \in Obj \ {m}
        BY OwnedFacts
      <4> QED
        BY <1>7, <2>9, <4>1, <4>2 DEF Alive
    <3> QED
      BY <3>1, <3>2
  <2>12. SameCore(kk0, kk2) /\ SamePri(kk0, kk2)
    BY <1>1, <2>5, <2>6 DEF SameCore, SamePri
  <2>13. /\ x2.exists = x0.exists
         /\ \A n \in Obj \ Owned(x0, t) : x2.mutex_task[n] = x0.mutex_task[n]
    BY <1>1, <1>4, <1>6, <2>3, <2>9
  <2>13a. \A n \in Owned(x0, t) \ (R \ {m}) : Successor(kk0, n, x2.mutex_task[n])
    <3>1. Successor(kk0, m, next)
      BY <1>7a, <2>2, <2>7a DEF Successor
    <3> QED
      BY <1>7a, <2>9, <3>1
  <2>14. Freed(kk0, x0, t, kk2, x2, R \ {m})
    BY <2>5, <2>6, <2>8, <2>10, <2>11, <2>12, <2>13, <2>13a DEF Freed
  <2>15. s.k = kk2 /\ s.x = x2 /\ IsPair(s)
    BY <2>1 DEF IsPair
  <2> QED
    BY <2>14, <2>15
<1> QED
  BY <1>8, <1>9

\* The function the loop of task_mutex_free defines, for a list of any length, exists ...
FreeLoops(f, l, kk, x, held) ==
    f = [n \in 0 .. l |-> IF n = 0 THEN [k |-> kk, x |-> x] ELSE mutex_free_one(f[n - 1], held[n])]

LEMMA FreeLoopExists ==
    ASSUME NEW kk, NEW x, NEW held, NEW l \in Nat
    PROVE  \E f : FreeLoops(f, l, kk, x, held)
<1> DEFINE c0 == [k |-> kk, x |-> x]
           next(c, n) == mutex_free_one(c, held[n])
           Is(f, m) == f = [n \in 0 .. m |-> IF n = 0 THEN c0 ELSE next(f[n - 1], n)]
           S == {m \in Nat : \E f : Is(f, m)}
<1> HIDE DEF c0, next
<1>1. 0 \in S
  <2> DEFINE f == [n \in 0 .. 0 |-> c0]
  <2>1. Is(f, 0)
    OBVIOUS
  <2> QED
    BY <2>1
<1>2. ASSUME NEW m \in Nat, m \in S PROVE m + 1 \in S
  <2>1. PICK f : Is(f, m)
    BY <1>2
  <2> DEFINE g == [n \in 0 .. m + 1 |-> IF n <= m THEN f[n] ELSE next(f[m], m + 1)]
  <2>2. ASSUME NEW n \in 0 .. m + 1
        PROVE  g[n] = IF n = 0 THEN c0 ELSE next(g[n - 1], n)
    <3>1. CASE n = 0
      BY <2>1, <3>1
    <3>2. CASE n \in 1 .. m
      <4>1. f[n] = next(f[n - 1], n)
        BY <2>1, <3>2
      <4>2. g[n] = f[n] /\ g[n - 1] = f[n - 1]
        BY <3>2
      <4> QED
        BY <3>2, <4>1, <4>2
    <3>3. CASE n = m + 1
      BY <3>3
    <3> QED
      BY <3>1, <3>2, <3>3
  <2>3. Is(g, m + 1)
    BY <2>2
  <2> HIDE DEF g
  <2> QED
    BY <2>3
<1> HIDE DEF S, Is
<1>3. l \in S
  BY <1>1, <1>2, NatInductive
<1>4. PICK f : Is(f, l)
  BY <1>3 DEF S
<1> QED
  BY <1>4 DEF Is, next, c0, FreeLoops

\* ... and its last value is what the loop leaves.
LEMMA FreeLoopIs ==
    ASSUME NEW kk, NEW x, NEW t, NEW held, held = mutex_chain(x, t), Len(held) \in Nat
    PROVE  \E f : FreeLoops(f, Len(held), kk, x, held) /\ task_mutex_free(kk, x, t) = f[Len(held)]
<1> DEFINE g == CHOOSE f : FreeLoops(f, Len(held), kk, x, held)
<1>1. \E f : FreeLoops(f, Len(held), kk, x, held)
  BY FreeLoopExists
<1>2. FreeLoops(g, Len(held), kk, x, held)
  BY <1>1
<1>3. task_mutex_free(kk, x, t) = g[Len(held)]
  BY DEF task_mutex_free, FreeLoops
<1> HIDE DEF g
<1> QED
  BY <1>2, <1>3

\* The loop leaves t no mutex, and everybody else settled.
LEMMA FreeSettles ==
    ASSUME NEW kk, NEW x, ReadyOK(kk), WaitOK(kk), MutexOK(kk, x, Living(kk), Obj),
           NEW t \in Living(kk), NEW s, s = task_mutex_free(kk, x, t)
    PROVE  Freed(kk, x, t, s.k, s.x, {})
<1> DEFINE held == mutex_chain(x, t)
           R(n) == {held[i] : i \in n + 1 .. Len(held)}
<1>1. /\ x \in MutexState /\ Listings(x, Living(kk)) /\ Owners(kk, x) /\ Blockers(kk, x, Obj)
      /\ Dues(kk, x, Living(kk)) /\ t \in Task
  BY DEF MutexOK, Living
<1>2. Holds(held, Owned(x, t)) /\ held \in Seq(Obj)
  BY <1>1, ListedChain DEF Listings
<1>3. /\ Len(held) \in Nat /\ DOMAIN held = 1 .. Len(held)
      /\ \A i, j \in 1 .. Len(held) : held[i] = held[j] => i = j
      /\ ToSet(held) = Owned(x, t)
  BY <1>2 DEF Holds, IsInjective
<1>4. PICK f : FreeLoops(f, Len(held), kk, x, held) /\ s = f[Len(held)]
  BY <1>3, FreeLoopIs
<1> DEFINE S == {n \in Nat : n <= Len(held) => IsPair(f[n]) /\ Freed(kk, x, t, f[n].k, f[n].x, R(n))}
<1>5. R(0) = Owned(x, t) /\ R(Len(held)) = {} /\ \A n \in Nat : R(n) \subseteq Owned(x, t)
  <2>1. \A n \in Nat : R(n) \subseteq ToSet(held)
    BY <1>3, InToSet
  <2>2. ToSet(held) \subseteq R(0)
    BY <1>3, ToSetIndex
  <2> QED
    BY <1>3, <2>1, <2>2
<1>6. 0 \in S
  <2>1. f[0] = [k |-> kk, x |-> x]
    BY <1>3, <1>4 DEF FreeLoops
  <2>2. MutexOK(kk, x, Living(kk) \ {t}, Obj)
    BY <1>1 DEF MutexOK, Listings, Dues
  <2>3. Freed(kk, x, t, kk, x, Owned(x, t))
    BY <2>2 DEF Freed, SameCore, SamePri
  <2> HIDE DEF R, held
  <2>4. IsPair(f[0]) /\ f[0].k = kk /\ f[0].x = x
    BY <2>1 DEF IsPair
  <2>5. Freed(kk, x, t, f[0].k, f[0].x, R(0))
    BY <1>5, <2>3, <2>4
  <2> QED
    BY <2>4, <2>5
<1>7. ASSUME NEW n \in Nat, n \in S PROVE n + 1 \in S
  <2> SUFFICES ASSUME n + 1 <= Len(held)
               PROVE  /\ IsPair(f[n + 1])
                      /\ Freed(kk, x, t, f[n + 1].k, f[n + 1].x, R(n + 1))
    OBVIOUS
  <2>1. n <= Len(held) /\ n + 1 \in 1 .. Len(held) /\ (n + 1) - 1 = n
    BY <1>3
  <2>2. IsPair(f[n]) /\ Freed(kk, x, t, f[n].k, f[n].x, R(n))
    BY <1>7, <2>1
  <2>3. f[n + 1] = mutex_free_one(f[n], held[n + 1])
    BY <1>3, <1>4, <2>1 DEF FreeLoops
  <2>4. R(n + 1) = R(n) \ {held[n + 1]} /\ held[n + 1] \in R(n)
    BY <1>3, <2>1
  <2>5. R(n) \in SUBSET Owned(x, t)
    BY <1>5
  <2> DEFINE kk1 == f[n].k
             x1 == f[n].x
             m == held[n + 1]
             Q == R(n)
             c == f[n + 1]
             d == f[n]
  <2>6. Freed(kk, x, t, kk1, x1, Q) /\ Q \in SUBSET Owned(x, t) /\ m \in Q /\ R(n + 1) = Q \ {m}
    BY <2>2, <2>4, <2>5
  <2>7. d.k = kk1 /\ d.x = x1 /\ IsPair(d) /\ c = mutex_free_one(d, m)
    BY <2>2, <2>3
  <2> HIDE DEF kk1, x1, m, Q, c, d, R
  <2>8. IsPair(c) /\ Freed(kk, x, t, c.k, c.x, Q \ {m})
    BY <1>1, <2>6, <2>7, FreeOneOK
  <2>9. c = f[n + 1]
    BY DEF c
  <2> QED
    BY <2>6, <2>8, <2>9
<1> HIDE DEF S
<1>8. Len(held) \in S
  BY <1>3, <1>6, <1>7, NatInductive
<1>9. Freed(kk, x, t, f[Len(held)].k, f[Len(held)].x, R(Len(held)))
  <2> HIDE DEF R, held
  <2> QED
    BY <1>3, <1>8 DEF S
<1> HIDE DEF R, held
<1> QED
  BY <1>4, <1>5, <1>9

-----------------------------------------------------------------------------
(* The steps that do nothing for mutexes *)

\* Nothing that concerns the mutexes changes.
Still(kk1, kk2) ==
    /\ SamePri(kk1, kk2)
    /\ kk2.blk_obj = kk1.blk_obj
    /\ \A u \in Task : Alive(kk2, u) <=> Alive(kk1, u)

LEMMA StillTrans ==
    ASSUME NEW kk1, NEW kk2, NEW kk3, Still(kk1, kk2), Still(kk2, kk3)
    PROVE  Still(kk1, kk3)
  BY DEF Still, SamePri

LEMMA UnmovedStill ==
    ASSUME NEW kk1, NEW kk2, Unmoved(kk1, kk2), kk2.b_prio = kk1.b_prio
    PROVE  Still(kk1, kk2)
  BY DEF Still, Unmoved, SameLists, SamePri, Alive

LEMMA QueueStill ==
    ASSUME NEW kk \in Kernel, NEW t,
           NEW kk2 \in {ready_list_add(kk, t), ready_list_add_tail(kk, t),
                        ready_list_add_head(kk, t), ready_list_rm(kk, t),
                        ready_list_head_to_tail(kk, t)}
    PROVE  Still(kk, kk2)
<1>1. Unmoved(kk, kk2)
  BY QueueFields
<1>2. SamePri(kk, kk2)
  BY QueuePri
<1> QED
  BY <1>1, <1>2, UnmovedStill DEF SamePri

\* The state of a task that is not deleted becomes another one.
LEMMA StateStill ==
    ASSUME NEW kk \in Kernel, NEW t \in Task, Alive(kk, t), NEW state \in TaskState \ {"K_DELETED"},
           NEW n, NEW kk2,
           \/ kk2 = [kk EXCEPT !.task_state[t] = state]
           \/ kk2 = [kk EXCEPT !.suspend_count[t] = n]
           \/ kk2 = [kk EXCEPT !.suspend_count[t] = n, !.task_state[t] = state]
    PROVE  Still(kk, kk2)
<1>1. kk.task_state \in [Task -> TaskState]
  BY KernelFields
<1>2. SamePri(kk, kk2) /\ kk2.blk_obj = kk.blk_obj
  BY DEF SamePri, Kernel
<1>3. kk2.task_state = kk.task_state \/ kk2.task_state = [kk.task_state EXCEPT ![t] = state]
  BY DEF Kernel
<1>4. \A u \in Task : Alive(kk2, u) <=> Alive(kk, u)
  BY <1>1, <1>3 DEF Alive
<1> QED
  BY <1>2, <1>4 DEF Still

LEMMA SwitchStill ==
    ASSUME WaitInv, SwitchNext
    PROVE  Still(k, k')
<1>1. k \in Kernel /\ ReadyOK(k) /\ k.active \in Task
  BY WaitInvFacts
<1>2. ASSUME \/ \E t \in Task : core_sched(t)
             \/ krhino_intrpt_enter
             \/ krhino_intrpt_exit
             \/ krhino_sched_disable
             \/ krhino_sched_enable
      PROVE  Still(k, k')
  <2>1. Unmoved(k, k')
    BY <1>2, SwitchUnmoved
  <2>2. k'.b_prio = k.b_prio
    BY <1>1, <1>2 DEF core_sched, krhino_intrpt_enter, krhino_intrpt_exit, krhino_sched_disable,
                      krhino_sched_enable, critical_exit_sched, Kernel
  <2> QED
    BY <2>1, <2>2, UnmovedStill
<1>3. ASSUME tick_intrpt PROVE Still(k, k')
  BY <1>1, <1>3 DEF tick_intrpt, tick_count_inc, Still, SamePri, Alive, Kernel
<1>4. ASSUME tick_end PROVE Still(k, k')
  <2>1. time_slice_update(k).b_prio = k.b_prio
    BY <1>1 DEF time_slice_update, ready_list_head_to_tail, Kernel
  <2>2. Unmoved(k, time_slice_update(k))
    BY <1>1, TimeSliceUnmoved
  <2>3. Still(k, time_slice_update(k)) /\ Still(k, k)
    BY <2>1, <2>2, UnmovedStill DEF Still, SamePri
  <2> QED
    BY <1>4, <2>3 DEF tick_end
<1> QED
  BY <1>2, <1>3, <1>4 DEF SwitchNext

LEMMA SleepStill ==
    ASSUME WaitInv, NEW ticks \in Ticks, krhino_task_sleep(ticks)
    PROVE  Still(k, k')
<1> DEFINE t == k.active
           a == [k EXCEPT !.task_state[t] = "K_SLEEP"]
           b == tick_list_insert(a, t, ticks)
<1>1. k \in Kernel /\ t \in Task /\ Alive(k, t) /\ ticks \in Nat
  BY WaitInvFacts, CallerReady, TaskCallsAssumption DEF krhino_task_sleep, WaitInv, Alive
<1>2. a \in Kernel
  BY <1>1 DEF Kernel, TaskState
<1>3. Still(k, a)
  BY <1>1, StateStill, Zenon DEF TaskState
<1> HIDE DEF a
<1>4. b \in Kernel
  BY <1>1, <1>2, TickInsertQuiet DEF Quiet
<1>5. Still(a, b)
  BY <1>2 DEF tick_list_insert, Still, SamePri, Alive, Kernel
<1>6. k' = ready_list_rm(b, t)
  BY DEF krhino_task_sleep, critical_exit_block, a
<1> HIDE DEF b
<1>7. Still(b, k')
  BY <1>1, <1>4, <1>6, QueueStill
<1> QED
  BY <1>3, <1>5, <1>7, StillTrans

LEMMA YieldStill ==
    ASSUME WaitInv, krhino_task_yield
    PROVE  Still(k, k')
<1>1. k \in Kernel /\ k' = ready_list_head_to_tail(k, k.active)
  BY WaitInvFacts DEF krhino_task_yield, critical_exit_sched
<1> QED
  BY <1>1, QueueStill

LEMMA SuspendStill ==
    ASSUME WaitInv, NEW t \in Task, krhino_task_suspend(t)
    PROVE  Still(k, k')
<1> DEFINE a == [k EXCEPT !.suspend_count[t] = 1, !.task_state[t] = "K_SUSPENDED"]
<1>1. k \in Kernel /\ Alive(k, t) /\ k' = task_suspend(k, t)
  BY WaitInvFacts DEF krhino_task_suspend, critical_exit_sched, Alive
<1>2. CASE k.task_state[t] = "K_RDY"
  <2>1. a \in Kernel /\ Still(k, a)
    <3>1. a \in Kernel
      BY <1>1 DEF Kernel, TaskState
    <3>2. Still(k, a)
      BY <1>1, StateStill, Zenon DEF TaskState
    <3> QED
      BY <3>1, <3>2
  <2>2. k' = ready_list_rm(a, t)
    BY <1>1, <1>2 DEF task_suspend
  <2> HIDE DEF a
  <2>3. Still(a, k')
    BY <2>1, <2>2, QueueStill
  <2> QED
    BY <2>1, <2>3, StillTrans
<1>3. CASE k.task_state[t] # "K_RDY"
  <2>1. \E state \in {"K_SLEEP_SUSPENDED", "K_PEND_SUSPENDED"} : \E n :
            \/ k' = [k EXCEPT !.suspend_count[t] = n]
            \/ k' = [k EXCEPT !.suspend_count[t] = n, !.task_state[t] = state]
    BY <1>1, <1>3, Zenon DEF task_suspend
  <2>2. {"K_SLEEP_SUSPENDED", "K_PEND_SUSPENDED"} \subseteq TaskState \ {"K_DELETED"}
    BY DEF TaskState
  <2> QED
    BY <1>1, <2>1, <2>2, StateStill, Zenon
<1> QED
  BY <1>2, <1>3

LEMMA ResumeStill ==
    ASSUME WaitInv, NEW t \in Task, krhino_task_resume(t)
    PROVE  Still(k, k')
<1> DEFINE n == k.suspend_count[t] - 1
           a == [k EXCEPT !.suspend_count[t] = n]
<1>1. /\ k \in Kernel /\ ReadyOK(k) /\ k.task_state[t] \in Suspended
      /\ k' = task_resume(k, t) /\ k.suspend_count[t] \in Nat /\ Alive(k, t)
  BY WaitInvFacts DEF krhino_task_resume, critical_exit_sched, Suspended, Kernel, Alive
<1>2. k.suspend_count[t] > 0
  BY <1>1 DEF ReadyOK, Counted
<1>3. n \in Nat
  BY <1>1, <1>2
<1>4. a \in Kernel
  BY <1>1, <1>3 DEF Kernel
<1>5. Still(k, a)
  <2>1. "K_RDY" \in TaskState \ {"K_DELETED"}
    BY DEF TaskState
  <2> QED
    BY <1>1, <2>1, StateStill, Zenon
<1>6. a.suspend_count[t] = n /\ a.task_state = k.task_state /\ a = [k EXCEPT !.suspend_count[t] = @ - 1]
  BY <1>1 DEF Kernel
<1>7. CASE n > 0
  <2>1. k' = a
    BY <1>1, <1>6, <1>7 DEF task_resume
  <2> QED
    BY <1>5, <2>1
<1>8. CASE ~(n > 0) /\ k.task_state[t] = "K_SUSPENDED"
  <2>1. k' = make_ready(a, t)
    BY <1>1, <1>6, <1>8 DEF task_resume
  <2> HIDE DEF a
  <2>2. SamePri(a, k')
    BY <1>4, <2>1, MakeReadyPri
  <2>3. SameLists(a, k') /\ k'.task_state = [a.task_state EXCEPT ![t] = "K_RDY"]
    BY <1>4, <2>1, MakeReadyFields
  <2>4. a.task_state \in [Task -> TaskState]
    BY <1>4, KernelFields
  <2>5. Still(a, k')
    BY <1>1, <1>6, <2>2, <2>3, <2>4 DEF Still, SameLists, Alive
  <2> QED
    BY <1>5, <2>5, StillTrans
<1>9. CASE ~(n > 0) /\ k.task_state[t] # "K_SUSPENDED"
  <2>1. \E state \in {"K_SLEEP", "K_PEND"} : k' = [a EXCEPT !.task_state[t] = state]
    BY <1>1, <1>6, <1>9 DEF task_resume, Suspended
  <2>2. {"K_SLEEP", "K_PEND"} \subseteq TaskState \ {"K_DELETED"} /\ Alive(a, t)
    BY <1>1, <1>6 DEF TaskState, Alive
  <2> HIDE DEF a
  <2>3. Still(a, k')
    BY <1>4, <2>1, <2>2, StateStill, Zenon
  <2> QED
    BY <1>5, <2>3, StillTrans
<1> QED
  BY <1>7, <1>8, <1>9

LEMMA PlainStill ==
    ASSUME WaitInv, PlainNext
    PROVE  Still(k, k')
<1>1. Suspendable \subseteq Task
  BY TaskCallsAssumption
<1> QED
  BY <1>1, SwitchStill, SleepStill, YieldStill, SuspendStill, ResumeStill DEF PlainNext

-----------------------------------------------------------------------------
(* Every step keeps the invariant *)

MutexInv == WaitInv /\ MutexOK(k, mx, Living(k), Obj)

\* The priorities, waits and deletions stay as they are, and so do the mutexes.
LEMMA StillKeeps ==
    ASSUME MutexInv, WaitInv', Still(k, k'), mx' = mx
    PROVE  MutexInv'
<1>1. MutexOK(k, mx, Living(k), Obj) /\ Living(k) \subseteq Task
  BY DEF MutexInv, Living
<1>2. /\ SamePri(k, k') /\ k'.blk_obj = k.blk_obj /\ Living(k') = Living(k)
      /\ \A u \in Task : Alive(k, u) => Alive(k', u)
  BY DEF Still, Living
<1>3. MutexOK(k', mx, Living(k), Obj)
  BY <1>1, <1>2, SameOK
<1>4. MutexOK(k', mx', Living(k'), Obj)
  BY <1>2, <1>3
<1> QED
  BY <1>4 DEF MutexInv

LEMMA PlainKeeps ==
    ASSUME MutexInv, PlainNext, mx' = mx
    PROVE  MutexInv'
<1>1. WaitInv /\ [Next]_schedVars
  BY DEF MutexInv, Next, TaskNext
<1>2. WaitInv'
  BY <1>1, WaitInvStep
<1>3. Still(k, k')
  BY <1>1, PlainStill
<1> QED
  BY <1>2, <1>3, StillKeeps

\* Only the mutexes change.
LEMMA SchedSame ==
    ASSUME MutexInv, UNCHANGED schedVars, MutexOK(k, mx', Living(k), Obj)
    PROVE  MutexInv'
<1>1. WaitInv'
  BY WaitInvStep DEF MutexInv
<1>2. k' = k
  BY DEF schedVars
<1> QED
  BY <1>1, <1>2 DEF MutexInv, Living

\* The mutexes have the owners and lists they had.
LEMMA SameOwnersOK ==
    ASSUME NEW kk, NEW A \in SUBSET Task, NEW x, MutexOK(kk, x, A, Obj), NEW x2 \in MutexState,
           x2.exists = x.exists, x2.mutex_task = x.mutex_task, x2.mutex_list = x.mutex_list
    PROVE  MutexOK(kk, x2, A, Obj)
<1>1. \A w : Owned(x2, w) = Owned(x, w)
  BY DEF Owned
<1>2. \A w : \A S : Listed(x, w, S) => Listed(x2, w, S)
  BY SameLinks
<1> QED
  BY <1>1, <1>2 DEF MutexOK, Listings, Owners, Blockers, Dues

LEMMA CallerFacts ==
    ASSUME MutexInv, TaskCalls(k.active)
    PROVE  /\ WaitInv /\ SchedInv /\ k \in Kernel /\ ReadyOK(k) /\ WaitOK(k)
           /\ MutexOK(k, mx, Living(k), Obj) /\ Living(k) \in SUBSET Task
           /\ mx \in MutexState /\ mx.exists \subseteq Obj
           /\ k.active \in Task \ {Idle} /\ k.active \in Living(k) /\ Alive(k, k.active)
           /\ k.task_state[k.active] = "K_RDY" /\ k.blk_obj[k.active] = NoObj
           /\ k.nested = 0 /\ irq_off = <<>>
<1>1. /\ WaitInv /\ SchedInv /\ MutexOK(k, mx, Living(k), Obj) /\ Living(k) \in SUBSET Task
      /\ k.nested = 0 /\ irq_off = <<>>
  BY DEF MutexInv, WaitInv, Living, TaskCalls
<1>2. k \in Kernel /\ ReadyOK(k) /\ WaitOK(k)
  BY <1>1, WaitInvFacts
<1>3. k.active \in Task \ {Idle} /\ k.task_state[k.active] = "K_RDY"
  BY <1>1, CallerReady
<1>4. k.blk_obj[k.active] = NoObj
  <2>1. k.task_state[k.active] \notin Pending \cup Sleeping
    BY <1>3 DEF Pending, Sleeping
  <2> QED
    BY <1>2, <1>3, <2>1, OffBoth
<1>5. mx \in MutexState /\ mx.exists \subseteq Obj
  BY <1>1, OwnedFacts DEF MutexOK
<1> QED
  BY <1>1, <1>2, <1>3, <1>4, <1>5 DEF Living, Alive

LEMMA CreateMutexKeeps ==
    ASSUME MutexInv, NEW m \in Obj, krhino_mutex_create(m)
    PROVE  MutexInv'
<1>1. /\ TaskCalls(k.active) /\ m \notin mx.exists /\ UNCHANGED schedVars
      /\ mx' = [mx EXCEPT !.exists = @ \cup {m}, !.mutex_task[m] = NoTask, !.mutex_list[m] = NoObj]
  BY DEF krhino_mutex_create
<1>2. mx \in MutexState /\ MutexOK(k, mx, Living(k), Obj) /\ Living(k) \in SUBSET Task
  BY <1>1, CallerFacts
<1>3. /\ mx' \in MutexState /\ mx'.exists = mx.exists \cup {m} /\ mx'.mutex_task[m] = NoTask
      /\ \A n \in Obj \ {m} : mx'.mutex_task[n] = mx.mutex_task[n]
      /\ \A y \in (Task \cup Obj) \ {m} : mx'.mutex_list[y] = mx.mutex_list[y]
  <2> DEFINE a == [mx EXCEPT !.exists = @ \cup {m}]
             b == [a EXCEPT !.mutex_task[m] = NoTask]
  <2>1. a \in MutexState /\ a.exists = mx.exists \cup {m} /\ a.mutex_task = mx.mutex_task /\ a.mutex_list = mx.mutex_list
    BY <1>2 DEF MutexState
  <2> HIDE DEF a
  <2>2. /\ b \in MutexState /\ b.exists = a.exists /\ b.mutex_list = a.mutex_list
        /\ b.mutex_task = [a.mutex_task EXCEPT ![m] = NoTask]
    BY <2>1 DEF MutexState
  <2>3. mx' = [b EXCEPT !.mutex_list[m] = NoObj]
    BY <1>1, <1>2 DEF a, MutexState
  <2> HIDE DEF b
  <2>4. /\ mx' \in MutexState /\ mx'.exists = b.exists /\ mx'.mutex_task = b.mutex_task
        /\ mx'.mutex_list = [b.mutex_list EXCEPT ![m] = NoObj]
    BY <2>2, <2>3 DEF MutexState
  <2> QED
    BY <2>1, <2>2, <2>4 DEF MutexState
<1>4. \A w \in Task : Owned(mx', w) = Owned(mx, w)
  <2>1. ASSUME NEW w \in Task, NEW n PROVE n \in Owned(mx', w) <=> n \in Owned(mx, w)
    <3>1. w # NoTask
      BY MutexAssumption
    <3>2. mx.exists \subseteq Obj
      BY <1>2, OwnedFacts
    <3> QED
      BY <1>1, <1>3, <3>1, <3>2 DEF Owned
  <2> QED
    BY <2>1
<1>5. Listings(mx', Living(k))
  <2>1. ASSUME NEW w \in Living(k) PROVE Listed(mx', w, Owned(mx', w))
    <3>1. Listed(mx, w, Owned(mx, w)) /\ w \in Task
      BY <1>2 DEF MutexOK, Listings
    <3>2. {w} \cup Owned(mx, w) \subseteq (Task \cup Obj) \ {m}
      BY <1>1, <1>2, <3>1, OwnedFacts, TaskNotObj
    <3> QED
      BY <1>3, <1>4, <3>1, <3>2, SameLinks
  <2> QED
    BY <2>1 DEF Listings
<1>6. Owners(k, mx')
  BY <1>2, <1>3, OwnedFacts DEF MutexOK, Owners
<1>7. Blockers(k, mx', Obj)
  BY <1>1, <1>2, <1>3 DEF MutexOK, Blockers
<1>8. Dues(k, mx', Living(k))
  BY <1>2, <1>4 DEF MutexOK, Dues
<1> QED
  BY <1>1, <1>3, <1>5, <1>6, <1>7, <1>8, SchedSame DEF MutexOK

\* A mutex a task locks or unlocks that it has locked before.
LEMMA NestedKeeps ==
    ASSUME MutexInv, NEW m \in Obj, mutex_lock_nested(m) \/ mutex_unlock_nested(m)
    PROVE  MutexInv'
<1>1. UNCHANGED schedVars /\ \E n \in 0 .. MaxDepth : mx' = [mx EXCEPT !.owner_nested[m] = n]
  <2>1. mx.owner_nested[m] \in 0 .. MaxDepth /\ MaxDepth \in Nat
    BY MutexAssumption DEF MutexInv, MutexOK, MutexState
  <2> QED
    BY <2>1 DEF mutex_lock_nested, mutex_unlock_nested
<1>2. MutexOK(k, mx, Living(k), Obj) /\ Living(k) \in SUBSET Task /\ mx \in MutexState
  BY DEF MutexInv, MutexOK, Living
<1>3. /\ mx' \in MutexState /\ mx'.exists = mx.exists /\ mx'.mutex_task = mx.mutex_task
      /\ mx'.mutex_list = mx.mutex_list
  BY <1>1, <1>2 DEF MutexState
<1>4. MutexOK(k, mx', Living(k), Obj)
  BY <1>2, <1>3, SameOwnersOK
<1> QED
  BY <1>1, <1>4, SchedSame

\* What mutex_push and the assignments to the owner and the nesting leave.
LEMMA PushState ==
    ASSUME NEW x \in MutexState, NEW t \in Task, NEW m \in Obj, NEW n \in 0 .. MaxDepth,
           NEW x2, x2 = [mutex_push(x, t, m) EXCEPT !.mutex_task[m] = t, !.owner_nested[m] = n]
    PROVE  Pushed(x, x2, t, m)
<1> DEFINE a == mutex_push(x, t, m)
           b == [a EXCEPT !.mutex_task[m] = t]
<1>1. a.mutex_list \in [Task \cup Obj -> Obj \cup {NoObj}]
  BY DEF mutex_push, MutexState
<1>2. a = [x EXCEPT !.mutex_list = a.mutex_list]
  BY DEF mutex_push, MutexState
<1> HIDE DEF a
<1>3. a \in MutexState /\ a.exists = x.exists /\ a.mutex_task = x.mutex_task
  BY <1>1, <1>2 DEF MutexState
<1>4. /\ b \in MutexState /\ b.exists = a.exists /\ b.mutex_list = a.mutex_list
      /\ b.mutex_task = [a.mutex_task EXCEPT ![m] = t]
  BY <1>3 DEF MutexState
<1>5. x2 = [b EXCEPT !.owner_nested[m] = n]
  BY <1>3 DEF a, MutexState
<1> HIDE DEF b
<1>6. /\ x2 \in MutexState /\ x2.exists = b.exists /\ x2.mutex_list = b.mutex_list
      /\ x2.mutex_task = b.mutex_task
  <2>1. b \in MutexState
    BY <1>4
  <2>2. x2.exists = b.exists /\ x2.mutex_list = b.mutex_list /\ x2.mutex_task = b.mutex_task
    BY <1>5, <2>1 DEF MutexState
  <2>3. x2 \in MutexState
    BY <1>5, <2>1 DEF MutexState
  <2> QED
    BY <2>2, <2>3
<1>7. x2.mutex_task = [x.mutex_task EXCEPT ![m] = t] /\ x2.mutex_list = a.mutex_list
  BY <1>3, <1>4, <1>6
<1>8. x2.mutex_task[m] = t /\ \A q \in Obj \ {m} : x2.mutex_task[q] = x.mutex_task[q]
  BY <1>7 DEF MutexState
<1> QED
  BY <1>3, <1>4, <1>6, <1>7, <1>8 DEF Pushed, a

LEMMA LockFreeKeeps ==
    ASSUME MutexInv, NEW m \in Obj, mutex_lock_free(m)
    PROVE  MutexInv'
<1> DEFINE t == k.active
           A == Living(k)
<1>1. /\ TaskCalls(t) /\ m \in mx.exists /\ mx.mutex_task[m] = NoTask /\ UNCHANGED schedVars
      /\ mx' = [mutex_push(mx, t, m) EXCEPT !.mutex_task[m] = t, !.owner_nested[m] = 1]
  BY DEF mutex_lock_free
<1>2. /\ mx \in MutexState /\ MutexOK(k, mx, A, Obj) /\ A \in SUBSET Task
      /\ t \in Task \ {Idle} /\ t \in A /\ Alive(k, t)
  BY <1>1, CallerFacts
<1>3. Listings(mx, A) /\ Owners(k, mx) /\ Blockers(k, mx, Obj) /\ Dues(k, mx, A)
  BY <1>2 DEF MutexOK
<1> HIDE DEF t, A
<1>4. Pushed(mx, mx', t, m)
  <2>1. 1 \in 0 .. MaxDepth
    BY MutexAssumption
  <2> QED
    BY <1>1, <1>2, <2>1, PushState, Zenon
<1>5. MoreOwned(mx, mx', A, t, m) /\ Listings(mx', A)
  BY <1>1, <1>2, <1>3, <1>4, GivenOwned
<1>6. Owners(k, mx')
  BY <1>2, <1>3, <1>4, OwnedFacts DEF Owners, Pushed
<1>7. \A u \in Task : k.blk_obj[u] # m
  BY <1>1, <1>3 DEF Blockers
<1>8. Blockers(k, mx', Obj)
  BY <1>3, <1>4, <1>7 DEF Blockers, Pushed
<1>9. Dues(k, mx', A)
  <2> SUFFICES ASSUME NEW w \in A PROVE Due(k, Owned(mx', w), k.b_prio[w], k.prio[w])
    BY DEF Dues
  <2>1. Due(k, Owned(mx, w), k.b_prio[w], k.prio[w])
    BY <1>3 DEF Dues
  <2>2. Owned(mx', w) \subseteq Owned(mx, w) \cup {m} /\ Owned(mx, w) \subseteq Owned(mx', w)
    BY <1>5 DEF MoreOwned
  <2> QED
    BY <1>7, <2>1, <2>2 DEF Due
<1> QED
  BY <1>1, <1>4, <1>5, <1>6, <1>8, <1>9, SchedSame DEF MutexOK, Pushed, A

\* A call of the active task that leaves kk is over.
LEMMA CallDone ==
    ASSUME MutexInv, TaskCalls(k.active), NEW STATE kk, critical_exit_sched(kk), UNCHANGED irq_off,
           ReadyOK(kk), WaitOK(kk), SameCore(k, kk),
           k.sched_lock > 0 => kk.task_state[k.active] = "K_RDY",
           MutexOK(kk, mx', Living(kk), Obj)
    PROVE  MutexInv'
<1>1. SchedInv /\ k.nested = 0 /\ k.active \in Task
  BY CallerFacts
<1>2. pc \in [Task -> {"run", "sched", "block", "end"}]
  BY <1>1, InvFacts
<1>3. k' = kk /\ pc' = [pc EXCEPT ![k.active] = "sched"]
  BY <1>1 DEF critical_exit_sched
<1>4. pc' \in [Task -> {"run", "sched", "block", "end"}] /\ pc'[k.active] \notin {"run", "end"}
  BY <1>1, <1>2, <1>3
<1>5. ReadyOK(k') /\ WaitOK(k') /\ SameCore(k, k') /\ MutexOK(k', mx', Living(k'), Obj)
  BY <1>3
<1>6. k.sched_lock > 0 => k'.task_state[k.active] = "K_RDY"
  BY <1>3
<1>7. SchedInv'
  BY <1>1, <1>4, <1>5, <1>6, CallEnds
<1> QED
  BY <1>5, <1>7 DEF MutexInv, WaitInv

LEMMA LockEndKeeps ==
    ASSUME MutexInv, NEW t \in Task, mutex_lock_end(t)
    PROVE  MutexInv'
<1>1. pend_state_end_proc(t) /\ mx' = mx
  BY DEF mutex_lock_end
<1>2. WaitInv'
  BY <1>1, WaitInvStep DEF MutexInv, Next, TaskNext
<1>3. Still(k, k')
  BY <1>1 DEF pend_state_end_proc, Still, SamePri
<1> QED
  BY <1>1, <1>2, <1>3, StillKeeps

\* After the wait of t, or t itself, has ended in kk1, mutex_task_pri_reset is called.
LEMMA ResetKeeps ==
    ASSUME NEW kk0, NEW x, NEW t \in Task, NEW A, NEW kk1, A = Living(kk1),
           MutexOK(kk0, x, A, Obj), Owners(kk1, x), Concerns(kk0, kk1, t), WaitOK(kk1),
           SamePri(kk0, kk1), Spares(kk0, kk1, t), kk1.blk_obj[t] = NoObj,
           NEW kk2, kk2 = mutex_task_pri_reset(kk1, x, t, kk0.blk_obj[t])
    PROVE  /\ MutexOK(kk2, x, Living(kk2), Obj)
           /\ ReadyOK(kk2) /\ WaitOK(kk2) /\ SameCore(kk0, kk2)
           /\ kk2.task_state = kk1.task_state /\ kk2.blk_obj = kk1.blk_obj
           /\ kk2.blk_state = kk1.blk_state
<1>1. ReadyOK(kk1) /\ SameCore(kk0, kk1) /\ \A u \in Task \ {t} : kk1.blk_obj[u] = kk0.blk_obj[u]
  BY DEF Concerns, Spares
<1>2. MutexOK(kk2, x, A, Obj) /\ Repriced(kk1, kk2)
  BY <1>1, WaitEndsOK
<1>3. Living(kk2) = A
  BY <1>2 DEF Repriced, Living, Alive
<1> QED
  BY <1>1, <1>2, <1>3 DEF Repriced, SameCore

LEMMA SameOwners ==
    ASSUME NEW kk, NEW kk2, NEW x, Owners(kk, x), \A u \in Task : Alive(kk, u) => Alive(kk2, u)
    PROVE  Owners(kk2, x)
  BY DEF Owners

\* Whatever t waited for, it no longer does, and it has not been granted.
Ungiven(kk, kk2, t) ==
    kk.task_state[t] \notin Sleeping =>
        /\ kk2.task_state[t] \notin Sleeping
        /\ \/ kk2.blk_state[t] # "BLK_FINISH"
           \/ kk2.blk_state[t] = kk.blk_state[t] /\ kk.blk_obj[t] = NoObj

\* That is all that happens.
WaitEnded(kk, kk2, t) ==
    /\ kk2.blk_obj[t] = NoObj /\ Ungiven(kk, kk2, t)
    /\ \A u \in Task \ {t} : /\ kk2.task_state[u] = kk.task_state[u] /\ kk2.blk_obj[u] = kk.blk_obj[u]
                             /\ kk2.blk_state[u] = kk.blk_state[u]
    /\ \A u \in Task : Alive(kk2, u) <=> Alive(kk, u)

\* A task that leaves the tick list waits for nothing.
LEMMA ExpiredFacts ==
    ASSUME NEW kk, ReadyOK(kk), WaitOK(kk), NEW t \in Task, t \in OnTick(kk),
           NEW kk2, kk2 = tick_expire(kk, t)
    PROVE  /\ Concerns(kk, kk2, t) /\ WaitOK(kk2) /\ Spares(kk, kk2, t) /\ SamePri(kk, kk2)
           /\ kk2.blk_obj[t] = NoObj /\ Ungiven(kk, kk2, t)
           /\ \A u \in Task : Alive(kk2, u) <=> Alive(kk, u)
<1>1. kk \in Kernel /\ kk.task_state[t] \in Sleeping \cup Pending
  BY DEF ReadyOK, WaitOK, Linked
<1>2. Concerns(kk, kk2, t) /\ SamePri(kk, kk2)
  BY <1>1, TickExpire, TickExpirePri
<1>3. Ungranted(kk, kk2, t)
  BY TickExpireWaits
<1>4. kk2.blk_obj[t] = NoObj /\ kk2.task_state[t] # "K_DELETED" /\ Ungiven(kk, kk2, t)
  <2>0. Linked(kk, t)
    BY DEF WaitOK
  <2>1. CASE kk.task_state[t] \in Pending
    <3>1. /\ kk.blk_obj[t] \in Obj /\ "BLK_TIMEOUT" \in BlkState
          /\ kk2 = end_pend(kk, t, "BLK_TIMEOUT")
      BY <2>0, <2>1 DEF tick_expire, Pending, BlkState, Linked
    <3>2. /\ Concerns(kk, kk2, t) /\ WaitOK(kk2) /\ Spares(kk, kk2, t) /\ SamePri(kk, kk2)
          /\ kk2.blk_obj = [kk.blk_obj EXCEPT ![t] = NoObj]
          /\ kk2.blk_obj[t] = NoObj
          /\ kk2.blk_state[t] = "BLK_TIMEOUT"
          /\ kk2.task_state[t] # "K_DELETED" /\ kk2.task_state[t] \notin Sleeping
          /\ t # Idle
      BY <3>1, WokenUp
    <3> QED
      BY <3>2 DEF Ungiven
  <2>2. CASE kk.task_state[t] \in Sleeping
    <3> DEFINE a == tick_list_rm(kk, t)
               b == [a EXCEPT !.blk_state[t] = "BLK_FINISH"]
    <3>1. kk.blk_obj[t] = NoObj
      BY <2>2, SleeperFacts
    <3>2. kk2.blk_obj[t] = NoObj /\ Ungiven(kk, kk2, t)
      BY <1>3, <2>2, <3>1, ObjAssumption DEF Ungranted, Ungiven
    <3>3. a \in Kernel
      BY <1>1, TickRmQuiet DEF Quiet
    <3>4. b \in Kernel
      <4> HIDE DEF a
      <4> QED
        BY <3>3 DEF Kernel, BlkState
    <3>5. CASE kk.task_state[t] = "K_SLEEP"
      <4>1. kk2 = make_ready(b, t)
        BY <3>5 DEF tick_expire, Pending
      <4> HIDE DEF b
      <4>2. kk2.task_state = [b.task_state EXCEPT ![t] = "K_RDY"] /\ b.task_state \in [Task -> TaskState]
        BY <3>4, <4>1, MakeReadyFields, KernelFields
      <4> QED
        BY <3>2, <4>2
    <3>6. CASE kk.task_state[t] = "K_SLEEP_SUSPENDED"
      <4>1. kk2 = [a EXCEPT !.blk_state[t] = "BLK_FINISH", !.task_state[t] = "K_SUSPENDED"]
        BY <3>6 DEF tick_expire, Pending
      <4> HIDE DEF a
      <4>2. kk2.task_state[t] = "K_SUSPENDED"
        BY <3>3, <4>1 DEF Kernel
      <4> QED
        BY <3>2, <4>2
    <3> QED
      BY <2>2, <3>5, <3>6 DEF Sleeping
  <2> QED
    BY <1>1, <2>1, <2>2
<1>5. ASSUME NEW u \in Task PROVE Alive(kk2, u) <=> Alive(kk, u)
  <2>1. CASE u = t
    BY <1>1, <1>4, <2>1 DEF Alive, Sleeping, Pending
  <2>2. CASE u # t
    BY <1>2, <2>2 DEF Concerns, Alive
  <2> QED
    BY <2>1, <2>2
<1> QED
  BY <1>2, <1>3, <1>4, <1>5 DEF Ungranted

LEMMA TickKeeps ==
    ASSUME MutexInv, mutex_tick_next
    PROVE  MutexInv' /\ WaitEnded(k, k', Head(k.tick_list))
<1> DEFINE t == Head(k.tick_list)
           kk1 == tick_expire(k, t)
<1>1. /\ WaitInv /\ SchedInv /\ ReadyOK(k) /\ WaitOK(k) /\ k \in Kernel /\ k.active \in Task
      /\ MutexOK(k, mx, Living(k), Obj)
  BY WaitInvFacts DEF MutexInv, WaitInv
<1>2. t \in Task /\ t \in OnTick(k)
  <2>1. k.tick_list \in Seq(Task) /\ k.tick_list # <<>>
    BY <1>1, KernelFields DEF mutex_tick_next, tick_due
  <2>2. 1 \in DOMAIN k.tick_list /\ t = k.tick_list[1]
    BY <2>1
  <2> HIDE DEF t
  <2> QED
    BY <2>1, <2>2, InToSet DEF OnTick
<1>3. /\ Concerns(k, kk1, t) /\ WaitOK(kk1) /\ Spares(k, kk1, t) /\ SamePri(k, kk1)
      /\ kk1.blk_obj[t] = NoObj /\ Ungiven(k, kk1, t)
      /\ \A u \in Task : Alive(kk1, u) <=> Alive(k, u)
  <2> HIDE DEF t
  <2> QED
    BY <1>1, <1>2, ExpiredFacts
<1>4. Owners(kk1, mx) /\ Living(kk1) = Living(k)
  <2>1. Owners(k, mx)
    BY <1>1 DEF MutexOK
  <2> HIDE DEF kk1
  <2> QED
    BY <1>3, <2>1, SameOwners DEF Living
<1>5. /\ k' = mutex_task_pri_reset(kk1, mx, t, k.blk_obj[t]) /\ pc' = pc /\ irq_off' = irq_off /\ mx' = mx
      /\ irq_off = <<"tick_list_update">>
  BY DEF mutex_tick_next
<1>6. k.task_state[k.active] = "K_RDY" => kk1.task_state[k.active] = "K_RDY"
  <2>1. k.task_state[t] # "K_RDY"
    BY <1>1, <1>2 DEF WaitOK, Linked, Sleeping, Pending
  <2> HIDE DEF t, kk1
  <2> QED
    BY <1>1, <1>3, <2>1 DEF Concerns
<1> HIDE DEF kk1, t
<1>7. /\ MutexOK(k', mx, Living(k'), Obj)
      /\ ReadyOK(k') /\ WaitOK(k') /\ SameCore(k, k')
      /\ k'.task_state = kk1.task_state /\ k'.blk_obj = kk1.blk_obj /\ k'.blk_state = kk1.blk_state
  <2>1. MutexOK(k, mx, Living(kk1), Obj)
    BY <1>1, <1>4
  <2> QED
    BY <1>2, <1>3, <1>4, <1>5, <2>1, ResetKeeps
<1>8. SchedInv'
  <2>1. k.sched_lock > 0 => k'.task_state[k.active] = "K_RDY"
    BY <1>1, <1>6, <1>7, InvFacts
  <2>2. pc' \in [Task -> {"run", "sched", "block", "end"}]
    BY <1>1, <1>5, InvFacts
  <2> QED
    BY <1>1, <1>5, <1>7, <2>1, <2>2, CallEnds
<1>9. WaitEnded(k, k', t)
  BY <1>3, <1>7 DEF WaitEnded, Ungiven, Spares, Alive
<1> QED
  BY <1>5, <1>7, <1>8, <1>9 DEF MutexInv, WaitInv, t

\* A task whose wait is aborted waits for nothing.
LEMMA AbortedFacts ==
    ASSUME NEW kk, ReadyOK(kk), WaitOK(kk), NEW t \in Task, kk.task_state[t] # "K_DELETED",
           NEW kk2, kk2 = task_wait_abort(kk, t)
    PROVE  /\ Concerns(kk, kk2, t) /\ WaitOK(kk2) /\ Spares(kk, kk2, t) /\ SamePri(kk, kk2)
           /\ kk2.blk_obj[t] = NoObj /\ Ungiven(kk, kk2, t)
           /\ kk2.task_state[t] = "K_RDY"
           /\ \A u \in Task : Alive(kk2, u) <=> Alive(kk, u)
<1>1. kk \in Kernel /\ kk.task_state \in [Task -> TaskState] /\ Linked(kk, t) /\ Right(kk, Task)
  <2>1. kk \in Kernel
    BY DEF ReadyOK
  <2> QED
    BY <2>1, KernelFields DEF WaitOK
<1>2. Concerns(kk, kk2, t) /\ SamePri(kk, kk2)
  BY <1>1, WaitAbort, WaitAbortPri
<1>3. Ungranted(kk, kk2, t)
  BY WaitAbortWaits
<1>4. WaitOK(kk2) /\ Spares(kk, kk2, t) /\ (kk2.blk_obj[t] = NoObj \/ kk2.blk_obj[t] = kk.blk_obj[t])
  BY <1>3 DEF Ungranted
<1>5. CASE kk.task_state[t] = "K_RDY"
  <2>1. kk2 = kk
    BY <1>5 DEF task_wait_abort, Sleeping, Pending
  <2>2. kk.blk_obj[t] = NoObj
    BY <1>5, OffBoth DEF Pending, Sleeping
  <2> QED
    BY <1>2, <1>4, <1>5, <2>1, <2>2 DEF Alive, Ungiven
<1>6. ASSUME kk2.task_state[t] = "K_RDY", kk2.blk_obj[t] = NoObj, Ungiven(kk, kk2, t)
      PROVE  /\ Concerns(kk, kk2, t) /\ WaitOK(kk2) /\ Spares(kk, kk2, t) /\ SamePri(kk, kk2)
             /\ kk2.blk_obj[t] = NoObj /\ Ungiven(kk, kk2, t)
             /\ kk2.task_state[t] = "K_RDY"
             /\ \A u \in Task : Alive(kk2, u) <=> Alive(kk, u)
  <2>1. ASSUME NEW u \in Task PROVE Alive(kk2, u) <=> Alive(kk, u)
    BY <1>2, <1>6 DEF Concerns, Alive
  <2> QED
    BY <1>2, <1>4, <1>6, <2>1
<1>7. CASE kk.task_state[t] = "K_SUSPENDED"
  <2>1. kk2 = make_ready(kk, t)
    BY <1>7 DEF task_wait_abort, Sleeping, Pending
  <2>2. kk2.task_state = [kk.task_state EXCEPT ![t] = "K_RDY"] /\ kk2.blk_state = kk.blk_state
    BY <1>1, <2>1, MakeReadyFields
  <2>3. kk.blk_obj[t] = NoObj
    BY <1>7, OffBoth DEF Pending, Sleeping
  <2> QED
    BY <1>1, <1>4, <1>6, <2>2, <2>3 DEF Ungiven, Sleeping
<1>8. CASE kk.task_state[t] \in Sleeping
  <2> DEFINE a == tick_list_rm(kk, t)
  <2>1. kk2 = Aborted(a, t)
    BY <1>8 DEF task_wait_abort, Aborted, Sleeping, Pending
  <2>2. a \in Kernel
    BY <1>1, TickRmQuiet DEF Quiet
  <2> HIDE DEF a
  <2>3. kk2.task_state = [a.task_state EXCEPT ![t] = "K_RDY"] /\ a.task_state \in [Task -> TaskState]
    BY <2>1, <2>2, AbortedFields, KernelFields
  <2>4. kk.blk_obj[t] = NoObj
    BY <1>8, SleeperFacts
  <2> QED
    BY <1>4, <1>6, <1>8, <2>3, <2>4 DEF Ungiven
<1>9. CASE kk.task_state[t] \in Pending
  <2> DEFINE a == leave_lists(kk, t)
  <2>1. kk2 = Aborted(a, t)
    BY <1>9 DEF task_wait_abort, Aborted, Sleeping, Pending
  <2>2. a \in Kernel
    BY <1>1, LeaveListsPri
  <2>3. kk.blk_obj[t] \in Obj
    BY <1>1, <1>9 DEF Linked
  <2>4. a.blk_obj = [kk.blk_obj EXCEPT ![t] = NoObj] /\ kk.blk_obj \in [Task -> Obj \cup {NoObj}]
    BY <1>1, <2>3, LeaveListsRight, KernelFields
  <2> HIDE DEF a
  <2>5. /\ SameLists(a, kk2)
        /\ kk2.task_state = [a.task_state EXCEPT ![t] = "K_RDY"] /\ a.task_state \in [Task -> TaskState]
        /\ kk2.blk_state = [a.blk_state EXCEPT ![t] = "BLK_ABORT"] /\ a.blk_state \in [Task -> BlkState]
    BY <2>1, <2>2, AbortedFields, KernelFields
  <2>6. kk2.blk_obj[t] = NoObj /\ kk2.task_state[t] = "K_RDY" /\ kk2.blk_state[t] = "BLK_ABORT"
    BY <2>4, <2>5 DEF SameLists
  <2> QED
    BY <1>6, <2>6 DEF Ungiven, Sleeping
<1>10. kk.task_state[t] \in TaskState
  BY <1>1
<1> QED
  BY <1>5, <1>7, <1>8, <1>9, <1>10 DEF TaskState, Pending, Sleeping

LEMMA WaitAbortKeeps ==
    ASSUME MutexInv, NEW t \in Task, mutex_task_wait_abort(t)
    PROVE  MutexInv' /\ WaitEnded(k, k', t)
<1> DEFINE kk1 == task_wait_abort(k, t)
           kk2 == mutex_task_pri_reset(kk1, mx, t, k.blk_obj[t])
<1>1. /\ TaskCalls(k.active) /\ k.task_state[t] # "K_DELETED"
      /\ critical_exit_sched(kk2) /\ UNCHANGED irq_off /\ mx' = mx
  BY DEF mutex_task_wait_abort
<1>2. /\ WaitInv /\ SchedInv /\ ReadyOK(k) /\ WaitOK(k) /\ k.active \in Task
      /\ k.task_state[k.active] = "K_RDY" /\ MutexOK(k, mx, Living(k), Obj)
  BY <1>1, CallerFacts
<1>3. /\ Concerns(k, kk1, t) /\ WaitOK(kk1) /\ Spares(k, kk1, t) /\ SamePri(k, kk1)
      /\ kk1.blk_obj[t] = NoObj /\ Ungiven(k, kk1, t) /\ kk1.task_state[t] = "K_RDY"
      /\ \A u \in Task : Alive(kk1, u) <=> Alive(k, u)
  BY <1>1, <1>2, AbortedFacts
<1> HIDE DEF kk1
<1>4. Owners(kk1, mx) /\ Living(kk1) = Living(k) /\ MutexOK(k, mx, Living(kk1), Obj)
  <2>1. Owners(k, mx)
    BY <1>2 DEF MutexOK
  <2>2. Living(kk1) = Living(k)
    BY <1>3 DEF Living
  <2> QED
    BY <1>2, <1>3, <2>1, <2>2, SameOwners
<1>5. kk1.task_state[k.active] = "K_RDY"
  BY <1>2, <1>3 DEF Concerns
<1>6. /\ MutexOK(kk2, mx, Living(kk2), Obj)
      /\ ReadyOK(kk2) /\ WaitOK(kk2) /\ SameCore(k, kk2)
      /\ kk2.task_state = kk1.task_state /\ kk2.blk_obj = kk1.blk_obj
      /\ kk2.blk_state = kk1.blk_state
  BY <1>3, <1>4, ResetKeeps
<1> HIDE DEF kk2
<1>7. kk2.task_state[k.active] = "K_RDY" /\ MutexOK(kk2, mx', Living(kk2), Obj)
  BY <1>1, <1>5, <1>6
<1>8. MutexInv'
  BY <1>1, <1>6, <1>7, CallDone
<1>9. k' = kk2
  BY <1>1 DEF critical_exit_sched
<1>10. WaitEnded(k, k', t)
  BY <1>3, <1>6, <1>9 DEF WaitEnded, Ungiven, Spares, Alive
<1> QED
  BY <1>8, <1>10

\* A task that is deleted waits for nothing.
LEMMA DeletedFacts ==
    ASSUME NEW kk, ReadyOK(kk), WaitOK(kk), NEW t \in Task \ {Idle}, kk.task_state[t] # "K_DELETED",
           NEW kk2, kk2 = task_unlink(kk, t)
    PROVE  /\ Concerns(kk, kk2, t) /\ WaitOK(kk2) /\ Spares(kk, kk2, t) /\ SamePri(kk, kk2)
           /\ kk2.blk_obj[t] = NoObj
           /\ kk2.task_state[t] = "K_DELETED"
<1>1. kk \in Kernel
  BY DEF ReadyOK
<1>2. Concerns(kk, kk2, t) /\ SamePri(kk, kk2)
  BY <1>1, TaskUnlink, TaskUnlinkPri
<1>3. WaitOK(kk2) /\ Spares(kk, kk2, t)
  BY TaskUnlinkWaits DEF Ungranted
<1>4. \E a \in Kernel : kk2 = Gone(a, t)
  <2>1. CASE kk.task_state[t] = "K_RDY"
    <3>1. kk2 = Gone(ready_list_rm(kk, t), t)
      BY <2>1 DEF task_unlink, Gone, Sleeping, Pending
    <3>2. ready_list_rm(kk, t) \in Kernel
      BY <2>1, RmUnmoved
    <3> QED
      BY <3>1, <3>2
  <2>2. CASE kk.task_state[t] = "K_SUSPENDED"
    BY <1>1, <2>2, Zenon DEF task_unlink, Gone, Sleeping, Pending
  <2>3. CASE kk.task_state[t] \in Sleeping
    <3>1. kk2 = Gone(tick_list_rm(kk, t), t)
      BY <2>3 DEF task_unlink, Gone, Sleeping, Pending
    <3>2. tick_list_rm(kk, t) \in Kernel
      BY <1>1, TickRmQuiet DEF Quiet
    <3> QED
      BY <3>1, <3>2
  <2>4. CASE kk.task_state[t] \in Pending
    <3>1. kk2 = Gone(leave_lists(kk, t), t)
      BY <2>4 DEF task_unlink, Gone, Sleeping, Pending
    <3>2. leave_lists(kk, t) \in Kernel
      BY <1>1, LeaveListsPri
    <3> QED
      BY <3>1, <3>2
  <2>5. kk.task_state[t] \in TaskState
    BY <1>1, KernelFields
  <2> QED
    BY <2>1, <2>2, <2>3, <2>4, <2>5 DEF TaskState, Pending, Sleeping
<1>5. kk2.blk_obj[t] = NoObj /\ kk2.task_state[t] = "K_DELETED"
  <2>1. PICK a \in Kernel : kk2 = Gone(a, t)
    BY <1>4
  <2> QED
    BY <2>1 DEF Gone, Kernel
<1> QED
  BY <1>2, <1>3, <1>5

\* t is deleted, and the others are where they were.
Buried(kk, kk2, t) ==
    /\ kk2.task_state[t] = "K_DELETED" /\ kk2.blk_obj[t] = NoObj
    /\ \A u \in Task \ {t} : /\ kk2.task_state[u] = kk.task_state[u]
                             /\ kk2.blk_obj[u] = kk.blk_obj[u]
                             /\ kk2.blk_state[u] = kk.blk_state[u]

\* The task is deleted once its mutexes have been handed on.
LEMMA DelOK ==
    ASSUME NEW kk0, NEW x0 \in MutexState, NEW t \in Task \ {Idle}, Alive(kk0, t),
           NEW kk, NEW x, Freed(kk0, x0, t, kk, x, {}),
           NEW kk1, kk1 = task_unlink(kk, t),
           NEW kk2, kk2 = mutex_task_pri_reset(kk1, x, t, kk.blk_obj[t])
    PROVE  /\ MutexOK(kk2, x, Living(kk2), Obj)
           /\ ReadyOK(kk2) /\ WaitOK(kk2) /\ SameCore(kk0, kk2)
           /\ Buried(kk, kk2, t)
<1>1. /\ ReadyOK(kk) /\ WaitOK(kk) /\ SameCore(kk0, kk)
      /\ MutexOK(kk, x, Living(kk0) \ {t}, Obj)
      /\ Owned(x, t) = {}
      /\ \A u \in Task : Alive(kk, u) <=> Alive(kk0, u)
  BY DEF Freed, Alive
<1>2. kk.task_state[t] # "K_DELETED"
  BY <1>1 DEF Alive
<1>3. /\ Concerns(kk, kk1, t) /\ WaitOK(kk1) /\ Spares(kk, kk1, t) /\ SamePri(kk, kk1)
      /\ kk1.blk_obj[t] = NoObj
      /\ kk1.task_state[t] = "K_DELETED"
  BY <1>1, <1>2, DeletedFacts
<1>4. Living(kk1) = Living(kk0) \ {t}
  <2>1. ASSUME NEW u \in Task PROVE Alive(kk1, u) <=> u # t /\ Alive(kk0, u)
    BY <1>1, <1>3 DEF Concerns, Alive
  <2> QED
    BY <2>1 DEF Living
<1>5. Owners(kk1, x)
  <2> SUFFICES ASSUME NEW m \in x.exists, x.mutex_task[m] # NoTask
               PROVE  x.mutex_task[m] \in Task \ {Idle} /\ Alive(kk1, x.mutex_task[m])
    BY DEF Owners
  <2>1. x.mutex_task[m] \in Task \ {Idle} /\ Alive(kk, x.mutex_task[m])
    BY <1>1 DEF MutexOK, Owners
  <2>2. x.mutex_task[m] # t
    BY <1>1 DEF Owned
  <2> QED
    BY <1>3, <2>1, <2>2 DEF Concerns, Alive
<1>6. MutexOK(kk, x, Living(kk1), Obj)
  BY <1>1, <1>4
<1>7. /\ MutexOK(kk2, x, Living(kk2), Obj)
      /\ ReadyOK(kk2) /\ WaitOK(kk2) /\ SameCore(kk, kk2)
      /\ kk2.task_state = kk1.task_state /\ kk2.blk_obj = kk1.blk_obj
      /\ kk2.blk_state = kk1.blk_state
  BY <1>3, <1>5, <1>6, ResetKeeps
<1>8. SameCore(kk0, kk2)
  BY <1>1, <1>7 DEF SameCore
<1> QED
  BY <1>3, <1>7, <1>8 DEF Spares, Buried

LEMMA DelKeeps ==
    ASSUME MutexInv, DelTwice = FALSE, NEW t \in Task \ {Idle}, mutex_task_del(t)
    PROVE  MutexInv' /\ \E kk : Freed(k, mx, t, kk, mx', {}) /\ Buried(kk, k', t)
<1> DEFINE s == task_mutex_free(k, mx, t)
           kk == s.k
           kk1 == task_unlink(kk, t)
           kk2 == mutex_task_pri_reset(kk1, s.x, t, kk.blk_obj[t])
<1>1. /\ TaskCalls(k.active) /\ (t = k.active => k.sched_lock = 0) /\ k.task_state[t] # "K_DELETED"
      /\ mx' = s.x /\ critical_exit_sched(kk2) /\ UNCHANGED irq_off
  BY DEF mutex_task_del
<1>2. /\ WaitInv /\ SchedInv /\ ReadyOK(k) /\ WaitOK(k) /\ k.active \in Task
      /\ k.task_state[k.active] = "K_RDY" /\ MutexOK(k, mx, Living(k), Obj)
      /\ k.blk_obj[k.active] = NoObj /\ mx \in MutexState
  BY <1>1, CallerFacts
<1>3. Alive(k, t) /\ t \in Living(k)
  BY <1>1 DEF Living, Alive
<1>4. Freed(k, mx, t, kk, mx', {})
  <2>1. Freed(k, mx, t, s.k, s.x, {})
    <3> HIDE DEF s
    <3>1. s = task_mutex_free(k, mx, t)
      BY DEF s
    <3> QED
      BY <1>2, <1>3, <3>1, FreeSettles
  <2> QED
    BY <1>1, <2>1
<1>5. kk1 = task_unlink(kk, t) /\ kk2 = mutex_task_pri_reset(kk1, mx', t, kk.blk_obj[t])
  BY <1>1
<1> HIDE DEF kk, kk1, kk2, s
<1>6. /\ MutexOK(kk2, mx', Living(kk2), Obj)
      /\ ReadyOK(kk2) /\ WaitOK(kk2) /\ SameCore(k, kk2)
      /\ Buried(kk, kk2, t)
  BY <1>2, <1>3, <1>4, <1>5, DelOK
<1>7. kk.task_state[k.active] = "K_RDY"
  <2>1. k.blk_obj[k.active] \notin Owned(mx, t)
    BY <1>2, OwnedFacts, ObjAssumption
  <2> QED
    BY <1>2, <1>4, <2>1 DEF Freed
<1>8. k.sched_lock > 0 => kk2.task_state[k.active] = "K_RDY"
  <2>1. k.sched_lock > 0 => k.active # t
    BY <1>1
  <2> QED
    BY <1>2, <1>6, <1>7, <2>1 DEF Buried
<1>9. MutexInv'
  BY <1>1, <1>6, <1>8, CallDone
<1>10. k' = kk2
  BY <1>1 DEF critical_exit_sched
<1> QED
  BY <1>4, <1>6, <1>9, <1>10

\* What a new TCB holds for the mutexes.
LEMMA TcbWaits ==
    ASSUME NEW kk \in Kernel, NEW t \in Task, NEW state \in TaskState, NEW n \in Nat,
           NEW k1, k1 = Tcb(kk, t, state, n)
    PROVE  /\ k1 \in Kernel
           /\ k1.prio = [kk.prio EXCEPT ![t] = InitPri[t]]
           /\ k1.b_prio = [kk.b_prio EXCEPT ![t] = InitPri[t]]
           /\ k1.blk_obj = [kk.blk_obj EXCEPT ![t] = NoObj]
           /\ k1.task_state = [kk.task_state EXCEPT ![t] = state]
           /\ k1.blk_state = [kk.blk_state EXCEPT ![t] = "BLK_FINISH"]
<1>0. /\ Tcb(kk, t, state, n) \in Kernel
      /\ Tcb(kk, t, state, n).ready = kk.ready
      /\ Tcb(kk, t, state, n).highest_pri = kk.highest_pri
      /\ Tcb(kk, t, state, n).prio = [kk.prio EXCEPT ![t] = InitPri[t]]
      /\ Tcb(kk, t, state, n).task_state = [kk.task_state EXCEPT ![t] = state]
      /\ Tcb(kk, t, state, n).suspend_count = [kk.suspend_count EXCEPT ![t] = n]
      /\ SameCore(kk, Tcb(kk, t, state, n))
  BY TcbFields
<1>1. k1 \in Kernel
  BY <1>0
<1>2. k1.prio = [kk.prio EXCEPT ![t] = InitPri[t]] /\ k1.task_state = [kk.task_state EXCEPT ![t] = state]
  BY <1>0
<1>3. /\ k1.b_prio = [kk.b_prio EXCEPT ![t] = InitPri[t]] /\ k1.blk_obj = [kk.blk_obj EXCEPT ![t] = NoObj]
      /\ k1.blk_state = [kk.blk_state EXCEPT ![t] = "BLK_FINISH"]
  BY DEF Tcb, Kernel
<1> QED
  BY <1>1, <1>2, <1>3

\* The other tasks' waits are as they were.
BornAlone(t) ==
    \A u \in Task \ {t} : /\ k'.task_state[u] = k.task_state[u] /\ k'.blk_obj[u] = k.blk_obj[u]
                          /\ k'.blk_state[u] = k.blk_state[u]

LEMMA CreateTaskKeeps ==
    ASSUME MutexInv, NEW t \in Task, NEW autorun \in BOOLEAN, mutex_task_create(t, autorun)
    PROVE  MutexInv' /\ BornAlone(t)
<1> DEFINE A == Living(k)
           st == IF autorun THEN "K_RDY" ELSE "K_SUSPENDED"
           n == IF autorun THEN 0 ELSE 1
           k1 == Tcb(k, t, st, n)
<1>1. /\ krhino_task_create(t, autorun) /\ TaskCalls(k.active) /\ t # Idle
      /\ k.task_state[t] = "K_DELETED"
      /\ k' = IF autorun THEN ready_list_add_tail(k1, t) ELSE k1
      /\ mx' = [mx EXCEPT !.mutex_list[t] = NoObj]
  BY Zenon DEF mutex_task_create, krhino_task_create, critical_exit_sched, Tcb
<1>2. /\ k \in Kernel /\ ReadyOK(k) /\ WaitOK(k) /\ mx \in MutexState /\ mx.exists \subseteq Obj
      /\ MutexOK(k, mx, A, Obj) /\ A \in SUBSET Task
  BY <1>1, CallerFacts
<1>3. WaitInv'
  BY <1>1, WaitInvStep DEF MutexInv, Next, TaskNext
<1>4. /\ k1 \in Kernel
      /\ k1.prio = [k.prio EXCEPT ![t] = InitPri[t]]
      /\ k1.b_prio = [k.b_prio EXCEPT ![t] = InitPri[t]]
      /\ k1.blk_obj = [k.blk_obj EXCEPT ![t] = NoObj]
      /\ k1.task_state = [k.task_state EXCEPT ![t] = st]
      /\ k1.blk_state = [k.blk_state EXCEPT ![t] = "BLK_FINISH"]
  <2>1. st \in TaskState /\ n \in Nat
    BY DEF TaskState
  <2> HIDE DEF st, n
  <2> QED
    BY <1>2, <2>1, TcbWaits
<1> HIDE DEF k1
<1>5. /\ SamePri(k1, k') /\ k'.blk_obj = k1.blk_obj /\ k'.task_state = k1.task_state
      /\ k'.blk_state = k1.blk_state
  <2>1. CASE autorun
    <3>1. k' = ready_list_add_tail(k1, t)
      BY <1>1, <2>1
    <3>2. SamePri(k1, k') /\ Unmoved(k1, k')
      BY <1>4, <3>1, QueuePri, QueueFields
    <3> QED
      BY <3>2 DEF Unmoved, SameLists
  <2>2. CASE ~autorun
    BY <1>1, <2>2 DEF SamePri
  <2> QED
    BY <2>1, <2>2
<1>6. /\ k.prio \in [Task -> Int] /\ k.b_prio \in [Task -> Pri] /\ k.blk_obj \in [Task -> Obj \cup {NoObj}]
      /\ k.task_state \in [Task -> TaskState] /\ InitPri[t] \in Pri /\ st # "K_DELETED"
  BY <1>2, KernelFields, SchedAssumption DEF Kernel
<1>7. /\ k'.prio[t] = InitPri[t] /\ k'.b_prio[t] = InitPri[t] /\ k'.blk_obj[t] = NoObj /\ Alive(k', t)
      /\ \A u \in Task \ {t} : /\ k'.prio[u] = k.prio[u] /\ k'.b_prio[u] = k.b_prio[u]
                               /\ k'.blk_obj[u] = k.blk_obj[u] /\ k'.task_state[u] = k.task_state[u]
  <2> HIDE DEF st
  <2> QED
    BY <1>4, <1>5, <1>6 DEF SamePri, Alive
<1> HIDE DEF st, n
<1>8. k.blk_obj[t] = NoObj /\ ~Alive(k, t)
  BY <1>1, <1>2, OffBoth DEF Pending, Sleeping, Alive
<1>9. Living(k') = A \cup {t} /\ t \notin A
  <2>1. \A u \in Task \ {t} : Alive(k', u) <=> Alive(k, u)
    BY <1>7 DEF Alive
  <2> QED
    BY <1>7, <1>8, <2>1 DEF Living
<1>10. /\ mx' \in MutexState /\ mx'.exists = mx.exists /\ mx'.mutex_task = mx.mutex_task
       /\ mx'.mutex_list[t] = NoObj
       /\ \A y \in (Task \cup Obj) \ {t} : mx'.mutex_list[y] = mx.mutex_list[y]
  <2>1. mx' \in MutexState
    BY <1>1, <1>2 DEF MutexState
  <2> QED
    BY <1>1, <1>2, <2>1 DEF MutexState
<1>11. Listings(mx, A) /\ Owners(k, mx) /\ Blockers(k, mx, Obj) /\ Dues(k, mx, A)
  BY <1>2 DEF MutexOK
<1> HIDE DEF A
<1>12. (\A w : Owned(mx', w) = Owned(mx, w)) /\ Owned(mx, t) = {}
  <2>1. t # NoTask
    BY MutexAssumption
  <2> QED
    BY <1>8, <1>10, <1>11, <2>1 DEF Owned, Owners
<1>13. ASSUME NEW w \in A \cup {t} PROVE Listed(mx', w, Owned(mx', w))
  <2>1. CASE w = t
    BY <1>10, <1>12, <2>1, NothingListed
  <2>2. CASE w # t
    <3>1. Listed(mx, w, Owned(mx, w)) /\ w \in Task
      BY <1>2, <1>11, <1>13, <2>2 DEF Listings
    <3>2. {w} \cup Owned(mx, w) \subseteq (Task \cup Obj) \ {t}
      BY <1>2, <2>2, <3>1, OwnedFacts, TaskNotObj
    <3> QED
      BY <1>10, <1>12, <3>1, <3>2, SameLinks
  <2> QED
    BY <2>1, <2>2
<1>14. ASSUME NEW w \in A \cup {t} PROVE Due(k', Owned(mx', w), k'.b_prio[w], k'.prio[w])
  <2>1. CASE w = t
    <3>1. InitPri[t] \in Int
      BY <1>6, PriNat
    <3> QED
      BY <1>7, <1>12, <2>1, <3>1 DEF Due
  <2>2. CASE w # t
    <3> DEFINE S == Owned(mx, w)
    <3>1. Due(k, S, k.b_prio[w], k.prio[w]) /\ w \in Task
      BY <1>2, <1>11, <1>14, <2>2 DEF Dues
    <3>2. NoObj \notin S
      BY <1>2, OwnedFacts, ObjAssumption
    <3>3. k'.prio[w] = k.prio[w] /\ k'.b_prio[w] = k.b_prio[w] /\ Owned(mx', w) = S
      BY <1>7, <1>12, <2>2, <3>1
    <3> HIDE DEF S
    <3>4. \A u \in Task : k'.blk_obj[u] \in S => k.blk_obj[u] \in S /\ k'.prio[u] = k.prio[u]
      BY <1>7, <3>2
    <3>5. \A u \in Task : k.blk_obj[u] \in S => k'.blk_obj[u] \in S /\ k'.prio[u] = k.prio[u]
      BY <1>7, <1>8, <3>2
    <3> QED
      BY <3>1, <3>3, <3>4, <3>5 DEF Due
  <2> QED
    BY <2>1, <2>2
<1>15. Owners(k', mx')
  <2>1. \A u \in Task : Alive(k, u) => Alive(k', u)
    BY <1>7 DEF Alive
  <2> QED
    BY <1>10, <1>11, <2>1 DEF Owners
<1>16. Blockers(k', mx', Obj)
  BY <1>7, <1>10, <1>11, ObjAssumption DEF Blockers
<1>17. MutexOK(k', mx', Living(k'), Obj)
  BY <1>9, <1>10, <1>13, <1>14, <1>15, <1>16 DEF MutexOK, Listings, Dues
<1>18. BornAlone(t)
  <2>1. \A u \in Task \ {t} : k'.blk_state[u] = k.blk_state[u]
    BY <1>4, <1>5, <1>6
  <2> QED
    BY <1>7, <2>1 DEF BornAlone
<1> QED
  BY <1>3, <1>17, <1>18 DEF MutexInv

LEMMA PriChangeKeeps ==
    ASSUME MutexInv, NEW t \in Task, NEW p \in Pri, mutex_task_pri_change(t, p)
    PROVE  /\ MutexInv' /\ k'.task_state = k.task_state
           /\ k'.blk_obj = k.blk_obj /\ k'.blk_state = k.blk_state
<1> DEFINE k1 == [k EXCEPT !.b_prio[t] = p]
           limit == mutex_pri_limit(k, mx, t, p)
           kk2 == task_pri_change(k1, mx, t, limit)
           A == Living(k)
           O == AllOwned(mx)
<1>1. /\ TaskCalls(k.active) /\ t # Idle /\ Alive(k, t) /\ t \in A
      /\ critical_exit_sched(kk2) /\ UNCHANGED irq_off /\ mx' = mx
  BY DEF mutex_task_pri_change, Living, Alive
<1>2. /\ k \in Kernel /\ ReadyOK(k) /\ WaitOK(k) /\ mx \in MutexState /\ mx.exists \subseteq Obj
      /\ MutexOK(k, mx, A, Obj) /\ A \in SUBSET Task
      /\ k.active \in Task /\ k.task_state[k.active] = "K_RDY"
  BY <1>1, CallerFacts
<1>3. /\ k1 \in Kernel /\ Quiet(k, k1) /\ Unmoved(k, k1) /\ SameCore(k, k1)
      /\ k1.prio = k.prio /\ k1.blk_obj = k.blk_obj /\ k1.task_state = k.task_state
      /\ k1.b_prio = [k.b_prio EXCEPT ![t] = p]
  <2>1. k1 \in Kernel
    BY <1>2 DEF Kernel
  <2> QED
    BY <1>2, <2>1 DEF Kernel, Quiet, SameReady, SameCore, Unmoved, SameLists
<1> HIDE DEF k1
<1>4. ReadyOK(k1) /\ WaitOK(k1)
  <2>1. Steady(k, k1)
    BY <1>2, <1>3, QuietSteady
  <2>2. Ungranted(k, k1, t)
    BY <1>2, <1>3, UnmovedWaits
  <2> QED
    BY <2>1, <2>2 DEF Steady, Ungranted
<1>5. Listings(mx, A) /\ Owners(k, mx) /\ Blockers(k, mx, Obj) /\ Dues(k, mx, A)
  BY <1>2 DEF MutexOK
<1>6. MutexOK(k1, mx, {}, Obj)
  <2>1. Owners(k1, mx)
    BY <1>3, <1>5 DEF Owners, Alive
  <2>2. Blockers(k1, mx, Obj)
    BY <1>3, <1>5 DEF Blockers
  <2> QED
    BY <1>2, <2>1, <2>2 DEF MutexOK, Listings, Dues
<1>7. Graph(k1, mx, O)
  BY <1>6, GraphOf
<1>8. /\ \A w \in A : ToSet(mutex_chain(mx, w)) = O[w]
      /\ \A w \in Task : O[w] = Owned(mx, w) /\ O[w] \in SUBSET Obj
      /\ \A w \in Task : Alive(k1, w) <=> w \in A
  <2>1. \A w \in A : ToSet(mutex_chain(mx, w)) = O[w]
    BY <1>2, <1>5, ChainOwned
  <2>2. \A w \in Task : O[w] = Owned(mx, w) /\ O[w] \in SUBSET Obj
    BY <1>2, OwnedFacts
  <2>3. \A w \in Task : Alive(k1, w) <=> w \in A
    BY <1>3 DEF Living, Alive
  <2> QED
    BY <2>1, <2>2, <2>3
<1>9. limit \in Pri /\ Due(k1, O[t], p, limit)
  <2> DEFINE S == O[t]
  <2>1. S \in SUBSET Obj /\ ToSet(mutex_chain(mx, t)) = S
    BY <1>1, <1>8
  <2>2. limit = Min({p} \cup first_waiters(k, S))
    BY <2>1 DEF mutex_pri_limit
  <2> HIDE DEF S, limit
  <2>3. limit \in Pri /\ Due(k, S, p, limit)
    BY <1>2, <2>1, <2>2, LookIsDue
  <2> QED
    BY <1>3, <2>3 DEF Due, S
<1>10. k1.b_prio \in [Task -> Pri] /\ k1.b_prio[t] = p /\ \A w \in Task \ {t} : k1.b_prio[w] = k.b_prio[w]
  BY <1>2, <1>3 DEF Kernel
<1>11. Unsettled(k1, O, k1.b_prio, t, limit)
  <2>1. ASSUME NEW w \in Task \ {t}, Alive(k1, w) PROVE Settled(k1, O, k1.b_prio, w)
    <3>1. Due(k, O[w], k.b_prio[w], k.prio[w])
      BY <1>5, <1>8, <2>1 DEF Dues
    <3>2. k1.b_prio[w] = k.b_prio[w]
      BY <1>10, <2>1
    <3> HIDE DEF O
    <3> QED
      BY <1>3, <3>1, <3>2 DEF Due, Settled
  <2>2. Alive(k1, t) /\ t \in Task \ {Idle} /\ Due(k1, O[t], k1.b_prio[t], limit) /\ limit \in Pri
    BY <1>1, <1>8, <1>9, <1>10
  <2> HIDE DEF O, limit
  <2> QED
    BY <2>1, <2>2 DEF Unsettled
<1>12. \A w \in Task \ {t} : Alive(k1, w) => Found(k1, mx, O, k1.b_prio, w)
  <2> HIDE DEF O
  <2> QED
    BY <1>8 DEF Found
<1>13. Repriced(k1, kk2) /\ AllSettled(kk2, O, k1.b_prio)
  <2> HIDE DEF O, limit
  <2>1. kk2 = task_pri_change(k1, mx, t, limit)
    OBVIOUS
  <2> HIDE DEF kk2
  <2> QED
    BY <1>2, <1>4, <1>7, <1>10, <1>11, <1>12, <2>1, PriChangeSettles
<1> HIDE DEF kk2
<1>14. MutexOK(kk2, mx, A, Obj)
  <2>1. \A w \in A : Alive(k1, w)
    BY <1>2, <1>8
  <2> HIDE DEF A
  <2> QED
    BY <1>2, <1>5, <1>6, <1>13, <2>1, SettledOK
<1>15. /\ ReadyOK(kk2) /\ WaitOK(kk2) /\ SameCore(k, kk2) /\ kk2.task_state = k.task_state
       /\ Living(kk2) = A
  BY <1>3, <1>13 DEF Repriced, SameCore, Living, Alive
<1>16. kk2.task_state[k.active] = "K_RDY" /\ MutexOK(kk2, mx', Living(kk2), Obj)
  BY <1>1, <1>2, <1>14, <1>15
<1>17. MutexInv'
  BY <1>1, <1>15, <1>16, CallDone
<1>18. k' = kk2 /\ kk2.blk_obj = k.blk_obj /\ kk2.blk_state = k.blk_state
  BY <1>1, <1>3, <1>13 DEF critical_exit_sched, Repriced, Unmoved
<1> QED
  BY <1>15, <1>17, <1>18

\* The owner o of the mutex a is about to wait for inherits a's priority.
LEMMA InheritOK ==
    ASSUME NEW kk, ReadyOK(kk), WaitOK(kk), NEW x, MutexOK(kk, x, Living(kk), Obj),
           NEW a \in Task, NEW o \in Task \ {Idle}, Alive(kk, o),
           NEW B, B = [kk.b_prio EXCEPT ![o] = IF kk.prio[a] < kk.prio[o] THEN kk.prio[a]
                                                                      ELSE @],
           NEW k1, k1 = IF kk.prio[a] < kk.prio[o] THEN task_pri_change(kk, x, o, kk.prio[a]) ELSE kk
    PROVE  Repriced(kk, k1) /\ k1.prio[a] = kk.prio[a] /\ AllSettled(k1, AllOwned(x), B)
<1> DEFINE O == AllOwned(x)
           p == kk.prio[a]
           A == Living(kk)
<1>1. /\ x \in MutexState /\ x.exists \subseteq Obj /\ kk \in Kernel /\ A \in SUBSET Task
      /\ Dues(kk, x, A)
  BY OwnedFacts DEF MutexOK, ReadyOK, Living
<1>2. /\ kk.prio \in [Task -> Pri] /\ kk.b_prio \in [Task -> Pri] /\ p \in Pri
      /\ kk.prio[o] \in Int /\ p \in Int /\ kk.b_prio[o] \in Int
  BY <1>1, PriNat DEF Kernel
<1>3. \A w \in Task : Alive(kk, w) => Due(kk, O[w], kk.b_prio[w], kk.prio[w])
  <2>1. ASSUME NEW w \in Task, Alive(kk, w) PROVE Due(kk, O[w], kk.b_prio[w], kk.prio[w])
    BY <1>1, <2>1, OwnedFacts DEF Dues, Living
  <2> QED
    BY <2>1
<1> HIDE DEF O
<1>4. CASE ~(p < kk.prio[o])
  <2>1. k1 = kk /\ Repriced(kk, kk)
    BY <1>4 DEF Repriced, SameCore
  <2>2. B[o] = kk.b_prio[o] /\ \A w \in Task \ {o} : B[w] = kk.b_prio[w]
    BY <1>2, <1>4
  <2>3. AllSettled(kk, O, B)
    BY <1>3, <2>2 DEF AllSettled, Settled
  <2> QED
    BY <2>1, <2>3 DEF O
<1>5. CASE p < kk.prio[o]
  <2>1. B[o] = p /\ \A w \in Task \ {o} : B[w] = kk.b_prio[w]
    BY <1>2, <1>5
  <2>2. B \in [Task -> Pri]
    <3>1. B = [kk.b_prio EXCEPT ![o] = p]
      BY <1>5
    <3> QED
      BY <1>2, <3>1
  <2>3. Graph(kk, x, O)
    <3>1. MutexOK(kk, x, A, Obj)
      OBVIOUS
    <3> QED
      BY <3>1, GraphOf DEF O
  <2>4. Due(kk, O[o], B[o], p)
    <3>1. Due(kk, O[o], kk.b_prio[o], kk.prio[o])
      BY <1>3
    <3>2. ASSUME NEW u \in Task, kk.blk_obj[u] \in O[o] PROVE p <= kk.prio[u]
      <4>1. kk.prio[o] <= kk.prio[u]
        BY <3>1, <3>2 DEF Due
      <4>2. kk.prio[u] \in Int
        BY <1>2, PriNat
      <4> HIDE DEF p
      <4> QED
        BY <1>2, <1>5, <4>1, <4>2
    <3> HIDE DEF p
    <3> QED
      BY <1>2, <2>1, <3>2 DEF Due
  <2>5. Unsettled(kk, O, B, o, p)
    <3>1. \A w \in Task \ {o} : Alive(kk, w) => Settled(kk, O, B, w)
      BY <1>3, <2>1 DEF Settled
    <3> QED
      BY <1>2, <2>4, <3>1 DEF Unsettled
  <2>6. \A w \in Task \ {o} : Alive(kk, w) /\ p > kk.prio[o] => Found(kk, x, O, B, w)
    <3> HIDE DEF p
    <3> QED
      BY <1>2, <1>5
  <2>7. k1 = task_pri_change(kk, x, o, p)
    BY <1>5
  <2> HIDE DEF p
  <2>8. /\ Repriced(kk, k1)
        /\ AllSettled(k1, O, B)
        /\ p < kk.prio[o] => \A w \in Task : kk.prio[w] <= p => k1.prio[w] = kk.prio[w]
    BY <1>1, <2>2, <2>3, <2>5, <2>6, <2>7, PriChangeSettles
  <2>9. k1.prio[a] = kk.prio[a]
    <3>1. kk.prio[a] <= p
      BY <1>2 DEF p
    <3> QED
      BY <1>5, <2>8, <3>1
  <2> QED
    BY <2>8, <2>9 DEF O
<1> QED
  BY <1>4, <1>5

\* a has blocked: u is somebody else, who is where it was.
Blocked(kk, kk2, a, m) ==
    /\ kk2.blk_obj = [kk.blk_obj EXCEPT ![a] = m]
    /\ kk2.blk_state = kk.blk_state
    /\ \A u \in Task \ {a} : kk2.task_state[u] = kk.task_state[u]
    /\ kk2.task_state[a] # "K_DELETED"

\* k1 is kk once o has inherited the priority of a, if that is better than its own.
Inherits(kk, x, a, o, k1) ==
    k1 = IF kk.prio[a] < kk.prio[o] THEN task_pri_change(kk, x, o, kk.prio[a]) ELSE kk

LEMMA BlockOK ==
    ASSUME NEW kk, ReadyOK(kk), WaitOK(kk), NEW x, MutexOK(kk, x, Living(kk), Obj),
           NEW m \in x.exists, NEW a \in Task \ {Idle}, kk.task_state[a] = "K_RDY",
           NEW o, o = x.mutex_task[m], o \notin {NoTask, a}, NEW ticks \in Nat \cup {WaitForever},
           NEW k1, Inherits(kk, x, a, o, k1),
           NEW kk2, kk2 = pend_to_blk_obj(k1, m, a, ticks)
    PROVE  /\ Concerns(kk, kk2, a) /\ WaitOK(kk2)
           /\ MutexOK(kk2, x, Living(kk2), Obj)
           /\ Blocked(kk, kk2, a, m)
<1> DEFINE A == Living(kk)
           B == [kk.b_prio EXCEPT ![o] = IF kk.prio[a] < kk.prio[o] THEN kk.prio[a] ELSE @]
<1>1. /\ x \in MutexState /\ x.exists \subseteq Obj /\ m \in Obj /\ kk \in Kernel
      /\ Listings(x, A) /\ Owners(kk, x) /\ Blockers(kk, x, Obj) /\ Dues(kk, x, A)
      /\ A \in SUBSET Task
  BY OwnedFacts DEF MutexOK, ReadyOK, Living
<1>2. o \in Task \ {Idle} /\ Alive(kk, o) /\ m \in Owned(x, o)
  BY <1>1 DEF Owners, Owned
<1>3. Repriced(kk, k1) /\ k1.prio[a] = kk.prio[a] /\ AllSettled(k1, AllOwned(x), B)
  <2>1. B = [kk.b_prio EXCEPT ![o] = IF kk.prio[a] < kk.prio[o] THEN kk.prio[a] ELSE @]
    OBVIOUS
  <2> HIDE DEF B
  <2> QED
    BY <1>2, <2>1, InheritOK DEF Inherits
<1> HIDE DEF A, B
<1>4. /\ ReadyOK(k1) /\ WaitOK(k1) /\ k1 \in Kernel /\ k1.task_state[a] = "K_RDY"
      /\ Steady(kk, k1) /\ k1.blk_obj = kk.blk_obj /\ k1.blk_state = kk.blk_state
      /\ k1.b_prio = kk.b_prio /\ k1.task_state = kk.task_state
  BY <1>3 DEF Repriced, ReadyOK, Steady
<1>5. Concerns(k1, kk2, a) /\ SamePri(k1, kk2)
  BY <1>1, <1>4, PendToBlkObj, PendToBlkObjPri
<1>6. /\ WaitOK(kk2) /\ Spares(k1, kk2, a)
      /\ k1.blk_obj[a] = NoObj
      /\ kk2.blk_obj = [k1.blk_obj EXCEPT ![a] = m]
      /\ kk2.blk_obj[a] = m
      /\ kk2.blk_state = k1.blk_state
  BY <1>1, <1>4, PendToBlkObjWaits
<1>7. Concerns(kk, kk2, a)
  BY <1>4, <1>5, ConcernsTrans
<1>8. kk2.task_state[a] # "K_DELETED"
  <2>1. Linked(kk2, a)
    BY <1>6 DEF WaitOK
  <2> QED
    BY <1>1, <1>6, <2>1 DEF Linked, Pending
<1>9. Blocked(kk, kk2, a, m)
  BY <1>4, <1>6, <1>7, <1>8 DEF Blocked, Concerns
<1>10. \A u \in Task : Alive(kk2, u) <=> Alive(kk, u)
  <2>1. Alive(kk, a)
    BY DEF Alive
  <2> QED
    BY <1>7, <1>8, <2>1 DEF Concerns, Alive
<1>11. Living(kk2) = A
  BY <1>10 DEF A, Living
<1>12. \A u \in Task \ {a} : kk2.blk_obj[u] = kk.blk_obj[u]
  <2>1. \A u \in Task \ {a} : kk2.blk_obj[u] = k1.blk_obj[u]
    BY <1>6 DEF Spares
  <2>2. k1.blk_obj = kk.blk_obj
    BY <1>4
  <2> QED
    BY <2>1, <2>2
<1>13. Owners(kk2, x) /\ Blockers(kk2, x, Obj)
  <2>1. Owners(kk2, x)
    BY <1>1, <1>10, SameOwners
  <2>2. ASSUME NEW u \in Task, kk2.blk_obj[u] \in Obj
        PROVE  kk2.blk_obj[u] \in x.exists /\ x.mutex_task[kk2.blk_obj[u]] \notin {NoTask, u}
    <3>1. CASE u = a
      <4>1. kk2.blk_obj[u] = m
        BY <1>6, <3>1
      <4> QED
        BY <3>1, <4>1
    <3>2. CASE u # a
      <4>1. kk2.blk_obj[u] = kk.blk_obj[u]
        BY <1>12, <3>2
      <4>2. Blockers(kk, x, Obj)
        BY <1>1
      <4> QED
        BY <2>2, <4>1, <4>2 DEF Blockers
    <3> QED
      BY <3>1, <3>2
  <2>3. Blockers(kk2, x, Obj)
    BY <2>2 DEF Blockers
  <2> QED
    BY <2>1, <2>3
<1>14. ASSUME NEW w \in A PROVE Due(kk2, Owned(x, w), kk2.b_prio[w], kk2.prio[w])
  <2> DEFINE S == Owned(x, w)
             p == k1.prio[w]
             b == kk.b_prio[w]
  <2>1. w \in Task /\ S \subseteq Obj /\ NoObj \notin S
    BY <1>1, OwnedFacts, ObjAssumption
  <2>2. Due(k1, S, B[w], p)
    <3>1. Alive(k1, w)
      BY <1>1, <1>4, <1>14 DEF A, Living, Alive
    <3>2. AllOwned(x)[w] = S
      BY <1>1, <2>1, OwnedFacts
    <3> HIDE DEF B, S
    <3> QED
      BY <1>3, <2>1, <3>1, <3>2 DEF AllSettled, Settled
  <2>3. Due(kk, S, b, kk.prio[w])
    BY <1>1, <1>14 DEF Dues
  <2>4. kk2.prio = k1.prio /\ kk2.b_prio = kk.b_prio
    BY <1>4, <1>5 DEF SamePri
  <2>5. /\ kk.b_prio \in [Task -> Pri] /\ b \in Int /\ kk.prio[w] \in Int /\ kk.prio[a] \in Int
        /\ p \in Int /\ \A u \in Task : k1.prio[u] \in Int
    BY <1>1, <1>4, <2>1, PriNat DEF Kernel
  <2>6. \A u \in Task \ {a} : kk2.blk_obj[u] = k1.blk_obj[u]
    BY <1>6 DEF Spares
  <2>7. w # o => m \notin S
    BY <1>1, OwnedFacts
  <2>8. B[w] = IF w = o /\ kk.prio[a] < kk.prio[o] THEN kk.prio[a] ELSE b
    BY <2>1, <2>5 DEF B
  <2> HIDE DEF S, p, b, B
  <2>9. \A u \in Task : k1.blk_obj[u] \in S => u # a /\ kk2.blk_obj[u] \in S
    BY <1>6, <2>1, <2>6
  <2>10. \A u \in Task \ {a} : kk2.blk_obj[u] \in S => k1.blk_obj[u] \in S
    BY <2>6
  <2>11. CASE w # o
    <3>1. B[w] = b
      BY <2>8, <2>11
    <3>2. \A u \in Task : kk2.blk_obj[u] \in S => k1.blk_obj[u] \in S
      BY <1>6, <2>7, <2>10, <2>11
    <3>3. Due(kk2, S, b, p)
      BY <2>2, <2>4, <2>9, <3>1, <3>2 DEF Due
    <3> QED
      BY <2>4, <3>3 DEF S, b, p
  <2>12. CASE w = o /\ ~(kk.prio[a] < kk.prio[o])
    <3>1. B[w] = b /\ k1 = kk
      BY <2>8, <2>12 DEF Inherits
    <3>2. p <= k1.prio[a]
      BY <2>5, <2>12, <3>1 DEF p
    <3>3. p <= b /\ \A u \in Task : kk2.blk_obj[u] \in S => p <= k1.prio[u]
      BY <2>2, <2>10, <3>1, <3>2 DEF Due
    <3>4. p = b \/ \E u \in Task : kk2.blk_obj[u] \in S /\ p = k1.prio[u]
      BY <2>2, <2>9, <3>1 DEF Due
    <3>5. Due(kk2, S, b, p)
      BY <2>4, <3>3, <3>4 DEF Due
    <3> QED
      BY <2>4, <3>5 DEF S, b, p
  <2>13. CASE w = o /\ kk.prio[a] < kk.prio[o]
    <3>1. B[w] = k1.prio[a]
      BY <1>3, <2>8, <2>13
    <3>2. p <= k1.prio[a]
      BY <2>2, <3>1 DEF Due
    <3>3. p <= b
      <4>1. kk.prio[w] <= b
        BY <2>3 DEF Due
      <4>2. p <= kk.prio[a] /\ kk.prio[a] < kk.prio[w]
        BY <1>3, <2>13, <3>2
      <4> QED
        BY <2>5, <4>1, <4>2
    <3>4. \A u \in Task : kk2.blk_obj[u] \in S => p <= k1.prio[u]
      BY <2>2, <2>10, <3>2 DEF Due
    <3>5. p = b \/ \E u \in Task : kk2.blk_obj[u] \in S /\ p = k1.prio[u]
      <4>1. CASE p = B[w]
        <5>1. kk2.blk_obj[a] \in S
          BY <1>2, <1>6, <2>13 DEF S
        <5> QED
          BY <3>1, <4>1, <5>1
      <4>2. CASE p # B[w]
        BY <2>2, <2>9, <4>2 DEF Due
      <4> QED
        BY <4>1, <4>2
    <3>6. Due(kk2, S, b, p)
      BY <2>4, <3>3, <3>4, <3>5 DEF Due
    <3> QED
      BY <2>4, <3>6 DEF S, b, p
  <2> QED
    BY <2>11, <2>12, <2>13
<1>15. MutexOK(kk2, x, A, Obj)
  BY <1>1, <1>13, <1>14 DEF MutexOK, Dues
<1> QED
  BY <1>6, <1>7, <1>9, <1>11, <1>15

LEMMA LockWaitKeeps ==
    ASSUME MutexInv, NEW m \in Obj, NEW ticks \in Ticks \cup {WaitForever}, mutex_lock_wait(m, ticks)
    PROVE  MutexInv' /\ Blocked(k, k', k.active, m) /\ m \in mx.exists
<1> DEFINE a == k.active
           o == mx.mutex_task[m]
           k1 == IF k.prio[a] < k.prio[o] THEN task_pri_change(k, mx, o, k.prio[a]) ELSE k
           kk2 == pend_to_blk_obj(k1, m, a, ticks)
<1>1. /\ TaskCalls(k.active) /\ m \in mx.exists /\ o \notin {NoTask, a} /\ k.sched_lock = 0
      /\ critical_exit_block(kk2) /\ UNCHANGED irq_off /\ mx' = mx
  BY DEF mutex_lock_wait
<1>2. /\ SchedInv /\ ReadyOK(k) /\ WaitOK(k) /\ MutexOK(k, mx, Living(k), Obj)
      /\ a \in Task \ {Idle} /\ k.task_state[a] = "K_RDY"
  BY <1>1, CallerFacts
<1>3. ticks \in Nat \cup {WaitForever}
  BY TaskCallsAssumption
<1>4. /\ o = mx.mutex_task[m]
      /\ Inherits(k, mx, a, o, k1)
      /\ kk2 = pend_to_blk_obj(k1, m, a, ticks)
  BY DEF Inherits
<1>5. a = k.active
  OBVIOUS
<1> HIDE DEF a, o, k1, kk2
<1>6. /\ Concerns(k, kk2, a) /\ WaitOK(kk2)
      /\ MutexOK(kk2, mx, Living(kk2), Obj)
      /\ Blocked(k, kk2, a, m)
  BY <1>1, <1>2, <1>3, <1>4, BlockOK
<1>7. k' = kk2
  BY <1>1 DEF critical_exit_block
<1>8. SchedInv'
  BY <1>1, <1>2, <1>5, <1>6, ExitBlock
<1>9. MutexInv'
  BY <1>1, <1>6, <1>7, <1>8 DEF MutexInv, WaitInv
<1> QED
  BY <1>1, <1>5, <1>6, <1>7, <1>9

\* The same tasks wait, with the priorities they had.
LEMMA DueKept ==
    ASSUME NEW kk, NEW kk2, NEW S, NEW b, NEW p, Due(kk, S, b, p),
           \A u \in Task : kk.blk_obj[u] \in S => kk2.prio[u] = kk.prio[u],
           \A u \in Task : kk2.blk_obj[u] \in S <=> kk.blk_obj[u] \in S
    PROVE  Due(kk2, S, b, p)
  BY DEF Due

\* a's list no longer links m, which has no owner in xm.
Unlinked(x, a, m, xm) ==
    /\ xm \in MutexState /\ xm.exists = x.exists
    /\ xm.mutex_list = mutex_unlink(x, a, m).mutex_list
    /\ xm.mutex_task[m] = NoTask
    /\ \A n \in Obj \ {m} : xm.mutex_task[n] = x.mutex_task[n]

\* What the code does in two steps.
Unhooked(x, a, m, x1, xm) ==
    /\ \E n \in 0 .. MaxDepth : x1 = [mutex_unlink(x, a, m) EXCEPT !.owner_nested[m] = n]
    /\ xm = [x1 EXCEPT !.mutex_task[m] = NoTask]

LEMMA UnlinkState ==
    ASSUME NEW x \in MutexState, NEW a \in Task, NEW m \in Obj, NEW x1, NEW xm,
           Unhooked(x, a, m, x1, xm)
    PROVE  /\ x1 \in MutexState /\ Unlinked(x, a, m, xm)
           /\ x1.exists = x.exists /\ x1.mutex_task = x.mutex_task /\ x1.mutex_list = xm.mutex_list
<1> DEFINE u == mutex_unlink(x, a, m)
<1>0. PICK n \in 0 .. MaxDepth : x1 = [u EXCEPT !.owner_nested[m] = n]
  BY DEF Unhooked
<1>5. xm = [x1 EXCEPT !.mutex_task[m] = NoTask]
  BY DEF Unhooked
<1>1. u \in MutexState /\ u.exists = x.exists /\ u.mutex_task = x.mutex_task
  BY DEF mutex_unlink, MutexState
<1> HIDE DEF u
<1>2. x1 \in MutexState /\ x1.exists = u.exists /\ x1.mutex_task = u.mutex_task /\ x1.mutex_list = u.mutex_list
  <2>1. x1 = [u EXCEPT !.owner_nested[m] = n]
    BY <1>0
  <2>2. u \in MutexState
    BY <1>1
  <2>3. /\ x1 = [exists |-> x1.exists, mutex_task |-> x1.mutex_task, owner_nested |-> x1.owner_nested,
                 mutex_list |-> x1.mutex_list]
        /\ x1.exists = u.exists /\ x1.mutex_task = u.mutex_task /\ x1.mutex_list = u.mutex_list
        /\ x1.owner_nested = [u.owner_nested EXCEPT ![m] = n]
    BY <2>1, <2>2 DEF MutexState
  <2>4. u.owner_nested \in [Obj -> 0 .. MaxDepth]
    BY <2>2 DEF MutexState
  <2>5. x1.owner_nested \in [Obj -> 0 .. MaxDepth]
    <3> DEFINE D == 0 .. MaxDepth
    <3>1. u.owner_nested \in [Obj -> D] /\ n \in D
      BY <2>4
    <3> HIDE DEF D
    <3>2. x1.owner_nested \in [Obj -> D]
      BY <2>3, <3>1
    <3> QED
      BY <3>2 DEF D
  <2>6. x1 \in MutexState
    BY <2>2, <2>3, <2>5 DEF MutexState
  <2> QED
    BY <2>3, <2>6
<1>3. /\ xm \in MutexState /\ xm.exists = x1.exists /\ xm.mutex_list = x1.mutex_list
      /\ xm.mutex_task = [x1.mutex_task EXCEPT ![m] = NoTask]
  BY <1>2, <1>5 DEF MutexState
<1>4. xm.mutex_task[m] = NoTask /\ \A q \in Obj \ {m} : xm.mutex_task[q] = x.mutex_task[q]
  BY <1>1, <1>2, <1>3 DEF MutexState
<1> QED
  BY <1>1, <1>2, <1>3, <1>4 DEF Unlinked, u

\* The running task a releases m.
LEMMA ReleasedOK ==
    ASSUME NEW kk, ReadyOK(kk), WaitOK(kk), NEW x, NEW A, A = Living(kk), MutexOK(kk, x, A, Obj),
           NEW a \in Task \ {Idle}, kk.task_state[a] = "K_RDY", NEW m \in Owned(x, a),
           NEW k1, k1 = mutex_release(kk, x, a, m), NEW xm, Unlinked(x, a, m, xm)
    PROVE  /\ Repriced(kk, k1) /\ OwnedLess(x, xm, m)
           /\ \A u \in Task \ {a} : k1.prio[u] = kk.prio[u]
           /\ MutexOK(k1, xm, A, Obj \ {m})
           /\ (\A u \in Task : kk.blk_obj[u] # m) => k1 = kk /\ MutexOK(kk, xm, A, Obj)
<1> DEFINE S == Owned(x, a) \ {m}
           due == mutex_pri_look(kk, x, a, m)
<1>1. /\ x \in MutexState /\ Listings(x, A) /\ Owners(kk, x) /\ Blockers(kk, x, Obj) /\ Dues(kk, x, A)
      /\ A \in SUBSET Task /\ a \in A /\ kk \in Kernel
  BY DEF MutexOK, Living, Alive, ReadyOK
<1>2. /\ m \in x.exists /\ m \in Obj /\ x.mutex_task[m] = a /\ S \in SUBSET Obj
      /\ \A w \in A : Owned(x, w) \subseteq Obj /\ (w # a => m \notin Owned(x, w))
      /\ \A w \in A \ {a} : Owned(x, w) \cap Owned(x, a) = {}
  BY <1>1, OwnedFacts
<1>3. kk.blk_obj[a] = NoObj
  BY OffBoth DEF Pending, Sleeping
<1>4. /\ kk.prio \in [Task -> Int] /\ kk.b_prio \in [Task -> Pri] /\ kk.b_prio[a] \in Pri
      /\ kk.b_prio[a] \in Int /\ kk.prio[a] \in Int
  BY <1>1, KernelFields, PriNat DEF Kernel
<1>5. due \in Pri /\ Due(kk, S, kk.b_prio[a], due)
  <2>1. ToSet(mutex_chain(x, a)) \ {m} = S
    <3>1. ToSet(mutex_chain(x, a)) = AllOwned(x)[a]
      BY <1>1, ChainOwned
    <3> QED
      BY <1>1, <3>1, OwnedFacts
  <2>2. due = Min({kk.b_prio[a]} \cup first_waiters(kk, S))
    BY <2>1 DEF mutex_pri_look
  <2> HIDE DEF S, due
  <2> QED
    BY <1>2, <1>4, <2>2, LookIsDue
<1> HIDE DEF due
<1>6. Repriced(kk, k1) /\ k1.prio[a] = due /\ \A u \in Task \ {a} : k1.prio[u] = kk.prio[u]
  <2>1. CASE due = kk.prio[a]
    <3>1. k1 = kk
      BY <2>1 DEF mutex_release, due
    <3> QED
      BY <2>1, <3>1 DEF Repriced, SameCore
  <2>2. CASE due # kk.prio[a]
    <3>1. k1 = task_pri_change(kk, x, a, due)
      BY <2>2 DEF mutex_release, due
    <3>2. k1 = pri_change_one(kk, a, due)
      BY <1>5, <3>1, PriChangeAlone
    <3>3. /\ Repriced(kk, k1)
          /\ k1.prio = [kk.prio EXCEPT ![a] = due]
          /\ kk.prio[a] = due => k1 = kk
      BY <1>5, <3>2, OneRepriced
    <3> QED
      BY <1>4, <3>3
  <2> QED
    BY <2>1, <2>2
<1>7. k1.blk_obj = kk.blk_obj /\ k1.b_prio = kk.b_prio /\ k1.task_state = kk.task_state
  BY <1>6 DEF Repriced
<1>8. MutexOK(k1, x, {}, Obj)
  <2>1. Owners(k1, x)
    BY <1>1, <1>7 DEF Owners, Alive
  <2>2. Blockers(k1, x, Obj)
    BY <1>1, <1>7 DEF Blockers
  <2> QED
    BY <1>1, <2>1, <2>2 DEF MutexOK, Listings, Dues
<1>9. ASSUME NEW w \in A
      PROVE  Listed(xm, w, Owned(x, w) \ {m}) /\ Due(k1, Owned(x, w) \ {m}, k1.b_prio[w], k1.prio[w])
  <2>1. Listed(x, w, Owned(x, w)) /\ Listed(x, a, Owned(x, a)) /\ w \in Task
        /\ xm.mutex_list = mutex_unlink(x, a, m).mutex_list
    BY <1>1 DEF Listings, Unlinked
  <2>2. ASSUME NEW T \in SUBSET Obj, NEW b, NEW p, Due(kk, T, b, p) PROVE Due(k1, T, b, p)
    <3>1. \A u \in Task : kk.blk_obj[u] \in T => k1.prio[u] = kk.prio[u]
      BY <1>3, <1>6, <2>2, ObjAssumption
    <3> QED
      BY <1>7, <2>2, <3>1, DueKept
  <2>3. CASE w = a
    <3>1. Listed(xm, a, Owned(x, a) \ {m})
      BY <1>1, <2>1, UnlinkListed
    <3>2. Due(k1, S, kk.b_prio[a], due)
      BY <1>2, <1>5, <2>2
    <3> QED
      BY <1>6, <1>7, <2>3, <3>1, <3>2
  <2>4. CASE w # a
    <3>1. Owned(x, w) \ {m} = Owned(x, w) /\ Owned(x, w) \cap Owned(x, a) = {} /\ w \in Task \ {a}
      BY <1>2, <2>1, <2>4
    <3>2. Listed(xm, w, Owned(x, w))
      BY <1>1, <2>1, <3>1, UnlinkOthers
    <3>3. Due(kk, Owned(x, w), kk.b_prio[w], kk.prio[w])
      BY <1>1 DEF Dues
    <3>4. Due(k1, Owned(x, w), kk.b_prio[w], kk.prio[w])
      BY <1>2, <2>2, <3>3
    <3>5. k1.b_prio[w] = kk.b_prio[w] /\ k1.prio[w] = kk.prio[w]
      BY <1>6, <1>7, <3>1
    <3> QED
      BY <3>1, <3>2, <3>4, <3>5
  <2> QED
    BY <2>3, <2>4
<1>10. Orphaned(k1, x, A, m, xm)
  BY <1>9 DEF Orphaned, Unlinked
<1>11. /\ OwnedLess(x, xm, m)
       /\ MutexOK(k1, xm, A, Obj \ {m})
       /\ (\A u \in Task : k1.blk_obj[u] # m) => MutexOK(k1, xm, A, Obj)
  BY <1>1, <1>2, <1>8, <1>10, OrphanOK
<1>12. ASSUME \A u \in Task : kk.blk_obj[u] # m PROVE k1 = kk
  <2>1. Due(kk, Owned(x, a), kk.b_prio[a], kk.prio[a])
    BY <1>1 DEF Dues
  <2>2. Due(kk, S, kk.b_prio[a], kk.prio[a])
    <3>1. \A u \in Task : kk.blk_obj[u] \in S <=> kk.blk_obj[u] \in Owned(x, a)
      BY <1>12
    <3> HIDE DEF S
    <3> QED
      BY <2>1, <3>1 DEF Due
  <2>3. due = kk.prio[a]
    <3>1. due \in Int
      BY <1>5, PriNat
    <3> HIDE DEF S
    <3> QED
      BY <1>4, <1>5, <2>2, <3>1, DueUnique
  <2> QED
    BY <2>3 DEF mutex_release, due
<1> QED
  BY <1>6, <1>7, <1>11, <1>12

\* m is handed on to the first task that waits for it.
HandedOn(kk, kk2, x2, t, m) ==
    /\ t \in Task \ {Idle} /\ kk.blk_obj[t] = m /\ x2.mutex_task[m] = t
    /\ kk2.blk_obj[t] = NoObj /\ kk2.blk_state[t] = "BLK_FINISH"
    /\ kk2.task_state[t] \notin Sleeping
    /\ Concerns(kk, kk2, t) /\ WaitOK(kk2) /\ Spares(kk, kk2, t)
    /\ \A u \in Task : kk.blk_obj[u] = m => kk.prio[t] <= kk.prio[u]

\* t is the first task that waits for m, and kk2 is what kk becomes when it is woken.
FirstWoken(kk, m, t, kk2) ==
    kk.blk_list[m] # <<>> /\ t = Head(kk.blk_list[m]) /\ kk2 = pend_task_wakeup(kk, t)

LEMMA HandOnOK ==
    ASSUME NEW kk, ReadyOK(kk), WaitOK(kk), NEW x, NEW m \in x.exists,
           x.mutex_task[m] = NoTask, MutexOK(kk, x, Living(kk), Obj \ {m}),
           NEW t, NEW kk2, FirstWoken(kk, m, t, kk2), NEW x2, Pushed(x, x2, t, m)
    PROVE  HandedOn(kk, kk2, x2, t, m) /\ MutexOK(kk2, x2, Living(kk2), Obj)
<1> DEFINE A == Living(kk)
<1>0. kk.blk_list[m] # <<>> /\ t = Head(kk.blk_list[m]) /\ kk2 = pend_task_wakeup(kk, t)
  BY DEF FirstWoken
<1>1. m \in Obj /\ x \in MutexState /\ A \in SUBSET Task
  BY OwnedFacts DEF MutexOK, Living
<1>2. /\ t \in Task /\ kk.blk_obj[t] = m
      /\ \A u \in ToSet(kk.blk_list[m]) : kk.prio[t] <= kk.prio[u]
  BY <1>0, <1>1, FirstWaiter
<1>3. \A u \in Task : kk.blk_obj[u] = m => kk.prio[t] <= kk.prio[u]
  <2>1. ToSet(kk.blk_list[m]) = {u \in Task : kk.blk_obj[u] = m}
    BY <1>1, WaitersListed
  <2> QED
    BY <1>2, <2>1
<1>4. kk2 = end_pend(kk, t, "BLK_FINISH") /\ "BLK_FINISH" \in BlkState /\ kk.blk_obj[t] \in Obj
  BY <1>0, <1>1, <1>2 DEF pend_task_wakeup, BlkState
<1>5. /\ Concerns(kk, kk2, t) /\ WaitOK(kk2) /\ Spares(kk, kk2, t) /\ SamePri(kk, kk2)
      /\ kk2.blk_obj = [kk.blk_obj EXCEPT ![t] = NoObj]
      /\ kk2.blk_obj[t] = NoObj
      /\ kk2.blk_state[t] = "BLK_FINISH"
      /\ kk2.task_state[t] # "K_DELETED" /\ kk2.task_state[t] \notin Sleeping
      /\ t # Idle
  BY <1>2, <1>4, WokenUp
<1>6. t \in A /\ \A u \in Task : Alive(kk2, u) <=> Alive(kk, u)
  <2>1. Alive(kk, t)
    <3>1. Linked(kk, t)
      BY <1>2 DEF WaitOK
    <3> QED
      BY <1>4, <3>1 DEF Linked, Pending, Alive
  <2> QED
    BY <1>2, <1>5, <2>1 DEF Concerns, Alive, Living
<1>7. Living(kk2) = A
  BY <1>6 DEF Living
<1>8. \A u \in Task \ {t} : kk2.blk_obj[u] = kk.blk_obj[u]
  BY <1>5 DEF Spares
<1>9. Alive(kk2, t) /\ \A u \in Task : Alive(kk, u) => Alive(kk2, u)
  BY <1>5, <1>6 DEF Alive
<1>10. MutexOK(kk2, x2, A, Obj)
  BY <1>1, <1>2, <1>3, <1>5, <1>6, <1>8, <1>9, HandOverOK
<1>11. HandedOn(kk, kk2, x2, t, m)
  BY <1>2, <1>3, <1>5 DEF HandedOn, Pushed
<1> QED
  BY <1>7, <1>10, <1>11

\* What a task leaves that unlocks m for good: ...
UnlockedAlone(m, a) ==
    /\ \A u \in Task : k.blk_obj[u] # m
    /\ k' = k /\ mx'.mutex_task[m] = NoTask
    /\ \A n \in Obj \ {m} : mx'.mutex_task[n] = mx.mutex_task[n]

\* ... or it hands m on to t.
UnlockedTo(m, a, t) ==
    /\ t \in Task \ {Idle, a} /\ k.blk_obj[t] = m /\ mx'.mutex_task[m] = t
    /\ \A u \in Task : k.blk_obj[u] = m => k.prio[t] <= k.prio[u]
    /\ k'.blk_obj[t] = NoObj /\ k'.blk_state[t] = "BLK_FINISH" /\ k'.task_state[t] \notin Sleeping
    /\ \A u \in Task \ {t} : /\ k'.blk_obj[u] = k.blk_obj[u] /\ k'.blk_state[u] = k.blk_state[u]
                             /\ k'.task_state[u] = k.task_state[u]
    /\ \A n \in Obj \ {m} : mx'.mutex_task[n] = mx.mutex_task[n]

LEMMA UnlockLastKeeps ==
    ASSUME MutexInv, NEW m \in Obj, mutex_unlock_last(m)
    PROVE  /\ MutexInv' /\ mx'.exists = mx.exists /\ mx.mutex_task[m] = k.active
           /\ UnlockedAlone(m, k.active) \/ \E t \in Task : UnlockedTo(m, k.active, t)
<1> DEFINE a == k.active
           A == Living(k)
           k1 == mutex_release(k, mx, a, m)
           x1 == [mutex_unlink(mx, a, m) EXCEPT !.owner_nested[m] = 0]
           xm == [x1 EXCEPT !.mutex_task[m] = NoTask]
           t  == Head(k1.blk_list[m])
           kk2 == pend_task_wakeup(k1, t)
<1>1. /\ TaskCalls(a) /\ m \in mx.exists /\ mx.mutex_task[m] = a /\ UNCHANGED irq_off
      /\ k1.blk_list[m] = <<>> => k' = k1 /\ mx' = xm /\ UNCHANGED pc
      /\ k1.blk_list[m] # <<>> => /\ critical_exit_sched(kk2)
                                  /\ mx' = [mutex_hand_over(x1, t, m) EXCEPT !.owner_nested[m] = 1]
  BY DEF mutex_unlock_last
<1>2. /\ SchedInv /\ ReadyOK(k) /\ WaitOK(k) /\ MutexOK(k, mx, A, Obj) /\ mx \in MutexState
      /\ a \in Task \ {Idle} /\ k.task_state[a] = "K_RDY" /\ k.blk_obj[a] = NoObj /\ A \in SUBSET Task
  BY <1>1, CallerFacts
<1>3. /\ x1 \in MutexState /\ Unlinked(mx, a, m, xm)
      /\ x1.exists = mx.exists /\ x1.mutex_task = mx.mutex_task /\ x1.mutex_list = xm.mutex_list
  <2>1. Unhooked(mx, a, m, x1, xm)
    <3>1. 0 \in 0 .. MaxDepth
      BY MutexAssumption
    <3> QED
      BY <3>1 DEF Unhooked
  <2>2. mx \in MutexState /\ a \in Task
    BY <1>2
  <2> HIDE DEF x1, xm, a
  <2> QED
    BY <2>1, <2>2, UnlinkState
<1>4. m \in Owned(mx, a) /\ A = Living(k) /\ k1 = mutex_release(k, mx, a, m) /\ a = k.active
  BY <1>1 DEF Owned
<1>5. t = Head(k1.blk_list[m]) /\ kk2 = pend_task_wakeup(k1, t)
  OBVIOUS
<1>6. mutex_hand_over(x1, t, m) = [mutex_push(x1, t, m) EXCEPT !.mutex_task[m] = t]
  BY DEF mutex_hand_over
<1> HIDE DEF a, A, k1, x1, xm, t, kk2
<1>7. /\ Repriced(k, k1) /\ OwnedLess(mx, xm, m)
      /\ \A u \in Task \ {a} : k1.prio[u] = k.prio[u]
      /\ MutexOK(k1, xm, A, Obj \ {m})
      /\ (\A u \in Task : k.blk_obj[u] # m) => k1 = k /\ MutexOK(k, xm, A, Obj)
  BY <1>2, <1>3, <1>4, ReleasedOK, SMTT(60)
<1>8. /\ ReadyOK(k1) /\ WaitOK(k1) /\ SameCore(k, k1) /\ k1.task_state = k.task_state
      /\ k1.blk_obj = k.blk_obj /\ k1.blk_state = k.blk_state
  BY <1>7 DEF Repriced
<1>9. CASE k1.blk_list[m] = <<>>
  <2>1. \A u \in Task : k.blk_obj[u] # m
    BY <1>8, <1>9, WaitersListed
  <2>2. k1 = k /\ MutexOK(k, xm, A, Obj)
    BY <1>7, <2>1
  <2>3. k' = k /\ mx' = xm /\ UNCHANGED schedVars
    BY <1>1, <1>9, <2>2 DEF schedVars
  <2>4. MutexInv'
    BY <1>4, <2>2, <2>3, SchedSame
  <2>5. UnlockedAlone(m, a)
    BY <1>3, <2>1, <2>3 DEF UnlockedAlone, Unlinked
  <2> QED
    BY <1>1, <1>3, <1>4, <2>3, <2>4, <2>5 DEF Unlinked
<1>10. CASE k1.blk_list[m] # <<>>
  <2>1. /\ xm.exists = mx.exists /\ xm.mutex_task[m] = NoTask
        /\ \A n \in Obj \ {m} : xm.mutex_task[n] = mx.mutex_task[n]
    BY <1>3 DEF Unlinked
  <2>2. t \in Task
    BY <1>5, <1>8, <1>10, FirstWaiter
  <2>3. Pushed(x1, mx', t, m)
    <3> DEFINE b == [mutex_push(x1, t, m) EXCEPT !.mutex_task[m] = t]
    <3>1. mx' = [mutex_push(x1, t, m) EXCEPT !.mutex_task[m] = t, !.owner_nested[m] = 1]
      BY <1>1, <1>6, <1>10
    <3>2. 1 \in 0 .. MaxDepth
      BY MutexAssumption
    <3> QED
      BY <1>3, <2>2, <3>1, <3>2, PushState, Zenon
  <2>4. Pushed(xm, mx', t, m)
    <3>1. mutex_push(x1, t, m).mutex_list = mutex_push(xm, t, m).mutex_list
      BY <1>3 DEF mutex_push, Unlinked, MutexState
    <3>2. \A n \in Obj \ {m} : xm.mutex_task[n] = x1.mutex_task[n]
      BY <1>3, <2>1
    <3> QED
      BY <1>3, <2>1, <2>3, <3>1, <3>2 DEF Pushed
  <2>5. A = Living(k1) /\ m \in xm.exists
    BY <1>1, <1>4, <1>8, <2>1 DEF Living, Alive
  <2>6. HandedOn(k1, kk2, mx', t, m) /\ MutexOK(kk2, mx', Living(kk2), Obj)
    <3>1. ReadyOK(k1) /\ WaitOK(k1) /\ m \in xm.exists /\ xm.mutex_task[m] = NoTask
      BY <1>8, <2>1, <2>5
    <3>2. MutexOK(k1, xm, Living(k1), Obj \ {m}) /\ FirstWoken(k1, m, t, kk2)
      BY <1>5, <1>7, <1>10, <2>5 DEF FirstWoken
    <3> QED
      BY <2>4, <3>1, <3>2, HandOnOK
  <2>7. /\ t \in Task \ {Idle} /\ k1.blk_obj[t] = m /\ mx'.mutex_task[m] = t
        /\ kk2.blk_obj[t] = NoObj /\ kk2.blk_state[t] = "BLK_FINISH" /\ kk2.task_state[t] \notin Sleeping
        /\ Concerns(k1, kk2, t) /\ WaitOK(kk2) /\ Spares(k1, kk2, t)
        /\ \A u \in Task : k1.blk_obj[u] = m => k1.prio[t] <= k1.prio[u]
    BY <2>6 DEF HandedOn
  <2>8. t # a
    BY <1>2, <1>8, <2>7, ObjAssumption
  <2>9. /\ ReadyOK(kk2) /\ SameCore(k, kk2) /\ kk2.task_state[a] = "K_RDY"
    BY <1>2, <1>8, <2>7, <2>8 DEF Concerns, SameCore
  <2>10. critical_exit_sched(kk2) /\ MutexOK(kk2, mx', Living(kk2), Obj)
    BY <1>1, <1>10, <2>6
  <2>11. MutexInv'
    BY <1>1, <1>4, <2>7, <2>9, <2>10, CallDone
  <2>12. k' = kk2
    BY <2>10 DEF critical_exit_sched
  <2>13. \A u \in Task \ {t} : /\ kk2.blk_obj[u] = k.blk_obj[u] /\ kk2.blk_state[u] = k.blk_state[u]
                               /\ kk2.task_state[u] = k.task_state[u]
    BY <1>8, <2>7 DEF Spares
  <2>14. mx'.exists = mx.exists /\ \A n \in Obj \ {m} : mx'.mutex_task[n] = mx.mutex_task[n]
    BY <2>1, <2>4 DEF Pushed
  <2>14a. \A u \in Task : k.blk_obj[u] = m => k.prio[t] <= k.prio[u]
    <3>1. \A u \in Task : k.blk_obj[u] = m => u # a
      BY <1>1, <1>2, ObjAssumption
    <3> QED
      BY <1>7, <1>8, <2>7, <2>8, <3>1
  <2>15. UnlockedTo(m, a, t)
    BY <1>8, <2>7, <2>8, <2>12, <2>13, <2>14, <2>14a DEF UnlockedTo
  <2> QED
    BY <1>1, <1>4, <2>2, <2>11, <2>14, <2>15
<1> QED
  BY <1>9, <1>10, SMTT(40)

\* Waking waiters one after the other changes no priority.
LEMMA EachPri ==
    ASSUME NEW kk, ReadyOK(kk), NEW s \in Seq(Task), NEW bs \in BlkState,
           NEW kk2, kk2 = end_pend_each(kk, s, bs)
    PROVE  SamePri(kk, kk2)
<1>1. Len(s) \in Nat /\ \A i \in 1 .. Len(s) : s[i] \in Task
  OBVIOUS
<1>2. PICK f : Loops(f, Len(s), kk, s, bs) /\ end_pend_each(kk, s, bs) = f[Len(s)]
  BY <1>1, EachIs
<1> DEFINE S == {n \in Nat : n <= Len(s) => ReadyOK(f[n]) /\ SamePri(kk, f[n])}
<1>3. 0 \in S
  <2>1. f[0] = kk
    BY <1>1, <1>2 DEF Loops
  <2> QED
    BY <2>1 DEF SamePri
<1>4. ASSUME NEW n \in Nat, n \in S PROVE n + 1 \in S
  <2> SUFFICES ASSUME n + 1 <= Len(s) PROVE ReadyOK(f[n + 1]) /\ SamePri(kk, f[n + 1])
    OBVIOUS
  <2> DEFINE a == f[n]
             b == f[n + 1]
             t == s[n + 1]
  <2>1. ReadyOK(a) /\ SamePri(kk, a)
    BY <1>1, <1>4
  <2>2. b = end_pend(a, t, bs)
    BY <1>1, <1>2 DEF Loops
  <2>3. t \in Task
    BY <1>1
  <2> HIDE DEF a, b, t, S
  <2>4. Concerns(a, b, t) /\ SamePri(a, b)
    <3>1. a \in Kernel
      BY <2>1 DEF ReadyOK
    <3> QED
      BY <2>1, <2>2, <2>3, <3>1, EndPend, EndPendPri
  <2>5. ReadyOK(b) /\ SamePri(kk, b)
    BY <2>1, <2>4 DEF Concerns, SamePri
  <2> QED
    BY <2>5 DEF b
<1> HIDE DEF S
<1>5. Len(s) \in S
  BY <1>1, <1>3, <1>4, NatInductive
<1> QED
  BY <1>1, <1>2, <1>5 DEF S

\* m is no mutex any more.
Removed(x, m, x1) ==
    /\ x1 \in MutexState /\ x1.exists = x.exists \ {m}
    /\ x1.mutex_task = x.mutex_task /\ x1.mutex_list = x.mutex_list

\* The tasks that owned m in x no longer do.
LEMMA RemovedOwned ==
    ASSUME NEW x \in MutexState, NEW m \in x.exists, NEW x1, Removed(x, m, x1)
    PROVE  \A w : Owned(x1, w) = Owned(x, w) \ {m}
  BY DEF Removed, Owned

\* The owner of m, if there is one, gives up what it inherited through m.
LEMMA GivenUpOK ==
    ASSUME NEW kk, ReadyOK(kk), WaitOK(kk), NEW x, MutexOK(kk, x, Living(kk), Obj),
           NEW m \in x.exists, NEW x1, Removed(x, m, x1),
           NEW o, o = x.mutex_task[m],
           NEW k1, k1 = IF o = NoTask THEN kk ELSE mutex_release(kk, x1, o, m)
    PROVE  Repriced(kk, k1) /\ AllSettled(k1, AllOwned(x1), kk.b_prio)
<1> DEFINE A == Living(kk)
           O == AllOwned(x1)
<1>1. /\ x \in MutexState /\ Listings(x, A) /\ Owners(kk, x) /\ Blockers(kk, x, Obj) /\ Dues(kk, x, A)
      /\ A \in SUBSET Task /\ m \in Obj
  BY OwnedFacts DEF MutexOK, Living
<1>2. /\ x1 \in MutexState /\ x1.exists \subseteq Obj /\ x1.exists = x.exists \ {m}
      /\ x1.mutex_task = x.mutex_task /\ x1.mutex_list = x.mutex_list
  BY OwnedFacts DEF Removed
<1>3. \A w \in Task : O[w] = Owned(x1, w) /\ O[w] = Owned(x, w) \ {m} /\ O[w] \subseteq Obj
  <2>1. \A w \in Task : O[w] = Owned(x1, w) /\ Owned(x1, w) \subseteq Obj
    BY <1>2, OwnedFacts
  <2>2. \A w : Owned(x1, w) = Owned(x, w) \ {m}
    BY <1>1, RemovedOwned
  <2> QED
    BY <2>1, <2>2
<1>4. Graph(kk, x1, O)
  <2>1. MutexOK(kk, x, A, Obj)
    OBVIOUS
  <2>2. Graph(kk, x, AllOwned(x))
    BY <2>1, GraphOf
  <2>3. \A w \in Task : AllOwned(x)[w] = Owned(x, w)
    BY <1>1, OwnedFacts
  <2>4. O \in [Task -> SUBSET Obj]
    BY <1>2, OwnedFacts
  <2>5. ASSUME NEW w \in Task, NEW n \in O[w] PROVE n \in x1.exists /\ x1.mutex_task[n] = w
    <3>1. n \in Owned(x1, w)
      BY <1>3, <2>5
    <3> QED
      BY <3>1 DEF Owned
  <2>6. ASSUME NEW u \in Task, kk.blk_obj[u] \in x1.exists
        PROVE  LET w == x1.mutex_task[kk.blk_obj[u]] IN
               w \in Task \ {Idle, u} /\ Alive(kk, w) /\ kk.blk_obj[u] \in O[w]
    <3> DEFINE w == x.mutex_task[kk.blk_obj[u]]
    <3>1. kk.blk_obj[u] \in x.exists /\ kk.blk_obj[u] # m
      BY <1>2, <2>6
    <3>2. w \in Task \ {Idle, u} /\ Alive(kk, w) /\ kk.blk_obj[u] \in AllOwned(x)[w]
      BY <2>2, <3>1 DEF Graph
    <3>3. kk.blk_obj[u] \in O[w]
      BY <1>3, <2>3, <3>1, <3>2
    <3> QED
      BY <1>2, <3>2, <3>3
  <2> HIDE DEF O
  <2> QED
    BY <2>4, <2>5, <2>6 DEF Graph
<1>5. ASSUME NEW w \in A
      PROVE  ToSet(mutex_chain(x1, w)) = Owned(x, w) /\ (m \notin Owned(x, w) => Settled(kk, O, kk.b_prio, w))
  <2>1. Listed(x, w, Owned(x, w)) /\ Due(kk, Owned(x, w), kk.b_prio[w], kk.prio[w]) /\ w \in Task
    BY <1>1 DEF Listings, Dues
  <2>2. Listed(x1, w, Owned(x, w))
    BY <1>2, <2>1, SameLinks
  <2>3. ToSet(mutex_chain(x1, w)) = Owned(x, w)
    BY <2>2, ListedChain DEF Holds
  <2>4. ASSUME m \notin Owned(x, w) PROVE Settled(kk, O, kk.b_prio, w)
    <3>1. O[w] = Owned(x, w)
      BY <1>3, <2>1, <2>4
    <3> HIDE DEF O
    <3> QED
      BY <2>1, <3>1 DEF Settled
  <2> QED
    BY <2>3, <2>4
<1>6. \A w \in Task : Alive(kk, w) => w \in A
  BY DEF Living
<1>7. CASE o = NoTask
  <2>1. k1 = kk /\ Repriced(kk, kk)
    BY <1>7 DEF Repriced, SameCore
  <2>2. \A w \in Task : m \notin Owned(x, w)
    BY <1>7, MutexAssumption DEF Owned
  <2>3. AllSettled(kk, O, kk.b_prio)
    BY <1>5, <1>6, <2>2 DEF AllSettled
  <2> QED
    BY <2>1, <2>3
<1>8. CASE o # NoTask
  <2>1. o \in Task \ {Idle} /\ Alive(kk, o)
    BY <1>1, <1>8 DEF Owners
  <2>2. ASSUME NEW w \in Task \ {o}, Alive(kk, w)
        PROVE  Settled(kk, O, kk.b_prio, w) /\ ToSet(mutex_chain(x1, w)) = O[w]
    <3>1. m \notin Owned(x, w) /\ w \in A
      BY <1>6, <2>2 DEF Owned
    <3>2. O[w] = Owned(x, w)
      BY <1>3, <3>1
    <3> QED
      BY <1>5, <3>1, <3>2
  <2>3. ToSet(mutex_chain(x1, o)) \ {m} = O[o]
    BY <1>3, <1>5, <1>6, <2>1
  <2>4. k1 = mutex_release(kk, x1, o, m)
    BY <1>8
  <2>5. \A w \in Task \ {o} : Alive(kk, w) => /\ Settled(kk, O, kk.b_prio, w)
                                              /\ ToSet(mutex_chain(x1, w)) = O[w]
    BY <2>2
  <2>6. x1.exists \subseteq Obj
    BY <1>2
  <2> HIDE DEF O
  <2>7. Repriced(kk, k1) /\ AllSettled(k1, O, kk.b_prio)
    BY <1>4, <2>1, <2>3, <2>4, <2>5, <2>6, ReleaseSettles
  <2> QED
    BY <2>7 DEF O
<1> QED
  BY <1>7, <1>8

\* The mutexes left are linked as they were, without m.
LEMMA RemovedLinks ==
    ASSUME NEW x \in MutexState, NEW A \in SUBSET Task, Listings(x, A),
           NEW m \in x.exists, NEW x1, Removed(x, m, x1),
           NEW o, o = x.mutex_task[m], o # NoTask => o \in A,
           NEW x2, x2 = IF o = NoTask THEN x1 ELSE mutex_unlink(x1, o, m)
    PROVE  /\ x2 \in MutexState /\ x2.exists = x.exists \ {m} /\ x2.mutex_task = x.mutex_task
           /\ Listings(x2, A)
           /\ \A w : Owned(x2, w) = Owned(x, w) \ {m}
<1>1. /\ x1 \in MutexState /\ x1.exists = x.exists \ {m} /\ x1.mutex_task = x.mutex_task
      /\ x1.mutex_list = x.mutex_list /\ m \in Obj
  BY DEF Removed, MutexState
<1>2. x2 \in MutexState /\ x2.exists = x1.exists /\ x2.mutex_task = x1.mutex_task
  <2>1. CASE o = NoTask
    BY <1>1, <2>1
  <2>2. CASE o # NoTask
    BY <1>1, <2>2 DEF mutex_unlink, MutexState
  <2> QED
    BY <2>1, <2>2
<1>3. \A w : Owned(x2, w) = Owned(x, w) \ {m}
  BY <1>1, <1>2 DEF Owned
<1>4. ASSUME NEW w \in A PROVE Listed(x1, w, Owned(x, w)) /\ w \in Task
  <2>1. Listed(x, w, Owned(x, w))
    BY DEF Listings
  <2> QED
    BY <1>1, <2>1, SameLinks
<1>5. ASSUME NEW w \in A PROVE Listed(x2, w, Owned(x, w) \ {m})
  <2>1. CASE o = NoTask
    <3>1. m \notin Owned(x, w)
      BY <1>4, <2>1, MutexAssumption DEF Owned
    <3>2. Owned(x, w) \ {m} = Owned(x, w) /\ x2 = x1
      BY <2>1, <3>1
    <3> QED
      BY <1>4, <3>2
  <2>2. CASE o # NoTask
    <3>1. o \in A /\ o \in Task /\ Listed(x1, o, Owned(x, o)) /\ m \in Owned(x, o)
      BY <1>4, <2>2 DEF Owned
    <3>2. x2.mutex_list = mutex_unlink(x1, o, m).mutex_list
      BY <2>2
    <3>3. CASE w = o
      BY <1>1, <3>1, <3>2, <3>3, UnlinkListed
    <3>4. CASE w # o
      <4>1. Owned(x, w) \cap Owned(x, o) = {} /\ Owned(x, w) \ {m} = Owned(x, w)
        BY <3>1, <3>4 DEF Owned
      <4>2. w \in Task \ {o} /\ Listed(x1, w, Owned(x, w))
        BY <1>4, <3>4
      <4>3. Listed(x2, w, Owned(x, w))
        BY <1>1, <3>1, <3>2, <4>1, <4>2, UnlinkOthers
      <4> QED
        BY <4>1, <4>3
    <3> QED
      BY <3>3, <3>4
  <2> QED
    BY <2>1, <2>2
<1>6. Listings(x2, A)
  BY <1>3, <1>5 DEF Listings
<1> QED
  BY <1>1, <1>2, <1>3, <1>6

\* Whoever waited for m is woken with an error.
Forsaken(kk, kk2, m) ==
    \A u \in Task :
        IF kk.blk_obj[u] = m
        THEN /\ kk2.blk_obj[u] = NoObj /\ kk2.blk_state[u] = "BLK_DEL"
             /\ Alive(kk2, u) /\ Alive(kk, u)
        ELSE /\ kk2.task_state[u] = kk.task_state[u] /\ kk2.blk_obj[u] = kk.blk_obj[u]
             /\ kk2.blk_state[u] = kk.blk_state[u]

\* What krhino_mutex_del does for the owner o, if there is one.
GivesUp(kk, x1, o, m, k1) == k1 = IF o = NoTask THEN kk ELSE mutex_release(kk, x1, o, m)
Unlinks(x1, o, m, x2)     == x2 = IF o = NoTask THEN x1 ELSE mutex_unlink(x1, o, m)

LEMMA DeletedMutexOK ==
    ASSUME NEW kk, ReadyOK(kk), WaitOK(kk), NEW x, MutexOK(kk, x, Living(kk), Obj),
           NEW m \in x.exists, NEW x1, Removed(x, m, x1), NEW o, o = x.mutex_task[m],
           NEW k1, GivesUp(kk, x1, o, m, k1),
           NEW kk2, kk2 = end_pend_each(k1, k1.blk_list[m], "BLK_DEL"),
           NEW x2, Unlinks(x1, o, m, x2)
    PROVE  /\ ReadyOK(kk2) /\ WaitOK(kk2) /\ SameCore(kk, kk2) /\ Forsaken(kk, kk2, m)
           /\ MutexOK(kk2, x2, Living(kk2), Obj)
<1> DEFINE A == Living(kk)
           W == ToSet(k1.blk_list[m])
<1>1. /\ x \in MutexState /\ Listings(x, A) /\ Owners(kk, x) /\ Blockers(kk, x, Obj)
      /\ A \in SUBSET Task /\ m \in Obj
  BY OwnedFacts DEF MutexOK, Living
<1>2. Repriced(kk, k1) /\ AllSettled(k1, AllOwned(x1), kk.b_prio)
  BY GivenUpOK DEF GivesUp
<1>3. /\ ReadyOK(k1) /\ WaitOK(k1) /\ SameCore(kk, k1) /\ k1.task_state = kk.task_state
      /\ k1.blk_obj = kk.blk_obj /\ k1.blk_state = kk.blk_state /\ k1.b_prio = kk.b_prio
  BY <1>2 DEF Repriced
<1>4. W = {u \in Task : kk.blk_obj[u] = m} /\ k1.blk_list[m] \in Seq(Task)
  BY <1>1, <1>3, WaitersListed
<1>5. IsInjective(k1.blk_list[m])
  BY <1>1, <1>3 DEF WaitOK, Right, PendRight, Holds
<1>6. Woken(k1, kk2, W, "BLK_DEL") /\ SamePri(k1, kk2)
  <2>1. "BLK_DEL" \in BlkState /\ \A u \in W : k1.blk_obj[u] \in Obj
    BY <1>1, <1>3, <1>4 DEF BlkState
  <2> QED
    BY <1>3, <1>4, <1>5, <2>1, EachWaits, EachPri
<1>7. /\ ReadyOK(kk2) /\ WaitOK(kk2) /\ SameCore(kk, kk2)
      /\ kk2.prio = k1.prio /\ kk2.b_prio = kk.b_prio
  BY <1>3, <1>6 DEF Woken, SameCore, SamePri
<1> HIDE DEF W
<1>8. Forsaken(kk, kk2, m)
  <2>1. ASSUME NEW u \in Task, kk.blk_obj[u] = m
        PROVE  /\ kk2.blk_obj[u] = NoObj /\ kk2.blk_state[u] = "BLK_DEL"
               /\ Alive(kk2, u) /\ Alive(kk, u)
    <3>1. u \in W
      BY <1>4, <2>1
    <3>2. kk.task_state[u] \in Pending
      BY <1>1, <2>1 DEF WaitOK, Linked
    <3> QED
      BY <1>6, <3>1, <3>2 DEF Woken, Alive, Pending
  <2>2. ASSUME NEW u \in Task, kk.blk_obj[u] # m
        PROVE  /\ kk2.task_state[u] = kk.task_state[u] /\ kk2.blk_obj[u] = kk.blk_obj[u]
               /\ kk2.blk_state[u] = kk.blk_state[u]
    <3>1. u \in Task \ W
      BY <1>4, <2>2
    <3>2. /\ kk2.task_state[u] = k1.task_state[u] /\ kk2.blk_obj[u] = k1.blk_obj[u]
          /\ kk2.blk_state[u] = k1.blk_state[u]
      BY <1>6, <3>1 DEF Woken
    <3> QED
      BY <1>3, <3>2
  <2> QED
    BY <2>1, <2>2 DEF Forsaken
<1>9. \A u \in Task : Alive(kk2, u) <=> Alive(kk, u)
  BY <1>8 DEF Forsaken, Alive
<1>10. Living(kk2) = A
  BY <1>9 DEF Living
<1>11. o # NoTask => o \in A
  BY <1>1 DEF Owners, Living
<1>12. /\ x2 \in MutexState /\ x2.exists = x.exists \ {m} /\ x2.mutex_task = x.mutex_task
       /\ Listings(x2, A)
       /\ \A w : Owned(x2, w) = Owned(x, w) \ {m}
  <2> HIDE DEF A
  <2> QED
    BY <1>1, <1>11, RemovedLinks DEF Unlinks
<1>13. Owners(kk2, x2)
  BY <1>1, <1>9, <1>12 DEF Owners
<1>14. Blockers(kk2, x2, Obj)
  <2>1. ASSUME NEW u \in Task, kk2.blk_obj[u] \in Obj
        PROVE  kk2.blk_obj[u] \in x2.exists /\ x2.mutex_task[kk2.blk_obj[u]] \notin {NoTask, u}
    <3>1. kk.blk_obj[u] # m /\ kk2.blk_obj[u] = kk.blk_obj[u]
      BY <1>8, <2>1, ObjAssumption DEF Forsaken
    <3>2. kk.blk_obj[u] \in x.exists /\ x.mutex_task[kk.blk_obj[u]] \notin {NoTask, u}
      BY <1>1, <2>1, <3>1 DEF Blockers
    <3> QED
      BY <1>12, <3>1, <3>2
  <2> QED
    BY <2>1 DEF Blockers
<1>15. ASSUME NEW w \in A PROVE Due(kk2, Owned(x2, w), kk2.b_prio[w], kk2.prio[w])
  <2>0. \A v : Owned(x1, v) = Owned(x, v) \ {m}
    BY <1>1, RemovedOwned
  <2>1. Owned(x2, w) = Owned(x1, w) /\ m \notin Owned(x2, w) /\ Owned(x2, w) \subseteq Obj /\ w \in Task
    <3>1. Owned(x2, w) = Owned(x, w) \ {m} /\ Owned(x, w) \subseteq Obj /\ w \in Task
      BY <1>1, <1>12, OwnedFacts
    <3> QED
      BY <2>0, <3>1
  <2>2. Settled(k1, AllOwned(x1), kk.b_prio, w)
    BY <1>2, <1>3 DEF AllSettled, Living, Alive
  <2>3. Due(k1, Owned(x2, w), kk.b_prio[w], k1.prio[w])
    BY <2>1, <2>2 DEF Settled, AllOwned
  <2>4. \A u \in Task : kk2.prio[u] = k1.prio[u]
    BY <1>7
  <2>5. \A u \in Task : kk2.blk_obj[u] \in Owned(x2, w) <=> k1.blk_obj[u] \in Owned(x2, w)
    <3> DEFINE S == Owned(x2, w)
    <3>1. NoObj \notin S /\ m \notin S
      BY <2>1, ObjAssumption
    <3> HIDE DEF S
    <3> SUFFICES ASSUME NEW u \in Task PROVE kk2.blk_obj[u] \in S <=> k1.blk_obj[u] \in S
      BY DEF S
    <3>2. CASE kk.blk_obj[u] = m
      <4>1. kk2.blk_obj[u] = NoObj /\ k1.blk_obj[u] = m
        BY <1>3, <1>8, <3>2 DEF Forsaken
      <4> QED
        BY <3>1, <4>1
    <3>3. CASE kk.blk_obj[u] # m
      <4>1. kk2.blk_obj[u] = kk.blk_obj[u]
        BY <1>8, <3>3 DEF Forsaken
      <4> QED
        BY <1>3, <4>1
    <3> QED
      BY <3>2, <3>3
  <2>6. Due(kk2, Owned(x2, w), kk.b_prio[w], k1.prio[w])
    <3> DEFINE S == Owned(x2, w)
               b == kk.b_prio[w]
               p == k1.prio[w]
    <3>1. Due(k1, S, b, p)
      BY <2>3
    <3>2. \A u \in Task : k1.blk_obj[u] \in S => kk2.prio[u] = k1.prio[u]
      BY <2>4
    <3>3. \A u \in Task : kk2.blk_obj[u] \in S <=> k1.blk_obj[u] \in S
      BY <2>5
    <3> HIDE DEF S, b, p
    <3>4. Due(kk2, S, b, p)
      BY <3>1, <3>2, <3>3, DueKept
    <3> QED
      BY <3>4 DEF S, b, p
  <2> QED
    BY <1>7, <2>6
<1>16. MutexOK(kk2, x2, A, Obj)
  BY <1>12, <1>13, <1>14, <1>15 DEF MutexOK, Dues
<1> QED
  BY <1>7, <1>8, <1>10, <1>16

LEMMA DelMutexKeeps ==
    ASSUME MutexInv, NEW m \in Obj, krhino_mutex_del(m)
    PROVE  /\ MutexInv' /\ Forsaken(k, k', m)
           /\ mx'.exists = mx.exists \ {m} /\ mx'.mutex_task = mx.mutex_task
<1> DEFINE o  == mx.mutex_task[m]
           x1 == [mx EXCEPT !.exists = @ \ {m}]
           k1 == IF o = NoTask THEN k ELSE mutex_release(k, x1, o, m)
           x2 == IF o = NoTask THEN x1 ELSE mutex_unlink(x1, o, m)
           kk2 == end_pend_each(k1, k1.blk_list[m], "BLK_DEL")
<1>1. /\ TaskCalls(k.active) /\ m \in mx.exists /\ UNCHANGED irq_off
      /\ mx' = x2 /\ critical_exit_sched(kk2)
  BY DEF krhino_mutex_del
<1>2. /\ SchedInv /\ ReadyOK(k) /\ WaitOK(k) /\ MutexOK(k, mx, Living(k), Obj) /\ mx \in MutexState
      /\ k.task_state[k.active] = "K_RDY" /\ k.blk_obj[k.active] = NoObj /\ k.active \in Task
  BY <1>1, CallerFacts
<1>3. Removed(mx, m, x1)
  BY <1>2 DEF Removed, MutexState
<1>4. /\ o = mx.mutex_task[m]
      /\ k1 = IF o = NoTask THEN k ELSE mutex_release(k, x1, o, m)
      /\ x2 = IF o = NoTask THEN x1 ELSE mutex_unlink(x1, o, m)
      /\ kk2 = end_pend_each(k1, k1.blk_list[m], "BLK_DEL")
  OBVIOUS
<1> HIDE DEF o, x1, k1, x2, kk2
<1>5. /\ ReadyOK(kk2) /\ WaitOK(kk2) /\ SameCore(k, kk2) /\ Forsaken(k, kk2, m)
      /\ MutexOK(kk2, x2, Living(kk2), Obj)
  <2>1. GivesUp(k, x1, o, m, k1) /\ Unlinks(x1, o, m, x2)
    BY <1>4 DEF GivesUp, Unlinks
  <2> QED
    BY <1>1, <1>2, <1>3, <1>4, <2>1, DeletedMutexOK
<1>6. kk2.task_state[k.active] = "K_RDY"
  BY <1>2, <1>5, ObjAssumption DEF Forsaken
<1>7. MutexInv'
  BY <1>1, <1>5, <1>6, CallDone
<1>8. k' = kk2
  BY <1>1 DEF critical_exit_sched
<1>9. x2.exists = mx.exists \ {m} /\ x2.mutex_task = mx.mutex_task
  <2>1. o # NoTask => o \in Living(k)
    BY <1>1, <1>2, <1>4 DEF MutexOK, Owners, Living
  <2>2. Listings(mx, Living(k)) /\ Living(k) \in SUBSET Task
    BY <1>2 DEF MutexOK, Living
  <2> QED
    BY <1>1, <1>2, <1>3, <1>4, <2>1, <2>2, RemovedLinks
<1> QED
  BY <1>1, <1>5, <1>7, <1>8, <1>9

-----------------------------------------------------------------------------
(* The theorems *)

\* At the start no mutex exists and nobody waits.
LEMMA MutexInitCorrect == MutexInit => MutexInv
<1> SUFFICES ASSUME MutexInit PROVE MutexInv
  OBVIOUS
<1>1. WaitInv
  BY SchedInvInit, WaitInvInit DEF MutexInit, Init, WaitInv
<1>2. /\ \A t \in Task : k.blk_obj[t] = NoObj
      /\ k.prio = InitPri /\ k.b_prio = InitPri
      /\ mx.exists = {} /\ \A t \in Task : mx.mutex_list[t] = NoObj
  BY DEF MutexInit, SchedInit, KernelInit
<1>3. mx \in MutexState
  <2> DEFINE D == 0 .. MaxDepth
  <2>1. 0 \in D
    BY MutexAssumption
  <2> HIDE DEF D
  <2>2. [m \in Obj |-> 0] \in [Obj -> D]
    BY <2>1
  <2> QED
    BY <2>2 DEF MutexInit, MutexState, D
<1>4. \A t : Owned(mx, t) = {}
  BY <1>2 DEF Owned
<1>5. Listings(mx, Living(k))
  BY <1>2, <1>4, NothingListed DEF Listings, Living
<1>6. Owners(k, mx) /\ Blockers(k, mx, Obj)
  BY <1>2, ObjAssumption DEF Owners, Blockers
<1>7. Dues(k, mx, Living(k))
  <2>1. \A t \in Task : k.prio[t] = k.b_prio[t] /\ k.prio[t] \in Int
    BY <1>1, <1>2, PriNat DEF WaitInv, WaitOK, Right, Kernel
  <2> QED
    BY <1>4, <2>1 DEF Dues, Due, Living
<1> QED
  BY <1>1, <1>3, <1>5, <1>6, <1>7 DEF MutexInv, MutexOK

\* Every step keeps the invariant, as long as no task is deleted that is deleted already
\* and none locks a mutex more often than owner_nested counts.
LEMMA MutexStep == DelTwice = FALSE /\ NestTooDeep = FALSE /\ MutexInv /\ [MutexNext]_mutexVars => MutexInv'
<1> SUFFICES ASSUME DelTwice = FALSE, NestTooDeep = FALSE, MutexInv, [MutexNext]_mutexVars PROVE MutexInv'
  BY Zenon
<1>1. CASE UNCHANGED mutexVars
  <2>1. UNCHANGED schedVars /\ mx' = mx
    BY <1>1 DEF mutexVars, schedVars
  <2>2. MutexOK(k, mx', Living(k), Obj)
    BY <2>1 DEF MutexInv
  <2> QED
    BY <2>1, <2>2, SchedSame
<1>2. CASE PlainNext /\ UNCHANGED <<mx, locks>>
  BY <1>2, PlainKeeps
<1>3. CASE mutex_tick_next
  BY <1>3, TickKeeps
<1>4. ASSUME NEW t \in Task, mutex_lock_end(t) PROVE MutexInv'
  BY <1>4, LockEndKeeps
<1>5. ASSUME NEW t \in Task, NEW autorun \in BOOLEAN, mutex_task_create(t, autorun) PROVE MutexInv'
  BY <1>5, CreateTaskKeeps
<1>6. ASSUME NEW t \in Victims, mutex_task_del(t) PROVE MutexInv'
  <2>1. t \in Task \ {Idle}
    BY TaskCallsAssumption
  <2> QED
    BY <1>6, <2>1, DelKeeps
<1>7. ASSUME NEW t \in Movable, NEW p \in NewPri, mutex_task_pri_change(t, p) PROVE MutexInv'
  <2>1. t \in Task /\ p \in Pri
    BY TaskCallsAssumption
  <2> QED
    BY <1>7, <2>1, PriChangeKeeps
<1>8. ASSUME NEW t \in Abortable, mutex_task_wait_abort(t) PROVE MutexInv'
  <2>1. t \in Task
    BY TaskCallsAssumption
  <2> QED
    BY <1>8, <2>1, WaitAbortKeeps
<1>9. ASSUME NEW m \in Obj, krhino_mutex_create(m) \/ krhino_mutex_lock(m) \/ krhino_mutex_unlock(m)
      PROVE  MutexInv'
  <2>1. CASE krhino_mutex_create(m)
    BY <2>1, CreateMutexKeeps
  <2>2. CASE mutex_lock_nested(m) \/ mutex_unlock_nested(m)
    BY <2>2, NestedKeeps
  <2>3. CASE mutex_lock_free(m)
    BY <2>3, LockFreeKeeps
  <2>4. ASSUME NEW ticks \in Ticks \cup {WaitForever}, mutex_lock_wait(m, ticks) PROVE MutexInv'
    BY <2>4, LockWaitKeeps
  <2>5. CASE mutex_unlock_last(m)
    BY <2>5, UnlockLastKeeps
  <2>6. ~mutex_lock_overflow(m)
    BY DEF mutex_lock_overflow
  <2> QED
    BY <1>9, <2>1, <2>2, <2>3, <2>4, <2>5, <2>6 DEF krhino_mutex_lock, krhino_mutex_unlock
<1>10. ASSUME NEW m \in Removable, krhino_mutex_del(m) PROVE MutexInv'
  <2>1. m \in Obj
    BY MutexAssumption
  <2> QED
    BY <1>10, <2>1, DelMutexKeeps
<1> QED
  BY <1>1, <1>2, <1>3, <1>4, <1>5, <1>6, <1>7, <1>8, <1>9, <1>10 DEF MutexNext

\* The invariant holds in every reachable state.
THEOREM MutexInvAlways == DelTwice = FALSE /\ NestTooDeep = FALSE /\ MutexSpec => []MutexInv
<1> SUFFICES ASSUME DelTwice = FALSE, NestTooDeep = FALSE PROVE MutexSpec => []MutexInv
  BY Zenon
<1>1. MutexInv /\ [MutexNext]_mutexVars => MutexInv'
  BY MutexStep
<1> QED
  BY <1>1, MutexInitCorrect, PTL DEF MutexSpec

\* What RhinoTask_proofs says of the kernel's lists and of who
\* executes holds with mutexes too, whose priority changes reorder those lists.
THEOREM KernelCorrectWithMutexes ==
    DelTwice = FALSE /\ NestTooDeep = FALSE /\ MutexSpec =>
        [](/\ KernelTypeOK /\ ReadyListsOK /\ HighestPriOK /\ OnlyReadyExecutes /\ NoMissedSwitch
           /\ PendListsOK /\ PendListsSorted /\ TickListOK /\ NoFatalError)
<1>1. MutexInv => /\ KernelTypeOK /\ ReadyListsOK /\ HighestPriOK /\ OnlyReadyExecutes
                  /\ NoMissedSwitch
                  /\ PendListsOK /\ PendListsSorted /\ TickListOK /\ NoFatalError
  BY ReadyQueueFacts, ExecutingIsReady, WaitFacts DEF MutexInv, WaitInv, SchedInv
<1> QED
  BY <1>1, MutexInvAlways, PTL

\* The lists of the mutexes tasks hold agree with the owners the mutexes name.
THEOREM MutexListsCorrect == DelTwice = FALSE /\ NestTooDeep = FALSE /\ MutexSpec => []MutexListsOK
<1>1. MutexInv => MutexListsOK
  <2> SUFFICES ASSUME MutexInv PROVE MutexListsOK
    OBVIOUS
  <2>1. Listings(mx, Living(k)) /\ Owners(k, mx)
    BY DEF MutexInv, MutexOK
  <2>2. ASSUME NEW t \in Task, k.task_state[t] # "K_DELETED"
        PROVE  Holds(mutex_chain(mx, t), {m \in mx.exists : mx.mutex_task[m] = t})
    <3>1. Listed(mx, t, Owned(mx, t))
      BY <2>1, <2>2 DEF Listings, Living, Alive
    <3>2. Holds(mutex_chain(mx, t), Owned(mx, t))
      BY <3>1, ListedChain
    <3> QED
      BY <3>2 DEF Owned
  <2> QED
    BY <2>1, <2>2 DEF MutexListsOK, Owners, Alive
<1> QED
  BY <1>1, MutexInvAlways, PTL

\* Nobody waits for a mutex that is free, deleted or owned by the waiter.
THEOREM WaitersHaveOwnerAlways == DelTwice = FALSE /\ NestTooDeep = FALSE /\ MutexSpec => []WaitersHaveOwner
<1>1. MutexInv => WaitersHaveOwner
  <2> SUFFICES ASSUME MutexInv, NEW m \in Obj, k.blk_list[m] # <<>>
               PROVE  m \in mx.exists /\ mx.mutex_task[m] \notin {NoTask} \cup ToSet(k.blk_list[m])
    BY DEF WaitersHaveOwner
  <2>1. WaitOK(k) /\ Blockers(k, mx, Obj)
    BY DEF MutexInv, WaitInv, MutexOK
  <2>2. ToSet(k.blk_list[m]) = {t \in Task : k.blk_obj[t] = m} /\ \E t \in Task : k.blk_obj[t] = m
    BY <2>1, WaitersListed
  <2>3. \A t \in Task : k.blk_obj[t] = m => m \in mx.exists /\ mx.mutex_task[m] \notin {NoTask, t}
    BY <2>1 DEF Blockers
  <2> QED
    BY <2>2, <2>3
<1> QED
  BY <1>1, MutexInvAlways, PTL

\* Priority inheritance is exact, along chains of owners of any length.
THEOREM PriorityInheritedAlways == DelTwice = FALSE /\ NestTooDeep = FALSE /\ MutexSpec => []PriorityInherited
<1>1. MutexInv => PriorityInherited
  <2> SUFFICES ASSUME MutexInv, NEW t \in Task, k.task_state[t] # "K_DELETED"
               PROVE  k.prio[t] = mutex_pri_look(k, mx, t, NoObj)
    BY DEF PriorityInherited
  <2> DEFINE O == Owned(mx, t)
             p == mutex_pri_look(k, mx, t, NoObj)
  <2>1. /\ WaitOK(k) /\ mx \in MutexState /\ Living(k) \in SUBSET Task
        /\ Listings(mx, Living(k)) /\ Dues(k, mx, Living(k)) /\ t \in Living(k)
    BY DEF MutexInv, WaitInv, MutexOK, Living, Alive
  <2>2. k.prio \in [Task -> Pri] /\ k.b_prio \in [Task -> Pri]
    BY <2>1 DEF WaitOK, Right, Kernel
  <2>3. ToSet(mutex_chain(mx, t)) = O /\ O \in SUBSET Obj
    BY <2>1, ChainOwned, OwnedFacts
  <2>4. O \ {NoObj} = O
    BY <2>3, ObjAssumption
  <2>5. p = Min({k.b_prio[t]} \cup first_waiters(k, O))
    BY <2>3, <2>4 DEF mutex_pri_look
  <2>6. Due(k, O, k.b_prio[t], k.prio[t])
    BY <2>1 DEF Dues
  <2> HIDE DEF O, p
  <2>7. p \in Pri /\ Due(k, O, k.b_prio[t], p)
    BY <2>1, <2>2, <2>3, <2>5, LookIsDue
  <2>8. k.prio \in [Task -> Int] /\ k.b_prio[t] \in Int /\ k.prio[t] \in Int /\ p \in Int
    BY <2>2, <2>7, PriNat
  <2>9. k.prio[t] = p
    BY <2>6, <2>7, <2>8, DueUnique
  <2> QED
    BY <2>9 DEF p
<1> QED
  BY <1>1, MutexInvAlways, PTL

-----------------------------------------------------------------------------
(* Lock calls that are under way *)

\* t is in a call that has blocked.
Engaged(t) == pc[t] \in {"block", "end"} /\ k.task_state[t] \notin Sleeping

\* The step leaves t in the call: it waits as before, its wait ends without success,
\* or it is given the mutex it waits for.
Undisturbed(t) ==
    /\ Engaged(t)'
    /\ \/ k'.blk_obj[t] = k.blk_obj[t] /\ k'.blk_state[t] = k.blk_state[t]
       \/ /\ k'.blk_obj[t] = NoObj
          /\ \/ k'.blk_state[t] # "BLK_FINISH"
             \/ k'.blk_state[t] = k.blk_state[t] /\ k.blk_obj[t] = NoObj
             \/ k.blk_obj[t] \in Obj /\ mx'.mutex_task[k.blk_obj[t]] = t

\* The end of a call of another task, or of an interrupt handler, leaves t where it is.
LEMMA ExitEngaged ==
    ASSUME WaitInv, NEW t \in Task, Engaged(t), NEW STATE kk, critical_exit_sched(kk), AnyCalls
    PROVE  pc'[t] = pc[t] /\ k' = kk /\ (k.nested = 0 => t # k.active)
<1>1. pc \in [Task -> {"run", "sched", "block", "end"}]
  BY InvFacts DEF WaitInv
<1>2. k.nested = 0 => pc[k.active] = "run"
  BY DEF AnyCalls, IsrCalls, TaskCalls
<1>3. k.nested = 0 => t # k.active
  BY <1>2 DEF Engaged
<1>4. ASSUME k.nested # 0 PROVE pc' = pc
  BY <1>4, InvFacts DEF critical_exit_sched, WaitInv
<1>5. ASSUME k.nested = 0 PROVE pc'[t] = pc[t]
  BY <1>1, <1>3, <1>5 DEF critical_exit_sched
<1>6. k' = kk
  BY DEF critical_exit_sched
<1> QED
  BY <1>3, <1>4, <1>5, <1>6

\* The switches and interrupts.
LEMMA SwitchEngaged ==
    ASSUME WaitInv, SwitchNext, NEW t \in Task, Engaged(t)
    PROVE  Undisturbed(t)
<1>1. /\ k \in Kernel /\ ReadyOK(k) /\ k.active \in Task
      /\ pc \in [Task -> {"run", "sched", "block", "end"}]
  BY WaitInvFacts, InvFacts DEF WaitInv
<1>2. pc'[t] \in {"block", "end"}
  <2>1. ASSUME NEW u \in Task, core_sched(u) PROVE pc'[t] \in {"block", "end"}
    BY <1>1, <2>1 DEF core_sched, Engaged
  <2>2. CASE krhino_sched_enable
    <3>1. pc[k.active] = "run" /\ t # k.active
      BY <2>2 DEF krhino_sched_enable, TaskCalls, Engaged
    <3> QED
      BY <1>1, <2>2, <3>1 DEF krhino_sched_enable, critical_exit_sched, Engaged
  <2>3. CASE krhino_intrpt_enter \/ krhino_intrpt_exit \/ krhino_sched_disable \/ tick_intrpt \/ tick_end
    BY <2>3 DEF krhino_intrpt_enter, krhino_intrpt_exit, krhino_sched_disable, tick_intrpt, tick_end,
                Engaged
  <2> QED
    BY <2>1, <2>2, <2>3 DEF SwitchNext
<1>3. k'.blk_obj = k.blk_obj /\ k'.blk_state = k.blk_state /\ k'.task_state = k.task_state
  <2>1. ASSUME \/ \E u \in Task : core_sched(u)
               \/ krhino_intrpt_enter
               \/ krhino_intrpt_exit
               \/ krhino_sched_disable
               \/ krhino_sched_enable
        PROVE  Unmoved(k, k')
    BY <2>1, SwitchUnmoved
  <2>2. CASE tick_intrpt
    BY <1>1, <2>2 DEF tick_intrpt, tick_count_inc, Kernel
  <2>3. CASE tick_end
    <3>1. Unmoved(k, time_slice_update(k))
      BY <1>1, TimeSliceUnmoved
    <3> QED
      BY <2>3, <3>1 DEF tick_end, Unmoved, SameLists
  <2> QED
    BY <2>1, <2>2, <2>3 DEF SwitchNext, Unmoved, SameLists
<1> QED
  BY <1>2, <1>3 DEF Undisturbed, Engaged

\* A task that is engaged makes no calls, so it does not begin to sleep.
LEMMA SleepEngaged ==
    ASSUME WaitInv, NEW ticks \in Ticks, krhino_task_sleep(ticks), NEW t \in Task, Engaged(t)
    PROVE  Undisturbed(t)
<1> DEFINE u == k.active
           a == [k EXCEPT !.task_state[u] = "K_SLEEP"]
           b == tick_list_insert(a, u, ticks)
<1>1. /\ k \in Kernel /\ u \in Task /\ ticks \in Nat /\ TaskCalls(u)
      /\ pc \in [Task -> {"run", "sched", "block", "end"}]
  BY WaitInvFacts, InvFacts, CallerReady, TaskCallsAssumption DEF krhino_task_sleep, WaitInv
<1>2. t # u
  BY <1>1 DEF TaskCalls, Engaged
<1>3. /\ a \in Kernel /\ a.blk_obj = k.blk_obj /\ a.blk_state = k.blk_state
      /\ a.task_state[t] = k.task_state[t]
  BY <1>1, <1>2, Zenon DEF Kernel, TaskState
<1>4. k' = ready_list_rm(b, u) /\ pc' = [pc EXCEPT ![u] = "block"]
  BY DEF krhino_task_sleep, critical_exit_block
<1> HIDE DEF a
<1>5. /\ b \in Kernel /\ b.blk_obj = a.blk_obj /\ b.blk_state = a.blk_state
      /\ b.task_state = a.task_state
  <2>1. b \in Kernel
    BY <1>1, <1>3, TickInsertQuiet DEF Quiet
  <2> QED
    BY <1>3, <2>1, Zenon DEF tick_list_insert, Kernel
<1> HIDE DEF b, u
<1>6. Unmoved(b, k')
  BY <1>4, <1>5, QueueFields
<1>7. pc'[t] = pc[t]
  BY <1>1, <1>2, <1>4
<1> QED
  BY <1>3, <1>5, <1>6, <1>7 DEF Undisturbed, Engaged, Unmoved, SameLists

LEMMA YieldEngaged ==
    ASSUME WaitInv, krhino_task_yield, NEW t \in Task, Engaged(t)
    PROVE  Undisturbed(t)
<1>1. /\ k \in Kernel /\ AnyCalls /\ critical_exit_sched(ready_list_head_to_tail(k, k.active))
  BY WaitInvFacts DEF krhino_task_yield, AnyCalls
<1>2. pc'[t] = pc[t] /\ k' = ready_list_head_to_tail(k, k.active)
  BY <1>1, ExitEngaged
<1>3. Unmoved(k, k')
  BY <1>1, <1>2, QueueFields
<1> QED
  BY <1>2, <1>3 DEF Undisturbed, Engaged, Unmoved, SameLists

\* Suspended or not, a task that waits does not sleep.
LEMMA SuspendEngaged ==
    ASSUME WaitInv, NEW u \in Task, krhino_task_suspend(u), NEW t \in Task, Engaged(t)
    PROVE  Undisturbed(t)
<1> DEFINE a == [k EXCEPT !.suspend_count[u] = 1, !.task_state[u] = "K_SUSPENDED"]
<1>1. k \in Kernel /\ AnyCalls /\ critical_exit_sched(task_suspend(k, u))
  BY WaitInvFacts DEF krhino_task_suspend
<1>2. pc'[t] = pc[t] /\ k' = task_suspend(k, u)
  BY <1>1, ExitEngaged
<1>3. k'.blk_obj = k.blk_obj /\ k'.blk_state = k.blk_state /\ k'.task_state[t] \notin Sleeping
  <2>1. CASE k.task_state[u] = "K_RDY"
    <3>1. /\ a \in Kernel /\ a.blk_obj = k.blk_obj /\ a.blk_state = k.blk_state
          /\ a.task_state[t] \in {k.task_state[t], "K_SUSPENDED"}
      BY <1>1 DEF Kernel, TaskState
    <3>2. k' = ready_list_rm(a, u)
      BY <1>2, <2>1 DEF task_suspend
    <3> HIDE DEF a
    <3>3. Unmoved(a, k')
      BY <3>1, <3>2, QueueFields
    <3> QED
      BY <3>1, <3>3 DEF Unmoved, SameLists, Engaged, Sleeping
  <2>2. CASE k.task_state[u] = "K_SLEEP"
    <3>1. k' = [k EXCEPT !.suspend_count[u] = 1, !.task_state[u] = "K_SLEEP_SUSPENDED"] /\ t # u
      BY <1>2, <2>2 DEF task_suspend, Engaged, Sleeping
    <3> QED
      BY <1>1, <3>1 DEF Kernel, Engaged
  <2>3. CASE k.task_state[u] = "K_PEND"
    <3>1. k' = [k EXCEPT !.suspend_count[u] = 1, !.task_state[u] = "K_PEND_SUSPENDED"]
      BY <1>2, <2>3 DEF task_suspend
    <3> QED
      BY <1>1, <3>1 DEF Kernel, Engaged, Sleeping
  <2>4. CASE k.task_state[u] \notin {"K_RDY", "K_SLEEP", "K_PEND"}
    <3>1. k' = [k EXCEPT !.suspend_count[u] = @ + 1]
      BY <1>2, <2>4 DEF task_suspend
    <3> QED
      BY <1>1, <3>1 DEF Kernel, Engaged
  <2> QED
    BY <2>1, <2>2, <2>3, <2>4
<1> QED
  BY <1>2, <1>3 DEF Undisturbed, Engaged

LEMMA ResumeEngaged ==
    ASSUME WaitInv, NEW u \in Task, krhino_task_resume(u), NEW t \in Task, Engaged(t)
    PROVE  Undisturbed(t)
<1> DEFINE n == k.suspend_count[u] - 1
           a == [k EXCEPT !.suspend_count[u] = n]
<1>1. /\ k \in Kernel /\ ReadyOK(k) /\ AnyCalls /\ critical_exit_sched(task_resume(k, u))
      /\ k.task_state[u] \in Suspended /\ k.suspend_count[u] \in Nat
  BY WaitInvFacts DEF krhino_task_resume, Suspended, Kernel
<1>2. pc'[t] = pc[t] /\ k' = task_resume(k, u)
  BY <1>1, ExitEngaged
<1>3. n \in Nat
  BY <1>1 DEF ReadyOK, Counted
<1>4. /\ a \in Kernel /\ a.blk_obj = k.blk_obj /\ a.blk_state = k.blk_state
      /\ a.task_state = k.task_state
  BY <1>1, <1>3 DEF Kernel
<1>5. a.suspend_count[u] = n /\ a = [k EXCEPT !.suspend_count[u] = @ - 1]
  BY <1>1 DEF Kernel
<1>6. k'.blk_obj = k.blk_obj /\ k'.blk_state = k.blk_state /\ k'.task_state[t] \notin Sleeping
  <2>1. CASE n > 0
    <3>1. k' = a
      BY <1>2, <1>5, <2>1 DEF task_resume
    <3> QED
      BY <1>4, <3>1 DEF Engaged
  <2>2. CASE ~(n > 0) /\ k.task_state[u] = "K_SUSPENDED"
    <3>1. k' = make_ready(a, u)
      BY <1>2, <1>5, <2>2 DEF task_resume
    <3> HIDE DEF a
    <3>2. /\ SameLists(a, k') /\ k'.blk_state = a.blk_state
          /\ k'.task_state = [a.task_state EXCEPT ![u] = "K_RDY"] /\ a.task_state \in [Task -> TaskState]
      BY <1>4, <3>1, MakeReadyFields, KernelFields
    <3> QED
      BY <1>4, <3>2 DEF SameLists, Engaged, Sleeping
  <2>3. CASE ~(n > 0) /\ k.task_state[u] = "K_SLEEP_SUSPENDED"
    <3>1. k' = [a EXCEPT !.task_state[u] = "K_SLEEP"] /\ t # u
      BY <1>2, <1>5, <2>3 DEF task_resume, Engaged, Sleeping
    <3> HIDE DEF a
    <3> QED
      BY <1>4, <3>1 DEF Kernel, Engaged
  <2>4. CASE ~(n > 0) /\ k.task_state[u] = "K_PEND_SUSPENDED"
    <3>1. k' = [a EXCEPT !.task_state[u] = "K_PEND"]
      BY <1>2, <1>5, <2>4 DEF task_resume
    <3> HIDE DEF a
    <3> QED
      BY <1>4, <3>1 DEF Kernel, Engaged, Sleeping
  <2> QED
    BY <1>1, <2>1, <2>2, <2>3, <2>4 DEF Suspended
<1> QED
  BY <1>2, <1>6 DEF Undisturbed, Engaged

LEMMA PlainEngaged ==
    ASSUME WaitInv, PlainNext, NEW t \in Task, Engaged(t)
    PROVE  Undisturbed(t)
<1>1. ASSUME NEW u \in Suspendable, krhino_task_suspend(u) \/ krhino_task_resume(u)
      PROVE  Undisturbed(t)
  <2>1. u \in Task
    BY TaskCallsAssumption
  <2> QED
    BY <1>1, <2>1, SuspendEngaged, ResumeEngaged
<1> QED
  BY <1>1, SwitchEngaged, SleepEngaged, YieldEngaged DEF PlainNext

\* A task that is in a krhino_mutex_lock call for a mutex waits for it, or it waits no
\* longer; then it has the mutex, or its wait ended in another way.
LockOK(t) ==
    Alive(k, t) /\ locks[t] \in Obj =>
        /\ Engaged(t)
        /\ locks[t] \in mx.exists
        /\ \/ k.blk_obj[t] = locks[t]
           \/ /\ k.blk_obj[t] = NoObj
              /\ k.blk_state[t] = "BLK_FINISH" => mx.mutex_task[locks[t]] = t

LockInv ==
    /\ MutexInv
    /\ locks \in [Task -> Obj \cup {NoObj}]
    /\ \A t \in Task : LockOK(t)

\* t keeps its mutexes, if it is in a call, and every mutex goes on to exist.
Possesses(t) ==
    \A m \in mx.exists : /\ m \in mx'.exists
                         /\ mx.mutex_task[m] = t /\ Engaged(t) => mx'.mutex_task[m] = t

\* What a step does to a task that does not call.
Spared(t) ==
    /\ locks'[t] = locks[t]
    /\ Alive(k', t) => Alive(k, t)
    /\ Engaged(t) => Undisturbed(t)
    /\ Possesses(t)

LEMMA SparedOK ==
    ASSUME NEW t \in Task, LockOK(t), Spared(t)
    PROVE  LockOK(t)'
<1> SUFFICES ASSUME Alive(k', t), locks'[t] \in Obj
             PROVE  /\ Engaged(t)'
                    /\ locks'[t] \in mx'.exists
                    /\ \/ k'.blk_obj[t] = locks'[t]
                       \/ /\ k'.blk_obj[t] = NoObj
                          /\ k'.blk_state[t] = "BLK_FINISH" => mx'.mutex_task[locks'[t]] = t
  BY DEF LockOK
<1>1. locks'[t] = locks[t] /\ Alive(k, t)
  BY DEF Spared
<1>2. /\ Engaged(t) /\ locks[t] \in mx.exists
      /\ \/ k.blk_obj[t] = locks[t]
         \/ /\ k.blk_obj[t] = NoObj
            /\ k.blk_state[t] = "BLK_FINISH" => mx.mutex_task[locks[t]] = t
  BY <1>1 DEF LockOK
<1>3. Undisturbed(t) /\ Possesses(t)
  BY <1>2 DEF Spared
<1>4. /\ locks[t] \in mx'.exists
      /\ mx.mutex_task[locks[t]] = t => mx'.mutex_task[locks[t]] = t
  BY <1>2, <1>3 DEF Possesses
<1>5. NoObj \notin Obj /\ locks[t] \in Obj
  BY <1>1, ObjAssumption
<1>6. \/ k'.blk_obj[t] = locks[t]
      \/ /\ k'.blk_obj[t] = NoObj
         /\ k'.blk_state[t] = "BLK_FINISH" => mx'.mutex_task[locks[t]] = t
  BY <1>2, <1>3, <1>4, <1>5 DEF Undisturbed
<1>7. Engaged(t)'
  BY <1>3 DEF Undisturbed
<1> QED
  BY <1>1, <1>4, <1>6, <1>7

\* The task that calls is not in a call that has blocked.
LEMMA CallerFree ==
    ASSUME TaskCalls(k.active)
    PROVE  AnyCalls /\ \A t : Engaged(t) => t # k.active
  BY DEF AnyCalls, TaskCalls, Engaged

\* The mutexes do not change.
LEMMA SamePossesses ==
    ASSUME mx'.exists = mx.exists, mx'.mutex_task = mx.mutex_task
    PROVE  \A t : Possesses(t)
  BY DEF Possesses

\* Nor do the tasks.
LEMMA SameSpared ==
    ASSUME UNCHANGED <<k, pc, locks>>, NEW t, Possesses(t)
    PROVE  Spared(t)
  BY DEF Spared, Undisturbed, Engaged

LEMMA PlainSpared ==
    ASSUME LockInv, PlainNext, UNCHANGED <<mx, locks>>, NEW t \in Task
    PROVE  Spared(t)
<1>1. WaitInv
  BY DEF LockInv, MutexInv
<1>2. Alive(k', t) => Alive(k, t)
  BY <1>1, PlainStill DEF Still
<1>3. Engaged(t) => Undisturbed(t)
  BY <1>1, PlainEngaged
<1>4. Possesses(t)
  BY SamePossesses
<1> QED
  BY <1>2, <1>3, <1>4 DEF Spared

\* A call ends the wait of u, or a timeout does.
LEMMA EndedSpared ==
    ASSUME NEW u \in Task, WaitEnded(k, k', u), NEW t \in Task, Engaged(t) => pc'[t] = pc[t],
           UNCHANGED <<mx, locks>>
    PROVE  Spared(t)
<1>1. Alive(k', t) => Alive(k, t)
  BY DEF WaitEnded
<1>2. ASSUME Engaged(t) PROVE Undisturbed(t)
  <2>1. CASE t = u
    BY <1>2, <2>1 DEF WaitEnded, Ungiven, Undisturbed, Engaged
  <2>2. CASE t # u
    <3>1. /\ k'.task_state[t] = k.task_state[t] /\ k'.blk_obj[t] = k.blk_obj[t]
          /\ k'.blk_state[t] = k.blk_state[t]
      BY <2>2 DEF WaitEnded
    <3> QED
      BY <1>2, <3>1 DEF Undisturbed, Engaged
  <2> QED
    BY <2>1, <2>2
<1>3. Possesses(t)
  BY SamePossesses
<1> QED
  BY <1>1, <1>2, <1>3 DEF Spared

LEMMA TickSpared ==
    ASSUME LockInv, mutex_tick_next, NEW t \in Task
    PROVE  Spared(t)
<1>1. WaitEnded(k, k', Head(k.tick_list))
  BY TickKeeps DEF LockInv
<1>2. Head(k.tick_list) \in Task
  <2>1. k.tick_list \in Seq(Task) /\ k.tick_list # <<>>
    BY KernelFields, WaitInvFacts DEF LockInv, MutexInv, mutex_tick_next, tick_due
  <2> QED
    BY <2>1
<1>3. pc' = pc /\ UNCHANGED <<mx, locks>>
  BY DEF mutex_tick_next
<1> QED
  BY <1>1, <1>2, <1>3, EndedSpared

LEMMA AbortSpared ==
    ASSUME LockInv, NEW u \in Task, mutex_task_wait_abort(u), NEW t \in Task
    PROVE  Spared(t)
<1>1. WaitInv /\ WaitEnded(k, k', u)
  BY WaitAbortKeeps DEF LockInv, MutexInv
<1>2. AnyCalls /\ UNCHANGED <<mx, locks>>
  BY CallerFree DEF mutex_task_wait_abort
<1>3. Engaged(t) => pc'[t] = pc[t]
  <2> DEFINE kk == mutex_task_pri_reset(task_wait_abort(k, u), mx, u, k.blk_obj[u])
  <2>1. critical_exit_sched(kk)
    BY DEF mutex_task_wait_abort
  <2> HIDE DEF kk
  <2> QED
    BY <1>1, <1>2, <2>1, ExitEngaged
<1> QED
  BY <1>1, <1>2, <1>3, EndedSpared

LEMMA PriChangeSpared ==
    ASSUME LockInv, NEW u \in Task, NEW p \in Pri, mutex_task_pri_change(u, p), NEW t \in Task
    PROVE  Spared(t)
<1>1. /\ WaitInv /\ k'.task_state = k.task_state /\ k'.blk_obj = k.blk_obj
      /\ k'.blk_state = k.blk_state
  BY PriChangeKeeps DEF LockInv, MutexInv
<1>2. AnyCalls /\ UNCHANGED <<mx, locks>>
  BY CallerFree DEF mutex_task_pri_change
<1>3. Engaged(t) => pc'[t] = pc[t]
  <2> DEFINE kk == task_pri_change([k EXCEPT !.b_prio[u] = p], mx, u, mutex_pri_limit(k, mx, u, p))
  <2>1. critical_exit_sched(kk)
    BY DEF mutex_task_pri_change
  <2> HIDE DEF kk
  <2> QED
    BY <1>1, <1>2, <2>1, ExitEngaged
<1>4. Possesses(t)
  BY <1>2, SamePossesses
<1> QED
  BY <1>1, <1>2, <1>3, <1>4 DEF Spared, Undisturbed, Engaged, Alive

\* The calls that concern a mutex nobody waits for.
LEMMA MutexCallSpared ==
    ASSUME LockInv, NEW m \in Obj, NEW t \in Task,
           \/ krhino_mutex_create(m)
           \/ mutex_lock_nested(m) \/ mutex_unlock_nested(m)
           \/ mutex_lock_free(m)
    PROVE  Spared(t)
<1>1. UNCHANGED <<k, pc, locks>> /\ mx \in MutexState /\ t # NoTask
  BY MutexAssumption
  DEF LockInv, MutexInv, MutexOK, schedVars, krhino_mutex_create, mutex_lock_nested,
      mutex_unlock_nested, mutex_lock_free
<1>2. Possesses(t)
  <2>1. CASE krhino_mutex_create(m)
    <3>1. mx'.exists = mx.exists \cup {m} /\ mx'.mutex_task = [mx.mutex_task EXCEPT ![m] = NoTask]
      BY <1>1, <2>1 DEF krhino_mutex_create, MutexState
    <3>2. m \notin mx.exists /\ mx.exists \subseteq Obj /\ mx.mutex_task \in [Obj -> Task \cup {NoTask}]
      BY <1>1, <2>1 DEF krhino_mutex_create, MutexState
    <3> QED
      BY <3>1, <3>2 DEF Possesses
  <2>2. CASE mutex_lock_nested(m) \/ mutex_unlock_nested(m)
    <3>1. mx'.exists = mx.exists /\ mx'.mutex_task = mx.mutex_task
      BY <1>1, <2>2 DEF mutex_lock_nested, mutex_unlock_nested, MutexState
    <3> QED
      BY <3>1, SamePossesses
  <2>3. CASE mutex_lock_free(m)
    <3>1. 1 \in 0 .. MaxDepth /\ k.active \in Task
      BY MutexAssumption, WaitInvFacts DEF LockInv, MutexInv
    <3>2. /\ mx' = [mutex_push(mx, k.active, m) EXCEPT !.mutex_task[m] = k.active, !.owner_nested[m] = 1]
          /\ mx.mutex_task[m] = NoTask
      BY <2>3 DEF mutex_lock_free
    <3>3. Pushed(mx, mx', k.active, m)
      BY <1>1, <3>1, <3>2, PushState, Zenon
    <3>4. mx.exists \subseteq Obj
      BY <1>1 DEF MutexState
    <3> QED
      BY <1>1, <3>2, <3>3, <3>4 DEF Possesses, Pushed
  <2> QED
    BY <2>1, <2>2, <2>3
<1> QED
  BY <1>1, <1>2, SameSpared

LEMMA UnlockSpared ==
    ASSUME LockInv, NEW m \in Obj, mutex_unlock_last(m), NEW t \in Task
    PROVE  Spared(t)
<1> DEFINE a == k.active
<1>1. /\ WaitInv /\ mx'.exists = mx.exists /\ mx.mutex_task[m] = a
      /\ UnlockedAlone(m, a) \/ \E u \in Task : UnlockedTo(m, a, u)
      /\ mx.exists \subseteq Obj /\ m \in mx.exists
  BY UnlockLastKeeps, Zenon DEF LockInv, MutexInv, MutexOK, MutexState, mutex_unlock_last
<1>2. AnyCalls /\ (Engaged(t) => t # a) /\ locks' = locks
  BY CallerFree DEF mutex_unlock_last
<1>3. Engaged(t) => pc'[t] = pc[t]
  <2> DEFINE k1 == mutex_release(k, mx, a, m)
             kk == pend_task_wakeup(k1, Head(k1.blk_list[m]))
  <2>1. pc' = pc \/ critical_exit_sched(kk)
    BY DEF mutex_unlock_last
  <2> HIDE DEF kk
  <2> QED
    BY <1>1, <1>2, <2>1, ExitEngaged
<1> HIDE DEF a
<1>4. \A n \in Obj \ {m} : mx'.mutex_task[n] = mx.mutex_task[n]
  BY <1>1 DEF UnlockedAlone, UnlockedTo
<1>5. Possesses(t)
  BY <1>1, <1>2, <1>4 DEF Possesses
<1>6. CASE UnlockedAlone(m, a)
  BY <1>2, <1>3, <1>5, <1>6 DEF UnlockedAlone, Spared, Undisturbed, Engaged
<1>7. ASSUME NEW u \in Task, UnlockedTo(m, a, u) PROVE Spared(t)
  <2>1. CASE t = u
    <3>1. /\ k.blk_obj[t] = m /\ mx'.mutex_task[m] = t /\ k'.blk_obj[t] = NoObj
          /\ k'.task_state[t] \notin Sleeping
      BY <1>7, <2>1 DEF UnlockedTo
    <3>2. Alive(k, t)
      <4>1. WaitOK(k)
        BY <1>1, WaitInvFacts
      <4>2. k.task_state[t] \in Pending \cup Sleeping
        BY <3>1, <4>1, OffBoth, ObjAssumption
      <4> QED
        BY <4>2 DEF Alive, Pending, Sleeping
    <3> QED
      BY <1>2, <1>3, <1>5, <3>1, <3>2 DEF Spared, Undisturbed, Engaged
  <2>2. CASE t # u
    <3>1. /\ k'.task_state[t] = k.task_state[t] /\ k'.blk_obj[t] = k.blk_obj[t]
          /\ k'.blk_state[t] = k.blk_state[t]
      BY <1>7, <2>2 DEF UnlockedTo
    <3> QED
      BY <1>2, <1>3, <1>5, <3>1 DEF Spared, Undisturbed, Engaged, Alive
  <2> QED
    BY <2>1, <2>2
<1> QED
  BY <1>1, <1>6, <1>7

\* A call that blocks waits for the mutex, which exists.
LEMMA LockWaitOK ==
    ASSUME LockInv, NEW m \in Obj, NEW ticks \in Ticks \cup {WaitForever}, mutex_lock_wait(m, ticks)
    PROVE  \A t \in Task : LockOK(t)'
<1>0. PICK a \in Task : a = k.active
  BY WaitInvFacts DEF LockInv, MutexInv
<1> DEFINE o == mx.mutex_task[m]
           k1 == IF k.prio[a] < k.prio[o] THEN task_pri_change(k, mx, o, k.prio[a]) ELSE k
           kk == pend_to_blk_obj(k1, m, a, ticks)
<1>1. MutexInv' /\ Blocked(k, k', a, m) /\ m \in mx.exists /\ WaitInv
  BY <1>0, LockWaitKeeps DEF LockInv, MutexInv
<1>2. /\ critical_exit_block(kk) /\ mx' = mx /\ locks' = [locks EXCEPT ![a] = m]
      /\ TaskCalls(a)
  BY <1>0 DEF mutex_lock_wait
<1>3. /\ k.blk_obj \in [Task -> Obj \cup {NoObj}] /\ locks \in [Task -> Obj \cup {NoObj}]
      /\ pc \in [Task -> {"run", "sched", "block", "end"}]
  BY <1>1, WaitInvFacts, KernelFields, InvFacts DEF WaitInv, LockInv
<1>4. pc' = [pc EXCEPT ![a] = "block"]
  BY <1>0, <1>2 DEF critical_exit_block
<1>5. \A u : Engaged(u) => u # a
  BY <1>0, <1>2, CallerFree
<1> HIDE DEF kk
<1>6. ASSUME NEW t \in Task \ {a} PROVE LockOK(t)'
  <2>1. /\ k'.blk_obj[t] = k.blk_obj[t] /\ k'.blk_state[t] = k.blk_state[t]
        /\ k'.task_state[t] = k.task_state[t]
    BY <1>1, <1>3, <1>6 DEF Blocked
  <2>2. locks'[t] = locks[t] /\ pc'[t] = pc[t]
    BY <1>2, <1>3, <1>4, <1>6
  <2>3. Possesses(t)
    BY <1>2, SamePossesses
  <2>4. Spared(t)
    BY <2>1, <2>2, <2>3 DEF Spared, Undisturbed, Engaged, Alive
  <2> QED
    BY <1>6, <2>4, SparedOK DEF LockInv
<1>7. LockOK(a)'
  <2>1. k'.blk_obj[a] = m /\ locks'[a] = m /\ pc'[a] = "block"
    BY <1>1, <1>2, <1>3, <1>4 DEF Blocked
  <2>2. k'.task_state[a] \notin Sleeping
    <3>1. WaitOK(k')
      BY <1>1, WaitInvFacts DEF MutexInv, WaitInv
    <3>2. k'.task_state[a] \in Pending
      BY <1>3, <2>1, <3>1 DEF WaitOK, Linked
    <3> QED
      BY <3>2 DEF Pending, Sleeping
  <2> QED
    BY <1>1, <1>2, <2>1, <2>2 DEF LockOK, Engaged
<1> QED
  BY <1>6, <1>7

\* When the call returns, it is over.
LEMMA LockEndOK ==
    ASSUME LockInv, NEW u \in Task, mutex_lock_end(u)
    PROVE  \A t \in Task : LockOK(t)'
<1>1. /\ k' = k /\ mx' = mx /\ locks' = [locks EXCEPT ![u] = NoObj] /\ pc' = [pc EXCEPT ![u] = "run"]
      /\ locks \in [Task -> Obj \cup {NoObj}]
  BY DEF mutex_lock_end, pend_state_end_proc, LockInv
<1>2. locks'[u] = NoObj
  BY <1>1
<1>3. LockOK(u)'
  BY <1>2, ObjAssumption DEF LockOK
<1>4. ASSUME NEW t \in Task \ {u} PROVE LockOK(t)'
  <2>1. locks'[t] = locks[t] /\ (Engaged(t) => pc'[t] = pc[t])
    <3>1. pc \in [Task -> {"run", "sched", "block", "end"}]
      BY InvFacts DEF LockInv, MutexInv, WaitInv
    <3> QED
      BY <1>1, <1>4, <3>1
  <2>2. Possesses(t)
    BY <1>1, SamePossesses
  <2>3. Spared(t)
    BY <1>1, <2>1, <2>2 DEF Spared, Undisturbed, Engaged
  <2> QED
    BY <1>4, <2>3, SparedOK DEF LockInv
<1> QED
  BY <1>3, <1>4

\* A task that is created is in no call.
LEMMA CreateOK ==
    ASSUME LockInv, NEW u \in Task, NEW autorun \in BOOLEAN, mutex_task_create(u, autorun)
    PROVE  \A t \in Task : LockOK(t)'
<1>1. /\ locks' = [locks EXCEPT ![u] = NoObj] /\ locks \in [Task -> Obj \cup {NoObj}]
      /\ mx' = [mx EXCEPT !.mutex_list[u] = NoObj] /\ mx \in MutexState
      /\ TaskCalls(k.active) /\ BornAlone(u)
  BY CreateTaskKeeps, Zenon DEF mutex_task_create, krhino_task_create, LockInv, MutexInv, MutexOK
<1>2. pc' = IF autorun THEN [pc EXCEPT ![u] = "run", ![k.active] = "sched"] ELSE [pc EXCEPT ![u] = "run"]
  BY DEF mutex_task_create, krhino_task_create
<1>3. pc \in [Task -> {"run", "sched", "block", "end"}]
  BY InvFacts DEF LockInv, MutexInv, WaitInv
<1>4. locks'[u] = NoObj
  BY <1>1
<1>5. LockOK(u)'
  BY <1>4, ObjAssumption DEF LockOK
<1>6. ASSUME NEW t \in Task \ {u} PROVE LockOK(t)'
  <2>1. locks'[t] = locks[t]
    BY <1>1, <1>6
  <2>2. Engaged(t) => t # k.active
    BY <1>1, CallerFree
  <2>3. Engaged(t) => pc'[t] = pc[t]
    BY <1>2, <1>3, <1>6, <2>2
  <2>4. Possesses(t)
    <3>1. mx'.exists = mx.exists /\ mx'.mutex_task = mx.mutex_task
      BY <1>1 DEF MutexState
    <3> QED
      BY <3>1, SamePossesses
  <2>5. /\ k'.task_state[t] = k.task_state[t] /\ k'.blk_obj[t] = k.blk_obj[t]
        /\ k'.blk_state[t] = k.blk_state[t]
    BY <1>1, <1>6 DEF BornAlone
  <2>6. Spared(t)
    BY <2>1, <2>3, <2>4, <2>5 DEF Spared, Undisturbed, Engaged, Alive
  <2> QED
    BY <1>6, <2>6, SparedOK DEF LockInv
<1> QED
  BY <1>5, <1>6

\* A task that waits may be given a mutex of a task that is deleted.
LEMMA DelTaskOK ==
    ASSUME LockInv, DelTwice = FALSE, NEW u \in Task \ {Idle}, mutex_task_del(u)
    PROVE  \A t \in Task : LockOK(t)'
<1> DEFINE s == task_mutex_free(k, mx, u)
           k1 == mutex_task_pri_reset(task_unlink(s.k, u), s.x, u, s.k.blk_obj[u])
<1>1. /\ WaitInv /\ mx.exists \subseteq Obj
      /\ \E kk : Freed(k, mx, u, kk, mx', {}) /\ Buried(kk, k', u)
  BY DelKeeps DEF LockInv, MutexInv, MutexOK, MutexState
<1>2. PICK kk : Freed(k, mx, u, kk, mx', {}) /\ Buried(kk, k', u)
  BY <1>1
<1>3. /\ AnyCalls /\ locks' = locks /\ critical_exit_sched(k1)
  BY CallerFree DEF mutex_task_del
<1> HIDE DEF s, k1
<1>4. LockOK(u)'
  BY <1>2 DEF LockOK, Buried, Alive
<1>5. ASSUME NEW t \in Task \ {u} PROVE LockOK(t)'
  <2>1. Engaged(t) => pc'[t] = pc[t]
    BY <1>1, <1>3, <1>5, ExitEngaged
  <2>2. /\ k'.task_state[t] = kk.task_state[t] /\ k'.blk_obj[t] = kk.blk_obj[t]
        /\ k'.blk_state[t] = kk.blk_state[t]
    BY <1>2, <1>5 DEF Buried
  <2>3. \/ /\ kk.task_state[t] = k.task_state[t] /\ kk.blk_obj[t] = k.blk_obj[t]
           /\ kk.blk_state[t] = k.blk_state[t]
        \/ /\ Alive(k, t) /\ kk.blk_obj[t] = NoObj /\ kk.task_state[t] \notin Sleeping
           /\ k.blk_obj[t] \in Obj /\ mx'.mutex_task[k.blk_obj[t]] = t
    BY <1>1, <1>2, <1>5 DEF Freed, Owned
  <2>4. Possesses(t)
    <3>1. mx'.exists = mx.exists /\ \A m \in Obj \ Owned(mx, u) : mx'.mutex_task[m] = mx.mutex_task[m]
      BY <1>2 DEF Freed
    <3>2. \A m \in mx.exists : mx.mutex_task[m] = t => m \in Obj \ Owned(mx, u)
      BY <1>1, <1>5 DEF Owned
    <3> QED
      BY <3>1, <3>2 DEF Possesses
  <2>5. Spared(t)
    BY <1>3, <2>1, <2>2, <2>3, <2>4 DEF Spared, Undisturbed, Engaged, Alive
  <2> QED
    BY <1>5, <2>5, SparedOK DEF LockInv
<1> QED
  BY <1>4, <1>5

LEMMA LockInit == MutexInit => LockInv
<1> SUFFICES ASSUME MutexInit PROVE LockInv
  OBVIOUS
<1>1. MutexInv
  BY MutexInitCorrect
<1>2. locks = [t \in Task |-> NoObj]
  BY DEF MutexInit
<1>3. locks \in [Task -> Obj \cup {NoObj}] /\ \A t \in Task : locks[t] \notin Obj
  BY <1>2, ObjAssumption
<1> QED
  BY <1>1, <1>3 DEF LockInv, LockOK

LEMMA LockStep ==
    DelTwice = FALSE /\ NestTooDeep = FALSE /\ Removable = {} /\ LockInv /\ [MutexNext]_mutexVars => LockInv'
<1> SUFFICES ASSUME DelTwice = FALSE, NestTooDeep = FALSE, Removable = {}, LockInv, [MutexNext]_mutexVars PROVE LockInv'
  OBVIOUS
<1>1. MutexInv'
  BY MutexStep DEF LockInv
<1>2. locks \in [Task -> Obj \cup {NoObj}] /\ k.active \in Task
  BY WaitInvFacts DEF LockInv, MutexInv
<1>3. (\A t \in Task : Spared(t)) => (\A t \in Task : LockOK(t)')
  BY SparedOK DEF LockInv
<1>4. (\A t \in Task : LockOK(t)') /\ locks' \in [Task -> Obj \cup {NoObj}]
  <2>1. CASE UNCHANGED mutexVars
    <3>1. UNCHANGED <<k, pc, locks, mx>>
      BY <2>1 DEF mutexVars
    <3>2. \A t \in Task : Spared(t)
      BY <3>1, SamePossesses, SameSpared
    <3> QED
      BY <1>2, <1>3, <3>1, <3>2
  <2>2. CASE PlainNext /\ UNCHANGED <<mx, locks>>
    BY <1>2, <1>3, <2>2, PlainSpared
  <2>3. CASE mutex_tick_next
    <3>1. locks' = locks
      BY <2>3 DEF mutex_tick_next
    <3> QED
      BY <1>2, <1>3, <2>3, <3>1, TickSpared
  <2>4. ASSUME NEW t \in Task, mutex_lock_end(t)
        PROVE  (\A u \in Task : LockOK(u)') /\ locks' \in [Task -> Obj \cup {NoObj}]
    <3>1. locks' = [locks EXCEPT ![t] = NoObj]
      BY <2>4 DEF mutex_lock_end
    <3> QED
      BY <1>2, <2>4, <3>1, LockEndOK
  <2>5. ASSUME NEW t \in Task, NEW autorun \in BOOLEAN, mutex_task_create(t, autorun)
        PROVE  (\A u \in Task : LockOK(u)') /\ locks' \in [Task -> Obj \cup {NoObj}]
    <3>1. locks' = [locks EXCEPT ![t] = NoObj]
      BY <2>5 DEF mutex_task_create
    <3> QED
      BY <1>2, <2>5, <3>1, CreateOK
  <2>6. ASSUME NEW t \in Victims, mutex_task_del(t)
        PROVE  (\A u \in Task : LockOK(u)') /\ locks' \in [Task -> Obj \cup {NoObj}]
    <3>1. locks' = locks /\ t \in Task \ {Idle}
      BY <2>6, TaskCallsAssumption DEF mutex_task_del
    <3> QED
      BY <1>2, <2>6, <3>1, DelTaskOK
  <2>7. ASSUME NEW t \in Movable, NEW p \in NewPri, mutex_task_pri_change(t, p)
        PROVE  (\A u \in Task : LockOK(u)') /\ locks' \in [Task -> Obj \cup {NoObj}]
    <3>1. locks' = locks /\ t \in Task /\ p \in Pri
      BY <2>7, TaskCallsAssumption DEF mutex_task_pri_change
    <3> QED
      BY <1>2, <1>3, <2>7, <3>1, PriChangeSpared
  <2>8. ASSUME NEW t \in Abortable, mutex_task_wait_abort(t)
        PROVE  (\A u \in Task : LockOK(u)') /\ locks' \in [Task -> Obj \cup {NoObj}]
    <3>1. locks' = locks /\ t \in Task
      BY <2>8, TaskCallsAssumption DEF mutex_task_wait_abort
    <3> QED
      BY <1>2, <1>3, <2>8, <3>1, AbortSpared
  <2>9. ASSUME NEW m \in Obj, krhino_mutex_create(m) \/ krhino_mutex_lock(m) \/ krhino_mutex_unlock(m)
        PROVE  (\A u \in Task : LockOK(u)') /\ locks' \in [Task -> Obj \cup {NoObj}]
    <3>1. CASE \/ krhino_mutex_create(m)
               \/ mutex_lock_nested(m) \/ mutex_unlock_nested(m)
               \/ mutex_lock_free(m)
      <4>1. locks' = locks
        BY <3>1 DEF krhino_mutex_create, mutex_lock_nested, mutex_unlock_nested, mutex_lock_free
      <4> QED
        BY <1>2, <1>3, <3>1, <4>1, MutexCallSpared
    <3>2. ASSUME NEW ticks \in Ticks \cup {WaitForever}, mutex_lock_wait(m, ticks)
          PROVE  (\A u \in Task : LockOK(u)') /\ locks' \in [Task -> Obj \cup {NoObj}]
      <4>1. locks' = [locks EXCEPT ![k.active] = m]
        BY <3>2 DEF mutex_lock_wait
      <4> QED
        BY <1>2, <3>2, <4>1, LockWaitOK
    <3>3. CASE mutex_unlock_last(m)
      <4>1. locks' = locks
        BY <3>3 DEF mutex_unlock_last
      <4> QED
        BY <1>2, <1>3, <3>3, <4>1, UnlockSpared
    <3>4. ~mutex_lock_overflow(m)
      BY DEF mutex_lock_overflow
    <3> QED
      BY <2>9, <3>1, <3>2, <3>3, <3>4 DEF krhino_mutex_lock, krhino_mutex_unlock
  <2> QED
    BY <2>1, <2>2, <2>3, <2>4, <2>5, <2>6, <2>7, <2>8, <2>9 DEF MutexNext
<1> QED
  BY <1>1, <1>4 DEF LockInv

\* A krhino_mutex_lock call that waited and returns success has the mutex, unless
\* programs delete mutexes: one that is deleted and created again while a task that was
\* given it has not run yet is nobody's.
THEOREM LockSucceedsAlways ==
    DelTwice = FALSE /\ NestTooDeep = FALSE /\ Removable = {} /\ MutexSpec => []LockSucceeds
<1> SUFFICES ASSUME DelTwice = FALSE, NestTooDeep = FALSE, Removable = {} PROVE MutexSpec => []LockSucceeds
  OBVIOUS
<1>1. LockInv /\ [MutexNext]_mutexVars => LockInv'
  BY LockStep
<1>2. LockInv => LockSucceeds
  <2> SUFFICES ASSUME LockInv, NEW t \in Task, Executing(t), pc[t] = "end", locks[t] \in mx.exists,
                      k.blk_state[t] = "BLK_FINISH"
               PROVE  mx.mutex_task[locks[t]] = t
    BY DEF LockSucceeds
  <2>1. SchedInv /\ WaitOK(k) /\ mx.exists \subseteq Obj /\ LockOK(t)
    BY DEF LockInv, MutexInv, WaitInv, MutexOK, MutexState
  <2>2. k.task_state[t] = "K_RDY"
    BY <2>1, ExecutingIsReady DEF OnlyReadyExecutes
  <2>3. k.blk_obj[t] = NoObj
    BY <2>1, <2>2, OffBoth DEF Pending, Sleeping
  <2>4. Alive(k, t) /\ locks[t] \in Obj /\ NoObj \notin Obj
    BY <2>1, <2>2, ObjAssumption DEF Alive
  <2> QED
    BY <2>1, <2>3, <2>4 DEF LockOK
<1> QED
  BY <1>1, <1>2, LockInit, PTL DEF MutexSpec

-----------------------------------------------------------------------------
(* Owners *)

\* What OnlyOwnerReleases and HandsToMostUrgent say of one step.
OwnerReleases ==
    \A m \in mx.exists :
        (mx.mutex_task[m] # NoTask /\ m \in mx'.exists /\ mx'.mutex_task[m] # mx.mutex_task[m])
            => k.active = mx.mutex_task[m] \/ k'.task_state[mx.mutex_task[m]] = "K_DELETED"

HandsOver ==
    \A m \in mx.exists :
        LET o == mx.mutex_task[m]
            n == mx'.mutex_task[m]
            waiting == ToSet(k.blk_list[m])
        IN  o # NoTask /\ n # o =>
              IF waiting = {} THEN n = NoTask
              ELSE n \in waiting /\ \A t \in waiting : k.prio[n] <= k.prio[t]

\* The calls of k_task.c other than the deletion of a task, and the ends of waits, leave
\* all mutexes to their owners.
LEMMA OthersOwn ==
    ASSUME mx \in MutexState,
           \/ UNCHANGED mutexVars
           \/ PlainNext /\ UNCHANGED <<mx, locks>>
           \/ mutex_tick_next
           \/ \E t \in Task : mutex_lock_end(t)
           \/ \E t \in Task, autorun \in BOOLEAN : mutex_task_create(t, autorun)
           \/ \E t \in Movable, p \in NewPri : mutex_task_pri_change(t, p)
           \/ \E t \in Abortable : mutex_task_wait_abort(t)
    PROVE  mx'.exists = mx.exists /\ mx'.mutex_task = mx.mutex_task
<1>1. ASSUME NEW t \in Task, NEW autorun \in BOOLEAN, mutex_task_create(t, autorun)
      PROVE  mx'.exists = mx.exists /\ mx'.mutex_task = mx.mutex_task
  <2>1. mx' = [mx EXCEPT !.mutex_list[t] = NoObj]
    BY <1>1 DEF mutex_task_create
  <2> QED
    BY <2>1 DEF MutexState
<1>2. CASE \/ UNCHANGED mutexVars
           \/ PlainNext /\ UNCHANGED <<mx, locks>>
           \/ mutex_tick_next
           \/ \E t \in Task : mutex_lock_end(t)
           \/ \E t \in Movable, p \in NewPri : mutex_task_pri_change(t, p)
           \/ \E t \in Abortable : mutex_task_wait_abort(t)
  BY <1>2 DEF mutexVars, mutex_tick_next, mutex_lock_end, mutex_task_pri_change, mutex_task_wait_abort
<1> QED
  BY <1>1, <1>2

\* The calls of k_mutex.c.
LEMMA CallsOwn ==
    ASSUME MutexInv, NEW m \in Obj,
           krhino_mutex_create(m) \/ krhino_mutex_lock(m) \/ krhino_mutex_unlock(m) \/ krhino_mutex_del(m)
    PROVE  /\ \A n \in Obj \ {m} : mx'.mutex_task[n] = mx.mutex_task[n]
           /\ \/ mx'.mutex_task[m] = mx.mutex_task[m]
              \/ krhino_mutex_create(m)
              \/ mutex_lock_free(m)
              \/ mutex_unlock_last(m) /\ Successor(k, m, mx'.mutex_task[m])
<1>1. mx \in MutexState
  BY DEF MutexInv, MutexOK
<1>2. CASE krhino_mutex_create(m)
  BY <1>1, <1>2 DEF krhino_mutex_create, MutexState
<1>3. CASE mutex_lock_nested(m) \/ mutex_unlock_nested(m)
  BY <1>1, <1>3 DEF mutex_lock_nested, mutex_unlock_nested, MutexState
<1>4. CASE mutex_lock_free(m)
  <2>1. 1 \in 0 .. MaxDepth /\ k.active \in Task
    BY MutexAssumption, WaitInvFacts DEF MutexInv
  <2>2. mx' = [mutex_push(mx, k.active, m) EXCEPT !.mutex_task[m] = k.active, !.owner_nested[m] = 1]
    BY <1>4 DEF mutex_lock_free
  <2>3. Pushed(mx, mx', k.active, m)
    BY <1>1, <2>1, <2>2, PushState, Zenon
  <2> QED
    BY <1>4, <2>3 DEF Pushed
<1>5. ASSUME \/ \E ticks \in Ticks \cup {WaitForever} : mutex_lock_wait(m, ticks)
             \/ mutex_lock_overflow(m)
      PROVE  mx' = mx
  BY <1>5 DEF mutex_lock_wait, mutex_lock_overflow
<1>6. CASE mutex_unlock_last(m)
  BY <1>6, UnlockLastKeeps DEF UnlockedAlone, UnlockedTo, Successor
<1>7. CASE krhino_mutex_del(m)
  BY <1>7, DelMutexKeeps
<1> QED
  BY <1>2, <1>3, <1>4, <1>5, <1>6, <1>7 DEF krhino_mutex_lock, krhino_mutex_unlock

LEMMA ReleaseStep == DelTwice = FALSE /\ NestTooDeep = FALSE /\ MutexInv /\ [MutexNext]_mutexVars => OwnerReleases
<1> SUFFICES ASSUME DelTwice = FALSE, NestTooDeep = FALSE, MutexInv, [MutexNext]_mutexVars PROVE OwnerReleases
  BY Zenon
<1>1. mx \in MutexState /\ mx.exists \subseteq Obj
  BY DEF MutexInv, MutexOK, MutexState
<1>2. CASE \/ UNCHANGED mutexVars
           \/ PlainNext /\ UNCHANGED <<mx, locks>>
           \/ mutex_tick_next
           \/ \E t \in Task : mutex_lock_end(t)
           \/ \E t \in Task, autorun \in BOOLEAN : mutex_task_create(t, autorun)
           \/ \E t \in Movable, p \in NewPri : mutex_task_pri_change(t, p)
           \/ \E t \in Abortable : mutex_task_wait_abort(t)
  BY <1>1, <1>2, OthersOwn DEF OwnerReleases
<1>3. ASSUME NEW t \in Victims, mutex_task_del(t) PROVE OwnerReleases
  <2>1. t \in Task \ {Idle}
    BY TaskCallsAssumption
  <2>2. \E kk : Freed(k, mx, t, kk, mx', {}) /\ Buried(kk, k', t)
    BY <1>3, <2>1, DelKeeps
  <2>3. k'.task_state[t] = "K_DELETED" /\ \A m \in Obj \ Owned(mx, t) : mx'.mutex_task[m] = mx.mutex_task[m]
    BY <2>2 DEF Freed, Buried
  <2> QED
    BY <1>1, <2>3 DEF OwnerReleases, Owned
<1>4. ASSUME NEW m \in Obj, krhino_mutex_create(m) \/ krhino_mutex_lock(m) \/ krhino_mutex_unlock(m) \/ krhino_mutex_del(m)
      PROVE  OwnerReleases
  <2>1. /\ \A n \in Obj \ {m} : mx'.mutex_task[n] = mx.mutex_task[n]
        /\ \/ mx'.mutex_task[m] = mx.mutex_task[m]
           \/ krhino_mutex_create(m)
           \/ mutex_lock_free(m)
           \/ mutex_unlock_last(m) /\ Successor(k, m, mx'.mutex_task[m])
    BY <1>4, CallsOwn, SMTT(40)
  <2>2. \/ mx'.mutex_task[m] = mx.mutex_task[m]
        \/ m \notin mx.exists
        \/ mx.mutex_task[m] = NoTask
        \/ mx.mutex_task[m] = k.active
    BY <2>1 DEF krhino_mutex_create, mutex_lock_free, mutex_unlock_last
  <2> QED
    BY <1>1, <2>1, <2>2 DEF OwnerReleases
<1>5. Removable \subseteq Obj
  BY MutexAssumption
<1> QED
  BY <1>2, <1>3, <1>4, <1>5 DEF MutexNext

\* A mutex leaves its owner only when the owner unlocks it or is deleted: no timeout, no
\* aborted wait, no change of a priority and no other task's call takes it away.
THEOREM OnlyOwnerReleasesAlways == DelTwice = FALSE /\ NestTooDeep = FALSE /\ MutexSpec => OnlyOwnerReleases
<1> SUFFICES ASSUME DelTwice = FALSE, NestTooDeep = FALSE PROVE MutexSpec => OnlyOwnerReleases
  BY Zenon
<1>1. MutexInv /\ [MutexNext]_mutexVars => MutexInv'
  BY MutexStep
<1>2. MutexInv /\ [MutexNext]_mutexVars =>
        [\A m \in mx.exists : LET o == mx.mutex_task[m] IN
          (o # NoTask /\ m \in mx'.exists /\ mx'.mutex_task[m] # o)
          => (k.active = o \/ k'.task_state[o] = "K_DELETED")]_mutexVars
  BY ReleaseStep DEF OwnerReleases
<1> QED
  BY <1>1, <1>2, MutexInitCorrect, PTL DEF MutexSpec, OnlyOwnerReleases

\* A successor in terms of the pend list.
LEMMA SuccessorWaits ==
    ASSUME WaitOK(k), NEW m \in Obj, NEW n, Successor(k, m, n)
    PROVE  IF ToSet(k.blk_list[m]) = {} THEN n = NoTask
           ELSE n \in ToSet(k.blk_list[m]) /\ \A t \in ToSet(k.blk_list[m]) : k.prio[n] <= k.prio[t]
<1>1. ToSet(k.blk_list[m]) = {t \in Task : k.blk_obj[t] = m}
  BY WaitersListed
<1> QED
  BY <1>1 DEF Successor

LEMMA HandOverStep == DelTwice = FALSE /\ NestTooDeep = FALSE /\ MutexInv /\ [MutexNext]_mutexVars => HandsOver
<1> SUFFICES ASSUME DelTwice = FALSE, NestTooDeep = FALSE, MutexInv, [MutexNext]_mutexVars PROVE HandsOver
  BY Zenon
<1>1. mx \in MutexState /\ mx.exists \subseteq Obj /\ WaitOK(k)
  BY DEF MutexInv, MutexOK, MutexState, WaitInv
<1>2. CASE \/ UNCHANGED mutexVars
           \/ PlainNext /\ UNCHANGED <<mx, locks>>
           \/ mutex_tick_next
           \/ \E t \in Task : mutex_lock_end(t)
           \/ \E t \in Task, autorun \in BOOLEAN : mutex_task_create(t, autorun)
           \/ \E t \in Movable, p \in NewPri : mutex_task_pri_change(t, p)
           \/ \E t \in Abortable : mutex_task_wait_abort(t)
  BY <1>1, <1>2, OthersOwn DEF HandsOver
<1>3. ASSUME NEW t \in Victims, mutex_task_del(t) PROVE HandsOver
  <2>1. t \in Task \ {Idle}
    BY TaskCallsAssumption
  <2>2. \E kk : Freed(k, mx, t, kk, mx', {})
    BY <1>3, <2>1, DelKeeps
  <2>3. /\ \A m \in Obj \ Owned(mx, t) : mx'.mutex_task[m] = mx.mutex_task[m]
        /\ \A m \in Owned(mx, t) : Successor(k, m, mx'.mutex_task[m])
    BY <2>2 DEF Freed
  <2>4. ASSUME NEW m \in mx.exists, mx'.mutex_task[m] # mx.mutex_task[m]
        PROVE  Successor(k, m, mx'.mutex_task[m]) /\ m \in Obj
    BY <1>1, <2>3, <2>4
  <2> QED
    BY <1>1, <2>4, SuccessorWaits DEF HandsOver
<1>4. ASSUME NEW m \in Obj, krhino_mutex_create(m) \/ krhino_mutex_lock(m) \/ krhino_mutex_unlock(m) \/ krhino_mutex_del(m)
      PROVE  HandsOver
  <2>1. /\ \A n \in Obj \ {m} : mx'.mutex_task[n] = mx.mutex_task[n]
        /\ \/ mx'.mutex_task[m] = mx.mutex_task[m]
           \/ krhino_mutex_create(m)
           \/ mutex_lock_free(m)
           \/ mutex_unlock_last(m) /\ Successor(k, m, mx'.mutex_task[m])
    BY <1>4, CallsOwn, SMTT(40)
  <2>2. \/ mx'.mutex_task[m] = mx.mutex_task[m]
        \/ m \notin mx.exists
        \/ mx.mutex_task[m] = NoTask
        \/ Successor(k, m, mx'.mutex_task[m])
    BY <2>1 DEF krhino_mutex_create, mutex_lock_free
  <2>3. ASSUME NEW n \in mx.exists, mx.mutex_task[n] # NoTask, mx'.mutex_task[n] # mx.mutex_task[n]
        PROVE  Successor(k, n, mx'.mutex_task[n]) /\ n \in Obj
    BY <1>1, <2>1, <2>2, <2>3
  <2> QED
    BY <1>1, <2>3, SuccessorWaits DEF HandsOver
<1>5. Removable \subseteq Obj
  BY MutexAssumption
<1> QED
  BY <1>2, <1>3, <1>4, <1>5 DEF MutexNext

\* A mutex that leaves its owner goes to the most urgent of the tasks that wait for it,
\* and is free only if nobody waits: in an unlock and in each round of the loop that frees
\* the mutexes of a deleted task, whatever moved the waiters' priorities before.
THEOREM HandsToMostUrgentAlways ==
    DelTwice = FALSE /\ NestTooDeep = FALSE /\ MutexSpec => HandsToMostUrgent
<1> SUFFICES ASSUME DelTwice = FALSE, NestTooDeep = FALSE PROVE MutexSpec => HandsToMostUrgent
  OBVIOUS
<1>1. MutexInv /\ [MutexNext]_mutexVars => MutexInv'
  BY MutexStep
<1>2. MutexInv /\ [MutexNext]_mutexVars =>
        [\A m \in mx.exists :
            LET o == mx.mutex_task[m]
                n == mx'.mutex_task[m]
                waiting == ToSet(k.blk_list[m])
            IN  o # NoTask /\ n # o =>
                  IF waiting = {} THEN n = NoTask
                  ELSE n \in waiting /\ \A t \in waiting : k.prio[n] <= k.prio[t]]_mutexVars
  BY HandOverStep DEF HandsOver
<1> QED
  BY <1>1, <1>2, MutexInitCorrect, PTL DEF MutexSpec, HandsToMostUrgent

=============================================================================
