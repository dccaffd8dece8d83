-------------------------- MODULE RhinoTimer_proofs --------------------------
(***************************************************************************)
(* Proofs about the timers.  TimersOK, that the list holds the active      *)
(* timers, is kept by every command and every round of the walk.  InOrder, *)
(* that a timer is behind all that are due before it unless it was passed  *)
(* over, is what the head of the list may be trusted for: the task sleeps  *)
(* for the time of the first timer, and so for no longer than any other    *)
(* has left, but for those passed over and for the ticks that come between *)
(* the computation of the delay and the wait.  Nothing is assumed of how   *)
(* fast the timer task is.                                                 *)
(***************************************************************************)
EXTENDS RhinoTimer, KList_proofs

-----------------------------------------------------------------------------
(* Invariants *)

\* No time that a program sets is longer.
Longest == TickModulus \div 4

\* The timers as cmd_proc changes them: the fields of the record Timers.
TimerState ==
    [exists : SUBSET Timer, setting : [Timer -> Settings], active : SUBSET Timer,
     due : [Timer -> Int], list : Seq(Timer), passed : SUBSET Timer]

\* The list holds the active timers, which exist.
TimersOK(s) ==
    /\ s \in TimerState
    /\ s.active \subseteq s.exists
    /\ Holds(s.list, s.active)

\* The elements of a list are in the order of d, but that those in passed may be behind
\* later ones.
Behind(l, d, pas) ==
    \A i, j \in DOMAIN l : i < j /\ l[j] \notin pas => d[l[i]] <= d[l[j]]

\* The list is in the order of the times, none of which is longer than programs ask for.
InOrder(s) ==
    /\ \A t \in s.active : s.due[t] <= Longest
    /\ Behind(s.list, s.due, s.passed)

\* The commands programs send: a change says to what.
Sent == {c \in Command : c.cmd = "change" => c.setting \in Settings}

TimerInv ==
    /\ TimersOK(Timers)
    /\ queue \in Seq(Sent)
    /\ pc = "received" => cb_msg \in Sent \cup {None}
    /\ cursor \in active \cup {None}
    /\ pc # "walk" => cursor = None
    /\ lag \in Nat

\* The delay ends no later than any timer, but for the ticks since it was computed and for
\* the timers passed over.
Covers == left \in Nat \ {0} /\ \A t \in active \ passed : left <= due[t] + lag

SleepInv ==
    /\ InOrder(Timers)
    /\ pc = "walk" => \A t \in active : due[t] + lag <= Longest
    /\ pc = "outer" => active = {}
    /\ pc = "inner" => Covers
    /\ pc = "blocked" => (left = Forever /\ active = {}) \/ Covers

\* What a step has to keep.
TimerKept ==
    /\ TimerInv'
    /\ SleepInv => SleepInv'

-----------------------------------------------------------------------------
(* The list *)

\* The types of the settings.
LEMMA SettingFacts ==
    ASSUME NEW s \in Settings
    PROVE  s[1] \in 1 .. Longest /\ s[2] \in 0 .. Longest
BY TimerAssumption DEF Longest

\* The fields of a well-formed record.
LEMMA TimerFields ==
    ASSUME NEW s \in TimerState
    PROVE  /\ s.exists \in SUBSET Timer /\ s.active \in SUBSET Timer
           /\ s.setting \in [Timer -> Settings]
           /\ s.due \in [Timer -> Int] /\ s.list \in Seq(Timer) /\ s.passed \in SUBSET Timer
           /\ s = [exists |-> s.exists, setting |-> s.setting, active |-> s.active,
                   due |-> s.due, list |-> s.list, passed |-> s.passed]
BY DEF TimerState

\* A record made of such fields.
LEMMA TimerRecord ==
    ASSUME NEW e \in SUBSET Timer, NEW g \in [Timer -> Settings], NEW a \in SUBSET Timer,
           NEW d \in [Timer -> Int], NEW l \in Seq(Timer), NEW q \in SUBSET Timer
    PROVE  [exists |-> e, setting |-> g, active |-> a, due |-> d, list |-> l, passed |-> q]
              \in TimerState
BY DEF TimerState

\* A new time for one timer.
LEMMA NewTime ==
    ASSUME NEW S, NEW d \in [Timer -> S], NEW t, NEW n \in S
    PROVE  [d EXCEPT ![t] = n] \in [Timer -> S]
OBVIOUS

\* The range of the times.
LEMMA LongestFacts == Longest = 250 /\ 0 \in 0 .. Longest /\ 0 .. Longest \subseteq Int
BY DEF Longest, TickModulus

\* Other times of t do not matter to a list that t is not on, nor whether t was passed.
LEMMA BehindElsewhere ==
    ASSUME NEW l \in Seq(Timer), NEW d, DOMAIN d = Timer, NEW t \in Timer,
           t \notin ToSet(l), NEW pas, Behind(l, d, pas), NEW n
    PROVE  /\ Behind(l, [d EXCEPT ![t] = n], pas)
           /\ Behind(l, d, pas \ {t})
           /\ Behind(l, [d EXCEPT ![t] = n], pas \ {t})
<1>1. \A i \in DOMAIN l : l[i] \in Timer /\ l[i] # t
  BY InToSet
<1> QED
  BY <1>1 DEF Behind

\* timer_list_pri_insert, whatever the times: t joins the list.
LEMMA PriInsertHolds ==
    ASSUME NEW l \in Seq(Timer), IsInjective(l), NEW d, NEW lg, NEW t \in Timer,
           t \notin ToSet(l), NEW n
    PROVE  /\ timer_list_pri_insert(l, d, lg, t, n) \in Seq(Timer)
           /\ Holds(timer_list_pri_insert(l, d, lg, t, n), ToSet(l) \cup {t})
<1> DEFINE later == {i \in DOMAIN l : Unsigned(d[l[i]] + lg) > n}
<1>1. later \in SUBSET DOMAIN l
  OBVIOUS
<1> HIDE DEF later
<1>2. /\ klist_insert(l, later, t) \in Seq(Timer)
      /\ Holds(klist_insert(l, later, t), ToSet(l) \cup {t})
  BY <1>1, KlistInsertHolds
<1> QED
  BY <1>2 DEF timer_list_pri_insert, later

\* What is in front of the first of some positions is at none of them.
LEMMA FirstOfFirst ==
    ASSUME NEW l \in Seq(Timer), NEW later \in SUBSET DOMAIN l
    PROVE  /\ FirstOf(l, later) \in 1 .. Len(l) + 1
           /\ FirstOf(l, later) \in later \/ FirstOf(l, later) = Len(l) + 1
           /\ \A j \in DOMAIN l : j < FirstOf(l, later) => j \notin later
<1>1. DOMAIN l = 1 .. Len(l) /\ Len(l) \in Nat
  OBVIOUS
<1>2. CASE later = {}
  BY <1>1, <1>2 DEF FirstOf
<1>3. CASE later # {}
  <2>1. later \in SUBSET Nat
    BY <1>1
  <2>2. \E i \in later : \A j \in later : i <= j
    BY <1>3, <2>1, MinExists
  <2>3. FirstOf(l, later) \in later /\ \A j \in later : FirstOf(l, later) <= j
    BY <1>3, <2>2 DEF FirstOf
  <2> QED
    BY <1>1, <2>1, <2>3
<1> QED
  BY <1>2, <1>3

\* The unsigned comparison: right for a timer that is not overdue, and for none that is
\* taken for one that is not.
LEMMA UnsignedFacts ==
    ASSUME NEW m \in Int, m <= Longest, NEW n \in 0 .. Longest
    PROVE  /\ ~(Unsigned(m) > n) => m <= n
           /\ Unsigned(m) > n /\ ~(m < 0) => m > n
<1>1. \A k \in 0 .. 250 : k % 1000 = k
  OBVIOUS
<1>2. CASE m < 0
  BY <1>2, LongestFacts
<1>3. CASE m >= 0
  <2>1. m \in 0 .. 250
    BY <1>3, LongestFacts
  <2>2. Unsigned(m) = m
    BY <1>1, <2>1 DEF Unsigned, TickModulus
  <2> QED
    BY <2>1, <2>2, LongestFacts
<1> QED
  BY <1>2, <1>3

\* Only timers of the list are passed over.
LEMMA PassedType ==
    ASSUME NEW l \in Seq(Timer), NEW d, NEW lg, NEW n
    PROVE  Passed(l, d, lg, n) \in SUBSET Timer
<1>1. \A i \in DOMAIN l : l[i] \in Timer
  OBVIOUS
<1> DEFINE p == FirstOf(l, {i \in DOMAIN l : Unsigned(d[l[i]] + lg) > n})
           J == {j \in DOMAIN l : j >= p /\ d[l[p]] + lg < 0}
<1>2. Passed(l, d, lg, n) = {l[i] : i \in J}
  BY DEF Passed
<1>3. J \subseteq DOMAIN l
  OBVIOUS
<1> HIDE DEF J
<1> QED
  BY <1>1, <1>2, <1>3

\* timer_list_pri_insert, whatever is overdue: t comes behind all that are due before it,
\* and what it wrongly comes in front of is Passed.
LEMMA PriInsertBehind ==
    ASSUME NEW l \in Seq(Timer), NEW d \in [Timer -> Int], NEW pas, Behind(l, d, pas),
           NEW lg \in Int, \A i \in DOMAIN l : d[l[i]] + lg <= Longest,
           NEW t \in Timer, t \notin ToSet(l), NEW n \in 0 .. Longest
    PROVE  Behind(timer_list_pri_insert(l, d, lg, t, n), [d EXCEPT ![t] = n - lg],
                  (pas \cup Passed(l, d, lg, n)) \ {t})
<1> DEFINE e == [d EXCEPT ![t] = n - lg]
           later == {i \in DOMAIN l : Unsigned(d[l[i]] + lg) > n}
           p == FirstOf(l, later)
           q == Passed(l, d, lg, n)
           r == InsertAt(l, p, t)
<1>1. e \in [Timer -> Int] /\ e[t] = n - lg
  BY LongestFacts
<1>2. \A i \in DOMAIN l : l[i] \in Timer /\ l[i] # t /\ e[l[i]] = d[l[i]]
  BY InToSet
<1>3. DOMAIN l = 1 .. Len(l) /\ Len(l) \in Nat
  OBVIOUS
<1>4. q = {l[i] : i \in {j \in DOMAIN l : j >= p /\ d[l[p]] + lg < 0}}
  BY DEF Passed
<1> HIDE DEF e, q
<1>5. later \in SUBSET DOMAIN l
  OBVIOUS
<1>6. \A i \in DOMAIN l : i \in later <=> Unsigned(d[l[i]] + lg) > n
  OBVIOUS
<1> HIDE DEF later
<1>7. /\ p \in 1 .. Len(l) + 1
      /\ p \in later \/ p = Len(l) + 1
      /\ \A j \in DOMAIN l : j < p => j \notin later
  BY <1>5, FirstOfFirst
<1> HIDE DEF p
<1>8. /\ r \in Seq(Timer) /\ Len(r) = Len(l) + 1
      /\ \A j \in 1 .. Len(l) + 1 : r[j] = IF j < p THEN l[j] ELSE IF j = p THEN t ELSE l[j - 1]
  BY <1>7, InsertFacts
<1> HIDE DEF r
<1>9. DOMAIN r = 1 .. Len(l) + 1
  BY <1>8
<1>10. \A i \in DOMAIN l : d[l[i]] \in Int /\ d[l[i]] + lg \in Int
  BY <1>2
<1>11. ASSUME NEW i \in DOMAIN l, i < p PROVE e[l[i]] <= n - lg
  <2>1. d[l[i]] + lg <= n
    BY <1>6, <1>7, <1>10, <1>11, UnsignedFacts
  <2> QED
    BY <1>2, <1>10, <2>1, LongestFacts
<1>12. ASSUME NEW j \in DOMAIN l, j >= p, l[j] \notin pas \cup q
       PROVE  n - lg <= e[l[j]]
  <2>1. p \in DOMAIN l /\ p \in later
    BY <1>3, <1>7, <1>12
  <2>2. ~(d[l[p]] + lg < 0)
    BY <1>4, <1>12
  <2>3. d[l[p]] + lg > n
    BY <1>6, <1>10, <2>1, <2>2, UnsignedFacts
  <2>4. d[l[p]] <= d[l[j]]
    <3>1. CASE j = p
      BY <1>10, <2>1, <3>1
    <3>2. CASE p < j
      BY <1>12, <2>1, <3>2 DEF Behind
    <3> QED
      BY <1>3, <1>7, <1>12, <3>1, <3>2
  <2> QED
    BY <1>2, <1>10, <2>1, <2>3, <2>4, LongestFacts
<1>13. ASSUME NEW i \in DOMAIN r, NEW j \in DOMAIN r, i < j, r[j] \notin (pas \cup q) \ {t}
       PROVE  e[r[i]] <= e[r[j]]
  <2>1. CASE j < p
    <3>1. i \in DOMAIN l /\ j \in DOMAIN l /\ r[i] = l[i] /\ r[j] = l[j]
      BY <1>3, <1>7, <1>8, <1>9, <1>13, <2>1
    <3>2. l[j] \notin pas
      BY <1>2, <1>13, <3>1
    <3> QED
      BY <1>2, <1>13, <3>1, <3>2 DEF Behind
  <2>2. CASE j = p
    <3>1. i \in DOMAIN l /\ i < p /\ r[i] = l[i] /\ r[j] = t
      BY <1>3, <1>7, <1>8, <1>9, <1>13, <2>2
    <3> QED
      BY <1>1, <1>11, <3>1
  <2>3. CASE j > p
    <3>1. j - 1 \in DOMAIN l /\ j - 1 >= p /\ r[j] = l[j - 1]
      BY <1>3, <1>7, <1>8, <1>9, <1>13, <2>3
    <3>2. l[j - 1] \notin pas \cup q
      BY <1>2, <1>13, <3>1
    <3>3. CASE i < p
      <4>1. i \in DOMAIN l /\ i < j - 1 /\ r[i] = l[i]
        BY <1>3, <1>7, <1>8, <1>9, <2>3, <3>3
      <4> QED
        BY <1>2, <3>1, <3>2, <4>1 DEF Behind
    <3>4. CASE i = p
      <4>1. r[i] = t
        BY <1>8, <1>9, <3>4
      <4>2. n - lg <= e[l[j - 1]]
        BY <1>12, <3>1, <3>2
      <4> QED
        BY <1>1, <3>1, <4>1, <4>2
    <3>5. CASE i > p
      <4>1. i - 1 \in DOMAIN l /\ i - 1 < j - 1
        <5>1. p \in Nat \ {0} /\ i \in 1 .. Len(l) + 1 /\ j \in 1 .. Len(l) + 1
          BY <1>3, <1>7, <1>9
        <5>2. i - 1 \in 1 .. Len(l)
          BY <1>3, <3>5, <5>1
        <5>3. i - 1 < j - 1
          BY <1>13, <5>1
        <5> QED
          BY <1>3, <5>2, <5>3
      <4>2. r[i] = l[i - 1]
        BY <1>3, <1>7, <1>8, <1>9, <3>5
      <4> QED
        BY <1>2, <3>1, <3>2, <4>1, <4>2 DEF Behind
    <3> QED
      BY <1>3, <1>7, <1>9, <3>3, <3>4, <3>5
  <2> QED
    BY <1>3, <1>7, <1>9, <2>1, <2>2, <2>3
<1>14. Behind(r, e, (pas \cup q) \ {t})
  BY <1>13 DEF Behind
<1> QED
  BY <1>14 DEF timer_list_pri_insert, klist_insert, e, later, p, q, r

\* Unlinking a timer leaves the others in order.
LEMMA RmBehind ==
    ASSUME NEW l \in Seq(Timer), NEW t, NEW d, NEW pas, Behind(l, d, pas)
    PROVE  Behind(klist_rm(l, t), d, pas)
<1>0. DOMAIN l = 1 .. Len(l) /\ Len(l) \in Nat
  OBVIOUS
<1>1. CASE t \notin ToSet(l)
  BY <1>1 DEF klist_rm
<1>2. CASE t \in ToSet(l)
  <2> DEFINE i == CHOOSE m \in DOMAIN l : l[m] = t
             r == RemoveAt(l, i)
  <2>1. i \in DOMAIN l
    BY <1>2, ToSetIndex
  <2>2. r = klist_rm(l, t)
    BY <1>2 DEF klist_rm
  <2> HIDE DEF i
  <2>3. /\ Len(r) = Len(l) - 1 /\ r \in Seq(Timer)
        /\ \A j \in 1 .. Len(l) - 1 : r[j] = IF j < i THEN l[j] ELSE l[j + 1]
    BY <1>0, <2>1, RemoveFacts
  <2> HIDE DEF r
  <2>4. DOMAIN r = 1 .. Len(l) - 1
    BY <2>3
  <2> DEFINE g(q) == IF q < i THEN q ELSE q + 1
  <2>5. \A q \in DOMAIN r : g(q) \in DOMAIN l /\ r[q] = l[g(q)]
    BY <1>0, <2>1, <2>3, <2>4
  <2>6. ASSUME NEW p \in DOMAIN r, NEW q \in DOMAIN r, p < q, r[q] \notin pas
        PROVE  d[r[p]] <= d[r[q]]
    <3>1. g(p) < g(q)
      BY <1>0, <2>1, <2>4, <2>6
    <3> HIDE DEF g
    <3> QED
      BY <2>5, <2>6, <3>1 DEF Behind
  <2> QED
    BY <2>2, <2>6 DEF Behind
<1> QED
  BY <1>1, <1>2

\* The same for a time from now on.
LEMMA PriInsertNow ==
    ASSUME NEW l \in Seq(Timer), NEW d \in [Timer -> Int], NEW pas, Behind(l, d, pas),
           \A i \in DOMAIN l : d[l[i]] <= Longest,
           NEW t \in Timer, t \notin ToSet(l), NEW n \in 0 .. Longest
    PROVE  Behind(timer_list_pri_insert(l, d, 0, t, n), [d EXCEPT ![t] = n],
                  (pas \cup Passed(l, d, 0, n)) \ {t})
<1> DEFINE lg == 0
<1>1. lg \in Int /\ n - lg = n
  BY LongestFacts
<1>2. \A i \in DOMAIN l : d[l[i]] + lg <= Longest
  BY LongestFacts
<1> HIDE DEF lg
<1>3. Behind(timer_list_pri_insert(l, d, lg, t, n), [d EXCEPT ![t] = n - lg],
             (pas \cup Passed(l, d, lg, n)) \ {t})
  BY <1>1, <1>2, PriInsertBehind
<1>4. Behind(timer_list_pri_insert(l, d, lg, t, n), [d EXCEPT ![t] = n],
             (pas \cup Passed(l, d, lg, n)) \ {t})
  BY <1>1, <1>3
<1> QED
  BY <1>4 DEF lg

\* timer_list_rm: t leaves the list, and the order is kept.
LEMMA TimerRm ==
    ASSUME NEW l \in Seq(Timer), IsInjective(l), NEW t
    PROVE  /\ timer_list_rm(l, t) \in Seq(Timer)
           /\ Holds(timer_list_rm(l, t), ToSet(l) \ {t})
           /\ \A d, pas : Behind(l, d, pas) => Behind(timer_list_rm(l, t), d, pas)
<1>1. /\ klist_rm(l, t) \in Seq(Timer)
      /\ Holds(klist_rm(l, t), ToSet(l) \ {t})
  BY KlistRmHolds
<1> QED
  BY <1>1, RmBehind DEF timer_list_rm

\* The walk goes on with a timer of the list, or has come to its end.
LEMMA FollowsFacts ==
    ASSUME NEW l \in Seq(Timer), IsInjective(l), NEW t \in ToSet(l)
    PROVE  Follows(l, t) \in (ToSet(l) \ {t}) \cup {None}
<1>1. DOMAIN l = 1 .. Len(l) /\ Len(l) \in Nat
  OBVIOUS
<1>2. PICK i : i = CHOOSE j \in 1 .. Len(l) : l[j] = t
  OBVIOUS
<1>3. i \in 1 .. Len(l) /\ l[i] = t
  BY <1>1, <1>2, ToSetIndex
<1>4. Follows(l, t) = IF i = Len(l) THEN None ELSE l[i + 1]
  BY <1>2 DEF Follows
<1>5. CASE i # Len(l)
  <2>1. i + 1 \in DOMAIN l /\ i \in DOMAIN l /\ i + 1 # i
    <3>1. i \in 1 .. Len(l) /\ Len(l) \in Nat
      BY <1>1, <1>3
    <3>2. i + 1 \in 1 .. Len(l)
      BY <1>5, <3>1
    <3>3. i + 1 # i
      BY <3>1
    <3> QED
      BY <1>1, <3>1, <3>2, <3>3
  <2>2. l[i + 1] \in ToSet(l) /\ l[i + 1] # l[i]
    BY <2>1, InToSet DEF IsInjective
  <2> QED
    BY <1>3, <1>4, <1>5, <2>2
<1> QED
  BY <1>4, <1>5

-----------------------------------------------------------------------------
(* Commands *)

\* cmd_start keeps the list right, and in order.
LEMMA StartKeeps ==
    ASSUME NEW s, TimersOK(s), NEW t \in Timer
    PROVE  /\ TimersOK(cmd_start(s, t))
           /\ InOrder(s) => InOrder(cmd_start(s, t))
<1> DEFINE n == s.setting[t][1]
           d == [s.due EXCEPT ![t] = n]
           l == timer_list_pri_insert(s.list, s.due, 0, t, n)
           q == s.passed \cup Passed(s.list, s.due, 0, n)
           r == [exists |-> s.exists, setting |-> s.setting, active |-> s.active \cup {t},
                 due |-> d, list |-> l, passed |-> q]
<1>1. /\ s.exists \in SUBSET Timer /\ s.active \in SUBSET Timer
      /\ s.setting \in [Timer -> Settings]
      /\ s.due \in [Timer -> Int] /\ s.list \in Seq(Timer) /\ s.passed \in SUBSET Timer
      /\ s = [exists |-> s.exists, setting |-> s.setting, active |-> s.active,
              due |-> s.due, list |-> s.list, passed |-> s.passed]
  BY TimerFields DEF TimersOK
<1>2. CASE t \notin s.exists \/ t \in s.active
  BY <1>2 DEF cmd_start
<1>3. CASE t \in s.exists /\ t \notin s.active
  <2>1. n \in 1 .. Longest /\ n \in 0 .. Longest /\ n \in Int
    <3>1. s.setting[t] \in Settings
      BY <1>1
    <3>2. n \in 1 .. Longest
      BY <3>1, SettingFacts
    <3> QED
      BY <3>2 DEF Longest, TickModulus
  <2> HIDE DEF n
  <2>2. ToSet(s.list) = s.active /\ IsInjective(s.list)
    BY DEF TimersOK, Holds
  <2>3. l \in Seq(Timer) /\ Holds(l, s.active \cup {t})
    <3>1. /\ l \in Seq(Timer)
          /\ Holds(l, ToSet(s.list) \cup {t})
      BY <1>1, <1>3, <2>2, PriInsertHolds
    <3> QED
      BY <2>2, <3>1
  <2>4. ASSUME InOrder(s) PROVE Behind(l, d, q)
    <3>1. \A i \in DOMAIN s.list : s.due[s.list[i]] <= Longest
      BY <2>2, <2>4, InToSet DEF InOrder
    <3>2. t \notin ToSet(s.list)
      BY <1>3, <2>2
    <3>3. Behind(s.list, s.due, s.passed)
      BY <2>4 DEF InOrder
    <3>4. Behind(timer_list_pri_insert(s.list, s.due, 0, t, n), [s.due EXCEPT ![t] = n],
                 (s.passed \cup Passed(s.list, s.due, 0, n)) \ {t})
      BY <1>1, <2>1, <3>1, <3>2, <3>3, PriInsertNow
    <3>5. Behind(l, d, q \ {t})
      BY <3>2, <3>4
    <3> HIDE DEF l, d, q
    <3> QED
      BY <3>5 DEF Behind
  <2>10. q \in SUBSET Timer
    BY <1>1, PassedType
  <2>5. cmd_start(s, t) = r
    BY <1>1, <1>3 DEF cmd_start, n
  <2>6. d \in [Timer -> Int] /\ (InOrder(s) => \A u \in s.active \cup {t} : d[u] <= Longest)
    <3>1. d \in [Timer -> Int]
      BY <1>1, <2>1, NewTime
    <3>3. n <= Longest
      BY <2>1, LongestFacts
    <3>2. \A u \in s.active \cup {t} : d[u] = IF u = t THEN n ELSE s.due[u]
      BY <1>1
    <3> HIDE DEF d
    <3> QED
      BY <3>1, <3>2, <3>3 DEF InOrder
  <2> HIDE DEF d, l, q
  <2>7. r \in TimerState
    BY <1>1, <2>3, <2>6, <2>10, TimerRecord
  <2>8. TimersOK(r)
    BY <1>3, <2>3, <2>7 DEF TimersOK
  <2>9. InOrder(s) => InOrder(r)
    BY <2>4, <2>6 DEF InOrder
  <2> QED
    BY <2>5, <2>8, <2>9
<1> QED
  BY <1>2, <1>3

\* So does cmd_stop.
LEMMA StopKeeps ==
    ASSUME NEW s, TimersOK(s), NEW t \in Timer
    PROVE  /\ TimersOK(cmd_stop(s, t))
           /\ InOrder(s) => InOrder(cmd_stop(s, t))
<1> DEFINE d == [s.due EXCEPT ![t] = 0]
           l == timer_list_rm(s.list, t)
           r == [exists |-> s.exists, setting |-> s.setting, active |-> s.active \ {t},
                 due |-> d, list |-> l, passed |-> s.passed \ {t}]
<1>1. /\ s.exists \in SUBSET Timer /\ s.active \in SUBSET Timer
      /\ s.setting \in [Timer -> Settings]
      /\ s.due \in [Timer -> Int] /\ s.list \in Seq(Timer) /\ s.passed \in SUBSET Timer
      /\ s = [exists |-> s.exists, setting |-> s.setting, active |-> s.active,
              due |-> s.due, list |-> s.list, passed |-> s.passed]
  BY TimerFields DEF TimersOK
<1>2. CASE t \notin s.exists \cap s.active
  BY <1>2 DEF cmd_stop
<1>3. CASE t \in s.exists \cap s.active
  <2>2. ToSet(s.list) = s.active /\ IsInjective(s.list)
    BY DEF TimersOK, Holds
  <2>3. /\ l \in Seq(Timer)
        /\ Holds(l, ToSet(s.list) \ {t})
        /\ \A e, pas : Behind(s.list, e, pas) => Behind(l, e, pas)
    BY <1>1, <2>2, TimerRm
  <2>4. cmd_stop(s, t) = r
    BY <1>1, <1>3 DEF cmd_stop
  <2> HIDE DEF l
  <2>5. d \in [Timer -> Int] /\ (InOrder(s) => \A u \in s.active \ {t} : d[u] <= Longest)
    BY <1>1 DEF InOrder
  <2>6. ASSUME InOrder(s) PROVE Behind(l, d, s.passed \ {t})
    <3>1. t \notin ToSet(l) /\ DOMAIN s.due = Timer
      BY <1>1, <2>3 DEF Holds
    <3>2. Behind(l, s.due, s.passed)
      BY <2>3, <2>6 DEF InOrder
    <3> QED
      BY <2>3, <3>1, <3>2, BehindElsewhere
  <2> HIDE DEF d
  <2>7. r \in TimerState
    BY <1>1, <2>3, <2>5, TimerRecord
  <2>8. TimersOK(r)
    BY <2>2, <2>3, <2>7 DEF TimersOK
  <2>9. InOrder(s) => InOrder(r)
    BY <2>5, <2>6 DEF InOrder
  <2> QED
    BY <2>4, <2>8, <2>9
<1> QED
  BY <1>2, <1>3

\* And so does every other command.
LEMMA CommandKeeps ==
    ASSUME NEW s, TimersOK(s), NEW c \in Sent
    PROVE  /\ TimersOK(timer_cmd_proc(s, c))
           /\ InOrder(s) => InOrder(timer_cmd_proc(s, c))
<1>0. /\ s.exists \in SUBSET Timer /\ s.active \in SUBSET Timer
      /\ s.setting \in [Timer -> Settings]
      /\ s.due \in [Timer -> Int] /\ s.list \in Seq(Timer) /\ s.passed \in SUBSET Timer
      /\ s = [exists |-> s.exists, setting |-> s.setting, active |-> s.active,
              due |-> s.due, list |-> s.list, passed |-> s.passed]
  BY TimerFields DEF TimersOK
<1>1. /\ c.timer \in Timer
      /\ c.cmd \in {"start", "stop", "change", "restart", "del"}
      /\ c.cmd = "change" => c.setting \in Settings
  BY DEF Sent, Command
<1> DEFINE t == c.timer
<1>2. t \in Timer
  BY <1>1
<1>3. CASE c.cmd = "start"
  <2>1. timer_cmd_proc(s, c) = cmd_start(s, t)
    BY <1>3 DEF timer_cmd_proc
  <2> HIDE DEF t
  <2> QED
    BY <1>2, <2>1, StartKeeps
<1>4. CASE c.cmd = "stop"
  <2>1. timer_cmd_proc(s, c) = cmd_stop(s, t)
    BY <1>4 DEF timer_cmd_proc
  <2> HIDE DEF t
  <2> QED
    BY <1>2, <2>1, StopKeeps
<1>5. CASE c.cmd = "restart"
  <2>1. timer_cmd_proc(s, c) = cmd_start(cmd_stop(s, t), t)
    BY <1>5 DEF timer_cmd_proc
  <2> HIDE DEF t
  <2>2. /\ TimersOK(cmd_stop(s, t))
        /\ InOrder(s) => InOrder(cmd_stop(s, t))
    BY <1>2, StopKeeps
  <2> DEFINE s1 == cmd_stop(s, t)
  <2>3. TimersOK(s1) /\ (InOrder(s) => InOrder(s1))
    BY <2>2
  <2>4. timer_cmd_proc(s, c) = cmd_start(s1, t)
    BY <2>1
  <2> HIDE DEF s1
  <2>5. /\ TimersOK(cmd_start(s1, t))
        /\ InOrder(s1) => InOrder(cmd_start(s1, t))
    BY <1>2, <2>3, StartKeeps
  <2> QED
    BY <2>3, <2>4, <2>5
<1>6. CASE c.cmd = "change"
  <2>1. CASE t \notin s.exists \ s.active
    BY <1>6, <2>1 DEF timer_cmd_proc, cmd_change
  <2>2. CASE t \in s.exists \ s.active
    <3> DEFINE g == [s.setting EXCEPT ![t] = c.setting]
               r == [exists |-> s.exists, setting |-> g, active |-> s.active,
                     due |-> s.due, list |-> s.list, passed |-> s.passed]
    <3>1. timer_cmd_proc(s, c) = r
      BY <1>0, <1>6, <2>2 DEF timer_cmd_proc, cmd_change
    <3>2. g \in [Timer -> Settings]
      BY <1>0, <1>1, <1>6
    <3> HIDE DEF g
    <3>3. r \in TimerState
      BY <1>0, <3>2, TimerRecord
    <3> QED
      BY <3>1, <3>3 DEF TimersOK, InOrder
  <2> QED
    BY <2>1, <2>2
<1>7. CASE c.cmd = "del"
  <2>1. CASE t \notin s.exists \ s.active
    BY <1>7, <2>1 DEF timer_cmd_proc, cmd_del
  <2>2. CASE t \in s.exists \ s.active
    <3> DEFINE e == s.exists \ {t}
               r == [exists |-> e, setting |-> s.setting, active |-> s.active,
                     due |-> s.due, list |-> s.list, passed |-> s.passed]
    <3>1. timer_cmd_proc(s, c) = r
      BY <1>0, <1>7, <2>2 DEF timer_cmd_proc, cmd_del
    <3>2. e \in SUBSET Timer /\ s.active \subseteq e
      BY <1>0, <2>2 DEF TimersOK
    <3> HIDE DEF e
    <3>3. r \in TimerState
      BY <1>0, <3>2, TimerRecord
    <3> QED
      BY <3>1, <3>2, <3>3 DEF TimersOK, InOrder
  <2> QED
    BY <2>1, <2>2
<1> QED
  BY <1>1, <1>3, <1>4, <1>5, <1>6, <1>7

-----------------------------------------------------------------------------
(* Calls of programs *)

\* The timers as a record, in the next state too.
LEMMA TimersFacts ==
    ASSUME TimersOK(Timers)
    PROVE  /\ exists \in SUBSET Timer /\ active \in SUBSET Timer /\ active \subseteq exists
           /\ setting \in [Timer -> Settings]
           /\ due \in [Timer -> Int] /\ list \in Seq(Timer) /\ passed \in SUBSET Timer
           /\ ToSet(list) = active /\ IsInjective(list)
BY DEF TimersOK, TimerState, Timers, Holds

\* Where a command goes to.
LEMMA SendFacts ==
    ASSUME TimerInv, NEW c \in Sent, timer_send(c)
    PROVE  /\ queue' \in Seq(Sent)
           /\ pc' = "received" => cb_msg' \in Sent \cup {None}
           /\ pc' = pc \/ (pc = "blocked" /\ pc' = "received")
<1>1. queue \in Seq(Sent) /\ (pc = "received" => cb_msg \in Sent \cup {None})
  BY DEF TimerInv
<1>2. CASE pc = "blocked"
  BY <1>1, <1>2 DEF timer_send
<1>3. CASE pc # "blocked"
  <2>1. queue' = Append(queue, c) /\ cb_msg' = cb_msg /\ pc' = pc
    BY <1>3 DEF timer_send
  <2>2. Append(queue, c) \in Seq(Sent)
    BY <1>1, AppendProperties
  <2> QED
    BY <1>1, <2>1, <2>2
<1> QED
  BY <1>2, <1>3

\* A call that sends a command or none, and creates timers at most.
LEMMA CallKept ==
    ASSUME TimerInv, TimersOK(Timers'),
           UNCHANGED <<active, due, list, cursor, lag, left, passed>>,
           \/ \E c \in Sent : timer_send(c)
           \/ UNCHANGED <<queue, cb_msg, pc>>
    PROVE  TimerKept
<1>1. /\ queue' \in Seq(Sent)
      /\ pc' = "received" => cb_msg' \in Sent \cup {None}
      /\ pc' = pc \/ (pc = "blocked" /\ pc' = "received")
  BY SendFacts DEF TimerInv
<1>2. TimerInv'
  <2>1. TimersOK(Timers)'
    OBVIOUS
  <2> QED
    BY <1>1, <2>1 DEF TimerInv
<1>3. ASSUME SleepInv PROVE SleepInv'
  <2>1. InOrder(Timers)'
    BY <1>3 DEF SleepInv, InOrder, Timers
  <2>2. lag' = lag /\ Covers' = Covers
    BY <1>3 DEF SleepInv, Covers
  <2> QED
    BY <1>1, <1>3, <2>1, <2>2 DEF SleepInv
<1> QED
  BY <1>2, <1>3 DEF TimerKept

\* krhino_timer_start, _stop, _change, _arg_change_auto and _del only send a command.
LEMMA SendKept ==
    ASSUME TimerInv, NEW c \in Sent, krhino_timer_send(c)
    PROVE  TimerKept
<1>1. Timers' = Timers
  BY DEF krhino_timer_send, Timers
<1>2. TimersOK(Timers')
  BY <1>1 DEF TimerInv
<1>3. timer_send(c) /\ UNCHANGED <<active, due, list, cursor, lag, left, passed>>
  BY DEF krhino_timer_send
<1> QED
  BY <1>2, <1>3, CallKept

\* krhino_timer_create makes a timer exist that is on no list.
LEMMA CreateKept ==
    ASSUME TimerInv, NEW t \in Timer, NEW s \in Settings, NEW auto_run \in BOOLEAN,
           krhino_timer_create(t, s, auto_run)
    PROVE  TimerKept
<1>1. /\ exists \in SUBSET Timer /\ active \in SUBSET Timer /\ active \subseteq exists
      /\ setting \in [Timer -> Settings]
      /\ due \in [Timer -> Int] /\ list \in Seq(Timer) /\ passed \in SUBSET Timer
      /\ ToSet(list) = active /\ IsInjective(list)
  BY TimersFacts DEF TimerInv
<1>2. /\ t \notin exists /\ exists' = exists \cup {t}
      /\ setting' = [setting EXCEPT ![t] = s]
      /\ active' = active \ {t}
      /\ UNCHANGED <<due, list, lag, left, cursor, passed>>
  BY DEF krhino_timer_create
<1>3. active' = active
  BY <1>1, <1>2
<1>4. TimersOK(Timers')
  <2>1. setting' \in [Timer -> Settings] /\ exists' \in SUBSET Timer
    BY <1>1, <1>2
  <2>2. Timers' = [exists |-> exists', setting |-> setting', active |-> active,
                   due |-> due, list |-> list, passed |-> passed]
    BY <1>2, <1>3 DEF Timers
  <2>3. Timers' \in TimerState
    BY <1>1, <2>1, <2>2, TimerRecord
  <2> QED
    BY <1>1, <1>2, <2>2, <2>3 DEF TimersOK, Holds
<1>5. \/ \E c \in Sent : timer_send(c)
      \/ UNCHANGED <<queue, cb_msg, pc>>
  <2>1. [cmd |-> "start", timer |-> t, setting |-> None] \in Sent
    BY DEF Sent, Command
  <2> QED
    BY <2>1 DEF krhino_timer_create
<1> QED
  BY <1>2, <1>3, <1>4, <1>5, CallKept

\* Every call of a program.
LEMMA CallsKept ==
    ASSUME TimerInv, NEW t \in Timer, TimerCalls(t)
    PROVE  TimerKept
<1>1. /\ [cmd |-> "start", timer |-> t, setting |-> None] \in Sent
      /\ [cmd |-> "stop", timer |-> t, setting |-> None] \in Sent
      /\ [cmd |-> "restart", timer |-> t, setting |-> None] \in Sent
      /\ [cmd |-> "del", timer |-> t, setting |-> None] \in Sent
      /\ \A s \in Settings : [cmd |-> "change", timer |-> t, setting |-> s] \in Sent
  BY DEF Sent, Command
<1>2. CASE \E c \in Sent : krhino_timer_send(c)
  BY <1>2, SendKept
<1>3. CASE \E s \in Settings, auto_run \in BOOLEAN : krhino_timer_create(t, s, auto_run)
  BY <1>3, CreateKept
<1> QED
  BY <1>1, <1>2, <1>3 DEF TimerCalls, krhino_timer_start, krhino_timer_stop,
     krhino_timer_change, krhino_timer_arg_change_auto, krhino_timer_del

-----------------------------------------------------------------------------
(* The timer task *)

\* A receive takes a command, or sleeps.
LEMMA RecvKept ==
    ASSUME TimerInv, NEW ticks, buf_queue_recv(ticks), pc # "walk",
           UNCHANGED <<exists, setting, active, due, list, lag, cursor, passed>>,
           SleepInv => \/ ticks = Forever /\ active = {}
                       \/ /\ ticks \in Nat \ {0}
                          /\ \A t \in active \ passed : ticks <= due[t] + lag
    PROVE  TimerKept
<1>1. Timers' = Timers
  BY DEF Timers
<1>2. TimersOK(Timers)'
  BY <1>1 DEF TimerInv
<1>3. cursor = None /\ cursor' = None /\ queue \in Seq(Sent)
  BY DEF TimerInv
<1>4. /\ queue' \in Seq(Sent)
      /\ pc' = "received" => cb_msg' \in Sent
      /\ pc' = "received" \/ (pc' = "blocked" /\ left' = ticks)
  BY <1>3 DEF buf_queue_recv
<1>5. TimerInv'
  BY <1>2, <1>3, <1>4 DEF TimerInv
<1>6. ASSUME SleepInv PROVE SleepInv'
  <2>1. InOrder(Timers)'
    BY <1>1, <1>6 DEF SleepInv, InOrder
  <2>2. pc' = "blocked" => (left' = Forever /\ active' = {}) \/ Covers'
    BY <1>4, <1>6 DEF Covers
  <2> QED
    BY <1>4, <2>1, <2>2 DEF SleepInv
<1> QED
  BY <1>5, <1>6 DEF TimerKept

\* The receive of the outer loop, with no timer active.
LEMMA OuterKept ==
    ASSUME TimerInv, timer_task_outer
    PROVE  TimerKept
BY RecvKept DEF timer_task_outer, SleepInv

\* The receive of the inner loop, with a delay that covers the timers.
LEMMA InnerKept ==
    ASSUME TimerInv, timer_task_inner
    PROVE  TimerKept
BY RecvKept DEF timer_task_inner, SleepInv, Covers

\* A command is carried out, and the walk begins with a timer of the list.
LEMMA ReceivedKept ==
    ASSUME TimerInv, timer_task_received
    PROVE  TimerKept
<1> DEFINE s == IF cb_msg = None THEN Timers ELSE timer_cmd_proc(Timers, cb_msg)
<1>1. pc = "received" /\ cb_msg \in Sent \cup {None} /\ TimersOK(Timers)
  BY DEF TimerInv, timer_task_received
<1>2. TimersOK(s) /\ (InOrder(Timers) => InOrder(s))
  BY <1>1, CommandKeeps
<1>3. Becomes(s)
  BY DEF timer_task_received
<1> HIDE DEF s
<1>4. Timers' = s
  <2>1. s = [exists |-> s.exists, setting |-> s.setting, active |-> s.active,
             due |-> s.due, list |-> s.list, passed |-> s.passed]
    BY <1>2, TimerFields DEF TimersOK
  <2> QED
    BY <1>3, <2>1 DEF Becomes, Timers
<1>5. TimersOK(Timers)'
  BY <1>2, <1>4
<1>6. cursor' \in active' \cup {None}
  <2>1. ToSet(list') = active' /\ list' \in Seq(Timer)
    BY <1>5 DEF TimersOK, TimerState, Timers, Holds
  <2>2. list' # <<>> => Head(list') \in ToSet(list')
    <3>1. list' # <<>> => 1 \in DOMAIN list' /\ Head(list') = list'[1]
      BY <2>1
    <3> QED
      BY <3>1, InToSet
  <2> QED
    BY <2>1, <2>2 DEF timer_task_received
<1>7. pc' = "walk" /\ lag' = 0 /\ queue' = queue
  BY DEF timer_task_received
<1>8. TimerInv'
  BY <1>5, <1>6, <1>7 DEF TimerInv
<1>9. ASSUME SleepInv PROVE SleepInv'
  <2>1. InOrder(Timers)'
    BY <1>2, <1>4, <1>9 DEF SleepInv
  <2>2. \A t \in active' : due'[t] + lag' <= Longest
    BY <1>5, <1>7, <2>1 DEF InOrder, TimersOK, TimerState, Timers
  <2> QED
    BY <1>7, <2>1, <2>2 DEF SleepInv
<1> QED
  BY <1>8, <1>9 DEF TimerKept

\* The head of the inner loop: the first timer of a list in order has the least time left.
LEMMA HeadKept ==
    ASSUME TimerInv, timer_task_head
    PROVE  TimerKept
<1>1. /\ exists \in SUBSET Timer /\ active \in SUBSET Timer /\ active \subseteq exists
      /\ setting \in [Timer -> Settings]
      /\ due \in [Timer -> Int] /\ list \in Seq(Timer) /\ passed \in SUBSET Timer
      /\ ToSet(list) = active /\ IsInjective(list)
  BY TimersFacts DEF TimerInv
<1>2. /\ Timers' = Timers /\ lag' = 0 /\ queue' = queue /\ cb_msg' = cb_msg
      /\ active' = active /\ due' = due /\ passed' = passed /\ pc = "head" /\ cursor = None
  BY DEF timer_task_head, Timers, TimerInv
<1>3. TimersOK(Timers)' /\ (SleepInv => InOrder(Timers)')
  BY <1>2 DEF TimerInv, SleepInv
<1>4. DOMAIN list = 1 .. Len(list) /\ Len(list) \in Nat
  BY <1>1
<1>5. CASE list = <<>>
  <2>1. pc' = "outer" /\ cursor' = None
    BY <1>2, <1>5 DEF timer_task_head
  <2>2. active' = {}
    BY <1>1, <1>2, <1>4, <1>5, ToSetIndex
  <2>3. TimerInv'
    BY <1>2, <1>3, <2>1 DEF TimerInv
  <2> QED
    BY <1>2, <1>3, <2>1, <2>2, <2>3 DEF TimerKept, SleepInv
<1>6. CASE list # <<>>
  <2> DEFINE h == list[1]
  <2>1. h \in active /\ h \in Timer /\ Head(list) = h /\ 1 \in DOMAIN list
    <3>1. 1 \in DOMAIN list /\ Head(list) = h
      BY <1>1, <1>4, <1>6
    <3> QED
      BY <1>1, <3>1, InToSet
  <2> HIDE DEF h
  <2>2. CASE due[h] > 0
    <3>1. pc' = "inner" /\ left' = due[h] /\ cursor' = None
      BY <1>2, <1>6, <2>1, <2>2 DEF timer_task_head
    <3>2. due[h] \in Nat \ {0}
      BY <1>1, <2>1, <2>2
    <3>3. ASSUME SleepInv, NEW t \in active \ passed PROVE due[h] <= due[t] + 0
      <4>1. PICK i \in 1 .. Len(list) : list[i] = t
        BY <1>1, <1>4, ToSetIndex
      <4>2. Behind(list, due, passed)
        BY <3>3 DEF SleepInv, InOrder, Timers
      <4>5. due[h] \in Int /\ due[t] \in Int
        BY <1>1, <2>1, <3>3
      <4>3. CASE i = 1
        BY <4>1, <4>3, <4>5 DEF h
      <4>4. CASE i > 1
        <5>1. due[list[1]] <= due[list[i]]
          BY <1>4, <2>1, <3>3, <4>1, <4>2, <4>4 DEF Behind
        <5> QED
          BY <4>1, <4>5, <5>1 DEF h
      <4> QED
        BY <4>1, <4>3, <4>4
    <3>4. SleepInv => Covers'
      BY <1>2, <3>1, <3>2, <3>3 DEF Covers
    <3>5. TimerInv'
      BY <1>2, <1>3, <3>1 DEF TimerInv
    <3> QED
      BY <1>2, <1>3, <3>1, <3>4, <3>5 DEF TimerKept, SleepInv
  <2>3. CASE ~(due[h] > 0)
    <3>1. pc' = "walk" /\ cursor' = h
      BY <1>6, <2>1, <2>3 DEF timer_task_head
    <3>2. TimerInv'
      BY <1>2, <1>3, <2>1, <3>1 DEF TimerInv
    <3>3. SleepInv => \A t \in active : due[t] + 0 <= Longest
      BY <1>1 DEF SleepInv, InOrder, Timers
    <3> QED
      BY <1>2, <1>3, <3>1, <3>2, <3>3 DEF TimerKept, SleepInv
  <2> QED
    BY <2>2, <2>3
<1> QED
  BY <1>5, <1>6

\* A timer that fires once leaves the list; the walk goes on behind it.
LEMMA OnceKept ==
    ASSUME TimerInv, pc = "walk", pc' = pc, cursor # None, timer_expires(cursor),
           ~(Round(cursor) > 0),
           UNCHANGED <<exists, setting, lag, queue, left, cb_msg>>
    PROVE  TimerKept
<1> DEFINE t == cursor
<1>1. /\ exists \in SUBSET Timer /\ active \in SUBSET Timer /\ active \subseteq exists
      /\ setting \in [Timer -> Settings]
      /\ due \in [Timer -> Int] /\ list \in Seq(Timer) /\ passed \in SUBSET Timer
      /\ ToSet(list) = active /\ IsInjective(list)
  BY TimersFacts DEF TimerInv
<1>2. t \in active /\ t \in Timer /\ t \in ToSet(list)
  BY <1>1 DEF TimerInv
<1>3. /\ list' = timer_list_rm(list, t)
      /\ due' = [due EXCEPT ![t] = 0]
      /\ active' = active \ {t}
      /\ passed' = passed \ {t}
      /\ cursor' = Follows(list, t)
  BY DEF timer_expires
<1> HIDE DEF t
<1>4. /\ timer_list_rm(list, t) \in Seq(Timer)
      /\ Holds(timer_list_rm(list, t), ToSet(list) \ {t})
      /\ \A d, pas : Behind(list, d, pas) => Behind(timer_list_rm(list, t), d, pas)
  BY <1>1, TimerRm
<1>5. Follows(list, t) \in (ToSet(list) \ {t}) \cup {None}
  BY <1>1, <1>2, FollowsFacts
<1>6. TimersOK(Timers)'
  <2>1. due' \in [Timer -> Int] /\ active' \in SUBSET Timer /\ list' \in Seq(Timer)
    <3>1. due' \in [Timer -> Int]
      BY <1>1, <1>3, NewTime
    <3> QED
      BY <1>1, <1>3, <1>4, <3>1
  <2>2. Timers' = [exists |-> exists, setting |-> setting, active |-> active',
                   due |-> due', list |-> list', passed |-> passed']
    BY DEF Timers
  <2>4. passed' \in SUBSET Timer
    BY <1>1, <1>3
  <2>3. Timers' \in TimerState
    BY <1>1, <2>1, <2>2, <2>4, TimerRecord
  <2> QED
    BY <1>1, <1>3, <1>4, <2>2, <2>3 DEF TimersOK
<1>7. TimerInv'
  BY <1>1, <1>3, <1>5, <1>6 DEF TimerInv
<1>8. ASSUME SleepInv PROVE SleepInv'
  <2>1. Behind(list, due, passed)
    BY <1>8 DEF SleepInv, InOrder, Timers
  <2>2. \A u \in active' : u \in active /\ due'[u] = due[u]
    BY <1>1, <1>3
  <2>3. Behind(list', due', passed')
    <3>1. t \notin ToSet(list') /\ DOMAIN due = Timer /\ list' \in Seq(Timer)
      BY <1>1, <1>3, <1>4 DEF Holds
    <3>2. Behind(list', due, passed)
      BY <1>3, <1>4, <2>1
    <3> QED
      BY <1>2, <1>3, <3>1, <3>2, BehindElsewhere
  <2>4. \A u \in active : due[u] <= Longest /\ due[u] + lag <= Longest
    BY <1>8 DEF SleepInv, InOrder, Timers
  <2>5. InOrder(Timers)'
    BY <2>2, <2>3, <2>4 DEF InOrder, Timers
  <2> QED
    BY <2>2, <2>4, <2>5 DEF SleepInv
<1> QED
  BY <1>7, <1>8 DEF TimerKept

\* A periodic timer goes to its new place; the walk goes on behind that.
LEMMA PeriodicKept ==
    ASSUME TimerInv, pc = "walk", pc' = pc, cursor # None, timer_expires(cursor),
           Round(cursor) > 0,
           UNCHANGED <<exists, setting, lag, queue, left, cb_msg>>
    PROVE  TimerKept
<1> DEFINE t == cursor
           n == Round(t)
           rest == timer_list_rm(list, t)
           again == timer_list_pri_insert(rest, due, lag, t, n)
<1>1. /\ exists \in SUBSET Timer /\ active \in SUBSET Timer /\ active \subseteq exists
      /\ setting \in [Timer -> Settings]
      /\ due \in [Timer -> Int] /\ list \in Seq(Timer) /\ passed \in SUBSET Timer
      /\ ToSet(list) = active /\ IsInjective(list)
  BY TimersFacts DEF TimerInv
<1>2. t \in active /\ t \in Timer /\ t \in ToSet(list)
  BY <1>1 DEF TimerInv
<1>3. /\ list' = again
      /\ due' = [due EXCEPT ![t] = n - lag]
      /\ passed' = (passed \cup Passed(rest, due, lag, n)) \ {t}
      /\ cursor' = Follows(again, t)
      /\ active' = active
  BY DEF timer_expires
<1> HIDE DEF t
<1>4. n \in 0 .. Longest
  <2>1. setting[t] \in Settings
    BY <1>1, <1>2
  <2> QED
    BY <2>1, SettingFacts DEF Round
<1> HIDE DEF n
<1>5. /\ rest \in Seq(Timer)
      /\ Holds(rest, active \ {t})
      /\ \A d, pas : Behind(list, d, pas) => Behind(rest, d, pas)
  BY <1>1, TimerRm
<1> HIDE DEF rest
<1>6. rest \in Seq(Timer) /\ IsInjective(rest) /\ t \notin ToSet(rest)
      /\ ToSet(rest) \cup {t} = active
  BY <1>2, <1>5 DEF Holds
<1>7. /\ again \in Seq(Timer)
      /\ Holds(again, ToSet(rest) \cup {t})
  BY <1>2, <1>6, PriInsertHolds
<1>8. ASSUME SleepInv PROVE Behind(again, due', passed')
  <2>1. /\ Behind(list, due, passed) /\ lag \in Int
        /\ \A u \in active : due[u] + lag <= Longest
    BY <1>8 DEF SleepInv, InOrder, Timers, TimerInv
  <2>2. Behind(rest, due, passed)
    BY <1>5, <2>1
  <2>3. \A i \in DOMAIN rest : due[rest[i]] + lag <= Longest
    BY <1>6, <2>1, InToSet
  <2>4. Behind(timer_list_pri_insert(rest, due, lag, t, n), [due EXCEPT ![t] = n - lag],
               (passed \cup Passed(rest, due, lag, n)) \ {t})
    BY <1>1, <1>2, <1>4, <1>6, <2>1, <2>2, <2>3, PriInsertBehind
  <2> QED
    BY <1>3, <2>4
<1>13. passed' \in SUBSET Timer
  <2>1. Passed(rest, due, lag, n) \in SUBSET Timer
    BY <1>6, PassedType
  <2> QED
    BY <1>1, <1>3, <2>1
<1> HIDE DEF again
<1>9. Follows(again, t) \in (ToSet(again) \ {t}) \cup {None}
  BY <1>6, <1>7, FollowsFacts DEF Holds
<1>10. TimersOK(Timers)'
  <2>1. due' \in [Timer -> Int]
    <3>1. n - lag \in Int
      BY <1>4, LongestFacts DEF TimerInv
    <3> QED
      BY <1>1, <1>3, <3>1, NewTime
  <2>2. Timers' = [exists |-> exists, setting |-> setting, active |-> active,
                   due |-> due', list |-> again, passed |-> passed']
    BY <1>3 DEF Timers
  <2>3. Timers' \in TimerState
    BY <1>1, <1>7, <1>13, <2>1, <2>2, TimerRecord
  <2> QED
    BY <1>1, <1>6, <1>7, <2>2, <2>3 DEF TimersOK
<1>11. TimerInv'
  BY <1>3, <1>6, <1>7, <1>9, <1>10 DEF TimerInv, Holds
<1>12. ASSUME SleepInv PROVE SleepInv'
  <2>1. lag \in Nat /\ \A u \in active : due[u] \in Int /\ due[u] + lag <= Longest
    BY <1>1, <1>12 DEF SleepInv, TimerInv
  <2>2. \A u \in active : due'[u] = IF u = t THEN n - lag ELSE due[u]
    BY <1>1, <1>3
  <2>3. \A u \in active : due'[u] + lag <= Longest /\ due'[u] <= Longest
    BY <1>4, <2>1, <2>2, LongestFacts
  <2>4. InOrder(Timers)'
    BY <1>3, <1>8, <1>12, <2>3 DEF InOrder, Timers
  <2> QED
    BY <1>3, <2>3, <2>4 DEF SleepInv
<1> QED
  BY <1>11, <1>12 DEF TimerKept

\* One round of the walk, or its end.
LEMMA WalkKept ==
    ASSUME TimerInv, timer_cb_proc
    PROVE  TimerKept
<1>1. /\ pc = "walk"
      /\ UNCHANGED <<exists, setting, lag, queue, left, cb_msg>>
  BY DEF timer_cb_proc
<1>2. CASE cursor # None /\ due[cursor] + lag <= 0
  <2>1. timer_expires(cursor) /\ pc' = pc
    BY <1>2 DEF timer_cb_proc
  <2> QED
    BY <1>1, <1>2, <2>1, OnceKept, PeriodicKept
<1>3. CASE ~(cursor # None /\ due[cursor] + lag <= 0)
  <2>1. pc' = "head" /\ cursor' = None /\ UNCHANGED <<list, due, active, passed>>
    BY <1>3 DEF timer_cb_proc
  <2>2. Timers' = Timers
    BY <1>1, <2>1 DEF Timers
  <2>3. TimersOK(Timers)' /\ (SleepInv => InOrder(Timers)')
    BY <2>2 DEF TimerInv, SleepInv
  <2>4. TimerInv'
    BY <1>1, <2>1, <2>3 DEF TimerInv
  <2> QED
    BY <1>1, <2>1, <2>3, <2>4 DEF TimerKept, SleepInv
<1> QED
  BY <1>2, <1>3

\* A tick: all active timers come closer by one, and so does the end of a wait.
LEMMA TimeKept ==
    ASSUME TimerInv, tick
    PROVE  TimerKept
<1>1. /\ exists \in SUBSET Timer /\ active \in SUBSET Timer /\ active \subseteq exists
      /\ setting \in [Timer -> Settings]
      /\ due \in [Timer -> Int] /\ list \in Seq(Timer) /\ passed \in SUBSET Timer
      /\ ToSet(list) = active /\ IsInjective(list) /\ lag \in Nat
  BY TimersFacts DEF TimerInv
<1>2. /\ due' = [t \in Timer |-> IF t \in active /\ due[t] > - MaxLate
                                 THEN due[t] - 1 ELSE due[t]]
      /\ UNCHANGED <<exists, setting, active, list, queue, cursor, passed>>
      /\ (pc' = pc /\ cb_msg' = cb_msg) \/ (pc = "blocked" /\ pc' = "received" /\ cb_msg' = None)
      /\ lag' \in Nat
  BY <1>1 DEF tick
<1>3. MaxLag \in Nat /\ MaxLate \in Nat /\ MaxLag < MaxLate
  BY TimerAssumption DEF TickModulus
<1>4. \A t \in Timer : /\ due[t] \in Int
                      /\ due'[t] = IF t \in active /\ due[t] > - MaxLate
                                   THEN due[t] - 1 ELSE due[t]
  BY <1>1, <1>2
<1>5. TimersOK(Timers)'
  <2>1. due' \in [Timer -> Int]
    BY <1>2, <1>4
  <2>2. Timers' = [exists |-> exists, setting |-> setting, active |-> active,
                   due |-> due', list |-> list, passed |-> passed]
    BY <1>2 DEF Timers
  <2>3. Timers' \in TimerState
    BY <1>1, <2>1, <2>2, TimerRecord
  <2> QED
    BY <1>1, <2>2, <2>3 DEF TimersOK, Holds
<1>6. TimerInv'
  BY <1>2, <1>5 DEF TimerInv
<1>7. ASSUME SleepInv PROVE SleepInv'
  <2>1. /\ Behind(list, due, passed)
        /\ \A t \in active : due[t] <= Longest
    BY <1>7 DEF SleepInv, InOrder, Timers
  <2>2. \A t \in active : t \in Timer /\ due'[t] <= Longest
    BY <1>1, <1>4, <2>1, LongestFacts
  <2>3. Behind(list, due', passed)
    <3>1. \A i \in DOMAIN list : list[i] \in active /\ list[i] \in Timer
      BY <1>1, InToSet
    <3>2. ASSUME NEW i \in DOMAIN list, NEW j \in DOMAIN list, i < j, list[j] \notin passed
          PROVE  due'[list[i]] <= due'[list[j]]
      <4>1. due[list[i]] <= due[list[j]]
        BY <2>1, <3>2 DEF Behind
      <4> QED
        BY <1>3, <1>4, <3>1, <4>1
    <3> QED
      BY <3>2 DEF Behind
  <2>4. InOrder(Timers)'
    BY <1>2, <2>2, <2>3 DEF InOrder, Timers
  <2>5. pc' = "walk" => \A t \in active : due'[t] + lag' <= Longest
    <3> SUFFICES ASSUME pc' = "walk", NEW t \in active PROVE due'[t] + lag' <= Longest
      OBVIOUS
    <3>1. pc = "walk"
      BY <1>2
    <3>2. lag < MaxLag /\ lag' = lag + 1 /\ due[t] + lag <= Longest /\ t \in Timer
      BY <1>1, <1>7, <3>1 DEF tick, SleepInv
    <3> QED
      BY <1>1, <1>3, <1>4, <3>2, LongestFacts
  <2>6. pc' = "inner" => Covers'
    <3> SUFFICES ASSUME pc' = "inner" PROVE Covers'
      OBVIOUS
    <3>1. pc = "inner" /\ Covers
      BY <1>2, <1>7 DEF SleepInv
    <3>2. lag' = lag + 1 /\ left' = left
      BY <3>1 DEF tick
    <3>3. left \in Nat \ {0} /\ \A t \in active \ passed : t \in Timer /\ left <= due[t] + lag
      BY <1>1, <3>1 DEF Covers
    <3>4. \A t \in active \ passed : left <= due'[t] + (lag + 1)
      BY <1>1, <1>4, <3>3
    <3> QED
      BY <1>2, <3>2, <3>3, <3>4 DEF Covers
  <2>7. pc' = "blocked" => (left' = Forever /\ active' = {}) \/ Covers'
    <3> SUFFICES ASSUME pc' = "blocked" PROVE (left' = Forever /\ active' = {}) \/ Covers'
      OBVIOUS
    <3>1. pc = "blocked" /\ ((left = Forever /\ active = {}) \/ Covers)
      BY <1>2, <1>7 DEF SleepInv
    <3>2. CASE left = Forever /\ active = {}
      BY <1>2, <3>1, <3>2 DEF tick
    <3>3. CASE Covers
      <4>1. left \in Nat \ {0} /\ \A t \in active \ passed : t \in Timer /\ left <= due[t] + lag
        BY <1>1, <3>3 DEF Covers
      <4>2. lag' = lag /\ left' = left - 1 /\ left # 1
        BY <3>1, <4>1 DEF tick, Forever
      <4>3. \A t \in active \ passed : left - 1 <= due'[t] + lag
        BY <1>1, <1>4, <4>1
      <4> QED
        BY <1>2, <4>1, <4>2, <4>3 DEF Covers
    <3> QED
      BY <3>1, <3>2, <3>3
  <2>8. pc' = "outer" => active' = {}
    BY <1>2, <1>7 DEF SleepInv
  <2> QED
    BY <1>2, <2>4, <2>5, <2>6, <2>7, <2>8 DEF SleepInv
<1> QED
  BY <1>6, <1>7 DEF TimerKept

-----------------------------------------------------------------------------
(* The theorems *)

\* No timer exists at the start, and the timer task waits for a command.
LEMMA TimerInitInv ==
    ASSUME TimerInit
    PROVE  TimerInv /\ SleepInv
<1>1. setting \in [Timer -> Settings]
  BY TimerAssumption DEF TimerInit
<1>2. /\ exists = {} /\ active = {} /\ passed = {} /\ list = <<>> /\ queue = <<>> /\ cursor = None
      /\ due = [t \in Timer |-> 0] /\ lag = 0 /\ pc = "outer"
  BY DEF TimerInit
<1>3. due \in [Timer -> Int]
  BY <1>2
<1>4. list \in Seq(Timer) /\ queue \in Seq(Sent) /\ DOMAIN list = {}
  BY <1>2
<1>5. Holds(list, active) /\ Behind(list, due, passed)
  BY <1>2, <1>4 DEF Holds, ToSet, IsInjective, Behind
<1>6. Timers \in TimerState
  BY <1>1, <1>2, <1>3, <1>4, TimerRecord DEF Timers
<1>7. TimersOK(Timers)
  BY <1>2, <1>5, <1>6 DEF TimersOK, Timers
<1>8. InOrder(Timers)
  BY <1>2, <1>5 DEF InOrder, Timers
<1> QED
  BY <1>2, <1>4, <1>7, <1>8 DEF TimerInv, SleepInv

\* Every step keeps the invariants.
LEMMA TimerStep ==
    ASSUME TimerInv, [TimerNext]_timerVars
    PROVE  TimerKept
<1>1. CASE \E t \in Timer : TimerCalls(t)
  BY <1>1, CallsKept
<1>2. CASE timer_task
  BY <1>2, OuterKept, ReceivedKept, HeadKept, InnerKept, WalkKept DEF timer_task
<1>3. CASE tick
  BY <1>3, TimeKept
<1>4. CASE UNCHANGED timerVars
  <2>1. Timers' = Timers
    BY <1>4 DEF timerVars, Timers
  <2>2. TimersOK(Timers)' /\ (SleepInv => InOrder(Timers)')
    BY <2>1 DEF TimerInv, SleepInv
  <2>3. Covers' = Covers
    BY <1>4 DEF timerVars, Covers
  <2>4. TimerInv'
    BY <1>4, <2>2 DEF timerVars, TimerInv
  <2>5. SleepInv => SleepInv'
    BY <1>4, <2>2, <2>3 DEF timerVars, SleepInv
  <2> QED
    BY <2>4, <2>5 DEF TimerKept
<1> QED
  BY <1>1, <1>2, <1>3, <1>4 DEF TimerNext

\* The invariant of the list, however late the timer task is.
THEOREM TimerInvAlways == TimerSpec => []TimerInv
<1>1. TimerInit => TimerInv
  BY TimerInitInv
<1>2. TimerInv /\ [TimerNext]_timerVars => TimerInv'
  BY TimerStep DEF TimerKept
<1> QED
  BY <1>1, <1>2, PTL DEF TimerSpec

\* timer_state and the list agree, whatever commands, expiries and ticks come together:
\* no timer is unlinked that is on no list, none is linked twice, none that was deleted
\* is left on the list, and the walk never goes on from a timer that has left it.
THEOREM TimerListCorrect == TimerSpec => []TimerListOK
<1>1. TimerInv => TimerListOK
  <2> SUFFICES ASSUME TimerInv PROVE TimerListOK
    OBVIOUS
  <2>1. /\ exists \in SUBSET Timer /\ active \in SUBSET Timer /\ active \subseteq exists
        /\ setting \in [Timer -> Settings]
        /\ due \in [Timer -> Int] /\ list \in Seq(Timer)
        /\ ToSet(list) = active /\ IsInjective(list)
    BY TimersFacts DEF TimerInv
  <2>2. DOMAIN list = 1 .. Len(list)
    BY <2>1
  <2>3. \A t \in Timer : t \in active <=> \E i \in 1 .. Len(list) : list[i] = t
    BY <2>1, <2>2, InToSet, ToSetIndex
  <2>4. \A i, j \in 1 .. Len(list) : list[i] = list[j] => i = j
    BY <2>1, <2>2 DEF IsInjective
  <2> QED
    BY <2>1, <2>3, <2>4 DEF TimerListOK, TimerInv
<1> QED
  BY <1>1, TimerInvAlways, PTL

\* Every timer is behind all that are due before it, unless it was passed over, and no delay
\* is longer than the time any other timer had left when it was computed: from the
\* computation of the delay to the end of the wait, however many ticks come between.
THEOREM SleepInvAlways == TimerSpec => [](TimerInv /\ SleepInv)
<1>1. TimerInit => TimerInv /\ SleepInv
  BY TimerInitInv
<1>2. TimerInv /\ SleepInv /\ [TimerNext]_timerVars => (TimerInv /\ SleepInv)'
  BY TimerStep DEF TimerKept
<1> QED
  BY <1>1, <1>2, PTL DEF TimerSpec

\* The timer task never sleeps past a timer that was not passed over, in whatever order
\* timers were started, changed and restarted and however late it is.
THEOREM NeverSleepsTooLong == TimerSpec => []SleepCoversTimers
<1>1. TimerInv /\ SleepInv => SleepCoversTimers
  BY DEF SleepInv, SleepCoversTimers, Covers, Forever
<1> QED
  BY <1>1, SleepInvAlways, PTL

\* The list that is said to be sorted by the remaining time is so but for the timers passed
\* over because one in front of them was overdue.
THEOREM TimersSorted == TimerSpec => []TimersInOrder
<1>1. ASSUME TimerInv, SleepInv PROVE TimersInOrder
  <2>1. list \in Seq(Timer) /\ Behind(list, due, passed)
    BY <1>1, TimersFacts DEF TimerInv, SleepInv, InOrder, Timers
  <2>2. DOMAIN list = 1 .. Len(list)
    BY <2>1
  <2> QED
    BY <2>1, <2>2 DEF TimersInOrder, Behind
<1> QED
  BY <1>1, SleepInvAlways, PTL

=============================================================================
