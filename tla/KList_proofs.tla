----------------------------- MODULE KList_proofs -----------------------------
(***************************************************************************)
(* What insertions and removals do to a list: to the set of its elements,  *)
(* to their being on it once, and to the order of a sorted list.  The      *)
(* modules about tasks and about timers build on it.                       *)
(***************************************************************************)
EXTENDS KList, SequenceTheorems, WellFoundedInduction, TLAPS

-----------------------------------------------------------------------------
(* Numbers *)

\* A set of numbers that is not empty has a least element.
LEMMA MinExists ==
    ASSUME NEW T \in SUBSET Nat, T # {}
    PROVE  \E m \in T : \A n \in T : m <= n
<1>1. PICK m \in T : \A n \in T : ~(<<n, m>> \in OpToRel(<, Nat))
  BY NatLessThanWellFounded, WFMin
<1>2. ASSUME NEW n \in T PROVE m <= n
  <2>1. <<n, m>> \in Nat \X Nat /\ ~(<<n, m>> \in OpToRel(<, Nat))
    BY <1>1
  <2>2. ~(n < m)
    BY <2>1 DEF OpToRel
  <2> QED
    BY <2>2
<1> QED
  BY <1>2

\* A set that contains 0, and with each number the next one, contains them all: the
\* induction of the lemmas on loops.
LEMMA NatInductive ==
    ASSUME NEW S, 0 \in S, \A n \in Nat : n \in S => n + 1 \in S
    PROVE  Nat \subseteq S
<1> DEFINE T == Nat \ S
<1>1. SUFFICES ASSUME T # {} PROVE FALSE
  OBVIOUS
<1>2. PICK n \in T : \A m \in T : n <= m
  BY <1>1, MinExists
<1>3. n - 1 \in Nat /\ ~(n <= n - 1)
  OBVIOUS
<1>4. n - 1 \in S
  BY <1>2, <1>3
<1> QED
  BY <1>3, <1>4

-----------------------------------------------------------------------------
(* Positions and elements *)

\* InsertAt makes room at position i and moves what follows by one.
LEMMA InsertFacts ==
    ASSUME NEW S, NEW s \in Seq(S), NEW i \in 1 .. Len(s) + 1, NEW x \in S
    PROVE  /\ InsertAt(s, i, x) \in Seq(S)
           /\ Len(InsertAt(s, i, x)) = Len(s) + 1
           /\ \A j \in 1 .. Len(s) + 1 :
                InsertAt(s, i, x)[j] = IF j < i THEN s[j] ELSE IF j = i THEN x ELSE s[j - 1]
<1> DEFINE a == SubSeq(s, 1, i - 1)
           b == SubSeq(s, i, Len(s))
<1>1. /\ a \in Seq(S) /\ Len(a) = i - 1
      /\ \A j \in 1 .. i - 1 : a[j] = s[j]
  BY SubSeqProperties
<1>2. /\ b \in Seq(S) /\ Len(b) = Len(s) - i + 1
      /\ \A j \in 1 .. Len(s) - i + 1 : b[j] = s[i + j - 1]
  BY SubSeqProperties
<1> HIDE DEF a, b
<1>3. /\ a \o <<x>> \in Seq(S) /\ Len(a \o <<x>>) = i
      /\ \A j \in 1 .. i : (a \o <<x>>)[j] = IF j < i THEN s[j] ELSE x
  BY <1>1
<1> DEFINE c == a \o <<x>>
<1> HIDE DEF c
<1>4. /\ c \in Seq(S) /\ Len(c) = i
      /\ \A j \in 1 .. i : c[j] = IF j < i THEN s[j] ELSE x
  BY <1>3 DEF c
<1>5. /\ c \o b \in Seq(S) /\ Len(c \o b) = Len(s) + 1
      /\ \A j \in 1 .. Len(s) + 1 : (c \o b)[j] = IF j <= i THEN c[j] ELSE b[j - i]
  BY <1>2, <1>4, ConcatProperties
<1>6. \A j \in 1 .. Len(s) + 1 :
         (c \o b)[j] = IF j < i THEN s[j] ELSE IF j = i THEN x ELSE s[j - 1]
  BY <1>2, <1>4, <1>5
<1> QED
  BY <1>5, <1>6 DEF InsertAt, a, b, c

\* RemoveAt closes the gap at position i.
LEMMA RemoveFacts ==
    ASSUME NEW S, NEW s \in Seq(S), NEW i \in 1 .. Len(s)
    PROVE  /\ RemoveAt(s, i) \in Seq(S)
           /\ Len(RemoveAt(s, i)) = Len(s) - 1
           /\ \A j \in 1 .. Len(s) - 1 : RemoveAt(s, i)[j] = IF j < i THEN s[j] ELSE s[j + 1]
<1> DEFINE a == SubSeq(s, 1, i - 1)
           b == SubSeq(s, i + 1, Len(s))
<1>1. /\ a \in Seq(S) /\ Len(a) = i - 1
      /\ \A j \in 1 .. i - 1 : a[j] = s[j]
  BY SubSeqProperties
<1>2. /\ b \in Seq(S) /\ Len(b) = Len(s) - i
      /\ \A j \in 1 .. Len(s) - i : b[j] = s[i + j]
  BY SubSeqProperties
<1> HIDE DEF a, b
<1>3. /\ a \o b \in Seq(S) /\ Len(a \o b) = Len(a) + Len(b)
      /\ \A j \in 1 .. Len(a) + Len(b) :
            (a \o b)[j] = IF j <= Len(a) THEN a[j] ELSE b[j - Len(a)]
  <2>1. a \in Seq(S) /\ b \in Seq(S)
    BY <1>1, <1>2
  <2> QED
    BY <2>1, ConcatProperties
<1>4. \A j \in 1 .. Len(s) - 1 : (a \o b)[j] = IF j < i THEN s[j] ELSE s[j + 1]
  BY <1>1, <1>2, <1>3
<1>5. Len(a \o b) = Len(s) - 1
  BY <1>1, <1>2, <1>3
<1> QED
  BY <1>3, <1>4, <1>5 DEF RemoveAt, a, b

\* Every element of a list is in its set of elements.
LEMMA InToSet ==
    ASSUME NEW f, NEW i \in DOMAIN f
    PROVE  f[i] \in ToSet(f)
BY DEF ToSet

\* Whatever is in the set of elements is somewhere on the list.
LEMMA ToSetIndex ==
    ASSUME NEW f, NEW y \in ToSet(f)
    PROVE  \E i \in DOMAIN f : f[i] = y
BY DEF ToSet

(* What the list operations do to the set of elements. *)

\* An element that is not on a list and is inserted anywhere is on it once, with all
\* the others.
LEMMA InsertAtHolds ==
    ASSUME NEW S, NEW s \in Seq(S), IsInjective(s), NEW i \in 1 .. Len(s) + 1,
           NEW x \in S, x \notin ToSet(s)
    PROVE  /\ InsertAt(s, i, x) \in Seq(S)
           /\ Holds(InsertAt(s, i, x), ToSet(s) \cup {x})
<1> DEFINE r == InsertAt(s, i, x)
<1>1. /\ r \in Seq(S) /\ Len(r) = Len(s) + 1 /\ DOMAIN r = 1 .. Len(s) + 1
      /\ \A j \in 1 .. Len(s) + 1 : r[j] = IF j < i THEN s[j] ELSE IF j = i THEN x ELSE s[j - 1]
  BY InsertFacts
<1>2. DOMAIN s = 1 .. Len(s) /\ Len(s) \in Nat
  OBVIOUS
<1> HIDE DEF r
<1>3. ToSet(r) = ToSet(s) \cup {x}
  <2>1. ASSUME NEW y \in ToSet(s) PROVE y \in ToSet(r)
    <3>1. PICK j \in 1 .. Len(s) : s[j] = y
      BY <1>2, ToSetIndex
    <3>2. CASE j < i
      <4>1. j \in DOMAIN r /\ r[j] = y
        BY <1>1, <1>2, <3>1, <3>2
      <4> QED
        BY <4>1, InToSet
    <3>3. CASE j >= i
      <4>1. j + 1 \in DOMAIN r /\ r[j + 1] = y
        BY <1>1, <1>2, <3>1, <3>3
      <4> QED
        BY <4>1, InToSet
    <3> QED
      BY <3>2, <3>3
  <2>2. x \in ToSet(r)
    <3>1. i \in DOMAIN r /\ r[i] = x
      BY <1>1
    <3> QED
      BY <3>1, InToSet
  <2>3. ASSUME NEW y \in ToSet(r) PROVE y \in ToSet(s) \cup {x}
    <3>1. PICK j \in 1 .. Len(s) + 1 : r[j] = y
      BY <1>1, ToSetIndex
    <3>2. CASE j < i
      <4>1. j \in DOMAIN s /\ s[j] = y
        BY <1>1, <1>2, <3>1, <3>2
      <4> QED
        BY <4>1, InToSet
    <3>3. CASE j = i
      BY <1>1, <3>1, <3>3
    <3>4. CASE j > i
      <4>1. j - 1 \in DOMAIN s /\ s[j - 1] = y
        BY <1>1, <1>2, <3>1, <3>4
      <4> QED
        BY <4>1, InToSet
    <3> QED
      BY <3>2, <3>3, <3>4
  <2> QED
    BY <2>1, <2>2, <2>3
<1>4. IsInjective(r)
  <2> SUFFICES ASSUME NEW j \in DOMAIN r, NEW l \in DOMAIN r, r[j] = r[l] PROVE j = l
    BY DEF IsInjective
  <2>1. \A m \in DOMAIN s : s[m] # x
    BY InToSet
  <2>2. \A m, n \in DOMAIN s : s[m] = s[n] => m = n
    BY DEF IsInjective
  <2> DEFINE g(q) == IF q < i THEN q ELSE q - 1
  <2>3. /\ j \in 1 .. Len(s) + 1 /\ l \in 1 .. Len(s) + 1
        /\ i \in 1 .. Len(s) + 1
    BY <1>1
  <2>6. \A q \in 1 .. Len(s) + 1 :
            /\ q = i => r[q] = x
            /\ q # i => g(q) \in DOMAIN s /\ r[q] = s[g(q)]
    BY <1>1, <1>2
  <2>4. CASE j = i \/ l = i
    BY <2>1, <2>3, <2>4, <2>6
  <2>5. CASE j # i /\ l # i
    <3>1. g(j) \in DOMAIN s /\ g(l) \in DOMAIN s /\ s[g(j)] = s[g(l)]
      BY <2>3, <2>5, <2>6
    <3>2. g(j) = g(l)
      BY <2>2, <3>1
    <3> QED
      BY <2>3, <2>5, <3>2
  <2> QED
    BY <2>4, <2>5
<1> QED
  BY <1>1, <1>3, <1>4 DEF Holds, r

\* FirstOf is a position of s or the one behind it.
LEMMA FirstOfRange ==
    ASSUME NEW S, NEW s \in Seq(S), NEW later \in SUBSET DOMAIN s
    PROVE  FirstOf(s, later) \in 1 .. Len(s) + 1
<1>1. DOMAIN s = 1 .. Len(s) /\ Len(s) \in Nat
  OBVIOUS
<1>2. CASE later = {}
  BY <1>1, <1>2 DEF FirstOf
<1>3. CASE later # {}
  <2>1. later \in SUBSET Nat
    BY <1>1
  <2>2. \E i \in later : \A j \in later : i <= j
    BY <1>3, <2>1, MinExists
  <2>3. FirstOf(s, later) \in later
    BY <1>3, <2>2 DEF FirstOf
  <2> QED
    BY <1>1, <2>3
<1> QED
  BY <1>2, <1>3

\* The same for an insertion in front of the first of some positions.
LEMMA KlistInsertHolds ==
    ASSUME NEW S, NEW s \in Seq(S), IsInjective(s), NEW later \in SUBSET DOMAIN s,
           NEW x \in S, x \notin ToSet(s)
    PROVE  /\ klist_insert(s, later, x) \in Seq(S)
           /\ Holds(klist_insert(s, later, x), ToSet(s) \cup {x})
<1>1. FirstOf(s, later) \in 1 .. Len(s) + 1
  BY FirstOfRange
<1> QED
  BY <1>1, InsertAtHolds DEF klist_insert

\* Unlinking an element takes it, and no other, off a list.
LEMMA KlistRmHolds ==
    ASSUME NEW S, NEW s \in Seq(S), IsInjective(s), NEW t
    PROVE  /\ klist_rm(s, t) \in Seq(S)
           /\ Holds(klist_rm(s, t), ToSet(s) \ {t})
<1>1. CASE t \notin ToSet(s)
  BY <1>1 DEF klist_rm, Holds
<1>2. CASE t \in ToSet(s)
  <2> DEFINE i == CHOOSE m \in DOMAIN s : s[m] = t
             r == RemoveAt(s, i)
  <2>1. DOMAIN s = 1 .. Len(s) /\ Len(s) \in Nat
    OBVIOUS
  <2>2. i \in DOMAIN s /\ s[i] = t
    BY <1>2, ToSetIndex
  <2> HIDE DEF i
  <2>3. /\ r \in Seq(S) /\ Len(r) = Len(s) - 1 /\ DOMAIN r = 1 .. Len(s) - 1
        /\ \A j \in 1 .. Len(s) - 1 : r[j] = IF j < i THEN s[j] ELSE s[j + 1]
    <3>1. i \in 1 .. Len(s)
      BY <2>1, <2>2
    <3>2. /\ r \in Seq(S) /\ Len(r) = Len(s) - 1
          /\ \A j \in 1 .. Len(s) - 1 : r[j] = IF j < i THEN s[j] ELSE s[j + 1]
      BY <3>1, RemoveFacts
    <3> HIDE DEF r
    <3>3. DOMAIN r = 1 .. Len(r)
      BY <3>2
    <3> QED
      BY <3>2, <3>3
  <2>4. r = klist_rm(s, t)
    BY <1>2 DEF klist_rm, i
  <2> HIDE DEF r
  <2>5. \A m, n \in DOMAIN s : s[m] = s[n] => m = n
    BY DEF IsInjective
  <2>6. ToSet(r) = ToSet(s) \ {t}
    <3>1. ASSUME NEW y \in ToSet(s), y # t PROVE y \in ToSet(r)
      <4>1. PICK j \in 1 .. Len(s) : s[j] = y
        BY <2>1, ToSetIndex
      <4>2. CASE j < i
        <5>1. j \in DOMAIN r /\ r[j] = y
          BY <2>1, <2>2, <2>3, <4>1, <4>2
        <5> QED
          BY <5>1, InToSet
      <4>3. CASE j > i
        <5>1. j - 1 \in DOMAIN r /\ r[j - 1] = y
          BY <2>1, <2>2, <2>3, <4>1, <4>3
        <5> QED
          BY <5>1, InToSet
      <4> QED
        BY <2>1, <2>2, <3>1, <4>1, <4>2, <4>3
    <3>2. ASSUME NEW y \in ToSet(r) PROVE y \in ToSet(s) /\ y # t
      <4>1. PICK j \in 1 .. Len(s) - 1 : r[j] = y
        BY <2>3, ToSetIndex
      <4> DEFINE m == IF j < i THEN j ELSE j + 1
      <4>2. m \in DOMAIN s /\ s[m] = y /\ m # i
        BY <2>1, <2>2, <2>3, <4>1
      <4> QED
        BY <2>2, <2>5, <4>2, InToSet
    <3> QED
      BY <3>1, <3>2
  <2>7. IsInjective(r)
    <3> SUFFICES ASSUME NEW j \in DOMAIN r, NEW l \in DOMAIN r, r[j] = r[l] PROVE j = l
      BY DEF IsInjective
    <3> DEFINE m == IF j < i THEN j ELSE j + 1
               n == IF l < i THEN l ELSE l + 1
    <3>1. m \in DOMAIN s /\ n \in DOMAIN s /\ s[m] = s[n]
      BY <2>1, <2>2, <2>3
    <3>2. m = n
      BY <2>5, <3>1
    <3> QED
      BY <2>1, <2>2, <2>3, <3>2
  <2> QED
    BY <2>3, <2>4, <2>6, <2>7 DEF Holds
<1> QED
  BY <1>1, <1>2

\* What is left after klist_rm is a list of the same kind.
LEMMA KlistRmType ==
    ASSUME NEW S, NEW s \in Seq(S), NEW t
    PROVE  klist_rm(s, t) \in Seq(S)
<1>1. CASE t \notin ToSet(s)
  BY <1>1 DEF klist_rm
<1>2. CASE t \in ToSet(s)
  <2> DEFINE i == CHOOSE m \in DOMAIN s : s[m] = t
  <2>1. i \in DOMAIN s
    BY <1>2, ToSetIndex
  <2> HIDE DEF i
  <2>2. i \in 1 .. Len(s)
    BY <2>1
  <2>3. RemoveAt(s, i) \in Seq(S)
    BY <2>2, RemoveFacts
  <2> QED
    BY <1>2, <2>3 DEF klist_rm, i
<1> QED
  BY <1>1, <1>2

\* What comes of an insertion is one, too.
LEMMA KlistInsertType ==
    ASSUME NEW S, NEW s \in Seq(S), NEW later \in SUBSET DOMAIN s, NEW x \in S
    PROVE  klist_insert(s, later, x) \in Seq(S)
<1>1. FirstOf(s, later) \in 1 .. Len(s) + 1
  BY FirstOfRange
<1> QED
  BY <1>1, InsertFacts DEF klist_insert

\* An element that joins at the tail is on the list once, with all the others.
LEMMA AppendHolds ==
    ASSUME NEW S, NEW s \in Seq(S), IsInjective(s), NEW x \in S, x \notin ToSet(s)
    PROVE  /\ Append(s, x) \in Seq(S)
           /\ Append(s, x) # <<>>
           /\ Holds(Append(s, x), ToSet(s) \cup {x})
<1> DEFINE n == Len(s) + 1
<1>1. n = Len(s) + 1
  OBVIOUS
<1>5. n \in 1 .. Len(s) + 1
  OBVIOUS
<1> HIDE DEF n
<1>2. InsertAt(s, n, x) = Append(s, x)
  <2> DEFINE r == InsertAt(s, n, x)
  <2>1. /\ r \in Seq(S) /\ Len(r) = Len(s) + 1
        /\ \A j \in 1 .. Len(s) + 1 : r[j] = IF j < n THEN s[j] ELSE IF j = n THEN x ELSE s[j - 1]
    BY <1>5, InsertFacts
  <2> HIDE DEF r
  <2>3. \A j \in 1 .. Len(s) + 1 : r[j] = IF j < Len(s) + 1 THEN s[j] ELSE x
    BY <1>1, <2>1
  <2>2. r = Append(s, x)
    BY <2>1, <2>3
  <2> QED
    BY <2>2 DEF r
<1>3. Append(s, x) # <<>>
  BY AppendProperties
<1>4. /\ InsertAt(s, n, x) \in Seq(S)
      /\ Holds(InsertAt(s, n, x), ToSet(s) \cup {x})
  BY <1>5, InsertAtHolds
<1> QED
  BY <1>2, <1>3, <1>4

\* The same for one that joins at the head.
LEMMA ConsHolds ==
    ASSUME NEW S, NEW s \in Seq(S), IsInjective(s), NEW x \in S, x \notin ToSet(s)
    PROVE  /\ Cons(x, s) \in Seq(S)
           /\ Cons(x, s) # <<>>
           /\ Holds(Cons(x, s), ToSet(s) \cup {x})
<1>1. InsertAt(s, 1, x) = Cons(x, s)
  <2> DEFINE r == InsertAt(s, 1, x)
  <2>1. /\ r \in Seq(S) /\ Len(r) = Len(s) + 1
        /\ \A j \in 1 .. Len(s) + 1 : r[j] = IF j < 1 THEN s[j] ELSE IF j = 1 THEN x ELSE s[j - 1]
    BY InsertFacts
  <2> HIDE DEF r
  <2>2. r = Cons(x, s)
    BY <2>1 DEF Cons
  <2> QED
    BY <2>2 DEF r
<1>2. 1 \in 1 .. Len(s) + 1
  OBVIOUS
<1>3. Cons(x, s) # <<>>
  BY DEF Cons
<1> QED
  BY <1>1, <1>2, <1>3, InsertAtHolds

\* Moving the current pointer on by one loses and adds nobody.
LEMMA RotateHolds ==
    ASSUME NEW S, NEW s \in Seq(S), IsInjective(s), s # <<>>
    PROVE  /\ Append(Tail(s), Head(s)) \in Seq(S)
           /\ Append(Tail(s), Head(s)) # <<>>
           /\ Holds(Append(Tail(s), Head(s)), ToSet(s))
<1> DEFINE r == Append(Tail(s), Head(s))
<1>1. DOMAIN s = 1 .. Len(s) /\ Len(s) \in Nat \ {0}
  OBVIOUS
<1>2. /\ r \in Seq(S) /\ Len(r) = Len(s) /\ DOMAIN r = 1 .. Len(s)
      /\ \A j \in 1 .. Len(s) : r[j] = IF j < Len(s) THEN s[j + 1] ELSE s[1]
  OBVIOUS
<1> HIDE DEF r
<1>3. ToSet(r) = ToSet(s)
  <2>1. ASSUME NEW y \in ToSet(s) PROVE y \in ToSet(r)
    <3>1. PICK j \in 1 .. Len(s) : s[j] = y
      BY <1>1, ToSetIndex
    <3>2. CASE j = 1
      <4>1. Len(s) \in DOMAIN r /\ r[Len(s)] = y
        BY <1>1, <1>2, <3>1, <3>2
      <4> QED
        BY <4>1, InToSet
    <3>3. CASE j > 1
      <4>1. j - 1 \in DOMAIN r /\ r[j - 1] = y
        BY <1>1, <1>2, <3>1, <3>3
      <4> QED
        BY <4>1, InToSet
    <3> QED
      BY <1>1, <3>2, <3>3
  <2>2. ASSUME NEW y \in ToSet(r) PROVE y \in ToSet(s)
    <3>1. PICK j \in 1 .. Len(s) : r[j] = y
      BY <1>2, ToSetIndex
    <3> DEFINE m == IF j < Len(s) THEN j + 1 ELSE 1
    <3>2. m \in DOMAIN s /\ s[m] = y
      BY <1>1, <1>2, <3>1
    <3> QED
      BY <3>2, InToSet
  <2> QED
    BY <2>1, <2>2
<1>4. IsInjective(r)
  <2> SUFFICES ASSUME NEW j \in DOMAIN r, NEW l \in DOMAIN r, r[j] = r[l] PROVE j = l
    BY DEF IsInjective
  <2>1. \A m, n \in DOMAIN s : s[m] = s[n] => m = n
    BY DEF IsInjective
  <2> DEFINE m == IF j < Len(s) THEN j + 1 ELSE 1
             n == IF l < Len(s) THEN l + 1 ELSE 1
  <2>2. m \in DOMAIN s /\ n \in DOMAIN s /\ s[m] = s[n]
    BY <1>1, <1>2
  <2>3. m = n
    BY <2>1, <2>2
  <2> QED
    BY <1>1, <1>2, <2>3
<1> QED
  BY <1>1, <1>2, <1>3, <1>4 DEF Holds, r

-----------------------------------------------------------------------------
(* Sorted lists *)

\* s is in the order of key, a function from the elements of s to numbers.
Ordered(s, key) == \A i, j \in DOMAIN s : i < j => key[s[i]] <= key[s[j]]

\* The same, t left aside.
OrderedBut(s, key, t) ==
    \A i, j \in DOMAIN s : i < j /\ s[i] # t /\ s[j] # t => key[s[i]] <= key[s[j]]

\* Whatever becomes of t's key, the others stay in order.
LEMMA OrderedOthers ==
    ASSUME NEW S, NEW s \in Seq(S), NEW key1, NEW key2, NEW t, Ordered(s, key1),
           \A u \in S \ {t} : key2[u] = key1[u]
    PROVE  OrderedBut(s, key2, t)
<1>1. \A i \in DOMAIN s : s[i] \in S
  OBVIOUS
<1> QED
  BY <1>1 DEF Ordered, OrderedBut

\* Unlinking t leaves a list in order, if the others are.
LEMMA KlistRmOrdered ==
    ASSUME NEW S, NEW s \in Seq(S), IsInjective(s), NEW t, NEW key, OrderedBut(s, key, t)
    PROVE  Ordered(klist_rm(s, t), key)
<1>0. DOMAIN s = 1 .. Len(s) /\ Len(s) \in Nat
  OBVIOUS
<1>1. CASE t \notin ToSet(s)
  <2>1. \A i \in DOMAIN s : s[i] # t
    BY <1>1, InToSet
  <2> QED
    BY <1>1, <2>1 DEF klist_rm, Ordered, OrderedBut
<1>2. CASE t \in ToSet(s)
  <2> DEFINE i == CHOOSE m \in DOMAIN s : s[m] = t
             r == RemoveAt(s, i)
  <2>1. i \in DOMAIN s /\ s[i] = t
    BY <1>2, ToSetIndex
  <2>2. r = klist_rm(s, t)
    BY <1>2 DEF klist_rm
  <2> HIDE DEF i
  <2>3. /\ Len(r) = Len(s) - 1 /\ r \in Seq(S)
        /\ \A j \in 1 .. Len(s) - 1 : r[j] = IF j < i THEN s[j] ELSE s[j + 1]
    BY <1>0, <2>1, RemoveFacts
  <2> HIDE DEF r
  <2>4. DOMAIN r = 1 .. Len(s) - 1
    BY <2>3
  <2> DEFINE g(q) == IF q < i THEN q ELSE q + 1
  <2>5. \A m, n \in DOMAIN s : s[m] = s[n] => m = n
    BY DEF IsInjective
  <2>6. \A q \in DOMAIN r : g(q) \in DOMAIN s /\ r[q] = s[g(q)] /\ s[g(q)] # t
    <3> TAKE q \in DOMAIN r
    <3>1. g(q) \in DOMAIN s /\ r[q] = s[g(q)] /\ g(q) # i
      BY <1>0, <2>1, <2>3, <2>4
    <3> QED
      BY <2>1, <2>5, <3>1
  <2>7. ASSUME NEW p \in DOMAIN r, NEW q \in DOMAIN r, p < q
        PROVE  key[r[p]] <= key[r[q]]
    <3>1. g(p) < g(q)
      BY <1>0, <2>1, <2>4, <2>7
    <3> HIDE DEF g
    <3> QED
      BY <2>6, <3>1 DEF OrderedBut
  <2> QED
    BY <2>2, <2>7 DEF Ordered
<1> QED
  BY <1>1, <1>2

\* The place of a sorted insertion: before the first element with a greater key.
Place(s, key, n) == FirstOf(s, {i \in DOMAIN s : key[s[i]] > n})

\* What is before the place is not greater, what is behind it is.
LEMMA PlaceFacts ==
    ASSUME NEW S, NEW s \in Seq(S), NEW key \in [S -> Int], NEW n \in Int, Ordered(s, key)
    PROVE  /\ Place(s, key, n) \in 1 .. Len(s) + 1
           /\ \A j \in DOMAIN s : j < Place(s, key, n) => key[s[j]] <= n
           /\ \A j \in DOMAIN s : j >= Place(s, key, n) => n < key[s[j]]
<1> DEFINE later == {i \in DOMAIN s : key[s[i]] > n}
           p == Place(s, key, n)
<1>1. DOMAIN s = 1 .. Len(s) /\ Len(s) \in Nat
  OBVIOUS
<1>2. \A j \in DOMAIN s : s[j] \in S /\ key[s[j]] \in Int
  OBVIOUS
<1>3. CASE later = {}
  <2>1. p = Len(s) + 1
    BY <1>3 DEF Place, FirstOf
  <2> HIDE DEF p
  <2> QED
    BY <1>1, <1>2, <1>3, <2>1 DEF p
<1>4. CASE later # {}
  <2>1. later \in SUBSET Nat
    BY <1>1
  <2>2. \E i \in later : \A j \in later : i <= j
    BY <1>4, <2>1, MinExists
  <2>3. p \in later /\ \A j \in later : p <= j
    BY <1>4, <2>2 DEF Place, FirstOf
  <2> HIDE DEF p
  <2>4. p \in DOMAIN s /\ key[s[p]] > n
    BY <2>3
  <2>5. \A j \in DOMAIN s : j < p => key[s[j]] <= n
    <3> TAKE j \in DOMAIN s
    <3> HAVE j < p
    <3>1. j \notin later
      BY <1>1, <2>3, <2>4
    <3> QED
      BY <1>2, <3>1
  <2>6. \A j \in DOMAIN s : j >= p => n < key[s[j]]
    <3> TAKE j \in DOMAIN s
    <3> HAVE j >= p
    <3>1. CASE j = p
      BY <1>2, <2>4, <3>1
    <3>2. CASE j # p
      <4>1. p < j
        BY <1>1, <2>4, <3>2
      <4>2. key[s[p]] <= key[s[j]]
        BY <2>4, <4>1 DEF Ordered
      <4> QED
        BY <1>2, <2>4, <4>2
    <3> QED
      BY <3>1, <3>2
  <2>7. p \in 1 .. Len(s) + 1
    BY <1>1, <2>4
  <2> QED
    BY <2>5, <2>6, <2>7 DEF p
<1> QED
  BY <1>3, <1>4

\* A sorted insertion keeps the order.
LEMMA InsertOrdered ==
    ASSUME NEW S, NEW s \in Seq(S), NEW key \in [S -> Int], Ordered(s, key),
           NEW x \in S, NEW p, p = Place(s, key, key[x])
    PROVE  Ordered(InsertAt(s, p, x), key)
<1> DEFINE r == InsertAt(s, p, x)
           n == key[x]
<1>0. n \in Int
  OBVIOUS
<1> HIDE DEF n
<1>1. /\ p \in 1 .. Len(s) + 1
      /\ \A j \in DOMAIN s : j < p => key[s[j]] <= n
      /\ \A j \in DOMAIN s : j >= p => n < key[s[j]]
  <2>1. /\ Place(s, key, n) \in 1 .. Len(s) + 1
        /\ \A j \in DOMAIN s : j < Place(s, key, n) => key[s[j]] <= n
        /\ \A j \in DOMAIN s : j >= Place(s, key, n) => n < key[s[j]]
    BY <1>0, PlaceFacts
  <2> QED
    BY <2>1 DEF n
<1>2. /\ r \in Seq(S) /\ Len(r) = Len(s) + 1
      /\ \A j \in 1 .. Len(s) + 1 : r[j] = IF j < p THEN s[j] ELSE IF j = p THEN x ELSE s[j - 1]
  BY <1>1, InsertFacts
<1> HIDE DEF r
<1>3. DOMAIN r = 1 .. Len(s) + 1 /\ DOMAIN s = 1 .. Len(s) /\ Len(s) \in Nat
  BY <1>2
<1>4. \A j \in DOMAIN s : key[s[j]] \in Int
  OBVIOUS
<1> SUFFICES ASSUME NEW i \in DOMAIN r, NEW j \in DOMAIN r, i < j
             PROVE  key[r[i]] <= key[r[j]]
  BY DEF Ordered, r
<1>5. CASE j < p
  <2>1. i \in DOMAIN s /\ j \in DOMAIN s /\ r[i] = s[i] /\ r[j] = s[j]
    BY <1>1, <1>2, <1>3, <1>5
  <2> QED
    BY <2>1 DEF Ordered
<1>6. CASE j = p
  <2>1. i \in DOMAIN s /\ i < p /\ r[i] = s[i] /\ r[j] = x
    BY <1>1, <1>2, <1>3, <1>6
  <2> QED
    BY <1>1, <2>1 DEF n
<1>7. CASE j > p
  <2>1. j - 1 \in DOMAIN s /\ j - 1 >= p /\ r[j] = s[j - 1]
    BY <1>1, <1>2, <1>3, <1>7
  <2>2. CASE i < p
    <3>1. i \in DOMAIN s /\ i < j - 1 /\ r[i] = s[i]
      BY <1>1, <1>2, <1>3, <1>7, <2>2
    <3> QED
      BY <2>1, <3>1 DEF Ordered
  <2>3. CASE i = p
    <3>1. r[i] = x /\ n < key[s[j - 1]]
      BY <1>1, <1>2, <1>3, <2>1, <2>3
    <3> QED
      BY <1>0, <1>4, <2>1, <3>1 DEF n
  <2>4. CASE i > p
    <3>1. i - 1 \in DOMAIN s /\ i - 1 < j - 1 /\ r[i] = s[i - 1]
      BY <1>1, <1>2, <1>3, <2>4
    <3> QED
      BY <2>1, <3>1 DEF Ordered
  <2> QED
    BY <1>1, <1>3, <2>2, <2>3, <2>4
<1> QED
  BY <1>1, <1>3, <1>5, <1>6, <1>7
=============================================================================
