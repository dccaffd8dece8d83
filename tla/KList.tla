-------------------------------- MODULE KList --------------------------------
(***************************************************************************)
(* The doubly linked circular lists of the kernel (k_list.h), as sequences *)
(* that begin behind the list head.                                        *)
(***************************************************************************)
EXTENDS Integers, Sequences, SequencesExt

\* Unlinking x from the list it is on.  A node that is on no list is left as it is, as by
\* klist_rm_init; the code calls klist_rm for no such node.
klist_rm(s, x) == IF x \in ToSet(s)
                  THEN RemoveAt(s, CHOOSE i \in DOMAIN s : s[i] = x)
                  ELSE s

\* The first of the positions in later, or the one behind s: where the search for the
\* place of a new element stops.
FirstOf(s, later) ==
    IF later = {} THEN Len(s) + 1 ELSE CHOOSE i \in later : \A j \in later : i <= j

\* x is linked in front of the first element that belongs behind it.
klist_insert(s, later, x) == InsertAt(s, FirstOf(s, later), x)

\* A list holds exactly the elements of S, each once.
Holds(list, S) == ToSet(list) = S /\ IsInjective(list)
=============================================================================
