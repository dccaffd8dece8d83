----------------------------- MODULE EventGroup ------------------------------
(***************************************************************************)
(* What a group of event flags promises, without pend lists, priorities    *)
(* and loops: setting flags wakes, at once, all tasks whose requests the   *)
(* flags then meet, and only after that are the flags cleared that these   *)
(* tasks asked to clear.  RhinoEvent implements it.                        *)
(***************************************************************************)
EXTENDS Integers

CONSTANTS
    Task, Flag,
    Requests,           \* records of flags, all (or any of them) and clear
    Outcomes, Granted   \* how a wait can end

VARIABLES
    flags,      \* the flags that are set
    waiting,    \* the tasks that wait
    request,    \* what each of them asked for
    info,       \* the flags that met the last request of each task
    outcome     \* how the last wait of each task ended

vars == <<flags, waiting, request, info, outcome>>

Init ==
    /\ flags = {}
    /\ waiting = {}
    /\ request \in [Task -> [flags : SUBSET Flag, all : BOOLEAN, clear : BOOLEAN]]
    /\ info = [t \in Task |-> {}]
    /\ outcome \in [Task -> Outcomes]

Met(r, f) == \/ r.all /\ r.flags \subseteq f
             \/ ~r.all /\ \E x \in r.flags : x \in f

\* A request is met at once, ...
Get(t, r) ==
    /\ t \notin waiting
    /\ Met(r, flags)
    /\ info' = [info EXCEPT ![t] = flags]
    /\ flags' = flags \ {x \in r.flags : r.clear}
    /\ UNCHANGED <<waiting, request, outcome>>

\* ... or its task waits.
Wait(t, r) ==
    /\ t \notin waiting
    /\ ~Met(r, flags)
    /\ waiting' = waiting \cup {t}
    /\ request' = [request EXCEPT ![t] = r]
    /\ UNCHANGED <<flags, info, outcome>>

\* Flags are set; the order of the tasks that are woken makes no difference.
Set(f) ==
    LET now   == flags \cup f
        woken == {t \in waiting : Met(request[t], now)} IN
    /\ waiting' = waiting \ woken
    /\ info' = [t \in Task |-> IF t \in woken THEN now ELSE info[t]]
    /\ outcome' = [t \in Task |-> IF t \in woken THEN Granted ELSE outcome[t]]
    /\ flags' = now \ UNION {request[t].flags : t \in {u \in woken : request[u].clear}}
    /\ UNCHANGED request

\* Flags are cleared, which wakes nobody.
Mask(f) ==
    /\ flags' = flags \cap f
    /\ UNCHANGED <<waiting, request, info, outcome>>

\* A wait ends without the flags: timeout, abort, or the task is deleted.
GiveUp(t) ==
    /\ t \in waiting
    /\ waiting' = waiting \ {t}
    /\ \/ \E o \in Outcomes \ {Granted} : outcome' = [outcome EXCEPT ![t] = o]
       \/ UNCHANGED outcome
    /\ UNCHANGED <<flags, request, info>>

\* The group is deleted, which ends every wait ...
Delete ==
    /\ flags' = {}
    /\ waiting' = {}
    /\ \E o \in Outcomes \ {Granted} :
          outcome' = [t \in Task |-> IF t \in waiting THEN o ELSE outcome[t]]
    /\ UNCHANGED <<request, info>>

\* ... or created again.
Create(f) ==
    /\ waiting = {}
    /\ flags' = f
    /\ UNCHANGED <<waiting, request, info, outcome>>

\* Tasks that do not wait here wait for, or are given, something else.
Elsewhere ==
    /\ request' \in [Task -> [flags : SUBSET Flag, all : BOOLEAN, clear : BOOLEAN]]
    /\ info' \in [Task -> SUBSET Flag] /\ outcome' \in [Task -> Outcomes]
    /\ \A t \in waiting : /\ request'[t] = request[t] /\ info'[t] = info[t]
                          /\ outcome'[t] = outcome[t]
    /\ UNCHANGED <<flags, waiting>>

Next ==
    \/ \E t \in Task, r \in Requests : Get(t, r) \/ Wait(t, r)
    \/ \E t \in Task : GiveUp(t)
    \/ \E f \in SUBSET Flag : Set(f) \/ Mask(f) \/ Create(f)
    \/ Delete \/ Elsewhere

Spec == Init /\ [][Next]_vars
=============================================================================
