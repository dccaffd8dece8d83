----------------------------- MODULE Semaphore -------------------------------
(***************************************************************************)
(* What a counting semaphore promises, without queues, priorities, or the  *)
(* loops of an implementation: units that can be taken, tasks that wait,   *)
(* and the outcome a task's last wait had.  RhinoSem implements it.        *)
(***************************************************************************)
EXTENDS Integers

CONSTANTS Task, Limit, Outcomes, Granted

VARIABLES units, waiting, outcome

vars == <<units, waiting, outcome>>

TypeOK == /\ units \in 0 .. Limit
          /\ waiting \subseteq Task
          /\ outcome \in [Task -> Outcomes]

Init == units = 0 /\ waiting = {} /\ outcome \in [Task -> Outcomes]

\* A unit is taken, only when there is one.
Take == /\ units > 0
        /\ units' = units - 1
        /\ UNCHANGED <<waiting, outcome>>

\* A task waits, only when there is no unit.
Wait(t) == /\ units = 0
           /\ t \notin waiting
           /\ waiting' = waiting \cup {t}
           /\ UNCHANGED <<units, outcome>>

\* A unit that is given is kept when nobody waits ...
Give == /\ waiting = {}
        /\ units < Limit
        /\ units' = units + 1
        /\ UNCHANGED <<waiting, outcome>>

\* ... and goes to one of the waiting tasks otherwise.
Grant(t) == /\ t \in waiting
            /\ waiting' = waiting \ {t}
            /\ outcome' = [outcome EXCEPT ![t] = Granted]
            /\ UNCHANGED units

\* A wait ends without a unit: timeout, abort, deletion of the semaphore, or the
\* task is deleted and its outcome stays what it was.
GiveUp(t) == /\ t \in waiting
             /\ waiting' = waiting \ {t}
             /\ \/ \E o \in Outcomes \ {Granted} : outcome' = [outcome EXCEPT ![t] = o]
                \/ UNCHANGED outcome
             /\ UNCHANGED units

\* The number of units is set, which must not leave units beside a waiting task.
Reset(n) == /\ waiting = {}
            /\ units' = n
            /\ UNCHANGED <<waiting, outcome>>

\* A task that does not wait here waits for something else.
Elsewhere(t) == /\ t \notin waiting
                /\ \E o \in Outcomes : outcome' = [outcome EXCEPT ![t] = o]
                /\ UNCHANGED <<units, waiting>>

Next == \/ Take
        \/ Give
        \/ \E t \in Task : Wait(t) \/ Grant(t) \/ GiveUp(t) \/ Elsewhere(t)
        \/ \E n \in 0 .. Limit : Reset(n)

Spec == Init /\ [][Next]_vars
=============================================================================
