---------------------------- MODULE MessageQueue -----------------------------
(***************************************************************************)
(* What a message queue promises, without rings, counters, pend lists and  *)
(* loops: messages are received in the order in which they were sent, each *)
(* by one receiver, and a task that waits is handed the next message that  *)
(* is sent, which nothing takes away from it.  RhinoQueue implements it.   *)
(***************************************************************************)
EXTENDS Integers, Sequences

CONSTANTS
    Task, Msg, NoMsg,
    Room,               \* how many messages can be kept
    Outcomes, Granted   \* how a wait can end

VARIABLES
    content,    \* the messages that are kept
    out,        \* the last message that was received without waiting
    waiting,    \* the tasks that wait
    inbox,      \* the message each task was handed
    outcome     \* how the last wait of each task ended

vars == <<content, out, waiting, inbox, outcome>>

Init ==
    /\ content = <<>> /\ out = NoMsg
    /\ waiting = {}
    /\ inbox = [t \in Task |-> NoMsg]
    /\ outcome \in [Task -> Outcomes]

\* A message is kept when nobody waits ...
Send(m) ==
    /\ waiting = {} /\ Len(content) < Room
    /\ content' = Append(content, m)
    /\ UNCHANGED <<out, waiting, inbox, outcome>>

\* ... and handed to tasks that wait, to one or to all of them.
Hand(S, m) ==
    /\ waiting' = waiting \ S
    /\ inbox' = [t \in Task |-> IF t \in S THEN m ELSE inbox[t]]
    /\ outcome' = [t \in Task |-> IF t \in S THEN Granted ELSE outcome[t]]
    /\ UNCHANGED <<content, out>>

SendOne(m) == \E t \in waiting : Hand({t}, m)
SendAll(m) == Hand(waiting, m)

Receive ==
    /\ content # <<>>
    /\ out' = Head(content)
    /\ content' = Tail(content)
    /\ UNCHANGED <<waiting, inbox, outcome>>

\* A task waits, only when there is no message.
Wait(t) ==
    /\ content = <<>> /\ t \notin waiting
    /\ waiting' = waiting \cup {t}
    /\ UNCHANGED <<content, out, inbox, outcome>>

\* A wait ends without a message: timeout, abort, or the task is deleted.
GiveUp(t) ==
    /\ t \in waiting
    /\ waiting' = waiting \ {t}
    /\ \/ \E o \in Outcomes \ {Granted} : outcome' = [outcome EXCEPT ![t] = o]
       \/ UNCHANGED outcome
    /\ UNCHANGED <<content, out, inbox>>

\* All messages are dropped, with the queue, which ends every wait, or without it.
Flush == content' = <<>> /\ UNCHANGED <<out, waiting, inbox, outcome>>

Delete ==
    /\ content' = <<>>
    /\ waiting' = {}
    /\ \E o \in Outcomes \ {Granted} :
          outcome' = [t \in Task |-> IF t \in waiting THEN o ELSE outcome[t]]
    /\ UNCHANGED <<out, inbox>>

\* Tasks that do not wait here wait for, or receive from, something else.
Elsewhere ==
    /\ inbox' \in [Task -> Msg \cup {NoMsg}] /\ outcome' \in [Task -> Outcomes]
    /\ \A t \in waiting : inbox'[t] = inbox[t] /\ outcome'[t] = outcome[t]
    /\ out' \in Msg \cup {NoMsg}
    /\ UNCHANGED <<content, waiting>>

Next ==
    \/ \E m \in Msg : Send(m) \/ SendOne(m) \/ SendAll(m)
    \/ \E t \in Task : Wait(t) \/ GiveUp(t)
    \/ Receive \/ Flush \/ Delete \/ Elsewhere

Spec == Init /\ [][Next]_vars
=============================================================================
