------------------------------ MODULE ByteFifo -------------------------------
(***************************************************************************)
(* What a ring buffer promises: messages come out whole, in the order in   *)
(* which they were put in, and one is refused only when there is no room   *)
(* for it.  RhinoRingBuf implements it.                                    *)
(***************************************************************************)
EXTENDS Integers, Sequences

CONSTANTS
    Messages,
    Buffers,
    Room(_),    \* what all messages together may take in a buffer
    Cost(_, _)  \* what a message takes in a buffer

VARIABLES
    buffer,     \* the one of Buffers that this is
    content,    \* the messages in it
    last        \* the outcome of the last call: what it returned and the message it gave

Nothing == <<>>

Init == buffer \in Buffers /\ content = <<>> /\ last = <<"ok", Nothing>>

Taken ==
    LET upTo[i \in 0 .. Len(content)] ==
            IF i = 0 THEN 0 ELSE upTo[i - 1] + Cost(buffer, content[i])
    IN upTo[Len(content)]

Push(m) ==
    IF Taken + Cost(buffer, m) <= Room(buffer)
    THEN content' = Append(content, m) /\ last' = <<"ok", Nothing>>
    ELSE UNCHANGED content /\ last' = <<"full", Nothing>>

Pop ==
    IF content = <<>>
    THEN UNCHANGED content /\ last' = <<"empty", Nothing>>
    ELSE content' = Tail(content) /\ last' = <<"ok", Head(content)>>

Reset == content' = <<>> /\ last' = <<"ok", Nothing>>

Next == UNCHANGED buffer /\ ((\E m \in Messages : Push(m)) \/ Pop \/ Reset)

Spec == Init /\ [][Next]_<<buffer, content, last>>
=============================================================================
