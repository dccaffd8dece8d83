\* An immediate and a delayed work, and two of everything else.
CONSTANTS
    w1 = w1 w2 = w2 q1 = q1 q2 = q2 c1 = c1 c2 = c2
    Work = {w1, w2}
    Delayed = {w2}
    Queue = {q1, q2}
    Caller = {c1, c2}
    MsgNum = 1
    None = None
SPECIFICATION FairSpec
INVARIANTS UnitPerWork WorksQueuedOnce
PROPERTIES QueuedWorkRuns
