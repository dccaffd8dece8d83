SPECIFICATION QueueSpec
CONSTANTS
    idle = idle
    t1 = t1
    t2 = t2
    t3 = t3
    Idle = idle
    Main = t1
    NoObj = NoObj
    SchedRR = FALSE
    SliceDefault = 1
    LockMax = 1
    MaxNest = 1
    SuspendMax = 1
    Ticks = {1}
    Slices = {1}
    NewPri = {}
    Victims = {t2}
    Suspendable = {}
    Abortable = {t2}
    Movable = {}
    Task = {idle, t1, t2}
    IdlePri = 2
    InitPri <- MCInitPri2
    Obj = {queue}
    Msg = {m1, m2}
    NoMsg = NoMsg
    Size = 2
    Deletable = {queue}
SYMMETRY Symmetry
INVARIANTS
    NoReceiverBesideMessage
PROPERTIES
    ImplementsMessageQueue
