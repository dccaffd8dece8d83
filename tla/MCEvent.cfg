SPECIFICATION EventSpec
CONSTANTS
    idle = idle
    t1 = t1
    t2 = t2
    Idle = idle
    Main = t1
    NoObj = NoObj
    SchedRR = FALSE
    SliceDefault = 1
    LockMax = 1
    MaxNest = 1
    SuspendMax = 1
    Ticks = {1}
    Slices = {1}
    NewPri = {}
    Victims = {t2}
    Suspendable = {}
    Abortable = {}
    Movable = {}
    Task = {idle, t1, t2}
    IdlePri = 2
    InitPri <- MCInitPri2
    t3 = t3
    fa = fa
    fb = fb
    Flag = {fa, fb}
    Requests <- MCRequests2
    FlagSets = {{}, {fa}, {fa, fb}}
    Deletable = {event}
    Obj = {event}
INVARIANTS
    NoWaiterBesideFlags
PROPERTIES
    ImplementsEventGroup
