SPECIFICATION MutexSpec
SYMMETRY MutexSymmetry
CONSTANTS
    idle = idle
    t1 = t1
    t2 = t2
    t3 = t3
    Idle = idle
    Main = t1
    NoObj = NoObj
    SchedRR = FALSE
    SliceDefault = 1
    LockMax = 1
    MaxNest = 1
    SuspendMax = 1
    Ticks = {1}
    Slices = {1}
    NewPri = {}
    Victims = {t1}
    Suspendable = {}
    Abortable = {}
    Movable = {}
    Task = {idle, t1, t2, t3}
    IdlePri = 3
    InitPri <- MCInitPri3
    ma = ma
    mb = mb
    NoTask = NoTask
    MaxDepth = 1
    Removable = {}
    DelTwice = FALSE
    NestTooDeep = FALSE
    Obj = {ma, mb}
INVARIANTS
    PriorityInherited
    PendListsSorted
    LockSucceeds
    NoFatalError
PROPERTIES
    HandsToMostUrgent
