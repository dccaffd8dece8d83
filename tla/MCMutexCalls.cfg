SPECIFICATION MutexSpec
CONSTANTS
    idle = idle
    t1 = t1
    t2 = t2
    Idle = idle
    Main = t1
    NoObj = NoObj
    SchedRR = FALSE
    SliceDefault = 1
    LockMax = 1
    MaxNest = 1
    SuspendMax = 1
    Ticks = {1}
    Slices = {1}
    NewPri = {0, 1}
    Victims = {t1, t2}
    Suspendable = {}
    Abortable = {t2}
    Movable = {t1, t2}
    Task = {idle, t1, t2}
    IdlePri = 2
    InitPri <- MCInitPri2
    t3 = t3
    ma = ma
    mb = mb
    NoTask = NoTask
    MaxDepth = 2
    Removable = {ma}
    DelTwice = FALSE
    NestTooDeep = TRUE
    Obj = {ma}
INVARIANTS
    MutexListsOK
    WaitersHaveOwner
    PriorityInherited
PROPERTIES
    OnlyOwnerReleases
