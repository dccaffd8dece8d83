SPECIFICATION SemSpec
CONSTANTS
    idle = idle
    t1 = t1
    t2 = t2
    t3 = t3
    Idle = idle
    Main = t1
    NoObj = NoObj
    SchedRR = FALSE
    SliceDefault = 1
    LockMax = 1
    MaxNest = 1
    SuspendMax = 1
    Ticks = {1}
    Slices = {1}
    NewPri = {0}
    Victims = {t2}
    Suspendable = {}
    Abortable = {}
    Movable = {t1}
    Task = {idle, t1, t2, t3}
    IdlePri = 3
    InitPri <- MCInitPri3
    SemMax = 1
    SemCounts = {0, 1}
    Deletable = {sem}
    Obj = {sem}
INVARIANTS
    PendListsOK
    NoWaiterBesideUnit
PROPERTIES
    ImplementsSemaphore
    GrantsMostUrgent
