SPECIFICATION Spec
CONSTANTS
    idle = idle
    t1 = t1
    t2 = t2
    Idle = idle
    Main = t1
    NoObj = NoObj
    SchedRR = FALSE
    SliceDefault = 1
    LockMax = 2
    MaxNest = 1
    SuspendMax = 2
    Ticks = {1, 2}
    Slices = {1}
    NewPri = {0, 1}
    Victims = {t1, t2}
    Suspendable = {t1, t2}
    Abortable = {t1, t2}
    Movable = {t1, t2}
    Task = {idle, t1, t2}
    IdlePri = 2
    InitPri <- MCInitPri2
    Obj = {}
INVARIANTS
    KernelTypeOK
    ReadyListsOK
    HighestPriOK
    TickListOK
    OnlyReadyExecutes
    NoMissedSwitch
    NoFatalError
    SuspendCountOK
PROPERTIES
    LockKeepsCore
