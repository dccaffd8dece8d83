SPECIFICATION FairSpec
CONSTANTS
    idle = idle
    t1 = t1
    t2 = t2
    Idle = idle
    Main = t1
    NoObj = NoObj
    SchedRR = TRUE
    SliceDefault = 2
    LockMax = 1
    MaxNest = 1
    SuspendMax = 1
    Ticks = {1}
    Slices = {1}
    NewPri = {0}
    Victims = {}
    Suspendable = {t2}
    Abortable = {}
    Movable = {t1}
    Task = {idle, t1, t2}
    IdlePri = 2
    InitPri <- MCInitPri2
    Obj = {}
PROPERTIES
    SleepEnds
    PreferredRuns
    RoundRobinShares
