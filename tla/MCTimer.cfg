\* Two timers, and ticks at any time.
CONSTANTS
    t1 = t1 t2 = t2
    Timer = {t1, t2}
    Settings <- TwoSettings
    MsgNum = 1
    MaxLag = 1
    MaxLate = 2
    None = None
SPECIFICATION TimerFairSpec
INVARIANTS TimerListOK SleepCoversTimers TimersInOrder
PROPERTIES DueTimerExpires CommandsCarriedOut
