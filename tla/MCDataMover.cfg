SPECIFICATION MCSpec
CONSTANTS
    Harts = {h1, h2}
    QueueSize = 2
    DmaDepth = 1
    Ops = {"memcpy", "start", "wait", "wait_ready", "exit"}
    MaxCopies = 4
    Lone = h1
    RacingCopies = 1
INVARIANTS
    InOrder
    WaitMeansComplete
    NoLostWakeup
PROPERTY
    LoneWaitReturns
CHECK_DEADLOCK FALSE
