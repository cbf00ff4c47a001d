SPECIFICATION Spec
CONSTANTS
    Harts = {h1, h2}
    QueueSize = 2
    DmaDepth = 1
    Ops = {"wait"}
    MaxCopies = 0
PROPERTY
    WaitReturns
CHECK_DEADLOCK FALSE
