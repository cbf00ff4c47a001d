SPECIFICATION MCSpec
CONSTANTS
    C = 4
    K = 1
    Width = 2
    Comms <- MCComms
    size <- SizeTwo
    Program <- SubProgram
    Builds = {TRUE, FALSE}
INVARIANTS
    Synchronized
    InterruptIsOwn
    NobodyIsForgotten
PROPERTIES
    CallsReturn
    ImplementsBarrier
CHECK_DEADLOCK FALSE
