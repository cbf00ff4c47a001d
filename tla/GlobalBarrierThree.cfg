SPECIFICATION MCSpec
CONSTANTS
    C = 4
    K = 1
    Width = 2
    Comms <- MCComms
    size <- SizeThree
    Program <- SubProgram
    Builds = {FALSE}
PROPERTY
    CallsReturn
CHECK_DEADLOCK FALSE
