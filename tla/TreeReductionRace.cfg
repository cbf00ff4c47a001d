SPECIFICATION Spec
CONSTANTS
    Levels = {2}
    Compute = {k1}
INVARIANT
    ResultIsComplete
CHECK_DEADLOCK FALSE
