SPECIFICATION Spec
CONSTANTS
    N = 4
    MaxRegions = 3
    MaxUpper = 7
    MaxChunk = 3
    Argcs = {0, 1, 2, 3, 4, 5, 6, 7, 12}
INVARIANTS
    ExactlyOnce
    EventIsStable
    NoSpuriousWake
    NobodyIsForgotten
    EveryIterationOnce
    OneLastIteration
PROPERTIES
    CallsReturn
    ImplementsForkJoin
CHECK_DEADLOCK FALSE
