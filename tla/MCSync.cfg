SPECIFICATION MCSpec
CONSTANTS
    Harts = {h1, h2, h3, h4}
    IterMax = 1
    MaxCalls = 4
    Lockers = {l1, l2, l3, l4, l5}
    Cores = {c1, c2, c3, c4, c5, c6}
    Levels = {1, 2}
    Compute = {k1, k2}
    AllClusters = {a, b}
    AllCompute = {m1, m2}
    Values = {0, 1}
INVARIANTS
    NobodyLeavesEarly
    SpinTestIsExact
    OneReleaser
    LockIsExact
    ArrivalIsStall
    PairIsComplete
    SendersAreComplete
    ReturnsTheSum
PROPERTIES
    ImplementsBarrier
    Granted
    HwImplementsBarrier
    TreeReturns
