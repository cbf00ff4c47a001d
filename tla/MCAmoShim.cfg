SPECIFICATION MCSpec
CONSTANTS
    W = 1
    AluWidth = 4
    Cores = {c0, c1}
    CoreZero = c0
    Remotes = {}
    Addrs = {x, y}
    Halves = {0, 1}
    CoreOps = {"load", "store", "amo", "lr", "sc"}
    ShimAmos = {"swap", "add"}
    WideOps = {"load", "store"}
    ExtOps = {"store"}
INVARIANTS
    Coherent
    ReadsAreAtomic
    ScIsProtected
    AluMatchesReference
SYMMETRY Symmetry
CHECK_DEADLOCK FALSE
