SPECIFICATION Spec
CONSTANTS
    TaskIds = {1, 2}
    Keys = {k1, k2}
    Workers = {w1, w2}
    None = None
    Leftovers = {"nothing", "line", "record", "part"}
    MaxTime = 2
    MaxFaults = 1
INVARIANT ClaimedOnce
INVARIANT OutcomeOnce
INVARIANT LeaseFenced
INVARIANT ReplayIsMemory
SYMMETRY Symmetry
VIEW View
CHECK_DEADLOCK FALSE
