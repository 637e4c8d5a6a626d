SPECIFICATION Spec
CONSTANTS
    TaskIds = {1, 2}
    Keys = {k1, k2}
    Workers = {w1}
    None = None
    Leftovers = {"line"}
    MaxTime = 1
    MaxFaults = 1
INVARIANT OneTaskPerKey
CHECK_DEADLOCK FALSE
