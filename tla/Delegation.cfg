SPECIFICATION ChainSpec
CONSTANTS
    Tools = {read, shell}
    MaxDepth = 3
INVARIANTS
    NoEscalation
CHECK_DEADLOCK FALSE
