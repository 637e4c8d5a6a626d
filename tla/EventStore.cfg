SPECIFICATION Spec
CONSTANTS
    Data = {d1, d2}
    MaxRecords = 3
    MaxFaults = 3
INVARIANTS
    NeverCorrupt
    TornIsArchived
PROPERTIES
    KeepsPromise
CHECK_DEADLOCK FALSE
