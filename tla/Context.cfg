SPECIFICATION Spec
CONSTANTS
    None = None
    Absent = Absent
    m1 = m1
    m2 = m2
    t1 = t1
    t2 = t2
    Ids = {m1, m2}
    Texts = {x}
    Turns = {t1, t2}
    Clients = {k1}
    Score <- MCScore
    RecallLimit = 1
    MaxSnapshots = 1
    MaxLines = 3
    CallIds = {c1, c2}
    Outputs = {o1, o2}
    MaxGroups = 2
    MaxMessages = 4
    MaxOps = 5
INVARIANTS
    MemoryFrozen
    WritesServed
    ReferencesResolve
    WindowClosed
CHECK_DEADLOCK FALSE
