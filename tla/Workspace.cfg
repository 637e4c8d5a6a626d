SPECIFICATION Spec
CONSTANTS
    None = None
    Batch = 2
    Maximum = 1
    PipeSize = 1
    MaxCalls = 2
    MaxEdits = 1
INVARIANTS
    NoStaleSignal
    GroupGone
    OutputHonest
    NothingUnseenReplaced
    KnownFailureIsClean
CHECK_DEADLOCK FALSE
PROPERTIES
    CommandEnds
