SPECIFICATION Spec
CONSTANTS
    Others = {o1}
    None = None
    DraftLimit = 3
    CharBytes = 2
    MaxTurns = 2
    MaxIterations = 2
    MaxBytes <- MCMaxBytes
INVARIANT FailureToldOnce
INVARIANT DraftIsHonest
PROPERTY InformedApproval
PROPERTY CancelAndQuitEnd
CHECK_DEADLOCK FALSE
