SPECIFICATION ServerSpec
CONSTANTS
    None = None
    shell = shell
    Tools = {shell}
    Args = {arg1}
    Registered = {shell}
    PolicyConfig <- MCPolicy
    ParentConfig <- MCParent
    Threads = {th1}
    Turns = {t1, t2}
    Recoveries = {r1}
    Calls = {c1}
    Rejecting = {"before_model"}
    MaxIterations = 1
    MaxCalls = 1
    MaxFaults = 1
INVARIANTS
    StatusTruthful
    TranscriptClosed
CHECK_DEADLOCK FALSE
PROPERTIES
    StatusSettles
    CancelHonoured
