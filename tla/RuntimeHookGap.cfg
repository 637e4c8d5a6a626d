SPECIFICATION Spec
CONSTANTS
    None = None
    read = read
    shell = shell
    wipe = wipe
    gone = gone
    arg1 = arg1
    arg2 = arg2
    Tools = {read}
    Args = {arg1}
    Registered = {read}
    PolicyConfig <- MCPolicy
    ParentConfig <- MCParent
    Threads = {th1}
    Turns = {t1}
    Recoveries = {}
    Calls = {c1, c2}
    Rejecting = {"after_tool"}
    MaxIterations = 1
    MaxCalls = 2
    MaxFaults = 0
INVARIANTS
    TurnsEndClosed
CHECK_DEADLOCK FALSE
