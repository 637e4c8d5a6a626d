SPECIFICATION Spec
CONSTANTS
    None = None
    read = read
    shell = shell
    wipe = wipe
    gone = gone
    arg1 = arg1
    arg2 = arg2
    Tools = {read, shell, wipe, gone}
    Args = {arg1, arg2}
    Registered = {read, shell, wipe}
    PolicyConfig <- MCPolicy
    ParentConfig <- MCParent
    Threads = {th1}
    Turns = {t1}
    Recoveries = {r1}
    Calls = {c1, c2}
    Rejecting = {"before_tool", "after_tool"}
    MaxIterations = 2
    MaxCalls = 2
    MaxFaults = 1
INVARIANTS
    ReceiptsTruthful
    WriteAhead
    Authorised
    NoReplay
    GuardExact
    TranscriptIsReplay
CHECK_DEADLOCK FALSE
