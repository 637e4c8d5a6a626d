SPECIFICATION Spec
CONSTANTS
    Turns = {t1, t2, t3}
    Criteria = {"c1", "c2"}
    Artifact <- MCArtifact
    Expected <- MCExpected
    Snapshots <- MCSnapshots
    MaxAttempts = 2
    None = None
    MaxFaults = 3
INVARIANT BudgetKept
INVARIANT SuccessIsEarned
INVARIANT VerdictFinal
INVARIANT LinesStayValid
CHECK_DEADLOCK FALSE
