SPECIFICATION FairSpec
CONSTANTS
    r1 = r1
    r2 = r2
    r3 = r3
    k1 = k1
    h1 = h1
    h2 = h2
    NoKey = NoKey
    Requests = {r1, r2, r3}
    Cancels = {"c1"}
    Key <- MCKey
    InputHash <- MCInputHash
    AttemptIds = {1, 2}
    MaxAttempts <- MCMaxAttempts
    MaxLost = 2
INVARIANTS
    TypeOK
    IdempotentIntake
    RefusedIsSilent
    OutputsOnce
    ClosedWorkflowClosesRow
    TrajectoryKept
PROPERTIES
    TerminalIsFinal
    ImplementsLifecycle
    StartedJobCloses
    CancelEndsWorkflow
CHECK_DEADLOCK FALSE
