\* A cancel of a streaming turn, with no fault at all.
SPECIFICATION Spec
CONSTANTS
    r1 = r1  r2 = r2  r3 = r3  r4 = r4  k1 = k1  k2 = k2  h1 = h1  h2 = h2  c1 = c1
    Requests = {r1}
    Key <- MCKey
    InputHash <- MCInputHash
    Created <- MCCreated
    NoExec = NoExec
    Cancels = {c1}
    AttemptIds <- MCAttempts
    MaxRounds = 2
    MaxChildren = 2
    Scenes <- MCPartial
INVARIANTS
    CanceledAnswerKept
CHECK_DEADLOCK FALSE
