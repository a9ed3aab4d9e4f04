\* The thread workflow continues as new with the next turn already signalled.
SPECIFICATION Spec
CONSTANTS
    r1 = r1  r2 = r2  r3 = r3  r4 = r4  k1 = k1  k2 = k2  h1 = h1  h2 = h2  c1 = c1
    Requests = {r1, r3}
    Key <- MCKey
    InputHash <- MCInputHash
    Created <- MCCreated
    NoExec = NoExec
    Cancels = {}
    AttemptIds <- MCAttempts
    MaxRounds = 2
    MaxChildren = 1
    Scenes <- MCContinue
INVARIANTS
    IdleMeansDrained
CHECK_DEADLOCK FALSE
