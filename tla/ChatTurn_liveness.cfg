\* Two turns of one thread, one cancel and one loss, which no retry makes good,
\* under fairness.
SPECIFICATION FairSpec
CONSTANTS
    r1 = r1  r2 = r2  r3 = r3  r4 = r4  k1 = k1  k2 = k2  h1 = h1  h2 = h2  c1 = c1
    Requests = {r1, r3}
    Key <- MCKey
    InputHash <- MCInputHash
    Created <- MCCreated
    NoExec = NoExec
    Cancels = {c1}
    AttemptIds <- MCOneAttempt
    MaxRounds = 2
    MaxChildren = 3
    Scenes <- MCLiveness
PROPERTIES
    StartedTurnEnds
    AcceptedTurnStarts
CHECK_DEADLOCK FALSE
