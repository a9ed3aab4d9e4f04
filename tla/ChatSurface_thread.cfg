SPECIFICATION FairSpec
CONSTANTS
    p1 = p1
    p2 = p2
    p3 = p3
    c1 = c1
    c2 = c2
    d1 = d1
    d2 = d2
    d3 = d3
    w1 = w1
    None = None
    Posts = {p1, p2, p3}
    Confirmations = {c1, c2}
    Decisions = {d1, d2, d3}
    Streams = {w1}
    Suggestions = {"s1", "s2"}
    Clicks = {"k1"}
    Scans = {"x1", "x2"}
    Callers <- MCCallers
    MaxEvents = 1
    RecentKeep = 2
    MaxReplay = 4
    Scenarios <- MCScenarios
INVARIANTS
    DecidedOnce
    WaitingIsCurrent
    AcceptedIsArchived
PROPERTIES
    ReplayIsComplete
    StreamCatchesUp
CHECK_DEADLOCK FALSE
