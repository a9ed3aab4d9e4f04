SPECIFICATION Spec
CONSTANTS
    None = None
    a1 = a1
    a2 = a2
    r1 = r1
    r2 = r2
    t1 = t1
    d1 = d1
    d2 = d2
    RecipeIds = {r1, r2}
    TaskIds = {t1}
    Outcomes = {"completed"}
    Bodies = {"a"}
    Jobs = {1, 2}
    Drainers = {d1}
    Scenarios <- MCScenarios
    MaxReports = 2
    MaxRequests = 4
    MaxOpen = 2
    MaxRev = 2
    BatchSize = 2
    SessionsDrop = TRUE
INVARIANTS
    TypeOK
    StaleIsPending
    InjectedOnce
    OneSetPerJob
PROPERTIES
    DecidedNeverDrops
    IndexConverges
CHECK_DEADLOCK FALSE
