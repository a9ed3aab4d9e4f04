\* Chat turns whose worker may be lost at any step.
SPECIFICATION AgentsSpec
CONSTANTS
    None = None
    LandingReserve = 1
    Backstop = 2
    RepairStep <- MCRepair
    SurveyStep <- MCSurvey
    FloorStep <- MCFloor
    MaxRedispatch = 1
    NodeTries = 2
    Scenarios = {}
    ChatScenarios <- MCTurns
    ContextTries = 3
    ToolTries = 3
    ScanLimit = 7
    ListLimit = 1
    RecentActivity = 2
    StaleAfter = 5
INVARIANTS
    TailCarried
