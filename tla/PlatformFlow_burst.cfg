SPECIFICATION BurstSpec
CONSTANTS
    PlatformCount = 3
    Trains <- MCTrains
    Platforms <- MCPlatforms
    Options <- MCOptions
    Conflicts <- MCConflicts
    Resources <- MCPlatforms
    ResourceOf <- MCResourceOf
    Priority <- MCPriority
    Home <- MCHome
    Arrives <- MCArrives
    Departs <- MCDeparts
    NoConflict = NoConflict
    NoOption = NoOption
    NoRecord = NoRecord
    Headway = 1
    Boarding = 3
    Dwell = 4
    Threshold = 1
    DelaySteps = {5}
    BlockLength = 4
    Window = 1
    AgentLLM = TRUE
    MaxScenarios = 2
    MaxFlows = 3
    MaxRequests = 1
    MaxDecisions = 4
    MaxTime = 1
INVARIANTS
    PTypeOK
    ConflictsSettled
    DelaysTakenUp
PROPERTIES
    MovesAreFeasible
