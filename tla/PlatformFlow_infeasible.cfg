SPECIFICATION BurstSpec
CONSTANTS
    PlatformCount = 2
    Trains <- MCTrains
    Platforms <- MCPlatforms
    Options <- MCOptions
    Conflicts <- MCConflicts
    Resources <- MCPlatforms
    ResourceOf <- MCResourceOf
    Priority <- MCPriority
    Home <- MCHome
    Arrives <- MCArrives
    Departs <- MCDeparts
    NoConflict = NoConflict
    NoOption = NoOption
    NoRecord = NoRecord
    Headway = 1
    Boarding = 3
    Dwell = 4
    Threshold = 1
    DelaySteps = {5}
    BlockLength = 4
    Window = 1
    AgentLLM = TRUE
    MaxScenarios = 2
    MaxFlows = 2
    MaxRequests = 0
    MaxDecisions = 2
    MaxTime = 1
PROPERTIES
    InfeasibleImpossible
