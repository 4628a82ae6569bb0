SPECIFICATION Spec
CONSTANTS
    Order <- MCOrder
    Priority <- MCPriority
    Route <- MCRoute
    Stations = {"CNB", "PRYJ", "DDU"}
    Platforms = {1, 2}
    Headway = 1
    Boarding = 2
    Dwell = 2
    Threshold = 2
    Start = 2
    TickSizes = {1, 2}
    DelaySteps = {2}
    BlockLength = 2
    MaxScenarios = 2
    Calm = 8
    MaxTime = 23
INVARIANTS
    TwinTypeOK
    CrossingsOrdered
    RemainingIsAhead
    BaselineExclusive
    NobodyWaitsForever
    ClientsAgree
PROPERTIES
    PastIsKept
