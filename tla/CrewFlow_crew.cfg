SPECIFICATION CBurstSpec
CONSTANTS
    Trains <- MCTrains
    Crews <- MCCrews
    Options <- MCOptions
    Conflicts <- MCConflicts
    Resources <- MCCrews
    ResourceOf <- MCResourceOf
    FirstCrew <- MCFirstCrew
    DutyLimit <- MCDutyLimit
    DutyHours = 9
    EndOfRun <- MCEndOfRun
    Leaves <- MCLeaves
    NoConflict = NoConflict
    NoOption = NoOption
    NoRecord = NoRecord
    Threshold = 1
    DelaySteps = {2}
    Window = 1
    MaxScenarios = 2
    MaxFlows = 6
    MaxRequests = 2
    MaxDecisions = 8
    MaxTime = 1
INVARIANTS
    CTypeOK
    NoDoubleDuty
    BreachesSettled
    SwapsAnnounced
PROPERTIES
    SwapsTakeSpares
