SPECIFICATION BurstSpec
CONSTANTS
    Trains <- RuleTrains
    Platforms <- RulePlatforms
    Options <- RuleOptions
    Conflicts <- RuleConflicts
    Resources <- RulePlatforms
    ResourceOf <- RuleResourceOf
    Priority <- RulePriority
    Home <- RuleHome
    Arrives <- RuleArrives
    Departs <- RuleDeparts
    NoConflict = NoConflict
    NoOption = NoOption
    NoRecord = NoRecord
    Headway = 1
    Boarding = 3
    Dwell = 4
    Threshold = 1
    DelaySteps = {2, 5}
    BlockLength = 4
    Window = 1
    AgentLLM = FALSE
    MaxScenarios = 2
    MaxFlows = 4
    MaxRequests = 2
    MaxDecisions = 6
    MaxTime = 1
INVARIANTS
    NeverReproposed
PROPERTIES
    PremiumKeepsPlatform
