SPECIFICATION Spec
CONSTANTS
    c1 = c1
    o1 = o1
    o2 = o2
    o3 = o3
    p1 = p1
    p2 = p2
    NoConflict = NoConflict
    NoOption = NoOption
    NoRecord = NoRecord
    Conflicts = {c1}
    Options = {o1}
    Resources = {p1}
    ResourceOf <- MCResourceOf
    Window = 1
    MaxDecisions = 2
    MaxFlows = 1
    MaxRequests = 1
    MaxTime = 1
INVARIANTS
    OperatorVetoHolds
