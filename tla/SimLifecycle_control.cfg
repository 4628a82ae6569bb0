SPECIFICATION LiveSpec
CONSTANTS
    Loops = {l1, l2, l3}
    Calls = {c1, c2}
    NoLoop = NoLoop
    Speeds = {2}
    InitialSpeed = 1
    MaxReal = 2
    l1 = l1
    l2 = l2
    l3 = l3
    c1 = c1
    c2 = c2
INVARIANTS
    LTypeOK
    RunningHasLoop
PROPERTIES
    ImplementsClock
    StopsTicking
    KeepsTicking
    CallsReturn
