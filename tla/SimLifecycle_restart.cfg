SPECIFICATION Spec
CONSTANTS
    Loops = {l1, l2}
    Calls = {c1, c2}
    NoLoop = NoLoop
    Speeds = {1, 2}
    InitialSpeed = 1
    MaxReal = 3
    l1 = l1
    l2 = l2
    c1 = c1
    c2 = c2
INVARIANTS
    ResetRestartsClock
