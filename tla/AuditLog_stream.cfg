SPECIFICATION Spec
CONSTANTS
    Connections = {"a", "b"}
    ReplaySize = 2
    QueueSize = 2
    MaxEnvelopes = 3
    MaxDecisions = 2
    MaxRestarts = 1
    MaxFailures = 1
INVARIANTS
    ATypeOK
    RowsFollowLog
PROPERTIES
    VerdictsKept
    StreamsInOrder
    CaughtUp
