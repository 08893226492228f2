CONSTANTS
    a1 = a1
    a2 = a2
    Approvals <- MCApprovals
    MaxHandshakeFailures = 2
    MaxTasks = 3
    MaxSockets = 4
    MaxFrames = 3
SPECIFICATION FairSpec
INVARIANTS
    OneDecisionOneAnswer
    NeverStuck
PROPERTIES
    PromptsSettle
CHECK_DEADLOCK FALSE
