CONSTANTS
    a1 = a1
    a2 = a2
    Approvals <- MCApprovals
    MaxHandshakeFailures = 2
    MaxTasks = 3
    MaxSockets = 4
    MaxFrames = 3
SPECIFICATION Spec
INVARIANT AnswersMatch
CHECK_DEADLOCK FALSE
