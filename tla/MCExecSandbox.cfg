CONSTANTS
    c1 = c1
    c2 = c2
    Calls <- MCCalls
    Lives = 2
SPECIFICATION FairSpec
INVARIANTS
    SandboxIsBacked
PROPERTIES
    CleanStopLeavesNothing
    TimedOutCommandsAreGone
    ToolCallsReturn
CHECK_DEADLOCK FALSE
