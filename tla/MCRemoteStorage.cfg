CONSTANTS
    c1 = c1
    c2 = c2
    Calls <- MCCalls
    Kinds = {"read", "write", "move"}
    MaxConnections = 3
    MaxLosses = 2
SPECIFICATION FairSpec
INVARIANTS
    ConnectionIsShared
    RepliesCanBeTrusted
PROPERTIES
    CallsReturn
CHECK_DEADLOCK FALSE
