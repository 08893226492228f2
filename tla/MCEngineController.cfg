CONSTANTS
    c1 = c1
    c2 = c2
    c3 = c3
    gemma = gemma
    qwen = qwen
    p1 = p1
    p2 = p2
    NoCall = NoCall
    NoFile = NoFile
    NoProcess = NoProcess
    Calls <- MCCalls
    Files <- MCFiles
    Pids <- MCPids
    MaxPolls = 2
SPECIFICATION FairSpec
INVARIANTS
    EngineIsAccountedFor
    ReportedFileIsServed
    ShutdownLeavesNoEngine
PROPERTIES
    ServingIsNotDisturbed
    CallsReturn
