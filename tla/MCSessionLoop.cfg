CONSTANTS
    i1 = i1
    i2 = i2
    i3 = i3
    read = read
    del = del
    wipe = wipe
    alice = alice
    bob = bob
    fRead = fRead
    fDel = fDel
    fWipe = fWipe
    worker = worker
    s1 = s1
    s2 = s2
    NoFingerprint = NoFingerprint
    NoRecord = NoRecord
    NoDeadline = NoDeadline
    NoAction = NoAction
    NoId = NoId
    Principals <- MCPrincipals
    Approvers <- AliceApproves
    Runners <- MCPrincipals
    Fingerprint <- MCFingerprint
    Tools <- MCTools
    ToolOf <- MCToolOf
    Verdict <- MCVerdict
    PrincipalOf <- MCPrincipalOf
    Actions <- AllActions
    Ids <- TwoIds
    Sessions <- OneSession
    MaxSteps = 2
    MaxToolCalls = 2
    MaxBatch = 2
    Deadline = 2
    Timeout = 1
    DecisionTimeout = 2
SPECIFICATION FairSpec
INVARIANTS
    BudgetsBind
PROPERTIES
    RunsEnd
    RegistryDrains
