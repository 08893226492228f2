CONSTANTS
    i1 = i1
    i2 = i2
    read = read
    del = del
    send = send
    wipe = wipe
    odd = odd
    alice = alice
    bob = bob
    fRead = fRead
    fDel = fDel
    fSend = fSend
    fWipe = fWipe
    reader = reader
    writer = writer
    NoFingerprint = NoFingerprint
    NoRecord = NoRecord
    Ids <- MCIds
    Actions <- MCActions
    Principals <- MCPrincipals
    Approvers <- MCApprovers
    Fingerprint <- MCFingerprint
    Tools <- MCTools
    ToolOf <- MCToolOf
    Verdict <- MCVerdict
    Timeout = 1
SPECIFICATION DispatchSpec
INVARIANTS
    ApprovalsAreSound
    RunsAreGated
PROPERTIES
    ApprovalsOnlyAdvance
    ImplementsGatedExecution
