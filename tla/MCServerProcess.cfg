CONSTANTS
    u1 = u1
    u2 = u2
    u3 = u3
    fs = fs
    git = git
    UploadIds <- MCUploadIds
    Sizes = {1, 2}
    MaxFileBytes = 2
    MaxFiles = 2
    MaxTotalBytes = 3
    Servers <- MCServers
    Misnamed <- MCMisnamed
    Registration <- MCRegistration
    MayRaise = {"flaky"}
    Moody = {"llm-serving"}
    MaxBoots = 2
SPECIFICATION FairSpec
INVARIANTS
    ModulesRestOnTheirDependencies
    StoreIsSound
    ShutdownClosesServers
PROPERTIES
    ProcessSettles
CHECK_DEADLOCK FALSE
