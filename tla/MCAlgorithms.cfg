SPECIFICATION AlgorithmsSpec
CONSTANTS
    evil = evil
    wiki = wiki
    pub = pub
    priv = priv
    Odd = Odd
    Unset = Unset
    NoLink = NoLink
    NoToken = NoToken
    Kinds <- MCKinds
    Samples <- MCSamples
    Pieces <- MCPieces
    Scopes <- MCScopes
    Ceiling = 3
    Hosts <- MCHosts
    AllowedHosts <- MCAllowedHosts
    Addresses <- MCAddresses
    PublicAddresses <- MCPublicAddresses
    TopN = 2
    MaxRedirects = 1
    ResultCount = 3
    Segments <- MCSegments
    LinkAt <- MCLinkAt
    MaxLinks = 3
    Complete <- MCComplete
    Cap = 1
    Capacity = 1
    Writes = 5
INVARIANTS
    WebAnswersAreSound
    OutputIsAccountedFor
    EveryToolIsGated
    EverySetupIsSound
    EveryModelCallIsFaithful
    EveryDocumentIsAccountedFor
    EveryRequestIsAdmittedAlike
CHECK_DEADLOCK FALSE
