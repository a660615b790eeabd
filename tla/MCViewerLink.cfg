SPECIFICATION FairSpec
CONSTANTS
    HeaderSize = 2
    PayloadSize = 1
    MaxSent = 2
    MaxFrames = 2
    MaxConnections = 2
INVARIANTS
    ClientLosesAtMostOne
    AgentLosesOnlyBehindSplit
    VerifiedIsAuthenticated
    NothingBeforeGrant

    
