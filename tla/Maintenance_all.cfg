\* All operations, one after another, at a router and a network that may fail at any time.
CONSTANTS
    None = None
    p1 = p1  p2 = p2
    Passwords <- TwoPasswords
    ResetPassword <- p2
    Chunks = 2
    Slack = 1
    MaxTime = 3
    Kinds <- AllKinds
    Attempts = 2
    MaxCalls = 2
    Lossy = TRUE
SPECIFICATION FairSpec
INVARIANTS
    TypeOK
    MistakenOnlyWhenFresh
    AbortedUploadHarmless
    CredentialFollowsAction
    ToldWrongOnce
PROPERTY EveryOperationReturns
CHECK_DEADLOCK FALSE
