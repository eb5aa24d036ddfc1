\* One client, a network that loses requests and answers.
CONSTANTS
    None = None
    c1 = c1  c2 = c2  p1 = p1  p2 = p2  r1 = r1  r2 = r2  t1 = t1  t2 = t2
    Clients <- OneClient
    Passwords <- TwoPasswords
    Rands <- TwoRands
    Tokens <- TwoTokens
    MaxRetries = 3
    Reported = TRUE
    MaxLate = 0
SPECIFICATION FairSpec
INVARIANTS
    TypeOK
    CallsCarrySession
    FinalAttemptKept
PROPERTIES
    RightPasswordNotCharged
    CredentialFollowsRouter
    KeepsGuard
    OperationsShorten
    EveryOperationReturns
