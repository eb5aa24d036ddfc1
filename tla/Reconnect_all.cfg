\* Two operations of a client with or without a password; anything may fail.
SPECIFICATION FairSpec
CONSTANTS
    Attempts = 2
    MaxCalls = 2
    MaxLate = 1
    Lossy = TRUE
    None = None
INVARIANT ReturnedHolds
PROPERTY EveryOperationReturns
\* A bounded number of operations: the system may stop.
CHECK_DEADLOCK FALSE
