\* The connect is never sent, yet the operation waits for the connection.
SPECIFICATION FairSpec
CONSTANTS
    Attempts = 1
    MaxCalls = 1
    MaxLate = 0
    Lossy = TRUE
    None = None
INVARIANT ReconnectAsked
CHECK_DEADLOCK FALSE
