\* One restore, at a router that fails only by rebooting.
CONSTANTS
    None = None
    p1 = p1  p2 = p2
    Passwords <- TwoPasswords
    ResetPassword <- p2
    Chunks = 2
    Slack = 1
    MaxTime = 4
    Kinds <- Restore
    Attempts = 3
    MaxCalls = 1
    Lossy = FALSE
SPECIFICATION Spec
INVARIANT ReturnedMeansBooted
CHECK_DEADLOCK FALSE
