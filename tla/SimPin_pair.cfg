\* Two clients; commands may be served late.
SPECIFICATION Spec
CONSTANTS
    c1 = c1
    c2 = c2
    Clients <- TwoClients
    Full <- SmallBudgets
    MaxCalls = 2
    Lossy = TRUE
    Late = TRUE
SYMMETRY Symmetry
INVARIANT FinalAttemptContested
PROPERTY KeepsGuard
CHECK_DEADLOCK FALSE
