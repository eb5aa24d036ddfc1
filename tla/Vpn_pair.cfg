\* Two clients whose operations interleave.
SPECIFICATION Spec
CONSTANTS
    c1 = c1
    c2 = c2
    a = a
    b = b
    i1 = i1
    i2 = i2
    Clients <- TwoClients
    Indices <- TwoIndices
    Public <- PublicOfTwo
    MaxCalls = 2
    Lossy = TRUE
    MaxLate = 1
    None = None
SYMMETRY Alike
INVARIANTS
    OwnProfileReturned
    ReturnedHolds
CHECK_DEADLOCK FALSE
