\* Two clients that use the same router, and one request served late.
CONSTANTS
    None = None
    c1 = c1  c2 = c2  p1 = p1  p2 = p2  r1 = r1  r2 = r2  t1 = t1  t2 = t2
    Clients <- TwoClients
    Passwords <- TwoPasswords
    Rands <- OneRand
    Tokens <- OneToken
    MaxRetries = 2
    Reported = TRUE
    MaxLate = 1
SPECIFICATION Spec
SYMMETRY Symmetric
INVARIANT AttemptsCovered
