CONSTANTS
    c1 = c1
    c2 = c2
    j1 = j1
    j2 = j2
    None = None
    Callers <- TwoCallers
    Jobs <- TwoJobs
    Ops <- WaitAndKill
    Codes <- AllCodes
SYMMETRY Symmetry
SPECIFICATION Spec
INVARIANTS
    WaitHonest
CHECK_DEADLOCK FALSE
