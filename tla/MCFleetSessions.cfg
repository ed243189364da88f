CONSTANTS
    c1 = c1
    c2 = c2
    j1 = j1
    j2 = j2
    None = None
    Callers <- TwoCallers
    Jobs <- OneJob
    Ops <- AllOps
    Codes <- OkOrFail
SPECIFICATION FairSpec
INVARIANTS
    TypeOK
    NoFabricatedSuccess
    SoleRecordTrue
    DispatchErrorReal
PROPERTIES
    RunSettles
CHECK_DEADLOCK FALSE
