CONSTANTS
    d1 = d1
    d2 = d2
    d3 = d3
    None = None
    Ctx <- MCCtx
    NWorkers = 1
    MaxSignals = 1
    Autofp = FALSE
    UnixReload = TRUE
    MayStop = FALSE
SPECIFICATION FairSpec
CHECK_DEADLOCK FALSE
PROPERTY RequestAnswered
