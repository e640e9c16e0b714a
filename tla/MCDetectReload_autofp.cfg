CONSTANTS
    d1 = d1
    d2 = d2
    d3 = d3
    None = None
    Ctx <- MCCtx
    NWorkers = 2
    MaxSignals = 1
    Autofp = TRUE
    UnixReload = TRUE
    MayStop = TRUE
SPECIFICATION FairSpec
CHECK_DEADLOCK FALSE
PROPERTY ReloadEnds
