CONSTANTS
    d1 = d1
    d2 = d2
    d3 = d3
    None = None
    Ctx <- MCCtx
    NWorkers = 2
    MaxSignals = 1
    Autofp = FALSE
    UnixReload = TRUE
    MayStop = TRUE
SPECIFICATION FairSpec
CHECK_DEADLOCK FALSE
INVARIANTS
    UsedContextsAlive
    ThreadContextsLoaded
    NothingLeft
PROPERTY ReloadEnds
