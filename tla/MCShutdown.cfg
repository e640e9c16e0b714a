CONSTANTS
    c = c
    w1 = w1
    x1 = x1
    x2 = x2
    f1 = f1
    f2 = f2
    None = None
    Thread <- MCThread
    Receive <- MCReceive
    FlowWorkers <- MCWorkers
    Setups <- MCSetups
    Flow <- MCFlow
    Tcp <- MCTcp
    Needs <- MCTcp
    MaxLive = 1
    MaxWork = 1
SPECIFICATION FairSpec
INVARIANTS
    NoFlowLost
    NoMorePackets
    LiveBeforeForced
    DoneThreadsEmpty
PROPERTY ShutdownEnds
