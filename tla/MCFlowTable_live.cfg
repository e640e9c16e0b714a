CONSTANTS
    w1 = w1
    w2 = w2
    f1 = f1
    f2 = f2
    tcp1 = tcp1
    udp1 = udp1
    r1 = r1
    r2 = r2
    None = None
    Worker <- MCWorker
    Manager = manager
    Recycler = recycler
    Unix = unix
    Flow <- MCOneFlow
    Key <- MCKey
    TcpKey <- MCTcpKey
    Row <- MCRow2
    hash <- MCHash2
SPECIFICATION FairSpec
PROPERTIES
    EndedFlowsFinish
    PacketsGetThrough
