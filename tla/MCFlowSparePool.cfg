CONSTANTS
    w1 = w1
    w2 = w2
    Worker <- MCWorker
    Recycler = recycler
    Manager = manager
    BlockSize = 2
    ShrinkDiv = 1
    Prealloc = 3
    MemcapValues <- MCMemcapValues
    MaxBlocks = 3
SPECIFICATION Spec
SYMMETRY MCSymmetry
INVARIANTS
    TypeOK
    PoolValid
    MemuseAccountsForFlows
    MemcapOvershootBounded
