SPECIFICATION Spec
CONSTANTS
    p1 = p1
    p2 = p2
    t1 = t1
    t2 = t2
    Sync = sync
    NoPair = none
    Pair <- OnePair
    Poll <- TwoPolls
    startBlock = 0
    batchSize = 2
    MaxBlock = 4
    MaxFaults = 1
SYMMETRY Interchangeable
INVARIANTS
    TypeOK
    TrustedBlocksStored
