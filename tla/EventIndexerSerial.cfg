SPECIFICATION FairSpec
CONSTANTS
    p1 = p1
    p2 = p2
    t1 = t1
    t2 = t2
    Sync = sync
    NoPair = none
    Pair <- TwoPairs
    Poll <- OnePoll
    startBlock = 0
    batchSize = 2
    MaxBlock = 3
    MaxFaults = 1
INVARIANTS
    StoredOnce
    ReservesAreNewest
PROPERTIES
    EventuallyStored
