SPECIFICATION Spec
CONSTANTS
    c1 = c1
    c2 = c2
    s1 = s1
    s2 = s2
    h1 = h1
    Category <- MCCategory
    Submitter <- MCSubmitter
    DataHash <- MCDataHash
    BatchSizes <- MCBatchSizes
    MaxItems = 3
    MaxMessages = 3
    MaxHeight = 2
SYMMETRY Interchangeable
INVARIANTS
    TypeOK
    QueriesExact
    BatchesAuditable
    RootCommitsToHashes
PROPERTIES
    ImplementsLog
CHECK_DEADLOCK FALSE
