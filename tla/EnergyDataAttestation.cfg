SPECIFICATION Spec
CONSTANTS
    s1 = s1
    s2 = s2
    h1 = h1
    h2 = h2
    h3 = h3
    h4 = h4
    zero = zero
    t1 = t1
    t2 = t2
    ZeroHash = zero
    Sender <- MCSender
    DataHash <- MCDataHash
    DataType <- MCDataType
    MaxBatch = 2
    MaxItems = 3
    MaxBlock = 3
SYMMETRY Interchangeable
INVARIANTS
    TypeOK
    CopiesAgree
PROPERTIES
    ImplementsLog
CHECK_DEADLOCK FALSE
