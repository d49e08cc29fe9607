SPECIFICATION OracleSpec
CONSTANTS
    c1 = c1
    c2 = c2
    o1 = o1
    o2 = o2
    v1 = v1
    v2 = v2
    Authority = authority
    Category <- MCCategory
    Oracle <- MCOracle
    Value <- MCValue
    MaxAges <- MCMaxAges
    DefaultDrift = 2
    MaxBlockTime = 3
    MaxSubmissions = 3
SYMMETRY Interchangeable
INVARIANTS
    OracleTypeOK
    LatestIsInHistory
PROPERTIES
    LatestRewindIsBounded
    RelaunchKeepsData
CHECK_DEADLOCK FALSE
