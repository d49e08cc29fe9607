SPECIFICATION RelaunchSpec
CONSTANTS
    c1 = c1
    c2 = c2
    s1 = s1
    s2 = s2
    h1 = h1
    Category <- MCCategory
    Submitter <- MCSubmitter
    DataHash <- MCDataHash
    BatchSizes <- MCBatchSizes
    MaxItems = 3
    MaxMessages = 3
    MaxHeight = 2
PROPERTY RecordsImmutable
CHECK_DEADLOCK FALSE
