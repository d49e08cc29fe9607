SPECIFICATION Spec
CONSTANTS
    a1 = a1
    a2 = a2
    e1 = e1
    e2 = e2
    Actor <- MCActor
    EventType <- MCEventType
    DataSize <- MCDataSize
    MaxDataSizes <- MCMaxDataSizes
    MaxTime = 3
    MaxLogs = 4
SYMMETRY Interchangeable
INVARIANTS
    TypeOK
    TrailIsInOrder
    QueriesExact
PROPERTIES
    ImplementsLog
CHECK_DEADLOCK FALSE
