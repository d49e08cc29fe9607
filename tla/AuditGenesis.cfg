SPECIFICATION GenesisSpec
CONSTANTS
    a1 = a1
    a2 = a2
    e1 = e1
    e2 = e2
    Actor <- MCActor
    EventType <- MCEventType
    DataSize <- MCDataSize
    MaxDataSizes <- MCMaxDataSizes
    MaxTime = 2
    MaxLogs = 2
PROPERTY LogsImmutable
CHECK_DEADLOCK FALSE
