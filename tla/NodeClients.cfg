SPECIFICATION Spec
CONSTANTS
    w1 = w1
    w2 = w2
    w1lower = w1lower
    w2lower = w2lower
    contract = contract
    h1 = h1
    h2 = h2
    zero = zero
    x = x
    Empty = Empty
    NoTx = NoTx
    Nothing = Nothing
    Account <- MCAccount
    Receiver <- MCReceiver
    DataHash <- MCDataHash
    ZeroHash = zero
    DataType = {"active_power", "general"}
    MaxBatch = 2
    MaxPool = 2
    InsertQueueSize = 1
    MaxFaults <- MCMaxFaults
    MaxRestarts <- MCMaxRestarts
    Wallet = w1
    ContractAddress = contract
    Sheet <- MCSheet
    RecordHash <- MCRecordHash
    MaxAttempts = 3
    Caller <- MCCaller
    Text = {x}
    HashOf <- MCHashOf
    CliContract = contract
    MaxItems = 2
    MaxCommands = 2
    HotWallet = w1
    Lower <- MCLower
    watchAddresses <- MCWatched
    MaxSends = 2
    MaxShift = 3
    MaxFailures = 6
INVARIANTS
    TypeOK
    DoneMeansExecuted
    CertificateIsTrue
PROPERTIES
    QueuedRecordsExecuted
    SupervisorServes
CHECK_DEADLOCK FALSE
