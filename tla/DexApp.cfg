SPECIFICATION Spec
CONSTANTS
    deployer = deployer
    alice = alice
    bob = bob
    wecy = wecy
    usdt = usdt
    get = get
    ECY = ECY
    Router = Router
    Nobody = Nobody
    Account <- MCAccount
    Token <- MCToken
    WECY = wecy
    USDT = usdt
    GET = get
    Unlimited = 999
    Fee = 1
    FeeUnit = 10
    MinimumLiquidity = 1
    Wallet = {alice}
    WriteHook = WriteHook
    SendHook = SendHook
    MaxSends <- MCMaxSends
    Amounts = {12}
    Preset = {}
    Own = Own
    Custom = {7}
    DefaultSlippage = 5
    SlippageUnit = 12
    Fine = 2
    ShareLeft <- MCShareLeft
    Deadlines = {0}
    MaxFetches <- MCMaxFetches
    MaxReserveFetches = 2
    PoolAmounts = {12}
    Percents = {50}
    Unknown = Unknown
    TransferAmounts = {3}
    Recipients = {bob, NoAddress}
    NoAddress = NoAddress
    MaxTxs = 2
    LogBlocks = 2
    ChartBlocks = 100
    Intervals = {1, 5}
    MaxReads = 2
    MaxReadFaults = 1
    CandleLengths <- MCCandleLengths
    Day = 3
    RowAmounts <- MCRowAmounts
    MaxTime = 2
    MaxStored = 3
    MaxRuns = 2
    Deployer = deployer
    Dev0 = alice
    Sum <- MCSum
    BotAmounts = {2, 5}
    NoCall = NoCall
    Balance0 <- MCBalance0
    Depth = 12
    Trader = bob
    TraderAmounts = {2, 5}
    Market <- MCMarket
    MaxTrades <- MCMaxTrades
INVARIANTS
    TypeOK
    SwapWithinSlippage
    NeverShortOfAllowance
    CandlesExact
PROPERTIES
    PoolShareNeverFalls
    ChartCatchesUp
CHECK_DEADLOCK FALSE
