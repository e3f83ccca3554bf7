SPECIFICATION AuditSpec
CONSTANTS
    btc = btc
    NoPrice = NoPrice
    Blacklist = {}
    CopyRatio = 2
    MaxSymbolNotional = 10000
    MaxSingleRebalanceNotional = 4000
    ConvergenceNum = 1
    ConvergenceDen = 1
    MinRebalancePctNum = 1
    MinRebalancePctDen = 50
    MinRebalanceNotional = 500
    PriceGuardEnabled = TRUE
    MaxDeviationBps = 15
    Symbols = {btc}
    Whitelist <- Solo
    LotSize <- AnyLots
    MarketLotSize <- AnyLots
    MinNotional <- NoMinNotional
    Mapped = {btc}
    AutoDowngradeEnabled = TRUE
    AutoDowngradeThreshold = 1
    SymbolCooldownSeconds = 0
    StartModes = {"live"}
    SourceSizes <- LongShort
    Prices <- TwoBooks
    InitialPositions <- Flat
    Answers = {"accepted", "timeout"}
    ReadFaults = {"source_failed", "binance_failed"}
    FillTiming = "before_next_cycle"
    PartialFills = FALSE
    MayExit = TRUE
    MaxExposure = 8
    MaxFailures = 3
    WriteFaults = TRUE
    MaxCycles = 3
    MaxGaps = 1
    AcceptedStatuses = {"ACCEPTED"}
INVARIANTS AuditTypeOK EveryOrderIsRecorded RecordedOrdersExist TradesArePriced NetIsAccount PnlIsCashFlow OpenLotsAreNewest
CHECK_DEADLOCK FALSE
