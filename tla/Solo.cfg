SPECIFICATION Spec
CONSTANTS
    btc = btc
    eth = eth
    NoPrice = NoPrice
    Blacklist = {}
    CopyRatio = 2
    MaxSymbolNotional = 100
    MaxSingleRebalanceNotional = 40
    ConvergenceNum = 1
    ConvergenceDen = 2
    MinRebalancePctNum = 1
    MinRebalancePctDen = 50
    MinRebalanceNotional = 20
    PriceGuardEnabled = TRUE
    MaxDeviationBps = 15
    Symbols = {btc}
    Whitelist <- Solo
    LotSize <- SingleLots
    MarketLotSize <- SingleLots
    MinNotional <- SmallMinNotional
    Mapped = {btc}
    AutoDowngradeEnabled = TRUE
    AutoDowngradeThreshold = 2
    SymbolCooldownSeconds = 30
    StartModes = {"observe", "armed", "live"}
    SourceSizes <- LongShort
    Prices <- MovingPrices
    InitialPositions <- Flat
    Answers <- AllAnswers
    ReadFaults <- AllReadFaults
    FillTiming = "any"
    PartialFills = TRUE
    MayExit = TRUE
    MaxExposure = 8
    MaxFailures = 3
INVARIANTS TypeOK NoOrderDuringCooldown
PROPERTIES BreakerHolds
