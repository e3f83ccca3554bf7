SPECIFICATION FairSpec
CONSTANTS
    btc = btc
    eth = eth
    NoPrice = NoPrice
    Blacklist = {}
    CopyRatio = 2
    MaxSymbolNotional = 100
    MaxSingleRebalanceNotional = 40
    ConvergenceNum = 1
    ConvergenceDen = 2
    MinRebalancePctNum = 1
    MinRebalancePctDen = 50
    MinRebalanceNotional = 20
    PriceGuardEnabled = TRUE
    MaxDeviationBps = 15
    Symbols = {btc, eth}
    Whitelist <- Pair
    LotSize <- CoarseLots
    MarketLotSize <- CoarseLots
    MinNotional <- SmallMinNotional
    Mapped = {btc, eth}
    AutoDowngradeEnabled = TRUE
    AutoDowngradeThreshold = 2
    SymbolCooldownSeconds = 30
    StartModes = {"live"}
    SourceSizes <- LongShort
    Prices <- CalmPrices
    InitialPositions <- FlatOrShort
    Answers <- OrTimeout
    ReadFaults <- NoFaults
    FillTiming = "before_next_cycle"
    PartialFills = FALSE
    MayExit = FALSE
    MaxExposure = 20
    MaxFailures = 3
INVARIANTS KnowsPosition OrderConverges
PROPERTIES FlipsThroughFlat Converges
