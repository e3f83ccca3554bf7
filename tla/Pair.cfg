SPECIFICATION Spec
CONSTANTS
    btc = btc
    eth = eth
    NoPrice = NoPrice
    Blacklist = {}
    CopyRatio = 2
    MaxSymbolNotional = 100
    MaxSingleRebalanceNotional = 40
    ConvergenceNum = 1
    ConvergenceDen = 2
    MinRebalancePctNum = 1
    MinRebalancePctDen = 50
    MinRebalanceNotional = 20
    PriceGuardEnabled = TRUE
    MaxDeviationBps = 15
    Symbols = {btc, eth}
    Whitelist <- Pair
    LotSize <- CoarseLots
    MarketLotSize <- SingleLots
    MinNotional <- SmallMinNotional
    Mapped = {btc, eth}
    AutoDowngradeEnabled = TRUE
    AutoDowngradeThreshold = 2
    SymbolCooldownSeconds = 30
    StartModes = {"live"}
    SourceSizes <- SmallLongFlat
    Prices <- QuietPrices
    InitialPositions <- Flat
    Answers <- Unambiguous
    ReadFaults = {"source_failed", "binance_failed"}
    FillTiming = "any"
    PartialFills = FALSE
    MayExit = TRUE
    MaxExposure = 4
    MaxFailures = 3
INVARIANTS NoOrderDuringCooldown
PROPERTIES OneOutcomePerSymbol BreakerHolds
