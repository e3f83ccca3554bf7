SPECIFICATION Spec
CONSTANTS
    btc = btc
    eth = eth
    xrp = xrp
    NoPrice = NoPrice
    Symbols = {btc, eth, xrp}
    Whitelist <- Listed
    Blacklist = {eth}
    CopyRatio = 3
    MaxSymbolNotional = 100000
    MaxSingleRebalanceNotional = 11000
    ConvergenceNum = 2
    ConvergenceDen = 3
    MinRebalancePctNum = 3
    MinRebalancePctDen = 5
    MinRebalanceNotional = 5500
    PriceGuardEnabled = TRUE
    MaxDeviationBps = 15
    LotSize <- Lots
    MarketLotSize <- MarketLots
    MinNotional <- Notionals
    Sources <- SomeSources
    Actuals <- SomeActuals
    PriceSnapshots <- SomePrices
INVARIANT DriftIsLargeEnough
CHECK_DEADLOCK FALSE
