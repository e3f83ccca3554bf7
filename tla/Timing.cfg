SPECIFICATION Spec
CONSTANTS
    btc = btc
    eth = eth
    Symbols = {btc, eth}
    Whitelist <- Pair
    SymbolCooldownSeconds = 4
    PollIntervalSeconds = 2
    FreshnessTimeout = 2
    Bounds <- SomeBounds
INVARIANTS TypeOK DecisionsAreCurrent SnapshotAgeIsBounded FillTimingIsMet
