SPECIFICATION Spec
CONSTANTS
    btc = btc
    ubtc = ubtc
    sol = sol
    doge = doge
    BTCUSDT = BTCUSDT
    ETHUSDT = ETHUSDT
    SOLUSDT = SOLUSDT
    NoCoin = NoCoin
    Broken = Broken
    Symbols = {BTCUSDT, ETHUSDT, SOLUSDT}
    Copied = {BTCUSDT, ETHUSDT}
    Coins = {btc, ubtc, sol, doge}
    Mapping <- Config
    FreshnessTimeout = 30
    Payloads <- LackingPayloads
INVARIANTS IncompleteIsUnavailable
CHECK_DEADLOCK FALSE
