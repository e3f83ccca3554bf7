--------------------------- MODULE Reconciliation ---------------------------
(***************************************************************************)
(* The decision engine (strategy/) and the order it leads to (execution/): *)
(* from one symbol's source size, Binance position and prices to a         *)
(* decision, and from a decision to the signed quantity that is POSTed.    *)
(*                                                                         *)
(* The code computes with Decimal.  Here a quantity is a whole number of   *)
(* quanta and a price a whole number of USDT units per quantum; a fraction *)
(* is a numerator and a denominator, and the one place where the code      *)
(* rounds (down, to the step size) rounds here too.  Source sizes are in   *)
(* units of which CopyRatio make one quantum-exact target.                 *)
(***************************************************************************)
EXTENDS Integers, Sequences

CONSTANTS
    Symbols,                      \* the Binance symbols the model speaks of
    Whitelist,                    \* copy_trade.symbols.whitelist, a list
    Blacklist,                    \* copy_trade.symbols.blacklist
    CopyRatio,                    \* copy_trade.copy_ratio
    MaxSymbolNotional,            \* risk.max_symbol_notional_usdt
    MaxSingleRebalanceNotional,   \* risk.max_single_rebalance_notional_usdt
    ConvergenceNum,               \* risk.max_delta_convergence_ratio,
    ConvergenceDen,               \*   as ConvergenceNum / ConvergenceDen
    MinRebalancePctNum,           \* risk.min_rebalance_pct,
    MinRebalancePctDen,           \*   as MinRebalancePctNum / MinRebalancePctDen
    MinRebalanceNotional,         \* risk.min_rebalance_notional_usdt
    PriceGuardEnabled,            \* binance.price_guard.enabled
    MaxDeviationBps,              \* binance.price_guard.max_deviation_bps
    LotSize,                      \* exchangeInfo LOT_SIZE of each symbol
    MarketLotSize,                \* exchangeInfo MARKET_LOT_SIZE
    MinNotional,                  \* exchangeInfo MIN_NOTIONAL
    NoPrice                       \* a price snapshot that is None

Positive == Nat \ {0}
LotFilter == [step : Positive, min : Nat, max : Nat]

\* The field constraints of config/models.py, and filters as Binance sends them.
ASSUME ConfigAssumption ==
    /\ Whitelist \in Seq(Symbols) /\ Whitelist # <<>>
    /\ Blacklist \subseteq Symbols
    /\ CopyRatio \in Positive
    /\ MaxSymbolNotional \in Positive
    /\ MaxSingleRebalanceNotional \in Positive
    /\ ConvergenceNum \in Positive /\ ConvergenceDen \in Positive
    /\ ConvergenceNum <= ConvergenceDen
    /\ MinRebalancePctNum \in Positive /\ MinRebalancePctDen \in Positive
    /\ MinRebalancePctNum <= MinRebalancePctDen
    /\ MinRebalanceNotional \in Positive
    /\ PriceGuardEnabled \in BOOLEAN
    /\ MaxDeviationBps \in Positive

ASSUME FilterAssumption ==
    /\ LotSize \in [Symbols -> LotFilter]
    /\ MarketLotSize \in [Symbols -> LotFilter]
    /\ MinNotional \in [Symbols -> Nat]

PriceSnapshot == [mark : Positive, bid : Positive, ask : Positive]
ASSUME NoPriceAssumption == NoPrice \notin PriceSnapshot

-----------------------------------------------------------------------------
Abs(x) == IF x < 0 THEN -x ELSE x
Lesser(a, b) == IF a <= b THEN a ELSE b
Greater(a, b) == IF a >= b THEN a ELSE b

Rebalances == {"REBALANCE_INCREASE", "REBALANCE_REDUCE", "REBALANCE_CLOSE",
               "REBALANCE_FLIP_CLOSE", "REBALANCE_FLIP_OPEN"}
Skips == {"SKIP_SOURCE_STALE", "SKIP_SYMBOL_DISABLED", "SKIP_COOLDOWN",
          "SKIP_DATA_UNAVAILABLE", "SKIP_BELOW_THRESHOLD", "SKIP_PRICE_GUARD"}
DecisionTypes == Rebalances \cup Skips \cup {"NO_ACTION"}

\* A DecisionRecord; mark is reference_price, 0 standing for None.
Decision == [type : DecisionTypes, target : Int, actual : Int,
             raw : Int, capped : Int, mark : Nat]

\* Faulty: the list in is_executable() lacks the flip's close.
IsExecutableButFlips(d) == d.type \in Rebalances \ {"REBALANCE_FLIP_CLOSE"}

IsExecutable(d) == d.type \in Rebalances

(***************************************************************************)
(* exchange/precision.py: the stricter of each pair of filters.            *)
(***************************************************************************)
\* Faulty: the looser step of the two.
FiltersWithLooserStep(s) ==
    [step        |-> Lesser(LotSize[s].step, MarketLotSize[s].step),
     min         |-> Greater(LotSize[s].min, MarketLotSize[s].min),
     max         |-> Lesser(LotSize[s].max, MarketLotSize[s].max),
     minNotional |-> MinNotional[s]]

Filters(s) ==
    [step        |-> Greater(LotSize[s].step, MarketLotSize[s].step),
     min         |-> Greater(LotSize[s].min, MarketLotSize[s].min),
     max         |-> Lesser(LotSize[s].max, MarketLotSize[s].max),
     minNotional |-> MinNotional[s]]

\* Faulty: rounds up.
RoundUpToStep(num, den, step) == ((num + den * step - 1) \div (den * step)) * step

\* round_down_to_step of the non-negative fraction num / den.
RoundDownToStep(num, den, step) == (num \div (den * step)) * step

(***************************************************************************)
(* strategy/risk_policy.py                                                 *)
(***************************************************************************)
\* Faulty: the notional cap is forgotten.
ApplyRatioCapOnly(raw, mark, f) ==
    RoundDownToStep(Abs(raw) * ConvergenceNum, ConvergenceDen, f.step)

\* Rounding down is monotonic, so the least of the rounded caps is the
\* rounded least cap.
ApplyConvergenceCap(raw, mark, f) ==
    Lesser(RoundDownToStep(Abs(raw), 1, f.step),
           Lesser(RoundDownToStep(MaxSingleRebalanceNotional, mark, f.step),
                  RoundDownToStep(Abs(raw) * ConvergenceNum, ConvergenceDen, f.step)))

IsTradable(qty, mark, f) ==
    /\ qty > 0
    /\ qty >= f.min
    /\ qty <= f.max
    /\ qty * mark >= f.minNotional
    /\ qty * mark >= MinRebalanceNotional

ExceedsDriftThreshold(delta, actual, mark) ==
    \/ delta * mark >= MinRebalanceNotional
    \/ /\ actual # 0
       /\ delta * MinRebalancePctDen >= MinRebalancePctNum * Abs(actual)

(***************************************************************************)
(* strategy/price_guard.py: the executable price is the ask for a buy and  *)
(* the bid for a sell.                                                     *)
(***************************************************************************)
\* Faulty: the wrong side of the book.
ExecutablePriceSwapped(price, isBuy) == IF isBuy THEN price.bid ELSE price.ask

ExecutablePrice(price, isBuy) == IF isBuy THEN price.ask ELSE price.bid

PriceGuardPasses(price, isBuy) ==
    \/ ~PriceGuardEnabled
    \/ Abs(ExecutablePrice(price, isBuy) - price.mark) * 10000
          <= MaxDeviationBps * price.mark

(***************************************************************************)
(* strategy/reconciliation.py                                              *)
(***************************************************************************)
ComputeTargetSize(source) == source * CopyRatio

\* _select_action() is only called with a drift; its own NO_ACTION is never met.

\* Faulty: compares signed sizes.
SelectActionSigned(target, actual) ==
    IF target = 0 THEN "REBALANCE_CLOSE"
    ELSE IF actual = 0 THEN "REBALANCE_INCREASE"
    ELSE IF (actual > 0) # (target > 0) THEN "REBALANCE_FLIP_CLOSE"
    ELSE IF target > actual THEN "REBALANCE_INCREASE"
    ELSE "REBALANCE_REDUCE"

SelectAction(target, actual) ==
    IF target = 0 THEN "REBALANCE_CLOSE"
    ELSE IF actual = 0 THEN "REBALANCE_INCREASE"
    ELSE IF (actual > 0) # (target > 0) THEN "REBALANCE_FLIP_CLOSE"
    ELSE IF Abs(target) > Abs(actual) THEN "REBALANCE_INCREASE"
    ELSE "REBALANCE_REDUCE"

IsEligible(s) ==
    /\ \E i \in DOMAIN Whitelist : Whitelist[i] = s
    /\ s \notin Blacklist

\* _skip() and service._make_skip_record(): no target, no delta.
SkipRecord(type, actual, mark) ==
    [type |-> type, target |-> 0, actual |-> actual, raw |-> 0, capped |-> 0,
     mark |-> mark]

\* The rules in the order in which evaluate() applies them; the first that
\* blocks decides.  A zero mark price never gets past the cap, which divides
\* by it, so the guard's own test for it is not needed here.
Evaluate(s, source, actual, price, isFresh, isCoolingDown) ==
    LET f      == Filters(s)
        mark   == IF price = NoPrice THEN 0 ELSE price.mark
        target == ComputeTargetSize(source)
        raw    == target - actual
        qty    == ApplyConvergenceCap(raw, mark, f)
        Record(type, capped) ==
            [type |-> type, target |-> target, actual |-> actual, raw |-> raw,
             capped |-> capped, mark |-> mark]
        signed == IF raw > 0 THEN qty ELSE -qty
    IN  IF ~isFresh THEN SkipRecord("SKIP_SOURCE_STALE", actual, mark)
        ELSE IF ~IsEligible(s) THEN SkipRecord("SKIP_SYMBOL_DISABLED", actual, mark)
        ELSE IF isCoolingDown THEN SkipRecord("SKIP_COOLDOWN", actual, mark)
        ELSE IF raw = 0 THEN Record("NO_ACTION", 0)
        ELSE IF price = NoPrice THEN SkipRecord("SKIP_DATA_UNAVAILABLE", actual, mark)
        ELSE IF ~IsTradable(qty, mark, f) THEN Record("SKIP_BELOW_THRESHOLD", 0)
        ELSE IF ~ExceedsDriftThreshold(Abs(raw), actual, mark)
             THEN Record("SKIP_BELOW_THRESHOLD", signed)
        ELSE IF ~PriceGuardPasses(price, raw > 0) THEN Record("SKIP_PRICE_GUARD", signed)
        ELSE Record(SelectAction(target, actual), signed)

(***************************************************************************)
(* execution/flip_handler.py and executor.submit(): the signed quantity of *)
(* the MARKET order, BUY when positive.  Zero is the LocalValidationError. *)
(***************************************************************************)
\* Faulty: the close is not limited to the position.
FlipCloseUnlimited(d) == IF d.actual > 0 THEN -Abs(d.capped) ELSE Abs(d.capped)

FlipCloseDelta(d) ==
    LET qty == Lesser(Abs(d.actual), Abs(d.capped))
    IN  IF d.actual > 0 THEN -qty ELSE qty

OrderSize(d) == IF d.type = "REBALANCE_FLIP_CLOSE" THEN FlipCloseDelta(d) ELSE d.capped

(***************************************************************************)
(* Binance: what a MARKET order has to meet, at the given mark price.      *)
(***************************************************************************)
MeetsFilters(s, size, mark) ==
    /\ \A f \in {LotSize[s], MarketLotSize[s]} :
          Abs(size) >= f.min /\ Abs(size) <= f.max /\ Abs(size) % f.step = 0
    /\ Abs(size) * mark >= MinNotional[s]

=============================================================================
