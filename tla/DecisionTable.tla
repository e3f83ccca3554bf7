--------------------------- MODULE DecisionTable ----------------------------
(***************************************************************************)
(* The decision engine alone, for one evaluation: any inputs a cycle can   *)
(* bring, then the decision and the order it would lead to.  The engine    *)
(* keeps nothing between calls, so one evaluation is all its behaviour.    *)
(***************************************************************************)
EXTENDS Reconciliation

CONSTANTS Sources, Actuals, PriceSnapshots

ASSUME InputAssumption ==
    /\ Sources \subseteq Int /\ Actuals \subseteq Int
    /\ PriceSnapshots \subseteq PriceSnapshot \cup {NoPrice}

VARIABLES input, decision, decided
vars == <<input, decision, decided>>

Inputs == [symbol : Symbols, source : Sources, actual : Actuals,
           price : PriceSnapshots, isFresh : BOOLEAN, isCoolingDown : BOOLEAN]

Init ==
    /\ input \in Inputs
    /\ decision = SkipRecord("NO_ACTION", 0, 0)
    /\ decided = FALSE

Decide ==
    /\ ~decided
    /\ decision' = Evaluate(input.symbol, input.source, input.actual, input.price,
                            input.isFresh, input.isCoolingDown)
    /\ decided' = TRUE
    /\ UNCHANGED input

Spec == Init /\ [][Decide]_vars

-----------------------------------------------------------------------------
Ordered == decided /\ IsExecutable(decision)
Size == OrderSize(decision)
\* The position once the order is filled.
After == decision.actual + Size

\* The order is a non-zero step towards the target that does not pass it, with
\* the target and the position of this evaluation, whatever the rounding, the
\* caps and the flip do to its size (risk_policy.py:30-44, flip_handler.py:36-51).
\* So the LocalValidationError of executor.py:56 is never raised.
OrderApproaches ==
    Ordered =>
        /\ decision.target = ComputeTargetSize(input.source)
        /\ decision.actual = input.actual
        /\ \/ decision.actual < After /\ After <= decision.target
           \/ decision.actual > After /\ After >= decision.target

\* No order, a flip's close included, is worth more than
\* max_single_rebalance_notional_usdt at the mark price, or moves more than the
\* convergence ratio of the drift.
OrderCapped ==
    Ordered =>
        /\ Abs(Size) * decision.mark <= MaxSingleRebalanceNotional
        /\ Abs(Size) * ConvergenceDen <= Abs(decision.raw) * ConvergenceNum

\* What the decision is called is what its order does to the exposure: an
\* increase enlarges it on one side, a reduction, a close and a flip's close
\* diminish it and never turn the position round.
LabelIsTrue ==
    Ordered =>
        /\ decision.type = "REBALANCE_INCREASE" =>
              /\ Abs(After) > Abs(decision.actual)
              /\ Abs(After) = Abs(decision.actual) + Abs(Size)
        /\ decision.type \in {"REBALANCE_REDUCE", "REBALANCE_CLOSE", "REBALANCE_FLIP_CLOSE"} =>
              Abs(After) = Abs(decision.actual) - Abs(Size)
        /\ decision.type = "REBALANCE_CLOSE" <=> decision.target = 0

\* The price guard looked at the side of the book that the order takes, the
\* order of a flip included: a buy at the ask, a sale at the bid.
GuardedSide ==
    Ordered /\ PriceGuardEnabled =>
        LET taken == IF Size > 0 THEN input.price.ask ELSE input.price.bid
        IN  Abs(taken - input.price.mark) * 10000 <= MaxDeviationBps * input.price.mark

\* An order that does not close for a flip meets both of Binance's lot filters and
\* the minimal notional, although the engine only knows the stricter of each pair.
OrderIsTakeable ==
    Ordered /\ decision.type # "REBALANCE_FLIP_CLOSE" =>
        MeetsFilters(input.symbol, Size, decision.mark)

\* Long and short are treated alike: the mirror image of the inputs, with the
\* book turned round the mark price, gets the mirror image of the decision.
LongShortSymmetry ==
    decided /\ input.price # NoPrice =>
        LET p      == input.price
            mirror == Evaluate(input.symbol, -input.source, -input.actual,
                               [p EXCEPT !.bid = 2 * p.mark - p.ask,
                                         !.ask = 2 * p.mark - p.bid],
                               input.isFresh, input.isCoolingDown)
        IN  /\ mirror.type = decision.type
            /\ mirror.capped = -decision.capped
            /\ OrderSize(mirror) = -Size

\* The percentage threshold keeps an order back when the drift is a smaller part
\* of the position than min_rebalance_pct, as the documents promise.
DriftIsLargeEnough ==
    Ordered /\ decision.actual # 0 =>
        Abs(decision.raw) * MinRebalancePctDen >= MinRebalancePctNum * Abs(decision.actual)

=============================================================================
