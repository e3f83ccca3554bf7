------------------------ MODULE ReconciliationProofs ------------------------
(***************************************************************************)
(* What the decision engine promises for every configuration and every     *)
(* input: the facts about rounding, caps and signs that DecisionTable      *)
(* checks on a table of numbers.                                           *)
(***************************************************************************)
EXTENDS Reconciliation, TLAPS

LEMMA DivBounds ==
    ASSUME NEW a \in Nat, NEW b \in Positive
    PROVE  /\ a \div b \in Nat
           /\ (a \div b) * b <= a
  BY SMT DEF Positive

LEMMA ProductOfNaturals ==
    ASSUME NEW a \in Nat, NEW b \in Nat
    PROVE  a * b \in Nat
  BY SMT

LEMMA ProductOfPositives ==
    ASSUME NEW a \in Positive, NEW b \in Positive
    PROVE  a * b \in Positive
  BY SMT DEF Positive

\* Rounding down to a step never goes above the fraction num / den.
LEMMA RoundingBounds ==
    ASSUME NEW num \in Nat, NEW den \in Positive, NEW step \in Positive
    PROVE  /\ RoundDownToStep(num, den, step) \in Nat
           /\ RoundDownToStep(num, den, step) * den <= num
<1> DEFINE q == num \div (den * step)
<1>1. den * step \in Positive
  BY ProductOfPositives
<1>2. q \in Nat /\ q * (den * step) <= num
  BY <1>1, DivBounds
<1>3. (q * step) * den = q * (den * step)
  BY <1>2, SMT DEF Positive
<1>4. q * step \in Nat
  BY <1>2, ProductOfNaturals DEF Positive
<1> QED
  BY <1>2, <1>3, <1>4 DEF RoundDownToStep

LEMMA ProductIsMonotonic ==
    ASSUME NEW a \in Nat, NEW b \in Nat, NEW c \in Nat, a <= b
    PROVE  a * c <= b * c
  BY SMT

LEMMA AbsOfInt ==
    ASSUME NEW x \in Int
    PROVE  /\ Abs(x) \in Nat
           /\ x >= 0 => Abs(x) = x
           /\ x < 0 => Abs(x) = -x
  BY DEF Abs

LEMMA FiltersType ==
    ASSUME NEW s \in Symbols
    PROVE  /\ Filters(s).step \in Positive
           /\ Filters(s).min \in Nat
           /\ Filters(s).max \in Nat
           /\ Filters(s).minNotional \in Nat
<1>1. LotSize[s] \in LotFilter /\ MarketLotSize[s] \in LotFilter /\ MinNotional[s] \in Nat
  BY FilterAssumption
<1> QED
  BY <1>1 DEF Filters, LotFilter, Greater, Lesser, Positive

\* The quantity that apply_convergence_cap() returns respects the drift and
\* both caps.
LEMMA CapBounds ==
    ASSUME NEW s \in Symbols, NEW raw \in Int, NEW mark \in Positive
    PROVE  LET qty == ApplyConvergenceCap(raw, mark, Filters(s))
           IN  /\ qty \in Nat
               /\ qty <= Abs(raw)
               /\ qty * mark <= MaxSingleRebalanceNotional
               /\ qty * ConvergenceDen <= Abs(raw) * ConvergenceNum
<1> DEFINE step == Filters(s).step
           a == RoundDownToStep(Abs(raw), 1, step)
           b == RoundDownToStep(MaxSingleRebalanceNotional, mark, step)
           c == RoundDownToStep(Abs(raw) * ConvergenceNum, ConvergenceDen, step)
           qty == Lesser(a, Lesser(b, c))
<1>1. step \in Positive
  BY FiltersType
<1>2. /\ Abs(raw) \in Nat
      /\ MaxSingleRebalanceNotional \in Nat
      /\ ConvergenceNum \in Nat /\ ConvergenceDen \in Positive
      /\ 1 \in Positive /\ mark \in Positive
  BY ConfigAssumption, AbsOfInt DEF Positive
<1>3. Abs(raw) * ConvergenceNum \in Nat
  BY <1>2, ProductOfNaturals
<1>4. a \in Nat /\ a * 1 <= Abs(raw)
  BY <1>1, <1>2, RoundingBounds
<1>5. b \in Nat /\ b * mark <= MaxSingleRebalanceNotional
  BY <1>1, <1>2, RoundingBounds
<1>6. c \in Nat /\ c * ConvergenceDen <= Abs(raw) * ConvergenceNum
  BY <1>1, <1>2, <1>3, RoundingBounds
<1>7. /\ qty \in Nat /\ qty <= a /\ qty <= b /\ qty <= c
  BY <1>4, <1>5, <1>6 DEF Lesser
<1>8. qty <= Abs(raw)
  BY <1>2, <1>4, <1>7
<1>9. qty * mark <= MaxSingleRebalanceNotional
  <2>1. qty * mark <= b * mark
    BY <1>2, <1>5, <1>7, ProductIsMonotonic DEF Positive
  <2>2. qty * mark \in Nat /\ b * mark \in Nat
    BY <1>2, <1>5, <1>7, ProductOfNaturals DEF Positive
  <2> QED
    BY <1>2, <1>5, <2>1, <2>2
<1>10. qty * ConvergenceDen <= Abs(raw) * ConvergenceNum
  <2>1. qty * ConvergenceDen <= c * ConvergenceDen
    BY <1>2, <1>6, <1>7, ProductIsMonotonic DEF Positive
  <2>2. qty * ConvergenceDen \in Nat /\ c * ConvergenceDen \in Nat
    BY <1>2, <1>6, <1>7, ProductOfNaturals DEF Positive
  <2> QED
    BY <1>3, <1>6, <2>1, <2>2
<1>11. ApplyConvergenceCap(raw, mark, Filters(s)) = qty
  BY DEF ApplyConvergenceCap
<1> QED
  BY <1>7, <1>8, <1>9, <1>10, <1>11

-----------------------------------------------------------------------------
Price == PriceSnapshot \cup {NoPrice}

LEMMA TargetType ==
    ASSUME NEW source \in Int
    PROVE  ComputeTargetSize(source) \in Int
<1>1. CopyRatio \in Int
  BY ConfigAssumption DEF Positive
<1> QED
  BY <1>1 DEF ComputeTargetSize

\* What the record of a rebalance rests on: every rule has let it pass.
Grounds(d, s, source, actual, price) ==
    /\ price \in PriceSnapshot
    /\ d.mark = price.mark
    /\ d.target = ComputeTargetSize(source)
    /\ d.actual = actual
    /\ d.raw = d.target - d.actual
    /\ d.raw # 0
    /\ d.type = SelectAction(d.target, d.actual)
    /\ IsTradable(Abs(d.capped), d.mark, Filters(s))
    /\ Abs(d.capped) = ApplyConvergenceCap(d.raw, d.mark, Filters(s))
    /\ (d.capped > 0) <=> (d.raw > 0)
    /\ d.raw > 0 => PriceGuardPasses(price, TRUE)
    /\ d.raw < 0 => PriceGuardPasses(price, FALSE)

LEMMA ExecutableDecision ==
    ASSUME NEW s \in Symbols, NEW source \in Int, NEW actual \in Int,
           NEW price \in Price, NEW isFresh \in BOOLEAN, NEW isCoolingDown \in BOOLEAN,
           NEW d, d = Evaluate(s, source, actual, price, isFresh, isCoolingDown),
           IsExecutable(d)
    PROVE  Grounds(d, s, source, actual, price)
<1> DEFINE target == ComputeTargetSize(source)
           raw == target - actual
           qty == ApplyConvergenceCap(raw, price.mark, Filters(s))
<1>1. price # NoPrice
  BY DEF Evaluate, SkipRecord, IsExecutable, Rebalances
<1>2. price \in PriceSnapshot /\ price.mark \in Positive
  BY <1>1 DEF Price, PriceSnapshot
<1>3. raw \in Int
  BY TargetType
<1>4. qty \in Nat
  BY <1>2, <1>3, CapBounds
<1>5. /\ raw # 0
      /\ IsTradable(qty, price.mark, Filters(s))
      /\ d = [type |-> SelectAction(target, actual), target |-> target,
              actual |-> actual, raw |-> raw,
              capped |-> IF raw > 0 THEN qty ELSE -qty, mark |-> price.mark]
  BY <1>1 DEF Evaluate, SkipRecord, IsExecutable, Rebalances
<1>6. /\ raw > 0 => PriceGuardPasses(price, TRUE)
      /\ raw < 0 => PriceGuardPasses(price, FALSE)
  <2>1. PriceGuardPasses(price, raw > 0)
    BY <1>1 DEF Evaluate, SkipRecord, IsExecutable, Rebalances
  <2> HIDE DEF raw
  <2>2. ASSUME raw > 0 PROVE PriceGuardPasses(price, TRUE)
    <3>1. (raw > 0) = TRUE
      BY <2>2
    <3> QED
      BY <2>1, <3>1
  <2>3. ASSUME raw < 0 PROVE PriceGuardPasses(price, FALSE)
    <3>1. (raw > 0) = FALSE
      BY <1>3, <2>3
    <3> QED
      BY <2>1, <3>1
  <2> QED
    BY <2>2, <2>3
<1>7. qty > 0
  BY <1>4, <1>5 DEF IsTradable
<1>8. /\ d.type = SelectAction(target, actual) /\ d.target = target
      /\ d.actual = actual /\ d.raw = raw /\ d.mark = price.mark
      /\ d.capped = IF raw > 0 THEN qty ELSE -qty
  <2>1. d = [type |-> SelectAction(target, actual), target |-> target,
             actual |-> actual, raw |-> raw,
             capped |-> IF raw > 0 THEN qty ELSE -qty, mark |-> price.mark]
    BY <1>5
  <2> HIDE DEF target, raw, qty
  <2> QED
    BY <2>1
<1> HIDE DEF qty, raw
<1>9. /\ Abs(d.capped) = qty
      /\ (d.capped > 0) <=> (d.raw > 0)
  BY <1>3, <1>4, <1>7, <1>8 DEF Abs
<1> USE DEF qty, raw
<1> QED
  BY <1>2, <1>5, <1>6, <1>8, <1>9 DEF Grounds

LEMMA EvaluateType ==
    ASSUME NEW s \in Symbols, NEW source \in Int, NEW actual \in Int,
           NEW price \in Price, NEW isFresh \in BOOLEAN, NEW isCoolingDown \in BOOLEAN
    PROVE  Evaluate(s, source, actual, price, isFresh, isCoolingDown) \in Decision
<1> DEFINE target == ComputeTargetSize(source)
           raw == target - actual
           qty == ApplyConvergenceCap(raw, price.mark, Filters(s))
           d == Evaluate(s, source, actual, price, isFresh, isCoolingDown)
<1>1. target \in Int /\ raw \in Int
  BY TargetType
<1>2. CASE price = NoPrice
  BY <1>1, <1>2 DEF Evaluate, SkipRecord, Decision, DecisionTypes, Skips, Rebalances
<1>3. CASE price # NoPrice
  <2>1. price.mark \in Positive
    BY <1>3 DEF Price, PriceSnapshot
  <2>2. qty \in Nat
    BY <1>1, <2>1, CapBounds
  <2>3. SelectAction(target, actual) \in DecisionTypes
    BY DEF SelectAction, DecisionTypes, Rebalances
  <2>4. DecisionTypes = Rebalances \cup Skips \cup {"NO_ACTION"}
    BY DEF DecisionTypes
  <2>5. \/ d = SkipRecord("SKIP_SOURCE_STALE", actual, price.mark)
        \/ d = SkipRecord("SKIP_SYMBOL_DISABLED", actual, price.mark)
        \/ d = SkipRecord("SKIP_COOLDOWN", actual, price.mark)
        \/ \E type \in DecisionTypes, capped \in {0, qty, -qty} :
              d = [type |-> type, target |-> target, actual |-> actual, raw |-> raw,
                   capped |-> capped, mark |-> price.mark]
    BY <1>3, <2>3 DEF Evaluate, DecisionTypes, Skips
  <2> QED
    BY <1>1, <2>1, <2>2, <2>5
    DEF SkipRecord, Decision, DecisionTypes, Skips, Positive
<1> QED
  BY <1>2, <1>3

\* exceeds_drift_threshold() never keeps back what is_tradable() let through: the
\* capped quantity is already worth min_rebalance_notional_usdt, so the whole
\* drift is, and the percentage is never looked at with effect.
THEOREM DriftRuleNeverBlocks ==
    ASSUME NEW s \in Symbols, NEW raw \in Int, NEW actual \in Int, NEW mark \in Positive,
           IsTradable(ApplyConvergenceCap(raw, mark, Filters(s)), mark, Filters(s))
    PROVE  ExceedsDriftThreshold(Abs(raw), actual, mark)
<1> DEFINE qty == ApplyConvergenceCap(raw, mark, Filters(s))
<1>1. qty \in Nat /\ qty <= Abs(raw) /\ Abs(raw) \in Nat /\ mark \in Nat
  BY CapBounds, AbsOfInt DEF Positive
<1>2. qty * mark >= MinRebalanceNotional
  BY DEF IsTradable
<1>3. qty * mark <= Abs(raw) * mark
  BY <1>1, ProductIsMonotonic
<1>4. /\ qty * mark \in Nat /\ Abs(raw) * mark \in Nat
      /\ MinRebalanceNotional \in Nat
  BY <1>1, ProductOfNaturals, ConfigAssumption DEF Positive
<1>5. Abs(raw) * mark >= MinRebalanceNotional
  BY <1>2, <1>3, <1>4
<1> QED
  BY <1>5 DEF ExceedsDriftThreshold

-----------------------------------------------------------------------------
(* The order that a rebalance leads to.                                    *)

\* The order of a rebalance is a part of the capped drift, in its direction; a
\* flip's close is also a part of the position.
Bounded(d, s, actual) ==
    /\ d.raw \in Int /\ d.target \in Int /\ d.mark \in Positive
    /\ OrderSize(d) \in Int /\ OrderSize(d) # 0
    /\ (OrderSize(d) > 0) <=> (d.raw > 0)
    /\ Abs(OrderSize(d)) <= ApplyConvergenceCap(d.raw, d.mark, Filters(s))
    /\ d.type = "REBALANCE_FLIP_CLOSE" =>
          /\ actual # 0
          /\ (d.raw > 0) <=> (actual < 0)
          /\ Abs(OrderSize(d)) <= Abs(actual)
    /\ d.type # "REBALANCE_FLIP_CLOSE" =>
          Abs(OrderSize(d)) = ApplyConvergenceCap(d.raw, d.mark, Filters(s))

LEMMA OrderSizeBounds ==
    ASSUME NEW s \in Symbols, NEW source \in Int, NEW actual \in Int,
           NEW price \in Price, NEW d \in Decision, Grounds(d, s, source, actual, price)
    PROVE  Bounded(d, s, actual)
<1> DEFINE qty == ApplyConvergenceCap(d.raw, d.mark, Filters(s))
<1>1. /\ d.mark = price.mark /\ price \in PriceSnapshot
      /\ d.target = ComputeTargetSize(source)
      /\ d.actual = actual
      /\ d.raw = d.target - d.actual
      /\ d.raw # 0
      /\ d.type = SelectAction(d.target, d.actual)
      /\ IsTradable(Abs(d.capped), d.mark, Filters(s))
      /\ Abs(d.capped) = qty
      /\ (d.capped > 0) <=> (d.raw > 0)
  BY DEF Grounds
<1>2. /\ d.target \in Int /\ d.raw \in Int /\ d.mark \in Positive
  BY <1>1, TargetType DEF PriceSnapshot
<1>3. d.capped \in Int
  BY DEF Decision
<1>4. qty \in Nat /\ qty > 0
  <2>1. qty \in Nat
    BY <1>2, CapBounds
  <2> QED
    BY <1>1, <2>1 DEF IsTradable
<1> HIDE DEF qty
<1>5. CASE d.type = "REBALANCE_FLIP_CLOSE"
  <2>1. /\ actual # 0 /\ d.target # 0
        /\ (actual > 0) # (d.target > 0)
    BY <1>1, <1>5 DEF SelectAction
  <2>2. (d.raw > 0) <=> (actual < 0)
    BY <1>1, <1>2, <2>1
  <2>3. OrderSize(d) = IF actual > 0 THEN -Lesser(Abs(actual), qty)
                                     ELSE Lesser(Abs(actual), qty)
    BY <1>1, <1>5 DEF OrderSize, FlipCloseDelta
  <2>4. /\ OrderSize(d) \in Int /\ OrderSize(d) # 0
        /\ (OrderSize(d) > 0) <=> (d.raw > 0)
        /\ Abs(OrderSize(d)) <= qty
        /\ Abs(OrderSize(d)) <= Abs(actual)
    BY <1>4, <2>1, <2>2, <2>3 DEF Lesser, Abs
  <2> QED
    BY <1>2, <1>5, <2>1, <2>2, <2>4 DEF qty, Bounded
<1>6. CASE d.type # "REBALANCE_FLIP_CLOSE"
  <2>1. OrderSize(d) = d.capped
    BY <1>6 DEF OrderSize
  <2>2. OrderSize(d) # 0
    BY <1>1, <1>3, <1>4, <2>1 DEF Abs
  <2> QED
    BY <1>1, <1>2, <1>3, <1>4, <1>6, <2>1, <2>2 DEF qty, Bounded
<1> QED
  BY <1>5, <1>6

=============================================================================
