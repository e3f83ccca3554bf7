------------------------ MODULE DecisionTableProofs -------------------------
(***************************************************************************)
(* The properties of DecisionTable, for every configuration and every      *)
(* table of inputs, where the run checks one table of numbers.             *)
(***************************************************************************)
EXTENDS DecisionTable, ReconciliationProofs

\* Where Decide leaves the state: the decision is that of the inputs.
IsEvaluated ==
    /\ input \in Inputs
    /\ decided \in BOOLEAN
    /\ decided => decision = Evaluate(input.symbol, input.source, input.actual,
                                      input.price, input.isFresh, input.isCoolingDown)

LEMMA InputType ==
    ASSUME input \in Inputs
    PROVE  /\ input.symbol \in Symbols /\ input.source \in Int /\ input.actual \in Int
           /\ input.price \in Price
           /\ input.isFresh \in BOOLEAN /\ input.isCoolingDown \in BOOLEAN
  BY InputAssumption DEF Inputs, Price

LEMMA EvaluatedInvariant == Spec => []IsEvaluated
<1>1. Init => IsEvaluated
  BY DEF Init, IsEvaluated
<1>2. IsEvaluated /\ [Decide]_vars => IsEvaluated'
  <2> SUFFICES ASSUME IsEvaluated, [Decide]_vars
               PROVE  IsEvaluated'
    OBVIOUS
  <2>1. CASE Decide
    <3>1. input' = input /\ decided' = TRUE
      BY <2>1 DEF Decide
    <3>2. decision' = Evaluate(input'.symbol, input'.source, input'.actual, input'.price,
                               input'.isFresh, input'.isCoolingDown)
      BY <2>1, <3>1 DEF Decide
    <3> QED
      BY <3>1, <3>2 DEF IsEvaluated
  <2>2. CASE UNCHANGED vars
    BY <2>2 DEF IsEvaluated, vars
  <2> QED
    BY <2>1, <2>2
<1> QED
  BY <1>1, <1>2, PTL DEF Spec

\* An order of the table has its grounds and its bounds.
LEMMA TableOrder ==
    ASSUME IsEvaluated, Ordered
    PROVE  /\ input.symbol \in Symbols /\ input.source \in Int /\ input.actual \in Int
           /\ Grounds(decision, input.symbol, input.source, input.actual, input.price)
           /\ Bounded(decision, input.symbol, input.actual)
<1>1. /\ input.symbol \in Symbols /\ input.source \in Int /\ input.actual \in Int
      /\ input.price \in Price
      /\ input.isFresh \in BOOLEAN /\ input.isCoolingDown \in BOOLEAN
      /\ decision = Evaluate(input.symbol, input.source, input.actual, input.price,
                             input.isFresh, input.isCoolingDown)
      /\ IsExecutable(decision)
  BY InputType DEF IsEvaluated, Ordered
<1>2. decision \in Decision
  BY <1>1, EvaluateType
<1>3. Grounds(decision, input.symbol, input.source, input.actual, input.price)
  BY <1>1, ExecutableDecision
<1>4. Bounded(decision, input.symbol, input.actual)
  BY <1>1, <1>2, <1>3, OrderSizeBounds
<1> QED
  BY <1>1, <1>3, <1>4

\* Every order is a non-zero step towards the target that does not pass it.
THEOREM OrderApproachesTarget == Spec => []OrderApproaches
<1>1. IsEvaluated => OrderApproaches
  <2> SUFFICES ASSUME IsEvaluated, Ordered
               PROVE  OrderApproaches
    BY DEF OrderApproaches
  <2> DEFINE s == input.symbol
             qty == ApplyConvergenceCap(decision.raw, decision.mark, Filters(s))
  <2>1. /\ s \in Symbols /\ input.actual \in Int
        /\ Grounds(decision, s, input.source, input.actual, input.price)
        /\ Bounded(decision, s, input.actual)
    BY TableOrder
  <2>2. /\ decision.target = ComputeTargetSize(input.source)
        /\ decision.actual = input.actual
        /\ decision.raw = decision.target - decision.actual
    BY <2>1 DEF Grounds
  <2>3. /\ decision.raw \in Int /\ decision.target \in Int /\ decision.mark \in Positive
        /\ Size \in Int /\ Size # 0
        /\ (Size > 0) <=> (decision.raw > 0)
        /\ Abs(Size) <= qty
    BY <2>1 DEF Bounded, Size
  <2>4. qty \in Nat /\ qty <= Abs(decision.raw)
    BY <2>1, <2>3, CapBounds
  <2> HIDE DEF qty
  <2>5. Abs(Size) <= Abs(decision.raw)
    BY <2>3, <2>4, AbsOfInt
  <2>6. \/ decision.actual < After /\ After <= decision.target
        \/ decision.actual > After /\ After >= decision.target
    BY <2>1, <2>2, <2>3, <2>5 DEF Abs, After
  <2> QED
    BY <2>2, <2>6 DEF OrderApproaches
<1> QED
  BY <1>1, EvaluatedInvariant, PTL

\* No order is worth more than the notional cap or moves more of the drift than the
\* convergence ratio.
THEOREM OrderIsCapped == Spec => []OrderCapped
<1>1. IsEvaluated => OrderCapped
  <2> SUFFICES ASSUME IsEvaluated, Ordered
               PROVE  OrderCapped
    BY DEF OrderCapped
  <2> DEFINE s == input.symbol
             mark == decision.mark
             raw == decision.raw
             qty == ApplyConvergenceCap(raw, mark, Filters(s))
  <2>1. /\ s \in Symbols
        /\ Bounded(decision, s, input.actual)
    BY TableOrder
  <2>2. /\ raw \in Int /\ mark \in Positive
        /\ Size \in Int
        /\ Abs(Size) <= qty
    BY <2>1 DEF Bounded, Size
  <2>3. /\ qty \in Nat
        /\ qty * mark <= MaxSingleRebalanceNotional
        /\ qty * ConvergenceDen <= Abs(raw) * ConvergenceNum
    BY <2>1, <2>2, CapBounds
  <2>4. /\ Abs(Size) \in Nat /\ Abs(raw) \in Nat
        /\ mark \in Nat /\ ConvergenceDen \in Nat /\ ConvergenceNum \in Nat
        /\ MaxSingleRebalanceNotional \in Nat
    BY <2>2, AbsOfInt, ConfigAssumption DEF Positive
  <2> HIDE DEF qty
  <2>5. Abs(Size) * mark <= qty * mark /\ Abs(Size) * ConvergenceDen <= qty * ConvergenceDen
    BY <2>2, <2>3, <2>4, ProductIsMonotonic
  <2>6. /\ Abs(Size) * mark \in Nat /\ qty * mark \in Nat
        /\ Abs(Size) * ConvergenceDen \in Nat /\ qty * ConvergenceDen \in Nat
        /\ Abs(raw) * ConvergenceNum \in Nat
    BY <2>3, <2>4, ProductOfNaturals
  <2>7. /\ Abs(Size) * mark <= MaxSingleRebalanceNotional
        /\ Abs(Size) * ConvergenceDen <= Abs(raw) * ConvergenceNum
    BY <2>3, <2>4, <2>5, <2>6
  <2> QED
    BY <2>7 DEF OrderCapped
<1> QED
  BY <1>1, EvaluatedInvariant, PTL

\* What a decision is called is what its order does to the exposure.
THEOREM LabelsAreTrue == Spec => []LabelIsTrue
<1>1. IsEvaluated => LabelIsTrue
  <2> SUFFICES ASSUME IsEvaluated, Ordered
               PROVE  LabelIsTrue
    BY DEF LabelIsTrue
  <2> DEFINE s == input.symbol
             qty == ApplyConvergenceCap(decision.raw, decision.mark, Filters(s))
             target == decision.target
             actual == decision.actual
  <2>1. /\ s \in Symbols /\ input.actual \in Int
        /\ Grounds(decision, s, input.source, input.actual, input.price)
        /\ Bounded(decision, s, input.actual)
    BY TableOrder
  <2>2. /\ actual = input.actual /\ actual \in Int
        /\ decision.raw = target - actual
        /\ decision.type = SelectAction(target, actual)
    BY <2>1 DEF Grounds
  <2>3. /\ decision.raw \in Int /\ target \in Int /\ decision.mark \in Positive
        /\ Size \in Int /\ Size # 0
        /\ (Size > 0) <=> (decision.raw > 0)
        /\ Abs(Size) <= qty
    BY <2>1 DEF Bounded, Size
  <2>4. decision.type = "REBALANCE_FLIP_CLOSE" => Abs(Size) <= Abs(actual)
    BY <2>1, <2>2 DEF Bounded, Size
  <2>5. qty \in Nat /\ qty <= Abs(decision.raw)
    BY <2>1, <2>3, CapBounds
  <2> HIDE DEF qty
  <2>6. Abs(Size) <= Abs(target - actual) /\ ((Size > 0) <=> (target - actual > 0))
    BY <2>2, <2>3, <2>5, AbsOfInt
  <2>7. After = actual + Size
    BY DEF After
  <2> HIDE DEF target, actual
  <2>8. decision.type = "REBALANCE_INCREASE" =>
           /\ Abs(After) > Abs(actual)
           /\ Abs(After) = Abs(actual) + Abs(Size)
    BY <2>2, <2>3, <2>6, <2>7 DEF SelectAction, Abs
  <2>9. decision.type \in {"REBALANCE_REDUCE", "REBALANCE_CLOSE"} =>
           Abs(After) = Abs(actual) - Abs(Size)
    BY <2>2, <2>3, <2>6, <2>7 DEF SelectAction, Abs
  <2>10. decision.type = "REBALANCE_FLIP_CLOSE" =>
           Abs(After) = Abs(actual) - Abs(Size)
    BY <2>2, <2>3, <2>4, <2>6, <2>7 DEF SelectAction, Abs
  <2>11. decision.type = "REBALANCE_CLOSE" <=> target = 0
    BY <2>2 DEF SelectAction
  <2> QED
    BY <2>8, <2>9, <2>10, <2>11 DEF LabelIsTrue, target, actual
<1> QED
  BY <1>1, EvaluatedInvariant, PTL

\* The guard has looked at the side of the book that the order takes.
THEOREM OrdersAreGuarded == Spec => []GuardedSide
<1>1. IsEvaluated => GuardedSide
  <2> SUFFICES ASSUME IsEvaluated, Ordered, PriceGuardEnabled
               PROVE  GuardedSide
    BY DEF GuardedSide
  <2>1. /\ Grounds(decision, input.symbol, input.source, input.actual, input.price)
        /\ Bounded(decision, input.symbol, input.actual)
    BY TableOrder
  <2>2. /\ decision.raw \in Int /\ decision.raw # 0
        /\ (Size > 0) <=> (decision.raw > 0)
    BY <2>1 DEF Grounds, Bounded, Size
  <2>3. /\ decision.raw > 0 => PriceGuardPasses(input.price, TRUE)
        /\ decision.raw < 0 => PriceGuardPasses(input.price, FALSE)
    BY <2>1 DEF Grounds
  <2>4. CASE Size > 0
    <3>1. decision.raw > 0
      BY <2>2, <2>4
    <3>2. PriceGuardPasses(input.price, TRUE)
      BY <2>3, <3>1, Zenon
    <3> QED
      BY <2>4, <3>2 DEF GuardedSide, PriceGuardPasses, ExecutablePrice
  <2>5. CASE ~(Size > 0)
    <3>1. decision.raw < 0
      BY <2>2, <2>5
    <3>2. PriceGuardPasses(input.price, FALSE)
      BY <2>3, <3>1, Zenon
    <3> QED
      BY <2>5, <3>2 DEF GuardedSide, PriceGuardPasses, ExecutablePrice
  <2> QED
    BY <2>4, <2>5
<1> QED
  BY <1>1, EvaluatedInvariant, PTL

-----------------------------------------------------------------------------
(* What Binance takes.                                                     *)

LEMMA MultipleLeavesNoRest ==
    ASSUME NEW k \in Nat, NEW b \in Positive
    PROVE  (k * b) % b = 0
<1> DEFINE q == (k * b) \div b
           r == (k * b) % b
<1>1. k * b \in Nat /\ b \in Nat /\ b > 0
  BY ProductOfNaturals DEF Positive
<1>2. q \in Int /\ r \in 0 .. b - 1 /\ k * b = b * q + r
  BY <1>1
<1> HIDE DEF q, r
<1>3. r = b * (k - q)
  BY <1>1, <1>2
<1>4. k - q \in Int /\ ~(k - q >= 1) /\ ~(k - q <= -1)
  <2>1. ASSUME k - q >= 1 PROVE FALSE
    <3>1. b * (k - q) >= b
      BY <1>1, <1>2, <2>1
    <3> QED
      BY <1>1, <1>2, <1>3, <3>1
  <2>2. ASSUME k - q <= -1 PROVE FALSE
    <3>1. b * (k - q) <= -b
      BY <1>1, <1>2, <2>2
    <3> QED
      BY <1>1, <1>2, <1>3, <3>1
  <2> QED
    BY <1>2, <2>1, <2>2
<1>5. k - q = 0
  BY <1>4
<1>6. r = 0
  BY <1>1, <1>3, <1>5
<1> QED
  BY <1>6 DEF r

\* Of two steps the larger is a multiple of the smaller, as Binance has them.
AlignedSteps ==
    \A s \in Symbols :
        \A f \in {LotSize[s], MarketLotSize[s]} :
            \E m \in Nat : Filters(s).step = m * f.step

\* The quantity that apply_convergence_cap() returns is a number of steps.
LEMMA CapIsRounded ==
    ASSUME NEW s \in Symbols, NEW raw \in Int, NEW mark \in Positive
    PROVE  \E k \in Nat : ApplyConvergenceCap(raw, mark, Filters(s)) = k * Filters(s).step
<1> DEFINE step == Filters(s).step
<1>1. step \in Positive
  BY FiltersType
<1>2. /\ Abs(raw) \in Nat /\ MaxSingleRebalanceNotional \in Nat
      /\ ConvergenceNum \in Nat /\ ConvergenceDen \in Positive /\ 1 \in Positive
  BY ConfigAssumption, AbsOfInt DEF Positive
<1>3. Abs(raw) * ConvergenceNum \in Nat
  BY <1>2, ProductOfNaturals
<1>4. ASSUME NEW num \in Nat, NEW den \in Positive
      PROVE  \E k \in Nat : RoundDownToStep(num, den, step) = k * step
  <2>1. den * step \in Positive
    BY <1>1, ProductOfPositives
  <2>2. num \div (den * step) \in Nat
    BY <2>1, DivBounds
  <2> QED
    BY <2>2 DEF RoundDownToStep
<1>5. /\ \E k \in Nat : RoundDownToStep(Abs(raw), 1, step) = k * step
      /\ \E k \in Nat : RoundDownToStep(MaxSingleRebalanceNotional, mark, step) = k * step
      /\ \E k \in Nat : RoundDownToStep(Abs(raw) * ConvergenceNum, ConvergenceDen, step)
                          = k * step
  BY <1>2, <1>3, <1>4
<1>6. ApplyConvergenceCap(raw, mark, Filters(s)) \in
         {RoundDownToStep(Abs(raw), 1, step),
          RoundDownToStep(MaxSingleRebalanceNotional, mark, step),
          RoundDownToStep(Abs(raw) * ConvergenceNum, ConvergenceDen, step)}
  BY DEF ApplyConvergenceCap, Lesser
<1> HIDE DEF step
<1> QED
  BY <1>5, <1>6 DEF step

LEMMA StepsAreTaken ==
    ASSUME NEW k \in Nat, NEW m \in Nat, NEW b \in Positive
    PROVE  (k * (m * b)) % b = 0
<1>1. k * m \in Nat /\ m * b \in Nat
  BY ProductOfNaturals DEF Positive
<1>2. k * (m * b) = (k * m) * b
  BY DEF Positive
<1> QED
  BY <1>1, <1>2, MultipleLeavesNoRest

\* With steps of which the larger is a multiple of the smaller, whatever else is
\* configured, Binance takes the order unless it closes for a flip.
THEOREM OrdersAreTakeable ==
    ASSUME AlignedSteps
    PROVE  Spec => []OrderIsTakeable
<1>1. IsEvaluated => OrderIsTakeable
  <2> SUFFICES ASSUME IsEvaluated, Ordered, decision.type # "REBALANCE_FLIP_CLOSE"
               PROVE  MeetsFilters(input.symbol, Size, decision.mark)
    BY DEF OrderIsTakeable
  <2> DEFINE s == input.symbol
             qty == ApplyConvergenceCap(decision.raw, decision.mark, Filters(s))
  <2>1. /\ s \in Symbols
        /\ Grounds(decision, s, input.source, input.actual, input.price)
        /\ Bounded(decision, s, input.actual)
    BY TableOrder
  <2>2. /\ decision.raw \in Int /\ decision.mark \in Positive
        /\ Abs(Size) = qty
    BY <2>1 DEF Bounded, Size
  <2>3. IsTradable(qty, decision.mark, Filters(s))
    BY <2>1 DEF Grounds
  <2>4. qty \in Nat
    BY <2>1, <2>2, CapBounds
  <2>5. PICK k \in Nat : qty = k * Filters(s).step
    BY <2>1, <2>2, CapIsRounded
  <2>6. LotSize[s] \in LotFilter /\ MarketLotSize[s] \in LotFilter /\ MinNotional[s] \in Nat
    BY <2>1, FilterAssumption
  <2> HIDE DEF qty
  <2>7. ASSUME NEW f \in {LotSize[s], MarketLotSize[s]}
        PROVE  qty >= f.min /\ qty <= f.max /\ qty % f.step = 0
    <3>1. f.step \in Positive /\ f.min \in Nat /\ f.max \in Nat
      BY <2>6 DEF LotFilter
    <3>2. Filters(s).min >= f.min /\ Filters(s).max <= f.max
      BY <2>6 DEF Filters, Greater, Lesser, LotFilter
    <3>3. Filters(s).min \in Nat /\ Filters(s).max \in Nat
      BY <2>1, FiltersType
    <3>4. qty >= f.min /\ qty <= f.max
      BY <2>3, <2>4, <3>1, <3>2, <3>3 DEF IsTradable
    <3>5. PICK m \in Nat : Filters(s).step = m * f.step
      BY <2>1 DEF AlignedSteps
    <3>6. qty % f.step = 0
      BY <2>5, <3>1, <3>5, StepsAreTaken
    <3> QED
      BY <3>4, <3>6
  <2>8. qty * decision.mark >= MinNotional[s]
    BY <2>3 DEF IsTradable, Filters
  <2> QED
    BY <2>2, <2>7, <2>8 DEF MeetsFilters
<1> QED
  BY <1>1, EvaluatedInvariant, PTL

-----------------------------------------------------------------------------
(* Long and short.                                                         *)

LEMMA AbsOfOpposite ==
    ASSUME NEW x \in Int
    PROVE  Abs(-x) = Abs(x)
  BY DEF Abs

\* The book turned round the mark price.
Mirrored(p) == [p EXCEPT !.bid = 2 * p.mark - p.ask, !.ask = 2 * p.mark - p.bid]

\* No quote is as much as twice the mark price.
TightBooks == \A p \in PriceSnapshots \ {NoPrice} : p.ask < 2 * p.mark /\ p.bid < 2 * p.mark

LEMMA MirroredPrice ==
    ASSUME NEW p \in PriceSnapshot, p.ask < 2 * p.mark, p.bid < 2 * p.mark
    PROVE  /\ Mirrored(p) \in PriceSnapshot
           /\ Mirrored(p).mark = p.mark
           /\ Mirrored(p) # NoPrice
           /\ PriceGuardPasses(Mirrored(p), TRUE) <=> PriceGuardPasses(p, FALSE)
           /\ PriceGuardPasses(Mirrored(p), FALSE) <=> PriceGuardPasses(p, TRUE)
<1> DEFINE q == Mirrored(p)
<1>1. p.mark \in Positive /\ p.bid \in Positive /\ p.ask \in Positive
  BY DEF PriceSnapshot
<1>2. 2 * p.mark - p.ask \in Positive /\ 2 * p.mark - p.bid \in Positive
  BY <1>1 DEF Positive
<1>3. q \in PriceSnapshot
  BY <1>2 DEF Mirrored, PriceSnapshot
<1>4. q.mark = p.mark /\ q.bid = 2 * p.mark - p.ask /\ q.ask = 2 * p.mark - p.bid
  BY <1>2 DEF Mirrored, PriceSnapshot
<1>5. /\ Abs(q.ask - q.mark) = Abs(p.bid - p.mark)
      /\ Abs(q.bid - q.mark) = Abs(p.ask - p.mark)
  BY <1>1, <1>4 DEF Abs, Positive
<1>6. /\ PriceGuardPasses(q, TRUE) <=> PriceGuardPasses(p, FALSE)
      /\ PriceGuardPasses(q, FALSE) <=> PriceGuardPasses(p, TRUE)
  BY <1>4, <1>5 DEF PriceGuardPasses, ExecutablePrice
<1> QED
  BY <1>3, <1>4, <1>6, NoPriceAssumption

LEMMA MirroredAction ==
    ASSUME NEW target \in Int, NEW held \in Int
    PROVE  SelectAction(-target, -held) = SelectAction(target, held)
  BY AbsOfOpposite DEF SelectAction

LEMMA MirroredCap ==
    ASSUME NEW raw \in Int, NEW mark, NEW f
    PROVE  ApplyConvergenceCap(-raw, mark, f) = ApplyConvergenceCap(raw, mark, f)
  BY AbsOfOpposite DEF ApplyConvergenceCap

LEMMA MirroredEvaluation ==
    ASSUME NEW s \in Symbols, NEW size \in Int, NEW held \in Int, NEW p \in PriceSnapshot,
           NEW isFresh \in BOOLEAN, NEW isCoolingDown \in BOOLEAN,
           p.ask < 2 * p.mark, p.bid < 2 * p.mark,
           NEW d, d = Evaluate(s, size, held, p, isFresh, isCoolingDown),
           NEW m, m = Evaluate(s, -size, -held, Mirrored(p), isFresh, isCoolingDown)
    PROVE  m.type = d.type /\ m.capped = -d.capped /\ m.actual = -d.actual
<1> DEFINE f == Filters(s)
           raw == ComputeTargetSize(size) - held
           qty == ApplyConvergenceCap(raw, p.mark, f)
           q == Mirrored(p)
<1>1. /\ q.mark = p.mark /\ p # NoPrice /\ q # NoPrice
      /\ PriceGuardPasses(q, TRUE) <=> PriceGuardPasses(p, FALSE)
      /\ PriceGuardPasses(q, FALSE) <=> PriceGuardPasses(p, TRUE)
  BY MirroredPrice, NoPriceAssumption
<1>2. /\ ComputeTargetSize(size) \in Int /\ raw \in Int
      /\ ComputeTargetSize(-size) = -ComputeTargetSize(size)
  BY TargetType, ConfigAssumption DEF ComputeTargetSize, Positive
<1>3. ComputeTargetSize(-size) - (-held) = -raw
  BY <1>2
<1>4. p.mark \in Positive
  BY DEF PriceSnapshot
<1>5. qty \in Nat
  BY <1>2, <1>4, CapBounds
<1>6. /\ ApplyConvergenceCap(-raw, p.mark, f) = qty
      /\ Abs(-raw) = Abs(raw) /\ Abs(-held) = Abs(held)
  BY <1>2, MirroredCap, AbsOfOpposite
<1>7. ExceedsDriftThreshold(Abs(raw), -held, p.mark)
        <=> ExceedsDriftThreshold(Abs(raw), held, p.mark)
  BY <1>6 DEF ExceedsDriftThreshold
<1>8. SelectAction(-ComputeTargetSize(size), -held) = SelectAction(ComputeTargetSize(size), held)
  BY <1>2, MirroredAction
<1>9. raw # 0 => (PriceGuardPasses(q, -raw > 0) <=> PriceGuardPasses(p, raw > 0))
  <2> SUFFICES ASSUME raw # 0
               PROVE  PriceGuardPasses(q, -raw > 0) <=> PriceGuardPasses(p, raw > 0)
    OBVIOUS
  <2> HIDE DEF raw, q
  <2>1. CASE raw > 0
    <3>1. (raw > 0) = TRUE /\ (-raw > 0) = FALSE
      BY <1>2, <2>1
    <3> QED
      BY <1>1, <3>1
  <2>2. CASE raw < 0
    <3>1. (raw > 0) = FALSE /\ (-raw > 0) = TRUE
      BY <1>2, <2>2
    <3> QED
      BY <1>1, <3>1
  <2> QED
    BY <1>2, <2>1, <2>2
<1>10. CASE ~isFresh \/ ~IsEligible(s) \/ isCoolingDown
  BY <1>10, <1>1 DEF Evaluate, SkipRecord
<1>11. CASE isFresh /\ IsEligible(s) /\ ~isCoolingDown /\ raw = 0
  <2>1. -raw = 0
    BY <1>11
  <2> QED
    BY <1>11, <1>3, <2>1 DEF Evaluate
<1>12. CASE isFresh /\ IsEligible(s) /\ ~isCoolingDown /\ raw # 0
  <2> DEFINE target == ComputeTargetSize(size)
             Record(type, capped, t, a, drift) ==
                 [type |-> type, target |-> t, actual |-> a, raw |-> drift,
                  capped |-> capped, mark |-> p.mark]
             Ruled(t, a, drift, signed, guarded) ==
                 IF ~IsTradable(qty, p.mark, f)
                 THEN Record("SKIP_BELOW_THRESHOLD", 0, t, a, drift)
                 ELSE IF ~ExceedsDriftThreshold(Abs(raw), held, p.mark)
                 THEN Record("SKIP_BELOW_THRESHOLD", signed, t, a, drift)
                 ELSE IF ~guarded
                 THEN Record("SKIP_PRICE_GUARD", signed, t, a, drift)
                 ELSE Record(SelectAction(target, held), signed, t, a, drift)
  <2>1. d = Ruled(target, held, raw, IF raw > 0 THEN qty ELSE -qty,
                  PriceGuardPasses(p, raw > 0))
    BY <1>1, <1>12 DEF Evaluate
  <2>2. -raw # 0
    BY <1>2, <1>12
  <2>3. m = Ruled(-target, -held, -raw, IF -raw > 0 THEN qty ELSE -qty,
                  PriceGuardPasses(p, raw > 0))
    <3> DEFINE other == ComputeTargetSize(-size) - (-held)
    <3>1. /\ other = -raw /\ other # 0
          /\ ComputeTargetSize(-size) = -target
          /\ ApplyConvergenceCap(other, q.mark, f) = qty
          /\ Abs(other) = Abs(raw)
          /\ PriceGuardPasses(q, other > 0) <=> PriceGuardPasses(p, raw > 0)
      BY <1>1, <1>2, <1>3, <1>6, <1>9, <1>12, <2>2
    <3>2. m = IF ~IsTradable(ApplyConvergenceCap(other, q.mark, f), q.mark, f)
              THEN Record("SKIP_BELOW_THRESHOLD", 0, ComputeTargetSize(-size), -held, other)
              ELSE IF ~ExceedsDriftThreshold(Abs(other), -held, q.mark)
              THEN Record("SKIP_BELOW_THRESHOLD",
                          IF other > 0 THEN ApplyConvergenceCap(other, q.mark, f)
                                       ELSE -ApplyConvergenceCap(other, q.mark, f),
                          ComputeTargetSize(-size), -held, other)
              ELSE IF ~PriceGuardPasses(q, other > 0)
              THEN Record("SKIP_PRICE_GUARD",
                          IF other > 0 THEN ApplyConvergenceCap(other, q.mark, f)
                                       ELSE -ApplyConvergenceCap(other, q.mark, f),
                          ComputeTargetSize(-size), -held, other)
              ELSE Record(SelectAction(ComputeTargetSize(-size), -held),
                          IF other > 0 THEN ApplyConvergenceCap(other, q.mark, f)
                                       ELSE -ApplyConvergenceCap(other, q.mark, f),
                          ComputeTargetSize(-size), -held, other)
      BY <1>1, <1>12, <3>1 DEF Evaluate
    <3> HIDE DEF other, target, raw, qty, q, f
    <3> QED
      BY <1>1, <1>7, <1>8, <3>1, <3>2 DEF target
  <2>4. (IF -raw > 0 THEN qty ELSE -qty) = -(IF raw > 0 THEN qty ELSE -qty)
    BY <1>2, <1>5, <1>12
  <2>5. m.type = d.type /\ m.capped = -d.capped /\ m.actual = -d.actual
    <3> HIDE DEF target, raw, qty, f
    <3>1. CASE ~IsTradable(qty, p.mark, f)
      <4>1. /\ d = Record("SKIP_BELOW_THRESHOLD", 0, target, held, raw)
            /\ m = Record("SKIP_BELOW_THRESHOLD", 0, -target, -held, -raw)
        BY <2>1, <2>3, <3>1
      <4>2. d.capped = 0 /\ m.capped = 0 /\ d.actual = held /\ m.actual = -held
        BY <4>1
      <4>3. \A a, b \in Int : a + b = 0 => a = -b
        OBVIOUS
      <4>4. m.capped = -d.capped
        BY <4>2, <4>3
      <4> QED
        BY <4>1, <4>2, <4>4
    <3>2. CASE IsTradable(qty, p.mark, f) /\ ~ExceedsDriftThreshold(Abs(raw), held, p.mark)
      BY <1>2, <2>1, <2>3, <2>4, <3>2
    <3>3. CASE /\ IsTradable(qty, p.mark, f) /\ ExceedsDriftThreshold(Abs(raw), held, p.mark)
               /\ ~PriceGuardPasses(p, raw > 0)
      BY <1>2, <2>1, <2>3, <2>4, <3>3
    <3>4. CASE /\ IsTradable(qty, p.mark, f) /\ ExceedsDriftThreshold(Abs(raw), held, p.mark)
               /\ PriceGuardPasses(p, raw > 0)
      BY <1>2, <2>1, <2>3, <2>4, <3>4
    <3> QED
      BY <3>1, <3>2, <3>3, <3>4
  <2> QED
    BY <2>5
<1> QED
  BY <1>10, <1>11, <1>12

\* Whatever is configured, evaluate() (strategy/reconciliation.py) treats long and short alike:
\* with every sign turned round, and the book with it, the decision is the same one turned round.
THEOREM LongIsShortMirrored ==
    ASSUME TightBooks
    PROVE  Spec => []LongShortSymmetry
<1>1. IsEvaluated => LongShortSymmetry
  <2> SUFFICES ASSUME IsEvaluated, decided, input.price # NoPrice
               PROVE  LongShortSymmetry
    BY DEF LongShortSymmetry
  <2> DEFINE mirror == Evaluate(input.symbol, -input.source, -input.actual,
                                Mirrored(input.price), input.isFresh, input.isCoolingDown)
  <2>1. /\ input.symbol \in Symbols /\ input.source \in Int /\ input.actual \in Int
        /\ input.price \in PriceSnapshot
        /\ input.isFresh \in BOOLEAN /\ input.isCoolingDown \in BOOLEAN
        /\ decision = Evaluate(input.symbol, input.source, input.actual, input.price,
                               input.isFresh, input.isCoolingDown)
    BY InputType DEF IsEvaluated, Price
  <2>2. input.price.ask < 2 * input.price.mark /\ input.price.bid < 2 * input.price.mark
    BY DEF IsEvaluated, Inputs, TightBooks
  <2>3. /\ mirror.type = decision.type
        /\ mirror.capped = -decision.capped
        /\ mirror.actual = -decision.actual
    <3> DEFINE book == input.price
               source == input.source
               actual == input.actual
               symbol == input.symbol
               isFresh == input.isFresh
               isCoolingDown == input.isCoolingDown
    <3>1. mirror = Evaluate(symbol, -source, -actual, Mirrored(book), isFresh, isCoolingDown)
      OBVIOUS
    <3> HIDE DEF mirror
    <3>2. /\ symbol \in Symbols /\ isFresh \in BOOLEAN /\ isCoolingDown \in BOOLEAN
          /\ source \in Int /\ actual \in Int /\ book \in PriceSnapshot
          /\ book.ask < 2 * book.mark /\ book.bid < 2 * book.mark
      BY <2>1, <2>2
    <3>3. decision = Evaluate(symbol, source, actual, book, isFresh, isCoolingDown)
      BY <2>1
    <3> HIDE DEF book, source, actual, symbol, isFresh, isCoolingDown
    <3> QED
      BY <3>1, <3>2, <3>3, MirroredEvaluation, SMTT(60)
  <2>4. decision \in Decision
    BY <2>1, EvaluateType DEF Price
  <2>5. decision.actual \in Int /\ decision.capped \in Int
    BY <2>4 DEF Decision
  <2>6. decision.type = "REBALANCE_FLIP_CLOSE" => decision.actual # 0
    <3> SUFFICES ASSUME decision.type = "REBALANCE_FLIP_CLOSE"
                 PROVE  decision.actual # 0
      OBVIOUS
    <3>1. Ordered
      BY DEF Ordered, IsExecutable, Rebalances
    <3>2. /\ Grounds(decision, input.symbol, input.source, input.actual, input.price)
          /\ Bounded(decision, input.symbol, input.actual)
      BY <3>1, TableOrder
    <3> QED
      BY <3>2 DEF Grounds, Bounded
  <2> HIDE DEF mirror
  <2>7. OrderSize(mirror) = -Size
    BY <2>3, <2>5, <2>6 DEF Size, OrderSize, FlipCloseDelta, Abs, Lesser
  <2> QED
    BY <2>3, <2>7 DEF mirror, Mirrored, LongShortSymmetry
<1> QED
  BY <1>1, EvaluatedInvariant, PTL
=============================================================================
