-------------------------- MODULE CopyTraderProofs --------------------------
(***************************************************************************)
(* What holds of the running program for every whitelist, configuration,   *)
(* wallet and exchange that the assumptions of CopyTrader allow.           *)
(***************************************************************************)
EXTENDS CopyTrader, ReconciliationProofs

-----------------------------------------------------------------------------
(* What the operators return.                                              *)

LEMMA SkipRecordType ==
    ASSUME NEW type \in Skips, NEW held \in Int, NEW mark \in Nat
    PROVE  SkipRecord(type, held, mark) \in Decision
  BY DEF SkipRecord, Decision, DecisionTypes

LEMMA OrderSizeType ==
    ASSUME NEW d \in Decision
    PROVE  OrderSize(d) \in Int
<1>1. d.capped \in Int /\ d.actual \in Int
  BY DEF Decision
<1> QED
  BY <1>1 DEF OrderSize, FlipCloseDelta, Lesser, Abs

\* The symbol whose position or price is being fetched.
LEMMA CollectingType ==
    ASSUME TypeOK, pc \in {"fetch_position", "fetch_price"}
    PROVE  Collecting \in Symbols
  BY ConfigAssumption DEF TypeOK, Collecting

\* The decision that is acted on, and its order.
LEMMA ActingType ==
    ASSUME TypeOK, pc \in {"act", "awaiting"}
    PROVE  /\ Symbol \in Symbols
           /\ Due \in Decision
           /\ OrderSize(Due) \in Int
<1>1. Acting \in 1 .. Len(Whitelist) /\ Acting \in 1 .. Len(decisions)
  BY DEF TypeOK, Acting
<1>2. Symbol \in Symbols /\ Due \in Decision
  BY <1>1, ConfigAssumption DEF TypeOK, Symbol, Due
<1> QED
  BY <1>2, OrderSizeType

LEMMA TakeType ==
    ASSUME TypeOK, NEW taken \in BOOLEAN, taken => pc = "awaiting", Take(taken)
    PROVE  working' \in [Symbols -> Int]
<1>1. CASE taken
  BY <1>1, ActingType DEF Take, TypeOK
<1>2. CASE ~taken
  BY <1>2 DEF Take, TypeOK
<1> QED
  BY <1>1, <1>2

LEMMA FailureStatusType ==
    ASSUME NEW answer \in AllAnswers \ {"accepted"}
    PROVE  FailureStatus(answer) \in Statuses
  BY DEF FailureStatus, Statuses, AllAnswers

-----------------------------------------------------------------------------
(* Type correctness.                                                       *)

LEMMA AddDecisionType ==
    ASSUME TypeOK, pc \in {"fetch_position", "fetch_price"},
           NEW d \in Decision, AddDecision(d)
    PROVE  TypeOK'
<1>1. /\ Len(decisions) \in Nat /\ Len(Whitelist) \in Nat
      /\ Len(decisions) < Len(Whitelist) /\ results = <<>>
  <2>1. Len(Whitelist) \in Nat
    BY ConfigAssumption
  <2>2. Len(decisions) \in Nat
    BY DEF TypeOK
  <2> QED
    BY <2>1, <2>2 DEF TypeOK
<1>2. decisions' \in Seq(Decision) /\ Len(decisions') = Len(decisions) + 1
  <2> HIDE DEF Decision
  <2>1. decisions \in Seq(Decision) /\ decisions' = Append(decisions, d)
    BY DEF TypeOK, AddDecision
  <2> QED
    BY <2>1
<1>3. UNCHANGED <<source, position, working, mode, failures, cooling, results>> /\ actual' = 0
  BY DEF AddDecision, exchangeVars, loopVars
<1>4. CASE Len(decisions) + 1 = Len(Whitelist)
  <2>1. pc' = "act" /\ snapshot' = NoSnapshot
    BY <1>4 DEF AddDecision
  <2> QED
    BY <1>1, <1>2, <1>3, <1>4, <2>1
    DEF TypeOK, NoSnapshot, Snapshot, States, Suspended
<1>5. CASE Len(decisions) + 1 # Len(Whitelist)
  <2>1. pc' = "fetch_position" /\ snapshot' = snapshot
    BY <1>5 DEF AddDecision
  <2> QED
    BY <1>1, <1>2, <1>3, <1>5, <2>1 DEF TypeOK, States, Suspended
<1> QED
  BY <1>4, <1>5

LEMMA ProceedType ==
    ASSUME TypeOK, pc \in {"act", "record"},
           NEW rows \in Seq(Statuses), Len(rows) \in 1 .. Len(decisions), Proceed(rows),
           UNCHANGED <<exchangeVars, loopVars, snapshot, actual>>
    PROVE  TypeOK'
<1>1. UNCHANGED <<source, position, working, mode, failures, cooling, snapshot, actual>>
  BY DEF exchangeVars, loopVars
<1>2. CASE Len(rows) = Len(decisions)
  <2>1. pc' = "sleeping" /\ decisions' = <<>> /\ results' = <<>>
    BY <1>2 DEF Proceed
  <2> QED
    BY <1>1, <2>1 DEF TypeOK, States, Suspended
<1>3. CASE Len(rows) # Len(decisions)
  <2>1. pc' = "act" /\ decisions' = decisions /\ results' = rows
    BY <1>3 DEF Proceed
  <2>2. Len(rows) < Len(decisions)
    BY <1>3 DEF TypeOK
  <2> QED
    BY <1>1, <2>1, <2>2 DEF TypeOK, States, Suspended
<1> QED
  BY <1>2, <1>3

\* An answer leaves its row in results.
LEMMA AnsweredType ==
    ASSUME TypeOK, pc = "awaiting", NEW status \in Statuses,
           working' \in [Symbols -> Int], mode' \in Modes, failures' \in Nat,
           cooling' \subseteq Symbols,
           results' = Append(results, status), pc' = "record",
           UNCHANGED <<source, position, snapshot, actual, decisions>>
    PROVE  TypeOK'
<1>1. Len(results) \in Nat /\ Len(decisions) \in Nat /\ Len(results) < Len(decisions)
  BY DEF TypeOK
<1>2. results' \in Seq(Statuses) /\ Len(results') = Len(results) + 1
  BY DEF TypeOK
<1> QED
  BY <1>1, <1>2 DEF TypeOK, States, Suspended

LEMMA FillType ==
    ASSUME TypeOK, NEW s \in Symbols, NEW q \in FilledOf(working[s])
    PROVE  q \in Int
<1>1. working[s] \in Int
  BY DEF TypeOK
<1> QED
  BY <1>1 DEF FilledOf, Lesser, Greater

LEMMA InitType == Init => TypeOK
<1> SUFFICES ASSUME Init PROVE TypeOK
  OBVIOUS
<1>1. source \in [Symbols -> Int] /\ position \in [Symbols -> Int]
  BY EnvironmentAssumption DEF Init
<1> QED
  BY <1>1
  DEF Init, TypeOK, States, Modes, NoSnapshot, Snapshot, Suspended

LEMMA ReadStepType ==
    ASSUME TypeOK, ReadStep
    PROVE  TypeOK'
<1> USE DEF exchangeVars, loopVars, cycleVars
<1>1. CASE WakeUp
  BY <1>1 DEF WakeUp, TypeOK, States, Suspended
<1>2. ASSUME NEW isRecent \in BOOLEAN, SourceFetched(isRecent)
      PROVE  TypeOK'
  <2>1. /\ pc = "fetch_source" /\ pc' = "fetch_position"
        /\ UNCHANGED <<source, position, working, mode, failures, cooling, actual,
                       decisions, results>>
    BY <1>2 DEF SourceFetched
  <2>2. snapshot' \in Snapshot
    BY <1>2 DEF SourceFetched, Snapshot, TypeOK, Normalized, IsFresh
  <2>3. Len(Whitelist) \in Nat \ {0} /\ decisions = <<>> /\ results = <<>>
    BY <2>1, ConfigAssumption DEF TypeOK, Suspended
  <2> QED
    BY <2>1, <2>2, <2>3 DEF TypeOK, States, Suspended
<1>3. CASE SourceUnavailable
  <2> DEFINE skip == SkipRecord("SKIP_DATA_UNAVAILABLE", 0, 0)
  <2>1. /\ pc = "fetch_source" /\ pc' = "act"
        /\ UNCHANGED <<source, position, working, mode, failures, cooling, snapshot,
                       actual, results>>
        /\ decisions' = [i \in DOMAIN Whitelist |-> skip]
    BY <1>3 DEF SourceUnavailable
  <2>2. skip \in Decision
    BY SkipRecordType DEF Skips
  <2>3. Len(Whitelist) \in Nat \ {0} /\ DOMAIN Whitelist = 1 .. Len(Whitelist)
    BY ConfigAssumption
  <2> HIDE DEF skip
  <2>4. decisions' \in Seq(Decision) /\ Len(decisions') = Len(Whitelist)
    BY <2>1, <2>2, <2>3
  <2>5. results = <<>>
    BY <2>1 DEF TypeOK, Suspended
  <2> QED
    BY <2>1, <2>3, <2>4, <2>5 DEF TypeOK, States, Suspended
<1>4. CASE SourceUnexpected
  BY <1>4 DEF SourceUnexpected, TypeOK, States, Suspended
<1>5. CASE PositionFetched
  <2>1. actual' \in Int
    BY <1>5, CollectingType DEF PositionFetched, TypeOK
  <2> QED
    BY <1>5, <2>1 DEF PositionFetched, TypeOK, States, Suspended
<1>6. CASE PositionMissing
  BY <1>6 DEF PositionMissing, TypeOK, States, Suspended
<1>7. ASSUME NEW p \in Prices, PriceFetched(p)
      PROVE  TypeOK'
  <2> DEFINE cool == IsCoolingDown(Collecting)
             d == Evaluate(Collecting, snapshot.size[Collecting], actual, p,
                           snapshot.fresh, cool)
  <2>1. pc = "fetch_price" /\ AddDecision(d)
    BY <1>7 DEF PriceFetched
  <2>2. Collecting \in Symbols
    BY <2>1, CollectingType
  <2>3. /\ snapshot.size[Collecting] \in Int /\ snapshot.fresh \in BOOLEAN
        /\ actual \in Int
    BY <2>2 DEF TypeOK, Snapshot
  <2>4. cool \in BOOLEAN
    BY DEF IsCoolingDown
  <2>5. p \in Price
    BY EnvironmentAssumption DEF Price
  <2> HIDE DEF cool
  <2>6. d \in Decision
    BY <2>2, <2>3, <2>4, <2>5, EvaluateType
  <2> QED
    BY <2>1, <2>6, AddDecisionType
<1>8. CASE BinanceUnavailable
  <2>1. SkipRecord("SKIP_DATA_UNAVAILABLE", 0, 0) \in Decision
    BY SkipRecordType DEF Skips
  <2> QED
    BY <1>8, <2>1, AddDecisionType DEF BinanceUnavailable
<1> QED
  BY <1>1, <1>2, <1>3, <1>4, <1>5, <1>6, <1>7, <1>8 DEF ReadStep

LEMMA ActStepType ==
    ASSUME TypeOK, ActStep
    PROVE  TypeOK'
<1>1. CASE PassOver
  <2> DEFINE status == IF ShouldExecute THEN "LOCAL_ERROR" ELSE "NONE"
             rows == Append(results, status)
  <2>1. status \in Statuses
    BY DEF Statuses
  <2>2. /\ pc = "act" /\ Proceed(rows)
        /\ UNCHANGED <<exchangeVars, loopVars, snapshot, actual>>
    BY <1>1 DEF PassOver
  <2>3. /\ results \in Seq(Statuses) /\ Len(results) < Len(decisions)
        /\ Len(decisions) \in Nat
    BY <2>2 DEF TypeOK
  <2> HIDE DEF status
  <2>4. rows \in Seq(Statuses) /\ Len(rows) \in 1 .. Len(decisions)
    BY <2>1, <2>3
  <2> QED
    BY <2>2, <2>4, ProceedType
<1>2. CASE Submit
  BY <1>2 DEF Submit, TypeOK, States, Suspended, exchangeVars, loopVars, cycleVars
<1>3. CASE OrderAccepted
  <2>1. pc = "awaiting" /\ Take(TRUE)
    BY <1>3 DEF OrderAccepted
  <2>2. working' \in [Symbols -> Int]
    BY <2>1, TakeType
  <2>3. cooling' \subseteq Symbols
    BY <1>3, <2>1, ActingType DEF OrderAccepted, RecordExecution, TypeOK
  <2>4. mode' \in Modes /\ failures' \in Nat /\ "ACCEPTED" \in Statuses
    BY <1>3 DEF OrderAccepted, TypeOK, Statuses
  <2> QED
    BY <1>3, <2>1, <2>2, <2>3, <2>4, AnsweredType DEF OrderAccepted
<1>4. ASSUME NEW answer \in AllAnswers \ {"accepted"}, NEW taken \in BOOLEAN,
             OrderFailed(answer, taken)
      PROVE  TypeOK'
  <2>1. pc = "awaiting" /\ Take(taken)
    BY <1>4 DEF OrderFailed
  <2>2. working' \in [Symbols -> Int]
    BY <2>1, TakeType
  <2>3. mode' \in Modes /\ failures' \in Nat
    BY <1>4 DEF OrderFailed, HandleExecutionFailure, TypeOK, Modes
  <2>4. cooling' \subseteq Symbols
    BY <1>4 DEF OrderFailed, TypeOK
  <2>5. FailureStatus(answer) \in Statuses
    BY FailureStatusType
  <2> QED
    BY <1>4, <2>1, <2>2, <2>3, <2>4, <2>5, AnsweredType DEF OrderFailed
<1>5. CASE ResultRecorded
  <2>1. results \in Seq(Statuses) /\ Len(results) \in 1 .. Len(decisions)
    BY <1>5 DEF ResultRecorded, TypeOK
  <2> QED
    BY <1>5, <2>1, ProceedType DEF ResultRecorded
<1> QED
  BY <1>1, <1>2, <1>3, <1>4, <1>5 DEF ActStep

LEMMA EnvironmentStepType ==
    ASSUME TypeOK, EnvironmentStep
    PROVE  TypeOK'
<1> USE DEF loopVars, cycleVars
<1>1. ASSUME NEW m \in StartModes, Start(m)
      PROVE  TypeOK'
  <2>1. m \in Modes
    BY EnvironmentAssumption
  <2> QED
    BY <1>1, <2>1 DEF Start, TypeOK, States, Suspended, exchangeVars
<1>2. ASSUME NEW s \in Symbols, NEW size \in SourceSizes, SourceMoves(s, size)
      PROVE  TypeOK'
  <2>1. size \in Int
    BY EnvironmentAssumption
  <2> QED
    BY <1>2, <2>1 DEF SourceMoves, TypeOK
<1>3. ASSUME NEW s \in Symbols, NEW q \in FilledOf(working[s]), Fill(s, q)
      PROVE  TypeOK'
  <2>1. q \in Int
    BY FillType
  <2>2. position' \in [Symbols -> Int] /\ working' \in [Symbols -> Int]
    BY <1>3, <2>1 DEF Fill, TypeOK
  <2> QED
    BY <1>3, <2>2 DEF Fill, TypeOK
<1>4. ASSUME NEW s \in Symbols, CooldownExpires(s)
      PROVE  TypeOK'
  BY <1>4 DEF CooldownExpires, TypeOK, exchangeVars
<1>5. ASSUME NEW taken \in BOOLEAN, Exit(taken)
      PROVE  TypeOK'
  <2>1. working' \in [Symbols -> Int]
    BY <1>5, TakeType DEF Exit
  <2> QED
    BY <1>5, <2>1 DEF Exit, TypeOK, States, Suspended, Modes, NoSnapshot, Snapshot
<1> QED
  BY <1>1, <1>2, <1>3, <1>4, <1>5 DEF EnvironmentStep

\* In every reachable state the locals of the cycle are what the await at which
\* the program is suspended finds: a list of decisions as long as the whitelist
\* once acting has begun, and never an index past its end.
THEOREM TypeCorrect == Spec => []TypeOK
<1>1. TypeOK /\ [Next]_vars => TypeOK'
  <2>1. TypeOK /\ Next => TypeOK'
    BY ReadStepType, ActStepType, EnvironmentStepType DEF Next
  <2>2. TypeOK /\ UNCHANGED vars => TypeOK'
    BY DEF TypeOK, vars, exchangeVars, loopVars, cycleVars
  <2> QED
    BY <2>1, <2>2
<1> QED
  BY InitType, <1>1, PTL DEF Spec

-----------------------------------------------------------------------------
(* The breaker.  The refinement needs to know that the counter is below    *)
(* the threshold, that an order is out only in live mode, and that no      *)
(* failure of an earlier run of the process is counted when it starts.     *)

Braked ==
    /\ AutoDowngradeEnabled => failures < AutoDowngradeThreshold
    /\ pc = "awaiting" => mode = "live"
    /\ pc = "down" => failures = 0

\* A step that neither moves to or from "down" and "awaiting" nor touches the mode
\* and the counter is none of the breaker's.
LEMMA QuietStep ==
    ASSUME Braked, pc \notin {"down", "awaiting"}, pc' \notin {"down", "awaiting"},
           UNCHANGED <<mode, failures>>
    PROVE  Braked' /\ UNCHANGED Breaker!vars
  BY DEF Braked, Breaker!vars

LEMMA ProceedIsQuiet ==
    ASSUME NEW rows, Proceed(rows)
    PROVE  pc' \in {"sleeping", "act"}
  BY DEF Proceed

LEMMA ReadStepBraked ==
    ASSUME Braked, ReadStep
    PROVE  Braked' /\ UNCHANGED Breaker!vars
<1> USE DEF loopVars
<1> SUFFICES /\ pc \notin {"down", "awaiting"} /\ pc' \notin {"down", "awaiting"}
             /\ UNCHANGED <<mode, failures>>
  BY QuietStep
<1>1. CASE WakeUp
  BY <1>1 DEF WakeUp
<1>2. CASE \E isRecent \in BOOLEAN : SourceFetched(isRecent)
  BY <1>2 DEF SourceFetched
<1>3. CASE SourceUnavailable \/ SourceUnexpected
  BY <1>3 DEF SourceUnavailable, SourceUnexpected
<1>4. CASE PositionFetched \/ PositionMissing
  BY <1>4 DEF PositionFetched, PositionMissing
<1>5. ASSUME NEW d, pc \in {"fetch_position", "fetch_price"}, AddDecision(d)
      PROVE  /\ pc \notin {"down", "awaiting"} /\ pc' \notin {"down", "awaiting"}
             /\ UNCHANGED <<mode, failures>>
  <2>1. pc' \in {"act", "fetch_position"}
    BY <1>5 DEF AddDecision
  <2> QED
    BY <1>5, <2>1 DEF AddDecision
<1>6. CASE \E p \in Prices : PriceFetched(p)
  BY <1>5, <1>6 DEF PriceFetched
<1>7. CASE BinanceUnavailable
  BY <1>5, <1>7 DEF BinanceUnavailable
<1> QED
  BY <1>1, <1>2, <1>3, <1>4, <1>6, <1>7 DEF ReadStep

LEMMA ActStepBraked ==
    ASSUME TypeOK, Braked, ActStep
    PROVE  Braked' /\ [Breaker!Next]_(Breaker!vars)
<1> USE DEF loopVars
<1>1. CASE PassOver
  BY <1>1, ProceedIsQuiet, QuietStep DEF PassOver
<1>2. CASE Submit
  <2>1. /\ pc = "act" /\ pc' = "awaiting" /\ mode = "live"
        /\ UNCHANGED <<mode, failures>>
    BY <1>2 DEF Submit, ShouldExecute, ModeAllowsExecution
  <2>2. Breaker!Place
    BY <2>1 DEF Breaker!Place
  <2> QED
    BY <2>1, <2>2 DEF Braked, Breaker!Next
<1>3. CASE OrderAccepted
  <2>1. /\ pc = "awaiting" /\ pc' = "record" /\ mode' = mode /\ failures' = 0
    BY <1>3 DEF OrderAccepted
  <2>2. Breaker!Confirm
    BY <2>1 DEF Breaker!Confirm
  <2> QED
    BY <2>1, <2>2, RuntimeAssumption DEF Braked, Breaker!Next, Positive
<1>4. ASSUME NEW answer, NEW taken, OrderFailed(answer, taken)
      PROVE  Braked' /\ [Breaker!Next]_(Breaker!vars)
  <2>1. /\ pc = "awaiting" /\ pc' = "record" /\ HandleExecutionFailure
    BY <1>4 DEF OrderFailed
  <2>2. failures \in Nat /\ AutoDowngradeThreshold \in Nat \ {0}
    BY RuntimeAssumption DEF TypeOK, Positive
  <2>3. mode = "live" /\ (AutoDowngradeEnabled => failures < AutoDowngradeThreshold)
    BY <2>1 DEF Braked
  <2>4. CASE AutoDowngradeEnabled /\ failures + 1 >= AutoDowngradeThreshold
    <3>1. mode' = "armed" /\ failures' = 0 /\ failures + 1 = AutoDowngradeThreshold
      BY <2>1, <2>2, <2>3, <2>4 DEF HandleExecutionFailure
    <3>2. Breaker!Trip
      BY <2>1, <2>4, <3>1 DEF Breaker!Trip
    <3> QED
      BY <2>1, <2>2, <3>1, <3>2 DEF Braked, Breaker!Next
  <2>5. CASE ~(AutoDowngradeEnabled /\ failures + 1 >= AutoDowngradeThreshold)
    <3>1. mode' = mode /\ failures' = failures + 1
      BY <2>1, <2>5 DEF HandleExecutionFailure
    <3>2. AutoDowngradeEnabled => failures + 1 < AutoDowngradeThreshold
      BY <2>2, <2>5
    <3>3. Breaker!Strike
      BY <2>1, <3>1, <3>2 DEF Breaker!Strike
    <3> QED
      BY <2>1, <2>3, <3>1, <3>2, <3>3 DEF Braked, Breaker!Next
  <2> QED
    BY <2>4, <2>5
<1>5. CASE ResultRecorded
  BY <1>5, ProceedIsQuiet, QuietStep DEF ResultRecorded
<1> QED
  BY <1>1, <1>2, <1>3, <1>4, <1>5 DEF ActStep

LEMMA EnvironmentStepBraked ==
    ASSUME Braked, EnvironmentStep
    PROVE  Braked' /\ [Breaker!Next]_(Breaker!vars)
<1> USE DEF loopVars
<1>1. ASSUME NEW m \in StartModes, Start(m)
      PROVE  Braked' /\ [Breaker!Next]_(Breaker!vars)
  <2>1. /\ pc = "down" /\ pc' = "fetch_source" /\ mode' = m
        /\ failures = 0 /\ failures' = 0
    BY <1>1 DEF Start, Braked
  <2>2. Breaker!PowerOn
    BY <2>1 DEF Breaker!PowerOn
  <2> QED
    BY <2>1, <2>2, RuntimeAssumption DEF Braked, Breaker!Next, Positive
<1>2. ASSUME UNCHANGED <<pc, mode, failures>>
      PROVE  Braked' /\ [Breaker!Next]_(Breaker!vars)
  BY <1>2 DEF Braked, Breaker!vars
<1>3. CASE \E s \in Symbols, size \in SourceSizes : SourceMoves(s, size)
  BY <1>2, <1>3 DEF SourceMoves
<1>4. CASE \E s \in Symbols : \E q \in FilledOf(working[s]) : Fill(s, q)
  BY <1>2, <1>4 DEF Fill
<1>5. CASE \E s \in Symbols : CooldownExpires(s)
  BY <1>2, <1>5 DEF CooldownExpires
<1>6. ASSUME NEW taken \in BOOLEAN, Exit(taken)
      PROVE  Braked' /\ [Breaker!Next]_(Breaker!vars)
  <2>1. pc # "down" /\ pc' = "down" /\ mode' = "observe" /\ failures' = 0
    BY <1>6 DEF Exit
  <2>2. Breaker!PowerOff
    BY <2>1 DEF Breaker!PowerOff
  <2> QED
    BY <2>1, <2>2, RuntimeAssumption DEF Braked, Breaker!Next, Positive
<1> QED
  BY <1>1, <1>3, <1>4, <1>5, <1>6 DEF EnvironmentStep

\* The program implements the breaker of docs/RUNTIME-STATE-MACHINE.md: failures
\* are counted across symbols and cycles, the threshold's failure in a row takes
\* the permission away before another order can go out, nothing sooner and nothing
\* else does while the process runs, an accepted order clears the count, and only
\* a start gives permission.
THEOREM ImplementsBreaker == Spec => BreakerHolds
<1>1. Init => Braked /\ Breaker!Init
  BY RuntimeAssumption DEF Init, Braked, Breaker!Init, Positive
<1>2. TypeOK /\ Braked /\ [Next]_vars => Braked' /\ [Breaker!Next]_(Breaker!vars)
  <2>1. TypeOK /\ Braked /\ Next => Braked' /\ [Breaker!Next]_(Breaker!vars)
    BY ReadStepBraked, ActStepBraked, EnvironmentStepBraked DEF Next
  <2>2. Braked /\ UNCHANGED vars => Braked' /\ UNCHANGED Breaker!vars
    BY DEF Braked, Breaker!vars, vars, loopVars
  <2> QED
    BY <2>1, <2>2
<1> QED
  BY <1>1, <1>2, TypeCorrect, PTL DEF Spec, Breaker!Spec, BreakerHolds

-----------------------------------------------------------------------------
(* The cooldown.  It is looked up when a decision is made and not again    *)
(* when its order is sent, so the invariant speaks of every decision that  *)
(* is still to be acted on: no answer that comes first may start the       *)
(* cooldown of its symbol.  That takes a whitelist without repetitions,    *)
(* which the configuration does not demand.                                *)

DistinctWhitelist ==
    \A i, j \in DOMAIN Whitelist : Whitelist[i] = Whitelist[j] => i = j

\* decisions[i] may still lead to an order.
Pending(i) ==
    /\ i \in DOMAIN decisions
    /\ i > Len(results)
    /\ IsExecutable(decisions[i])

Cold ==
    /\ \A i \in DOMAIN decisions : Pending(i) => Whitelist[i] \notin cooling
    /\ pc = "awaiting" => IsExecutable(Due)

LEMMA SkipIsNotExecutable ==
    ASSUME NEW type \in Skips, NEW held, NEW mark
    PROVE  ~IsExecutable(SkipRecord(type, held, mark))
<1>1. SkipRecord(type, held, mark).type = type
  BY DEF SkipRecord
<1> QED
  BY <1>1 DEF IsExecutable, Skips, Rebalances

LEMMA CoolingIsSkipped ==
    ASSUME NEW s, NEW size, NEW held, NEW p, NEW isFresh \in BOOLEAN,
           NEW isCoolingDown \in BOOLEAN, isCoolingDown
    PROVE  ~IsExecutable(Evaluate(s, size, held, p, isFresh, isCoolingDown))
  BY DEF Evaluate, SkipRecord, IsExecutable, Rebalances

\* A step that forgets decisions, or that leaves alone what Cold speaks of.
LEMMA ColdAgain ==
    ASSUME TypeOK, Cold, cooling' \subseteq cooling, pc' # "awaiting",
           \/ decisions' = <<>>
           \/ decisions' = decisions /\ Len(results') >= Len(results) /\ Len(results') \in Nat
    PROVE  Cold'
<1>1. CASE decisions' = <<>>
  BY <1>1 DEF Cold
<1>2. CASE /\ decisions' = decisions
           /\ Len(results') >= Len(results)
           /\ Len(results') \in Nat
  <2>1. Len(results) \in Nat /\ DOMAIN decisions = 1 .. Len(decisions)
    BY DEF TypeOK
  <2>2. ASSUME NEW i \in DOMAIN decisions', Pending(i)'
        PROVE  Pending(i)
    BY <1>2, <2>1, <2>2 DEF Pending
  <2> QED
    BY <1>2, <2>2 DEF Cold
<1> QED
  BY <1>1, <1>2

LEMMA AddDecisionCold ==
    ASSUME TypeOK, Cold, NEW d, AddDecision(d),
           pc \in {"fetch_position", "fetch_price"},
           IsExecutable(d) => Collecting \notin cooling
    PROVE  Cold'
<1>1. /\ decisions' = Append(decisions, d) /\ results' = results /\ cooling' = cooling
      /\ pc' # "awaiting"
  BY DEF AddDecision, loopVars
<1>2. decisions \in Seq(Decision) /\ Len(results) \in Nat
  BY DEF TypeOK
<1>3. ASSUME NEW i \in DOMAIN decisions', Pending(i)'
      PROVE  Whitelist[i] \notin cooling
  <2>1. CASE i = Len(decisions) + 1
    <3>1. decisions'[i] = d
      BY <1>1, <1>2, <2>1
    <3> QED
      BY <1>3, <2>1, <3>1 DEF Pending, Collecting
  <2>2. CASE i # Len(decisions) + 1
    <3>1. i \in DOMAIN decisions /\ decisions'[i] = decisions[i]
      BY <1>1, <1>2, <2>2
    <3> QED
      BY <1>1, <1>3, <3>1 DEF Pending, Cold
  <2> QED
    BY <2>1, <2>2
<1> QED
  BY <1>1, <1>3 DEF Cold

\* The answer to the order that is out.
LEMMA AnsweredCold ==
    ASSUME DistinctWhitelist, TypeOK, Cold, pc = "awaiting", pc' = "record",
           NEW status, results' = Append(results, status), decisions' = decisions,
           cooling' \subseteq cooling \cup {Symbol}
    PROVE  Cold'
<1>1. /\ Len(results) \in Nat /\ Len(results') = Len(results) + 1
      /\ results \in Seq(Statuses)
      /\ Acting \in DOMAIN Whitelist /\ Acting = Len(results) + 1
      /\ DOMAIN decisions = DOMAIN Whitelist /\ DOMAIN decisions = 1 .. Len(decisions)
  BY ConfigAssumption DEF TypeOK, Acting
<1>2. ASSUME NEW i \in DOMAIN decisions', Pending(i)'
      PROVE  Whitelist[i] \notin cooling'
  <2>1. Pending(i) /\ i # Acting
    BY <1>1, <1>2 DEF Pending
  <2>2. Whitelist[i] \notin cooling
    BY <1>2, <2>1 DEF Cold
  <2>3. Whitelist[i] # Symbol
    BY <1>1, <1>2, <2>1 DEF DistinctWhitelist, Symbol
  <2> QED
    BY <2>2, <2>3
<1> QED
  BY <1>2 DEF Cold

LEMMA ReadStepCold ==
    ASSUME TypeOK, Cold, ReadStep
    PROVE  Cold'
<1> USE DEF loopVars, cycleVars
<1>1. CASE WakeUp
  BY <1>1, ColdAgain DEF WakeUp, TypeOK
<1>2. CASE \E isRecent \in BOOLEAN : SourceFetched(isRecent)
  BY <1>2, ColdAgain DEF SourceFetched, TypeOK
<1>3. CASE SourceUnavailable
  <2> DEFINE skip == SkipRecord("SKIP_DATA_UNAVAILABLE", 0, 0)
  <2>1. ~IsExecutable(skip)
    BY SkipIsNotExecutable DEF Skips
  <2>2. decisions' = [i \in DOMAIN Whitelist |-> skip] /\ pc' = "act"
    BY <1>3 DEF SourceUnavailable
  <2> HIDE DEF skip
  <2> QED
    BY <2>1, <2>2 DEF Cold, Pending
<1>4. CASE SourceUnexpected
  BY <1>4, ColdAgain DEF SourceUnexpected, TypeOK
<1>5. CASE PositionFetched
  BY <1>5, ColdAgain DEF PositionFetched, TypeOK
<1>6. CASE PositionMissing
  BY <1>6, ColdAgain DEF PositionMissing, TypeOK
<1>7. ASSUME NEW p \in Prices, PriceFetched(p)
      PROVE  Cold'
  <2> DEFINE cool == IsCoolingDown(Collecting)
             d == Evaluate(Collecting, snapshot.size[Collecting], actual, p,
                           snapshot.fresh, cool)
  <2>1. pc = "fetch_price" /\ AddDecision(d)
    BY <1>7 DEF PriceFetched
  <2>2. cool \in BOOLEAN /\ snapshot.fresh \in BOOLEAN
    BY DEF IsCoolingDown, TypeOK, Snapshot
  <2>3. (Collecting \in cooling) => cool
    BY DEF IsCoolingDown
  <2> HIDE DEF cool
  <2>4. IsExecutable(d) => Collecting \notin cooling
    BY <2>2, <2>3, CoolingIsSkipped
  <2> QED
    BY <2>1, <2>4, AddDecisionCold
<1>8. CASE BinanceUnavailable
  <2>1. ~IsExecutable(SkipRecord("SKIP_DATA_UNAVAILABLE", 0, 0))
    BY SkipIsNotExecutable DEF Skips
  <2> QED
    BY <1>8, <2>1, AddDecisionCold DEF BinanceUnavailable
<1> QED
  BY <1>1, <1>2, <1>3, <1>4, <1>5, <1>6, <1>7, <1>8 DEF ReadStep

LEMMA ProceedCold ==
    ASSUME TypeOK, Cold, NEW rows \in Seq(Statuses), Len(rows) >= Len(results),
           Proceed(rows), cooling' = cooling
    PROVE  Cold'
<1>1. \/ decisions' = <<>>
      \/ decisions' = decisions /\ results' = rows
  BY DEF Proceed
<1>2. pc' # "awaiting"
  BY ProceedIsQuiet
<1> QED
  BY <1>1, <1>2, ColdAgain

LEMMA ActStepCold ==
    ASSUME DistinctWhitelist, TypeOK, Cold, ActStep
    PROVE  Cold'
<1> USE DEF loopVars, cycleVars
<1>1. CASE PassOver
  <2> DEFINE status == IF ShouldExecute THEN "LOCAL_ERROR" ELSE "NONE"
             rows == Append(results, status)
  <2>1. status \in Statuses /\ results \in Seq(Statuses)
    BY DEF Statuses, TypeOK
  <2>2. Proceed(rows) /\ cooling' = cooling
    BY <1>1 DEF PassOver
  <2> HIDE DEF status
  <2>3. rows \in Seq(Statuses) /\ Len(rows) >= Len(results)
    BY <2>1
  <2> QED
    BY <2>2, <2>3, ProceedCold
<1>2. CASE Submit
  <2>1. IsExecutable(Due) /\ UNCHANGED <<cooling, decisions, results>>
    BY <1>2 DEF Submit, ShouldExecute
  <2> QED
    BY <2>1 DEF Cold, Pending, Due, Acting
<1>3. CASE OrderAccepted
  <2>1. cooling' \subseteq cooling \cup {Symbol}
    BY <1>3 DEF OrderAccepted, RecordExecution
  <2> QED
    BY <1>3, <2>1, AnsweredCold DEF OrderAccepted
<1>4. CASE \E answer \in AllAnswers \ {"accepted"}, taken \in BOOLEAN :
              OrderFailed(answer, taken)
  BY <1>4, AnsweredCold DEF OrderFailed
<1>5. CASE ResultRecorded
  <2>1. results \in Seq(Statuses) /\ Len(results) >= Len(results)
    BY DEF TypeOK
  <2> QED
    BY <1>5, <2>1, ProceedCold DEF ResultRecorded
<1> QED
  BY <1>1, <1>2, <1>3, <1>4, <1>5 DEF ActStep

LEMMA EnvironmentStepCold ==
    ASSUME TypeOK, Cold, EnvironmentStep
    PROVE  Cold'
<1> USE DEF loopVars, cycleVars
<1>1. CASE \E m \in StartModes : Start(m)
  <2>1. decisions' = <<>> /\ pc' # "awaiting"
    BY <1>1 DEF Start, TypeOK, Suspended
  <2> QED
    BY <2>1 DEF Cold
<1>2. ASSUME cooling' \subseteq cooling, UNCHANGED <<pc, decisions, results>>
      PROVE  Cold'
  BY <1>2 DEF Cold, Pending, Due, Acting
<1>3. CASE \E s \in Symbols, size \in SourceSizes : SourceMoves(s, size)
  BY <1>2, <1>3 DEF SourceMoves
<1>4. CASE \E s \in Symbols : \E q \in FilledOf(working[s]) : Fill(s, q)
  BY <1>2, <1>4 DEF Fill
<1>5. CASE \E s \in Symbols : CooldownExpires(s)
  BY <1>2, <1>5 DEF CooldownExpires
<1>6. CASE \E taken \in BOOLEAN : Exit(taken)
  BY <1>6 DEF Exit, Cold
<1> QED
  BY <1>1, <1>3, <1>4, <1>5, <1>6 DEF EnvironmentStep

LEMMA ColdInvariant ==
    ASSUME DistinctWhitelist
    PROVE  Spec => []Cold
<1>1. Init => Cold
  BY DEF Init, Cold
<1>2. TypeOK /\ Cold /\ [Next]_vars => Cold'
  <2>1. TypeOK /\ Cold /\ Next => Cold'
    BY ReadStepCold, ActStepCold, EnvironmentStepCold DEF Next
  <2>2. Cold /\ UNCHANGED vars => Cold'
    BY DEF Cold, Pending, Due, Acting, vars, loopVars, cycleVars
  <2> QED
    BY <2>1, <2>2
<1> QED
  BY <1>1, <1>2, TypeCorrect, PTL DEF Spec

LEMMA ColdAtSubmission ==
    ASSUME TypeOK, Cold
    PROVE  NoOrderDuringCooldown
<1> SUFFICES ASSUME pc = "awaiting"
             PROVE  Symbol \notin cooling
  BY DEF NoOrderDuringCooldown
<1>1. Acting \in DOMAIN decisions /\ Acting > Len(results)
  BY DEF TypeOK, Acting
<1>2. Pending(Acting)
  BY <1>1 DEF Cold, Pending, Due
<1> QED
  BY <1>1, <1>2 DEF Cold, Symbol

\* No order goes out for a symbol in its cooldown, although only the making of
\* the decision looks: nothing that is answered between the two starts it.
THEOREM CooldownIsRespected ==
    ASSUME DistinctWhitelist
    PROVE  Spec => []NoOrderDuringCooldown
  BY ColdAtSubmission, TypeCorrect, ColdInvariant, PTL

-----------------------------------------------------------------------------
(* The cooldown is the program's only memory of an order: a symbol that    *)
(* has something unfilled is cooling down.                                 *)

\* Fills come within the cooldown, every order is answered truly, and the process
\* is not restarted.  Each is needed: without any one of them an order goes out
\* blindly.
Gentle ==
    /\ FillTiming = "within_cooldown"
    /\ Answers \subseteq {"accepted", "rejected"}
    /\ SymbolCooldownSeconds > 0
    /\ ~MayExit

Remembered ==
    /\ \A s \in Symbols : working[s] # 0 => s \in cooling
    /\ pc = "down" => cooling = {}

LEMMA ProceedIsUp ==
    ASSUME NEW rows, Proceed(rows)
    PROVE  pc' # "down"
  BY DEF Proceed

LEMMA RememberedStep ==
    ASSUME Gentle, TypeOK, Remembered, Next
    PROVE  Remembered'
<1> USE DEF exchangeVars, loopVars
<1>1. ASSUME UNCHANGED <<working, cooling>>, pc' # "down" \/ pc' = pc
      PROVE  Remembered'
  BY <1>1 DEF Remembered
<1>2. CASE ReadStep
  <2>1. UNCHANGED <<working, cooling>> /\ pc' # "down"
    BY <1>2
    DEF ReadStep, WakeUp, SourceFetched, SourceUnavailable, SourceUnexpected,
        PositionFetched, PositionMissing, PriceFetched, BinanceUnavailable, AddDecision
  <2> QED
    BY <1>1, <2>1
<1>3. CASE PassOver
  BY <1>1, <1>3, ProceedIsUp DEF PassOver
<1>4. CASE Submit
  BY <1>1, <1>4 DEF Submit
<1>5. CASE OrderAccepted
  <2>1. cooling' = cooling \cup {Symbol}
    BY <1>5 DEF OrderAccepted, RecordExecution, Gentle
  <2>2. \A s \in Symbols : s # Symbol => working'[s] = working[s]
    BY <1>5 DEF OrderAccepted, Take, TypeOK
  <2>3. pc' = "record"
    BY <1>5 DEF OrderAccepted
  <2> QED
    BY <2>1, <2>2, <2>3 DEF Remembered
<1>6. ASSUME NEW answer \in AllAnswers \ {"accepted"}, NEW taken \in BOOLEAN,
             OrderFailed(answer, taken)
      PROVE  Remembered'
  <2>1. answer = "rejected"
    BY <1>6 DEF OrderFailed, Gentle
  <2>2. ~taken
    BY <1>6, <2>1 DEF OrderFailed, MayBeTaken
  <2> QED
    BY <1>1, <1>6, <2>2 DEF OrderFailed, Take
<1>7. CASE ResultRecorded
  BY <1>1, <1>7, ProceedIsUp DEF ResultRecorded
<1>8. CASE \E m \in StartModes : Start(m)
  <2>1. /\ pc = "down" /\ pc' # "down" /\ working' = working /\ cooling' = {}
    BY <1>8 DEF Start
  <2> QED
    BY <2>1 DEF Remembered
<1>9. CASE \E s \in Symbols, size \in SourceSizes : SourceMoves(s, size)
  BY <1>1, <1>9 DEF SourceMoves
<1>10. ASSUME NEW s \in Symbols, NEW q, Fill(s, q)
       PROVE  Remembered'
  <2>1. /\ \A r \in Symbols : working'[r] # 0 => working[r] # 0
        /\ UNCHANGED <<pc, cooling>>
    BY <1>10 DEF Fill, TypeOK
  <2> QED
    BY <2>1 DEF Remembered
<1>11. ASSUME NEW s \in Symbols, CooldownExpires(s)
       PROVE  Remembered'
  <2>1. /\ working[s] = 0 /\ cooling' = cooling \ {s} /\ UNCHANGED <<pc, working>>
    BY <1>11 DEF CooldownExpires, Gentle
  <2> QED
    BY <2>1 DEF Remembered
<1>12. ASSUME NEW taken \in BOOLEAN, Exit(taken)
       PROVE  Remembered'
  BY <1>12 DEF Exit, Gentle
<1> QED
  BY <1>2, <1>3, <1>4, <1>5, <1>6, <1>7, <1>8, <1>9, <1>10, <1>11, <1>12
  DEF Next, ActStep, EnvironmentStep

\* No order is sent while an earlier one for its symbol is unfilled.
THEOREM NoOrderIsBlind ==
    ASSUME Gentle, DistinctWhitelist
    PROVE  Spec => []NoBlindOrder
<1>1. Init => Remembered
  BY DEF Init, Remembered
<1>2. TypeOK /\ Remembered /\ [Next]_vars => Remembered'
  <2>1. Remembered /\ UNCHANGED vars => Remembered'
    BY DEF Remembered, vars, exchangeVars, loopVars
  <2> QED
    BY <2>1, RememberedStep
<1>3. TypeOK /\ Remembered /\ NoOrderDuringCooldown => NoBlindOrder
  BY ActingType DEF Remembered, NoOrderDuringCooldown, NoBlindOrder
<1> QED
  BY <1>1, <1>2, <1>3, TypeCorrect, CooldownIsRespected, PTL DEF Spec

-----------------------------------------------------------------------------
(* The audit trail of a cycle.                                             *)

\* As long as no payload trips normalize_snapshot() over, a cycle that is not killed
\* ends with one decision for each whitelisted symbol, whatever reads failed.
THEOREM CyclesAreComplete ==
    ASSUME "source_malformed" \notin ReadFaults
    PROVE  Spec => OneOutcomePerSymbol
<1> DEFINE Complete == pc # "sleeping" /\ pc' = "sleeping" => Len(decisions) = Len(Whitelist)
<1>1. TypeOK /\ [Next]_vars => [Complete]_vars
  <2> SUFFICES ASSUME TypeOK, Next, pc # "sleeping", pc' = "sleeping"
               PROVE  Len(decisions) = Len(Whitelist)
    OBVIOUS
  <2>1. ~ReadStep
    BY DEF ReadStep, WakeUp, SourceFetched, SourceUnavailable, SourceUnexpected,
           PositionFetched, PositionMissing, PriceFetched, BinanceUnavailable, AddDecision
  <2>2. ~EnvironmentStep
    BY DEF EnvironmentStep, Start, SourceMoves, Fill, CooldownExpires, Exit
  <2>3. pc \in {"act", "awaiting", "record"}
    BY <2>1, <2>2 DEF Next, ActStep, PassOver, Submit, OrderAccepted, OrderFailed,
                      ResultRecorded
  <2> QED
    BY <2>3 DEF TypeOK
<1> QED
  BY <1>1, TypeCorrect, PTL DEF Spec, OneOutcomePerSymbol

-----------------------------------------------------------------------------
(* Orders that rest on the true position: with fills before the next cycle *)
(* the program knows what it trades against, every order brings the        *)
(* account nearer to the target, and no fill turns a position round.       *)

\* Every order, one of unknown fate too, is filled while the program sleeps, a
\* position is never left out of an answer, the process is not restarted, and no
\* symbol is listed twice.
Undisturbed ==
    /\ FillTiming = "before_next_cycle"
    /\ "position_missing" \notin ReadFaults
    /\ ~MayExit
    /\ DistinctWhitelist

-----------------------------------------------------------------------------
(* One order.                                                              *)

\* From a to b without passing zero.
SameSide(a, b) == ~(a < 0 /\ b > 0) /\ ~(a > 0 /\ b < 0)

\* The order of a decision is a step towards its target, and turns nothing round.
Approaches(d) ==
    LET after == d.actual + OrderSize(d)
    IN  /\ \/ d.actual < after /\ after <= d.target
           \/ d.actual > after /\ after >= d.target
        /\ SameSide(d.actual, after)

LEMMA EvaluatedOrderApproaches ==
    ASSUME NEW s \in Symbols, NEW size \in Int, NEW held \in Int, NEW p \in Price,
           NEW isFresh \in BOOLEAN, NEW isCoolingDown \in BOOLEAN,
           NEW d, d = Evaluate(s, size, held, p, isFresh, isCoolingDown),
           IsExecutable(d)
    PROVE  d.actual = held /\ Approaches(d)
<1>1. d \in Decision
  BY EvaluateType
<1>2. Grounds(d, s, size, held, p)
  BY ExecutableDecision
<1>3. Bounded(d, s, held)
  BY <1>1, <1>2, OrderSizeBounds
<1> DEFINE qty == ApplyConvergenceCap(d.raw, d.mark, Filters(s))
           after == d.actual + OrderSize(d)
<1>4. d.actual = held /\ d.raw = d.target - d.actual
  BY <1>2 DEF Grounds
<1>5. /\ d.raw \in Int /\ d.target \in Int /\ d.actual \in Int /\ d.mark \in Positive
      /\ OrderSize(d) \in Int /\ OrderSize(d) # 0
      /\ (OrderSize(d) > 0) <=> (d.raw > 0)
      /\ Abs(OrderSize(d)) <= qty
  BY <1>3, <1>4 DEF Bounded
<1>6. qty \in Nat /\ qty <= Abs(d.raw)
  BY <1>5, CapBounds
<1> HIDE DEF qty
<1>7. Abs(OrderSize(d)) <= Abs(d.raw)
  BY <1>5, <1>6, AbsOfInt
<1>8. \/ d.actual < after /\ after <= d.target
      \/ d.actual > after /\ after >= d.target
  BY <1>4, <1>5, <1>7 DEF Abs
<1>9. SameSide(d.actual, after)
  <2>1. CASE d.type = "REBALANCE_FLIP_CLOSE"
    <3>1. d.capped \in Int
      BY <1>1 DEF Decision
    <3>2. Abs(OrderSize(d)) <= Abs(d.actual)
      BY <1>5, <2>1, <3>1 DEF OrderSize, FlipCloseDelta, Lesser, Abs
    <3> QED
      BY <1>5, <3>2 DEF SameSide, Abs
  <2>2. CASE d.type # "REBALANCE_FLIP_CLOSE"
    <3>1. ~((d.actual > 0) # (d.target > 0)) \/ d.target = 0 \/ d.actual = 0
      BY <1>2, <2>2 DEF Grounds, SelectAction
    <3> QED
      BY <1>5, <1>8, <3>1 DEF SameSide
  <2> QED
    BY <2>1, <2>2
<1> QED
  BY <1>4, <1>8, <1>9 DEF Approaches

-----------------------------------------------------------------------------
(* The inductive invariant.                                                *)

\* What a decision that may still become an order rests on.
Grounded(i) ==
    /\ working[Whitelist[i]] = 0
    /\ decisions[i].actual = position[Whitelist[i]]
    /\ Approaches(decisions[i])

Known ==
    /\ pc \in {"down", "fetch_source", "fetch_position", "fetch_price"} =>
          \A s \in Symbols : working[s] = 0
    /\ pc = "fetch_price" => actual = position[Collecting]
    /\ \A i \in DOMAIN decisions : Pending(i) => Grounded(i)
    /\ pc = "awaiting" => Pending(Acting)

\* No order at work would turn the position round.
NoneTurns == \A s \in Symbols : SameSide(position[s], position[s] + working[s])

KInv == TypeOK /\ Known /\ NoneTurns

\* A step of the program that moves no quantity and leaves no more decisions
\* to act on than there were.
LEMMA KnownAgain ==
    ASSUME KInv, UNCHANGED <<position, working>>,
           pc' \notin {"down", "fetch_source", "fetch_price", "awaiting"},
           pc' = "fetch_position" => pc \in {"fetch_source", "fetch_position", "fetch_price"},
           \/ decisions' = <<>>
           \/ decisions' = decisions /\ Len(results') >= Len(results) /\ Len(results') \in Nat
    PROVE  Known' /\ NoneTurns'
<1>1. NoneTurns'
  BY DEF KInv, NoneTurns
<1>2. CASE decisions' = <<>>
  BY <1>1, <1>2 DEF KInv, Known
<1>3. CASE /\ decisions' = decisions
           /\ Len(results') >= Len(results)
           /\ Len(results') \in Nat
  <2>1. Len(results) \in Nat /\ DOMAIN decisions = 1 .. Len(decisions)
    BY DEF KInv, TypeOK
  <2>2. ASSUME NEW i \in DOMAIN decisions', Pending(i)'
        PROVE  Grounded(i)'
    <3>1. Pending(i)
      BY <1>3, <2>1, <2>2 DEF Pending
    <3> QED
      BY <1>3, <3>1 DEF KInv, Known, Grounded, Pending
  <2> QED
    BY <1>1, <2>2 DEF KInv, Known
<1> QED
  BY <1>1, <1>2, <1>3

LEMMA AddDecisionKnown ==
    ASSUME KInv, NEW d, AddDecision(d), pc \in {"fetch_position", "fetch_price"},
           IsExecutable(d) => d.actual = position[Collecting] /\ Approaches(d)
    PROVE  Known' /\ NoneTurns'
<1>1. /\ decisions' = Append(decisions, d) /\ results' = results
      /\ UNCHANGED <<position, working>>
      /\ pc' \in {"act", "fetch_position"}
  BY DEF AddDecision, exchangeVars
<1>2. decisions \in Seq(Decision) /\ Len(results) \in Nat
  BY DEF KInv, TypeOK
<1>3. working[Collecting] = 0 /\ Collecting \in Symbols
  BY CollectingType DEF KInv, Known
<1>4. ASSUME NEW i \in DOMAIN decisions', Pending(i)'
      PROVE  Grounded(i)'
  <2>1. CASE i = Len(decisions) + 1
    <3>1. decisions'[i] = d
      BY <1>1, <1>2, <2>1
    <3>2. IsExecutable(d)
      BY <1>4, <3>1 DEF Pending
    <3> QED
      BY <1>1, <1>3, <2>1, <3>1, <3>2 DEF Grounded, Collecting
  <2>2. CASE i # Len(decisions) + 1
    <3>1. i \in DOMAIN decisions /\ decisions'[i] = decisions[i]
      BY <1>1, <1>2, <2>2
    <3> QED
      BY <1>1, <1>4, <3>1 DEF KInv, Known, Pending, Grounded
  <2> QED
    BY <2>1, <2>2
<1> QED
  BY <1>1, <1>4 DEF KInv, Known, NoneTurns

LEMMA ReadStepKnown ==
    ASSUME Undisturbed, KInv, ReadStep
    PROVE  Known' /\ NoneTurns'
<1> USE DEF exchangeVars, cycleVars
<1>1. CASE WakeUp
  BY <1>1 DEF WakeUp, Undisturbed, KInv, Known, NoneTurns, TypeOK, Suspended
<1>2. CASE \E isRecent \in BOOLEAN : SourceFetched(isRecent)
  BY <1>2, KnownAgain DEF SourceFetched, KInv, TypeOK
<1>3. CASE SourceUnavailable
  <2> DEFINE skip == SkipRecord("SKIP_DATA_UNAVAILABLE", 0, 0)
  <2>1. ~IsExecutable(skip)
    BY SkipIsNotExecutable DEF Skips
  <2>2. /\ decisions' = [i \in DOMAIN Whitelist |-> skip] /\ pc' = "act"
        /\ UNCHANGED <<position, working>>
    BY <1>3 DEF SourceUnavailable
  <2> HIDE DEF skip
  <2>3. \A i \in DOMAIN decisions' : ~Pending(i)'
    BY <2>1, <2>2 DEF Pending
  <2> QED
    BY <2>2, <2>3 DEF KInv, Known, NoneTurns
<1>4. CASE SourceUnexpected
  BY <1>4, KnownAgain DEF SourceUnexpected, KInv, TypeOK
<1>5. CASE PositionFetched
  <2>1. /\ pc = "fetch_position" /\ pc' = "fetch_price" /\ actual' = position[Collecting]
        /\ UNCHANGED <<position, working, decisions, results>>
    BY <1>5 DEF PositionFetched
  <2> QED
    BY <2>1 DEF KInv, Known, NoneTurns, Collecting, Pending, Grounded
<1>6. ~PositionMissing
  BY DEF PositionMissing, Undisturbed
<1>7. ASSUME NEW p \in Prices, PriceFetched(p)
      PROVE  Known' /\ NoneTurns'
  <2> DEFINE size == snapshot.size[Collecting]
             cool == IsCoolingDown(Collecting)
             d == Evaluate(Collecting, size, actual, p, snapshot.fresh, cool)
  <2>1. pc = "fetch_price" /\ AddDecision(d)
    BY <1>7 DEF PriceFetched
  <2>2. Collecting \in Symbols
    BY <2>1, CollectingType DEF KInv
  <2>3. /\ size \in Int /\ snapshot.fresh \in BOOLEAN /\ actual \in Int
        /\ cool \in BOOLEAN /\ p \in Price
    BY <2>2, EnvironmentAssumption DEF KInv, TypeOK, Snapshot, IsCoolingDown, Price
  <2>4. actual = position[Collecting]
    BY <2>1 DEF KInv, Known
  <2> HIDE DEF size, cool
  <2>5. IsExecutable(d) => d.actual = position[Collecting] /\ Approaches(d)
    BY <2>2, <2>3, <2>4, EvaluatedOrderApproaches
  <2> QED
    BY <2>1, <2>5, AddDecisionKnown
<1>8. CASE BinanceUnavailable
  <2>1. ~IsExecutable(SkipRecord("SKIP_DATA_UNAVAILABLE", 0, 0))
    BY SkipIsNotExecutable DEF Skips
  <2> QED
    BY <1>8, <2>1, AddDecisionKnown DEF BinanceUnavailable
<1> QED
  BY <1>1, <1>2, <1>3, <1>4, <1>5, <1>6, <1>7, <1>8 DEF ReadStep

\* An order that is taken is one of a symbol that has none at work.
LEMMA AnsweredKnown ==
    ASSUME Undisturbed, KInv, pc = "awaiting", pc' = "record",
           NEW status, results' = Append(results, status),
           UNCHANGED <<position, decisions>>,
           NEW taken \in BOOLEAN, Take(taken)
    PROVE  Known' /\ NoneTurns'
<1>1. /\ Len(results) \in Nat /\ Len(results') = Len(results) + 1
      /\ results \in Seq(Statuses)
      /\ Acting \in DOMAIN Whitelist /\ Acting = Len(results) + 1
      /\ DOMAIN decisions = DOMAIN Whitelist /\ DOMAIN decisions = 1 .. Len(decisions)
  BY ConfigAssumption DEF KInv, TypeOK, Acting
<1>2. Symbol \in Symbols /\ OrderSize(Due) \in Int
  BY ActingType DEF KInv
<1>3. /\ working[Symbol] = 0 /\ Due.actual = position[Symbol]
      /\ SameSide(Due.actual, Due.actual + OrderSize(Due))
  BY <1>1 DEF KInv, Known, Grounded, Approaches, Symbol, Due
<1>4. /\ \A s \in Symbols \ {Symbol} : working'[s] = working[s]
      /\ working'[Symbol] \in {0, OrderSize(Due)}
  BY <1>2, <1>3 DEF Take, KInv, TypeOK
<1>5. ASSUME NEW i \in DOMAIN decisions', Pending(i)'
      PROVE  Grounded(i)'
  <2>1. Pending(i) /\ i # Acting
    BY <1>1, <1>5 DEF Pending
  <2>2. Whitelist[i] # Symbol /\ Whitelist[i] \in Symbols
    <3>1. i \in DOMAIN Whitelist
      BY <1>1, <1>5
    <3>2. Whitelist[i] # Symbol
      BY <1>1, <2>1, <3>1 DEF Undisturbed, DistinctWhitelist, Symbol
    <3> QED
      BY <3>1, <3>2, ConfigAssumption
  <2> QED
    BY <1>4, <1>5, <2>1, <2>2 DEF KInv, Known, Grounded
<1>6. NoneTurns'
  <2> SUFFICES ASSUME NEW s \in Symbols
               PROVE  SameSide(position[s], position[s] + working'[s])
    BY DEF NoneTurns
  <2>1. CASE s = Symbol
    <3>1. position[s] \in Int
      BY DEF KInv, TypeOK
    <3> QED
      BY <1>3, <1>4, <2>1, <3>1 DEF SameSide
  <2>2. CASE s # Symbol
    BY <1>4, <2>2 DEF KInv, NoneTurns
  <2> QED
    BY <2>1, <2>2
<1> QED
  BY <1>5, <1>6 DEF KInv, Known

LEMMA ProceedKnown ==
    ASSUME KInv, NEW rows \in Seq(Statuses), Len(rows) >= Len(results),
           Proceed(rows), UNCHANGED <<position, working>>
    PROVE  Known' /\ NoneTurns'
<1>1. \/ decisions' = <<>>
      \/ decisions' = decisions /\ results' = rows
  BY DEF Proceed
<1>2. pc' \in {"act", "sleeping"}
  BY DEF Proceed
<1> QED
  BY <1>1, <1>2, KnownAgain

LEMMA ActStepKnown ==
    ASSUME Undisturbed, KInv, ActStep
    PROVE  Known' /\ NoneTurns'
<1> USE DEF exchangeVars, cycleVars
<1>1. CASE PassOver
  <2> DEFINE status == IF ShouldExecute THEN "LOCAL_ERROR" ELSE "NONE"
             rows == Append(results, status)
  <2>1. status \in Statuses /\ results \in Seq(Statuses)
    BY DEF Statuses, KInv, TypeOK
  <2>2. Proceed(rows) /\ UNCHANGED <<position, working>>
    BY <1>1 DEF PassOver
  <2> HIDE DEF status
  <2>3. rows \in Seq(Statuses) /\ Len(rows) >= Len(results)
    BY <2>1
  <2> QED
    BY <2>2, <2>3, ProceedKnown
<1>2. CASE Submit
  <2>1. /\ IsExecutable(Due) /\ UNCHANGED <<position, working, decisions, results>>
        /\ pc = "act" /\ pc' = "awaiting"
    BY <1>2 DEF Submit, ShouldExecute
  <2>2. Acting \in DOMAIN decisions /\ Acting > Len(results)
    BY <2>1 DEF KInv, TypeOK, Acting
  <2>3. Pending(Acting)
    BY <2>1, <2>2 DEF Pending, Due
  <2> QED
    BY <2>1, <2>3 DEF KInv, Known, NoneTurns, Pending, Grounded, Acting
<1>3. CASE OrderAccepted
  BY <1>3, AnsweredKnown DEF OrderAccepted
<1>4. CASE \E answer \in AllAnswers \ {"accepted"}, taken \in BOOLEAN :
              OrderFailed(answer, taken)
  BY <1>4, AnsweredKnown DEF OrderFailed
<1>5. CASE ResultRecorded
  <2>1. results \in Seq(Statuses) /\ Len(results) >= Len(results)
    BY DEF KInv, TypeOK
  <2> QED
    BY <1>5, <2>1, ProceedKnown DEF ResultRecorded
<1> QED
  BY <1>1, <1>2, <1>3, <1>4, <1>5 DEF ActStep

\* A fill stays on its side of zero.
LEMMA FillStaysOnSide ==
    ASSUME KInv, NEW s \in Symbols, NEW q \in FilledOf(working[s]), Fill(s, q)
    PROVE  /\ SameSide(position[s], position'[s])
           /\ \A r \in Symbols \ {s} : position'[r] = position[r] /\ working'[r] = working[r]
           /\ working'[s] = 0 /\ position'[s] \in Int
<1>1. /\ q \in Int /\ position[s] \in Int /\ working[s] \in Int
      /\ SameSide(position[s], position[s] + working[s])
  BY FillType DEF KInv, TypeOK, NoneTurns
<1>2. /\ position'[s] = position[s] + q /\ working'[s] = 0
      /\ \A r \in Symbols \ {s} : position'[r] = position[r] /\ working'[r] = working[r]
  BY DEF Fill, KInv, TypeOK
<1>3. \/ q > 0 /\ q <= working[s]
      \/ q < 0 /\ q >= working[s]
  BY <1>1 DEF FilledOf, Lesser, Greater, Fill
<1> QED
  BY <1>1, <1>2, <1>3 DEF SameSide

LEMMA EnvironmentStepKnown ==
    ASSUME Undisturbed, KInv, EnvironmentStep
    PROVE  Known' /\ NoneTurns'
<1> USE DEF exchangeVars, cycleVars
<1>1. CASE \E m \in StartModes : Start(m)
  <2>1. /\ pc = "down" /\ pc' = "fetch_source" /\ decisions' = <<>>
        /\ UNCHANGED <<position, working>>
    BY <1>1 DEF Start, KInv, TypeOK, Suspended
  <2> QED
    BY <2>1 DEF KInv, Known, NoneTurns
<1>2. ASSUME UNCHANGED <<position, working, pc, actual, decisions, results>>
      PROVE  Known' /\ NoneTurns'
  BY <1>2 DEF KInv, Known, NoneTurns, Collecting, Pending, Grounded, Acting
<1>3. CASE \E s \in Symbols, size \in SourceSizes : SourceMoves(s, size)
  BY <1>2, <1>3 DEF SourceMoves
<1>4. ASSUME NEW s \in Symbols, NEW q \in FilledOf(working[s]), Fill(s, q)
      PROVE  Known' /\ NoneTurns'
  <2>1. UNCHANGED <<pc, actual, decisions, results>> /\ working[s] # 0
    BY <1>4 DEF Fill
  <2>2. /\ \A r \in Symbols \ {s} : position'[r] = position[r] /\ working'[r] = working[r]
        /\ working'[s] = 0 /\ position'[s] \in Int
    BY <1>4, FillStaysOnSide
  <2>3. pc \notin {"down", "fetch_source", "fetch_position", "fetch_price"}
    BY <2>1 DEF KInv, Known
  <2>4. ASSUME NEW i \in DOMAIN decisions, Pending(i)
        PROVE  Grounded(i)'
    <3>1. Grounded(i)
      BY <2>4 DEF KInv, Known
    <3>2. Whitelist[i] \in Symbols \ {s}
      <4>1. Whitelist[i] # s
        BY <2>1, <3>1 DEF Grounded
      <4>2. i \in DOMAIN Whitelist
        <5>1. pc \in {"sleeping", "act", "awaiting", "record"}
          BY <2>3 DEF KInv, TypeOK, States
        <5>2. decisions # <<>>
          BY <2>4
        <5>3. Len(decisions) = Len(Whitelist)
          BY <5>1, <5>2 DEF KInv, TypeOK, Suspended
        <5> QED
          BY <2>4, <5>3, ConfigAssumption DEF KInv, TypeOK
      <4> QED
        BY <4>1, <4>2, ConfigAssumption
    <3> QED
      BY <2>1, <2>2, <3>1, <3>2 DEF Grounded
  <2>5. Known'
    BY <2>1, <2>3, <2>4 DEF KInv, Known, Pending, Acting
  <2>6. NoneTurns'
    BY <2>2 DEF KInv, NoneTurns, SameSide
  <2> QED
    BY <2>5, <2>6
<1>5. CASE \E s \in Symbols : CooldownExpires(s)
  BY <1>2, <1>5 DEF CooldownExpires
<1>6. ~\E taken \in BOOLEAN : Exit(taken)
  BY DEF Exit, Undisturbed
<1> QED
  BY <1>1, <1>3, <1>4, <1>5, <1>6 DEF EnvironmentStep

LEMMA KnownInvariant ==
    ASSUME Undisturbed
    PROVE  Spec => []KInv
<1>1. Init => KInv
  <2> SUFFICES ASSUME Init
               PROVE  KInv
    OBVIOUS
  <2>1. /\ TypeOK /\ pc = "down" /\ decisions = <<>>
        /\ \A s \in Symbols : working[s] = 0
    BY InitType DEF Init
  <2> QED
    BY <2>1 DEF KInv, Known, NoneTurns, SameSide, TypeOK
<1>2. KInv /\ [Next]_vars => KInv'
  <2>1. ASSUME KInv, Next
        PROVE  KInv'
    BY <2>1, ReadStepType, ActStepType, EnvironmentStepType,
       ReadStepKnown, ActStepKnown, EnvironmentStepKnown DEF Next, KInv
  <2>2. ASSUME KInv, UNCHANGED vars
        PROVE  KInv'
    BY <2>2 DEF KInv, TypeOK, Known, NoneTurns, Collecting, Pending, Grounded, Acting,
                vars, exchangeVars, loopVars, cycleVars
  <2> QED
    BY <2>1, <2>2
<1> QED
  BY <1>1, <1>2, PTL DEF Spec

-----------------------------------------------------------------------------
\* KnowsPosition: an order rests on the position as it is when it is sent.
THEOREM PositionIsKnown ==
    ASSUME Undisturbed
    PROVE  Spec => []KnowsPosition
<1>1. KInv => KnowsPosition
  BY DEF KInv, Known, KnowsPosition, Pending, Grounded, Symbol, Due
<1> QED
  BY <1>1, KnownInvariant, PTL

\* OrderConverges: an order brings the account nearer to its target, and not past.
THEOREM OrdersConverge ==
    ASSUME Undisturbed
    PROVE  Spec => []OrderConverges
<1>1. KInv => OrderConverges
  <2> SUFFICES ASSUME KInv, pc = "awaiting"
               PROVE  OrderConverges
    BY DEF OrderConverges
  <2>1. /\ Due.actual = position[Symbol] /\ working[Symbol] = 0
        /\ Approaches(Due)
    BY DEF KInv, Known, Pending, Grounded, Symbol, Due
  <2>2. Symbol \in Symbols /\ position[Symbol] \in Int
    BY ActingType DEF KInv, TypeOK
  <2>3. Prospect = Due.actual
    BY <2>1, <2>2 DEF Prospect
  <2> QED
    BY <2>1, <2>3 DEF OrderConverges, Approaches
<1> QED
  BY <1>1, KnownInvariant, PTL

\* FlipsThroughFlat: no fill, in whole or in part, turns a position round.
THEOREM NoFillTurnsPosition ==
    ASSUME Undisturbed
    PROVE  Spec => FlipsThroughFlat
<1> DEFINE Straight == \A s \in Symbols : ~(position[s] < 0 /\ position'[s] > 0)
                                       /\ ~(position[s] > 0 /\ position'[s] < 0)
<1>1. KInv /\ [Next]_vars => [Straight]_vars
  <2> SUFFICES ASSUME KInv, Next
               PROVE  Straight
    OBVIOUS
  <2>1. ASSUME position' = position
        PROVE  Straight
    BY <2>1 DEF KInv, TypeOK
  <2>2. ASSUME NEW s \in Symbols, NEW q \in FilledOf(working[s]), Fill(s, q)
        PROVE  Straight
    BY <2>2, FillStaysOnSide DEF SameSide, KInv, TypeOK
  <2>3. CASE ReadStep
    BY <2>1, <2>3 DEF ReadStep, WakeUp, SourceFetched, SourceUnavailable, SourceUnexpected,
       PositionFetched, PositionMissing, PriceFetched, BinanceUnavailable, AddDecision,
       exchangeVars
  <2>4. CASE ActStep
    BY <2>1, <2>4 DEF ActStep, PassOver, Submit, OrderAccepted, OrderFailed, ResultRecorded,
       exchangeVars
  <2>5. CASE EnvironmentStep
    BY <2>1, <2>2, <2>5 DEF EnvironmentStep, Start, SourceMoves, CooldownExpires, Exit,
       exchangeVars
  <2> QED
    BY <2>3, <2>4, <2>5 DEF Next
<1> QED
  BY <1>1, KnownInvariant, PTL DEF Spec, FlipsThroughFlat
=============================================================================
