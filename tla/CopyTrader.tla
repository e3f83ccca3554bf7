----------------------------- MODULE CopyTrader -----------------------------
(***************************************************************************)
(* The running program: CopyTraderService and PollingLoop (one asyncio     *)
(* task), BinanceExecutor and CooldownManager, between the Hyperliquid     *)
(* wallet it copies and the Binance account it trades.                     *)
(*                                                                         *)
(* pc names the await the task is suspended in.  A step of the program is  *)
(* what it does from one await to the next; everything else (the wallet,   *)
(* fills, the clock, a killed process) moves between two such steps.       *)
(* Process memory is mode, failures, cooling and the locals of one cycle;  *)
(* it is gone when the process is down.                                    *)
(***************************************************************************)
EXTENDS Reconciliation

CONSTANTS
    Mapped,                   \* Binance symbols that copy_trade.symbols.mapping reaches
    AutoDowngradeEnabled,     \* runtime.auto_downgrade_enabled
    AutoDowngradeThreshold,   \* runtime.auto_downgrade_threshold
    SymbolCooldownSeconds,    \* execution.symbol_cooldown_seconds
    (* The environment. *)
    StartModes,               \* runtime.mode of the configurations it is started with
    SourceSizes,              \* sizes the source wallet takes
    Prices,                   \* price snapshots Binance returns
    InitialPositions,         \* Binance positions before the first start
    Answers,                  \* what may come of the POST of an order
    ReadFaults,               \* what may come of a read, beside a good answer
    FillTiming,               \* how late an order may fill
    PartialFills,             \* whether a MARKET order may fill in part and expire
    MayExit,                  \* whether the process may be stopped or killed
    (* Bounds. *)
    MaxExposure,              \* the margin of the account, in quanta
    MaxFailures               \* of the counter that no threshold bounds

Modes == {"observe", "armed", "live"}
AllAnswers == {"accepted", "unaccepted", "rejected", "server_error", "timeout",
               "network", "garbled"}
AllReadFaults == {"source_failed", "source_malformed", "source_stale",
                  "position_missing", "binance_failed"}

ASSUME RuntimeAssumption ==
    /\ Mapped \subseteq Symbols
    /\ AutoDowngradeEnabled \in BOOLEAN
    /\ AutoDowngradeThreshold \in Positive
    /\ SymbolCooldownSeconds \in Nat

ASSUME EnvironmentAssumption ==
    /\ StartModes \subseteq Modes
    /\ SourceSizes \subseteq Int
    /\ Prices \subseteq PriceSnapshot
    /\ InitialPositions \subseteq [Symbols -> Int]
    /\ Answers \subseteq AllAnswers
    /\ ReadFaults \subseteq AllReadFaults
    /\ FillTiming \in {"any", "within_cooldown", "before_next_cycle"}
    /\ PartialFills \in BOOLEAN
    /\ MayExit \in BOOLEAN
    /\ MaxExposure \in Nat
    /\ MaxFailures \in Positive

VARIABLES
    source,      \* the wallet's position in each symbol
    position,    \* the Binance position in each symbol
    working,     \* quantity Binance has taken an order for and not yet filled
    pc,
    mode,        \* PollingLoop._mode
    failures,    \* consecutive_live_execution_failures
    cooling,     \* symbols whose _cooldown_until is in the future
    snapshot,    \* the SourceSnapshot of this cycle, with is_fresh
    actual,      \* the Binance position just fetched
    decisions,   \* decisions[i] is this cycle's record for Whitelist[i]
    results      \* results[i] is what came of decisions[i]

exchangeVars == <<source, position, working>>
loopVars == <<mode, failures, cooling>>
cycleVars == <<snapshot, actual, decisions, results>>
vars == <<exchangeVars, pc, loopVars, cycleVars>>

-----------------------------------------------------------------------------
States == {"down", "sleeping", "fetch_source", "fetch_position", "fetch_price",
           "act", "awaiting", "record"}

Snapshot == [fresh : BOOLEAN, size : [Symbols -> Int]]
NoSnapshot == [fresh |-> FALSE, size |-> [s \in Symbols |-> 0]]

\* The status of an execution_results row; "NONE" where no order was due.
FailureStatus(answer) ==
    CASE answer = "unaccepted"   -> "UNACCEPTED"
      [] answer = "rejected"     -> "REJECTED"
      [] answer = "server_error" -> "REJECTED"
      [] answer = "timeout"      -> "UNKNOWN"
      [] answer = "network"      -> "ERROR"
      [] answer = "garbled"      -> "ERROR"
Statuses == {"NONE", "LOCAL_ERROR", "ACCEPTED", "UNACCEPTED", "REJECTED",
             "UNKNOWN", "ERROR"}

\* Failures that do not tell whether Binance took the order: a 5xx, a timeout,
\* a broken connection, a body that is not JSON, and the 200 whose status is
\* EXPIRED after a part was executed.
MayBeTaken == AllAnswers \ {"accepted", "rejected"}

Init ==
    /\ source \in [Symbols -> SourceSizes]
    /\ position \in InitialPositions
    /\ working = [s \in Symbols |-> 0]
    /\ pc = "down"
    /\ mode = "observe"
    /\ failures = 0
    /\ cooling = {}
    /\ snapshot = NoSnapshot
    /\ actual = 0
    /\ decisions = <<>>
    /\ results = <<>>

-----------------------------------------------------------------------------
(* Collecting one decision per whitelisted symbol: _collect_decisions().   *)

Collecting == Whitelist[Len(decisions) + 1]

\* CopyTraderService.start() and PollingLoop.run(): the first cycle starts at once.
Start(m) ==
    /\ pc = "down"
    /\ pc' = "fetch_source"
    /\ mode' = m
    /\ failures' = 0
    /\ cooling' = {}
    /\ UNCHANGED <<exchangeVars, cycleVars>>

\* Faulty: every cycle starts a new count.
WakeUpForgetting ==
    /\ pc = "sleeping"
    /\ FillTiming = "before_next_cycle" => \A s \in Symbols : working[s] = 0
    /\ pc' = "fetch_source"
    /\ failures' = 0
    /\ UNCHANGED <<exchangeVars, mode, cooling, cycleVars>>

\* asyncio.sleep(poll_interval_seconds) returns.
WakeUp ==
    /\ pc = "sleeping"
    /\ FillTiming = "before_next_cycle" => \A s \in Symbols : working[s] = 0
    /\ pc' = "fetch_source"
    /\ UNCHANGED <<exchangeVars, loopVars, cycleVars>>

\* normalize_snapshot(): every whitelisted symbol that the mapping reaches has an
\* entry, flat where the wallet holds nothing; evaluate() reads no entry as flat.
Normalized == [s \in Symbols |-> IF s \in Mapped THEN source[s] ELSE 0]

\* is_fresh(): a snapshot without any entry is not.
IsFresh(isRecent) == isRecent /\ \E i \in DOMAIN Whitelist : Whitelist[i] \in Mapped

SourceFetched(isRecent) ==
    /\ pc = "fetch_source"
    /\ isRecent \/ "source_stale" \in ReadFaults
    /\ snapshot' = [fresh |-> IsFresh(isRecent), size |-> Normalized]
    /\ pc' = "fetch_position"
    /\ UNCHANGED <<exchangeVars, loopVars, actual, decisions, results>>

\* Faulty: the cycle is skipped without a record.
SourceUnavailableSilently ==
    /\ pc = "fetch_source"
    /\ "source_failed" \in ReadFaults
    /\ pc' = "sleeping"
    /\ UNCHANGED <<exchangeVars, loopVars, cycleVars>>

\* SourceReadError or SourceNormalizationError: a record for every symbol.
SourceUnavailable ==
    /\ pc = "fetch_source"
    /\ "source_failed" \in ReadFaults
    /\ decisions' = [i \in DOMAIN Whitelist |->
                        SkipRecord("SKIP_DATA_UNAVAILABLE", 0, 0)]
    /\ pc' = "act"
    /\ UNCHANGED <<exchangeVars, loopVars, snapshot, actual, results>>

\* A payload normalize_snapshot() trips over with another exception (a null
\* assetPositions, say): it ends the cycle in run().
SourceUnexpected ==
    /\ pc = "fetch_source"
    /\ "source_malformed" \in ReadFaults
    /\ pc' = "sleeping"
    /\ UNCHANGED <<exchangeVars, loopVars, cycleVars>>

\* Faulty: the first symbol's position is used for all.
FirstPositionFetched ==
    /\ pc = "fetch_position"
    /\ actual' = position[Whitelist[1]]
    /\ pc' = "fetch_price"
    /\ UNCHANGED <<exchangeVars, loopVars, snapshot, decisions, results>>

PositionFetched ==
    /\ pc = "fetch_position"
    /\ actual' = position[Collecting]
    /\ pc' = "fetch_price"
    /\ UNCHANGED <<exchangeVars, loopVars, snapshot, decisions, results>>

\* No BOTH entry, or one without positionAmt: read as flat.
PositionMissing ==
    /\ pc = "fetch_position"
    /\ "position_missing" \in ReadFaults
    /\ actual' = 0
    /\ pc' = "fetch_price"
    /\ UNCHANGED <<exchangeVars, loopVars, snapshot, decisions, results>>

AddDecision(d) ==
    /\ decisions' = Append(decisions, d)
    /\ actual' = 0
    /\ IF Len(decisions) + 1 = Len(Whitelist)
       THEN pc' = "act" /\ snapshot' = NoSnapshot
       ELSE pc' = "fetch_position" /\ UNCHANGED snapshot
    /\ UNCHANGED <<exchangeVars, loopVars, results>>

\* Faulty: the cooldown is not looked up.
IsNeverCoolingDown(s) == FALSE

IsCoolingDown(s) == s \in cooling

PriceFetched(p) ==
    /\ pc = "fetch_price"
    /\ AddDecision(Evaluate(Collecting, snapshot.size[Collecting], actual, p,
                            snapshot.fresh, IsCoolingDown(Collecting)))

\* Any exception between fetch_position and evaluate(), a division by a zero
\* mark price included.
BinanceUnavailable ==
    /\ pc \in {"fetch_position", "fetch_price"}
    /\ "binance_failed" \in ReadFaults
    /\ AddDecision(SkipRecord("SKIP_DATA_UNAVAILABLE", 0, 0))

-----------------------------------------------------------------------------
(* Acting on the decisions, one after the other: _run_cycle(), _execute(). *)
(* In "act" decision number Acting is being persisted, in "awaiting" its   *)
(* order is out, in "record" its result is being persisted.                *)

Acting == Len(results) + 1
Symbol == Whitelist[Acting]
Due == decisions[Acting]

\* Faulty: the rows of the last cycle are still there in the next one.
ProceedKeepingRows(rows) ==
    IF Len(rows) = Len(decisions)
    THEN /\ pc' = "sleeping"
         /\ decisions' = <<>>
         /\ results' = rows
    ELSE /\ pc' = "act"
         /\ results' = rows
         /\ UNCHANGED decisions

\* The cycle's locals go with the end of _run_cycle().
Proceed(rows) ==
    IF Len(rows) = Len(decisions)
    THEN /\ pc' = "sleeping"
         /\ decisions' = <<>>
         /\ results' = <<>>
    ELSE /\ pc' = "act"
         /\ results' = rows
         /\ UNCHANGED decisions

\* Faulty: allows what the mode allows SQLite.
ModeAllowsWriting == mode # "observe"

ModeAllowsExecution == mode = "live"

\* self._mode is read again for every decision.
ShouldExecute == ModeAllowsExecution /\ IsExecutable(Due)

PassOver ==
    /\ pc = "act"
    /\ ~ShouldExecute \/ OrderSize(Due) = 0
    /\ Proceed(Append(results, IF ShouldExecute THEN "LOCAL_ERROR" ELSE "NONE"))
    /\ UNCHANGED <<exchangeVars, loopVars, snapshot, actual>>

Submit ==
    /\ pc = "act"
    /\ ShouldExecute
    /\ OrderSize(Due) # 0
    /\ pc' = "awaiting"
    /\ UNCHANGED <<exchangeVars, loopVars, cycleVars>>

ExchangeCanTake ==
    /\ MeetsFilters(Symbol, OrderSize(Due), Due.mark)
    /\ Abs(position[Symbol] + working[Symbol] + OrderSize(Due)) <= MaxExposure

Take(taken) ==
    working' = IF taken
               THEN [working EXCEPT ![Symbol] = @ + OrderSize(Due)]
               ELSE working

\* Faulty: no cooldown is set; a cooldown is set for every symbol.
RecordNothing == UNCHANGED cooling
RecordExecutionOfAll == cooling' = Symbols

RecordExecution ==
    cooling' = IF SymbolCooldownSeconds > 0 THEN cooling \cup {Symbol} ELSE cooling

OrderAccepted ==
    /\ pc = "awaiting"
    /\ "accepted" \in Answers
    /\ ExchangeCanTake
    /\ Take(TRUE)
    /\ failures' = 0
    /\ RecordExecution
    /\ results' = Append(results, "ACCEPTED")
    /\ pc' = "record"
    /\ UNCHANGED <<source, position, mode, snapshot, actual, decisions>>

\* Faulty: one failure too many before the downgrade.
HandleExecutionFailureLate ==
    IF AutoDowngradeEnabled /\ failures >= AutoDowngradeThreshold
    THEN mode' = "armed" /\ failures' = 0
    ELSE failures' = failures + 1 /\ UNCHANGED mode

HandleExecutionFailure ==
    IF AutoDowngradeEnabled /\ failures + 1 >= AutoDowngradeThreshold
    THEN mode' = "armed" /\ failures' = 0
    ELSE failures' = failures + 1 /\ UNCHANGED mode

OrderFailed(answer, taken) ==
    /\ pc = "awaiting"
    /\ answer \in Answers \/ (answer = "rejected" /\ ~ExchangeCanTake)
    /\ taken => answer \in MayBeTaken /\ ExchangeCanTake
    /\ ~AutoDowngradeEnabled => failures < MaxFailures
    /\ Take(taken)
    /\ HandleExecutionFailure
    /\ results' = Append(results, FailureStatus(answer))
    /\ pc' = "record"
    /\ UNCHANGED <<source, position, cooling, snapshot, actual, decisions>>

\* Faulty: an order of unknown status is sent again at once.
UnknownRetried ==
    /\ pc = "record"
    /\ IF results[Len(results)] = "UNKNOWN"
       THEN /\ pc' = "act"
            /\ results' = SubSeq(results, 1, Len(results) - 1)
            /\ UNCHANGED decisions
       ELSE Proceed(results)
    /\ UNCHANGED <<exchangeVars, loopVars, snapshot, actual>>

\* The execution_results row is written, or could not be.
ResultRecorded ==
    /\ pc = "record"
    /\ Proceed(results)
    /\ UNCHANGED <<exchangeVars, loopVars, snapshot, actual>>

-----------------------------------------------------------------------------
(* The environment.                                                        *)

SourceMoves(s, size) ==
    /\ size # source[s]
    /\ source' = [source EXCEPT ![s] = size]
    /\ UNCHANGED <<position, working, pc, loopVars, cycleVars>>

\* What is filled of a net quantity q.
FilledOf(q) ==
    IF PartialFills
    THEN {x \in Lesser(q, 0) .. Greater(q, 0) : x # 0}
    ELSE {q}

Fill(s, q) ==
    /\ working[s] # 0
    /\ q \in FilledOf(working[s])
    /\ position' = [position EXCEPT ![s] = @ + q]
    /\ working' = [working EXCEPT ![s] = 0]
    /\ UNCHANGED <<source, pc, loopVars, cycleVars>>

\* datetime.now() reaches _cooldown_until[s].
CooldownExpires(s) ==
    /\ s \in cooling
    /\ FillTiming = "within_cooldown" => working[s] = 0
    /\ cooling' = cooling \ {s}
    /\ UNCHANGED <<exchangeVars, pc, mode, failures, cycleVars>>

\* The process stops, at any await: a signal, a crash, or the end of the one
\* cycle of the "once" command.  An order that is out may have arrived.
Exit(taken) ==
    /\ MayExit
    /\ pc # "down"
    /\ taken => pc = "awaiting" /\ ExchangeCanTake
    /\ Take(taken)
    /\ pc' = "down"
    /\ mode' = "observe"
    /\ failures' = 0
    /\ cooling' = {}
    /\ snapshot' = NoSnapshot
    /\ actual' = 0
    /\ decisions' = <<>>
    /\ results' = <<>>
    /\ UNCHANGED <<source, position>>

-----------------------------------------------------------------------------
ReadStep ==
    \/ WakeUp
    \/ \E isRecent \in BOOLEAN : SourceFetched(isRecent)
    \/ SourceUnavailable
    \/ SourceUnexpected
    \/ PositionFetched
    \/ PositionMissing
    \/ \E p \in Prices : PriceFetched(p)
    \/ BinanceUnavailable

ActStep ==
    \/ PassOver
    \/ Submit
    \/ OrderAccepted
    \/ \E answer \in AllAnswers \ {"accepted"}, taken \in BOOLEAN :
          OrderFailed(answer, taken)
    \/ ResultRecorded

EnvironmentStep ==
    \/ \E m \in StartModes : Start(m)
    \/ \E s \in Symbols, size \in SourceSizes : SourceMoves(s, size)
    \/ \E s \in Symbols : \E q \in FilledOf(working[s]) : Fill(s, q)
    \/ \E s \in Symbols : CooldownExpires(s)
    \/ \E taken \in BOOLEAN : Exit(taken)

Next == ReadStep \/ ActStep \/ EnvironmentStep

Spec == Init /\ [][Next]_vars

(***************************************************************************)
(* Every await of the program returns: HTTP requests time out after        *)
(* request_timeout_seconds or 10 seconds, SQLite after 30, the sleep ends. *)
(* An order the exchange took fills, and time passes.  Nobody has to start *)
(* or stop the process, or to move the wallet.                             *)
(***************************************************************************)
Fairness ==
    /\ WF_vars(ReadStep \/ ActStep)
    /\ \A s \in Symbols : WF_vars(\E q \in FilledOf(working[s]) : Fill(s, q))
    /\ \A s \in Symbols : WF_vars(CooldownExpires(s))

FairSpec == Spec /\ Fairness

-----------------------------------------------------------------------------
(* Properties.                                                             *)

Suspended == {"down", "sleeping", "fetch_source"}

TypeOK ==
    /\ source \in [Symbols -> Int]
    /\ position \in [Symbols -> Int]
    /\ working \in [Symbols -> Int]
    /\ pc \in States
    /\ mode \in Modes
    /\ failures \in Nat
    /\ cooling \subseteq Symbols
    /\ snapshot \in Snapshot
    /\ actual \in Int
    /\ decisions \in Seq(Decision)
    /\ results \in Seq(Statuses)
    \* Where each await finds the locals of the cycle.
    /\ pc \in Suspended => decisions = <<>>
    /\ pc \in {"fetch_position", "fetch_price"} => Len(decisions) < Len(Whitelist)
    /\ pc \in Suspended \cup {"fetch_position", "fetch_price"} => results = <<>>
    /\ pc \in {"act", "awaiting", "record"} => Len(decisions) = Len(Whitelist)
    /\ pc \in {"act", "awaiting"} => Len(results) < Len(decisions)
    /\ pc = "record" => Len(results) \in 1 .. Len(decisions)

\* No order goes out for a symbol whose last accepted order still cools it
\* down, although the cooldown is looked up while the decisions are collected
\* and other orders are answered before this one is sent (cooldown.py,
\* loop.py:124-142).
NoOrderDuringCooldown == pc = "awaiting" => Symbol \notin cooling

\* An order is never sent while an earlier one for its symbol is still
\* unfilled, as long as fills take no longer than the cooldown and every answer
\* says what became of the order: the cooldown is the only thing that keeps the
\* program, which remembers no order, from ordering the same quantity twice.
NoBlindOrder == pc = "awaiting" => working[Symbol] = 0

\* When an order is sent, the position it was computed from is still the
\* position, and nothing of the symbol is unfilled: no await between the read
\* and the POST (service.py:115, loop.py:132, executor.py:128) makes it stale.
KnowsPosition ==
    pc = "awaiting" => /\ Due.actual = position[Symbol]
                       /\ working[Symbol] = 0

\* What the account will hold of the symbol once the order that is out and all
\* earlier ones are filled.
Prospect == position[Symbol] + working[Symbol]

\* Every order brings the account strictly nearer to the target of its cycle and
\* never past it: neither a cap, nor a flip, nor an earlier order makes the
\* program trade to and fro (risk_policy.py:30-44, flip_handler.py:36-51).
OrderConverges ==
    pc = "awaiting" =>
        \/ Prospect < Prospect + OrderSize(Due) /\ Prospect + OrderSize(Due) <= Due.target
        \/ Prospect > Prospect + OrderSize(Due) /\ Prospect + OrderSize(Due) >= Due.target

\* A position is never turned round by one fill: it is closed first, and opened
\* on the other side by an order of a later cycle (CLOSE_THEN_OPEN).
FlipsThroughFlat ==
    [][\A s \in Symbols : ~(position[s] < 0 /\ position'[s] > 0)
                       /\ ~(position[s] > 0 /\ position'[s] < 0)]_vars

\* A cycle that is not killed ends with one decision for each whitelisted
\* symbol, whatever reads failed (service.py:91-105, 147-156).
OneOutcomePerSymbol ==
    [][pc # "sleeping" /\ pc' = "sleeping" => Len(decisions) = Len(Whitelist)]_vars

\* After an order of unknown status nothing more is ordered in the same cycle.
NoOrderAfterUnknown ==
    pc = "awaiting" => \A i \in DOMAIN results : results[i] # "UNKNOWN"

\* A residue of the old side that Binance would not let us close does not keep
\* the new side from being opened: it is no reason for another FLIP_CLOSE.
ResidueDoesNotBlock ==
    \A i \in DOMAIN decisions :
        decisions[i].type = "REBALANCE_FLIP_CLOSE" =>
            MeetsFilters(Whitelist[i], decisions[i].actual, decisions[i].mark)

\* As long as orders keep going out some are accepted: failures alone cannot
\* keep the program trading, whatever is read, skipped or waited for between
\* them (loop.py:229-248).
TripsOrRecovers ==
    []<>(pc = "awaiting") =>
        []<>(results # <<>> /\ results[Len(results)] = "ACCEPTED")

\* Once the wallet rests and the program stays live, every symbol it copies comes
\* to rest within the tolerance that the convergence ratio and the minimal
\* notional leave: the part of the rest that one order may move is not worth one.
Settled(s) ==
    /\ working[s] = 0
    /\ \A p \in Prices :
          RoundDownToStep(Abs(ComputeTargetSize(source[s]) - position[s]) * ConvergenceNum,
                          ConvergenceDen, Filters(s).step) * p.mark < MinRebalanceNotional
Copied == {s \in Mapped : IsEligible(s)}
Converges ==
    <>[][FALSE]_source /\ <>[](pc # "down" /\ mode = "live") =>
        <>[](\A s \in Copied : Settled(s))

\* RUNTIME-STATE-MACHINE.md, Downgrade Policy: the program implements it.
Breaker == INSTANCE CircuitBreaker WITH
    Limit       <- AutoDowngradeThreshold,
    Armed       <- AutoDowngradeEnabled,
    running     <- pc # "down",
    permission  <- mode = "live",
    strikes     <- failures,
    outstanding <- pc = "awaiting"
BreakerHolds == Breaker!Spec

=============================================================================
