# A verification project for copy_trader

copy_trader copies the positions of a Hyperliquid wallet to a Binance futures account. Every
`poll_interval_seconds` it reads the wallet, reads its own position and the prices of each
whitelisted symbol, decides for each symbol whether to trade, and then, in `live` mode, sends
one MARKET order per executable decision. It keeps no trading state on disk: what it knows
comes from the snapshots of the cycle, plus a failure counter and a cooldown per symbol in
process memory.

This directory models that program in TLA+, checks it with TLC and proves the central
properties with TLAPS. Paths below are relative to the repository.

## Inventory

| Component | State | Operations | Correct when |
|---|---|---|---|
| Decision engine, `src/copy_trader/strategy/` | none | `evaluate`, `apply_convergence_cap`, `is_tradable`, `exceeds_drift_threshold`, `evaluate_price_guard`, `_select_action` | each order goes towards the target, within its caps, is named for what it does, and was guarded on the side it takes |
| Filters, `exchange/precision.py` | filters cached at start | `parse_symbol_filters`, `round_down_to_step` | what the engine lets through, Binance takes |
| Execution, `execution/` | none | `submit`, `execute_decision_with_flip` | a flip's close never turns the position round; every outcome of the POST is classified |
| Polling loop, `runtime/loop.py` | mode, failure counter, locals of the cycle | `run`, `_run_cycle`, `_execute`, `_handle_execution_failure`, `_trigger_auto_downgrade` | no order without permission; failures in a row end permission; the loop outlives every exception |
| Cooldown, `runtime/cooldown.py` | `_cooldown_until` | `record_execution`, `is_cooling_down` | no second order for a symbol while the first may be unfilled |
| Service, `app/service.py` | none between cycles | `start`, `_collect_decisions` | one decision per symbol and cycle, whatever reads fail |
| Source reader, `source/` | none | `fetch`, `is_fresh`, `normalize_snapshot` | a snapshot is the wallet: no size made up, none lost, nothing of other coins |
| Binance gateway, `exchange/binance_client.py` | cached filters | `fetch_position`, `fetch_price`, `preload_filters` | a failed read is an exception, never a number |
| Modes, `runtime/modes.py` | none | `mode_allows_execution`, `mode_allows_sqlite`, `validate_transition` (no caller) | only `live` trades |
| Store, `storage/` | SQLite tables | `persist_*` | every order has its row; nothing of it influences trading |
| Events and logging, `logging/` | mode and cycle id of the log | `new_cycle_id`, `decision`, ... | the id ties the rows of a cycle together; the rest is output |
| Configuration, `config/` | the loaded configuration | `load_config`, `validate_config` | start-up only |
| Command line, `main.py`, `cli.py` | none | `run`, `once`, `check-config` | start-up only |
| PnL report, `scripts/pnl_report.py` | none; reads the database | `load_trades`, `load_latest_mark_price`, `compute_pnl` | its trades are the orders there were, its gains the cash that flowed, its net position the account's |

Everything runs in one asyncio task, so there are no data races. The concurrency is with the
world: between two awaits the wallet moves, orders fill, cooldowns run out, the process is
killed. Three orders of events make the program hard to test:

* all decisions of a cycle are made before the first of them is executed
  (`app/service.py:112`, `runtime/loop.py:124`), so answers come between the decision and the
  order of another symbol;
* the program remembers no order. Between the POST and the fill, the cooldown is the only
  thing that keeps it from ordering the same quantity again, and the cooldown only starts when
  Binance has said yes;
* an answer that does not come (timeout, 5xx, broken connection) leaves an order that may or
  may not exist.

What is left behind for later is the SQLite database: a row per decision and, if an order went
out, a row per outcome, written at different awaits. The PnL report joins the two offline.

## Modules

| Module | What it is |
|---|---|
| `Reconciliation` | The decision engine, the filters and the size of the order, as operators on constants. |
| `DecisionTable` | One evaluation for any input: the engine's properties. |
| `CopyTrader` | The running program and its environment; extends `Reconciliation`. |
| `CircuitBreaker` | What `docs/RUNTIME-STATE-MACHINE.md` asks of trading permission, in six actions: while the process runs, nothing but the failure that fills the count takes permission away, and nothing gives it; `CopyTrader` implements it (`BreakerHolds`). |
| `SourceReader` | One poll of the wallet: any payload, what `normalize_snapshot` makes of it, freshness, and which exception comes of a fault. |
| `CycleClock` | The cycle against the clock: how long sleeping, reading, ordering and filling take, and what that does to cooldown and freshness. Leaves open what is decided. |
| `AuditTrail` | `CopyTrader` together with the tables it writes; extends it, and each of its actions is one of `CopyTrader` with the rows that go with it. |
| `SequenceFolds` | Sum and selection over a sequence, as functions of how far the loop has come. |
| `PnlReport` | The algorithm of the report, as operators on tables. |
| `AuditedReport` | `AuditTrail` with the report run against its tables at any moment. |
| `MCDecisionTable`, `MCCopyTrader`, `MCSourceReader`, `MCCycleClock`, `MCAuditedReport` | Values for the constants. |
| `ReconciliationProofs`, `DecisionTableProofs`, `CopyTraderProofs`, `SourceReaderProofs`, `CycleClockProofs`, `AuditTrailProofs`, `AuditedReportProofs` | The theorems, each module about the one it is named after. |
| `SequenceFoldsProofs` | What sums, selections and concatenations of sequences of any length are: the lemmas the proofs about `SourceReader` and `AuditedReport` share. |

### From code to model

`Reconciliation` follows the functions by name (`Evaluate`, `ApplyConvergenceCap`,
`IsTradable`, `SelectAction`, ...). The code computes with `Decimal`; here a quantity is a whole
number of quanta, a price a whole number of units per quantum, and a ratio a numerator and a
denominator, multiplied out. The rounding to the step is kept. What is not kept is the
28-digit precision of `Decimal` division. Since rounding down is monotonic,
the code's rounding of the least of the caps is written as the least of the rounded caps.

In `CopyTrader`, `pc` names the await in which the task is suspended, and each action is what
the code does from one await to the next:

| Action | Code |
|---|---|
| `Start`, `WakeUp`, `Exit` | `service.start`, `loop.run` and its sleep; the process killed at any await, or the end of `once` |
| `SourceFetched`, `SourceUnavailable`, `SourceUnexpected` | `_source.fetch()`: a snapshot (stale or not), one of the two exceptions that are caught, any other one |
| `PositionFetched`, `PositionMissing`, `PriceFetched`, `BinanceUnavailable` | the reads of one symbol and, after the price, `evaluate()` |
| `PassOver`, `Submit` | a decision of the list that is not executed, or whose order goes out |
| `OrderAccepted`, `OrderFailed(answer, taken)` | the answer; `taken` says whether Binance has the order all the same |
| `ResultRecorded` | the result row is written or not, and the loop goes on |
| `SourceMoves`, `Fill`, `CooldownExpires` | the wallet, Binance, the clock |

Awaits after which the program does the same whatever happened (the snapshot rows, a decision
row) are not separate states, since the environment can move just before or after as well;
the row of a result is (`record`), because a crash there is between the answer and the record.
Process memory (`mode`, `failures`, `cooling`, the cycle's locals) is lost in `Exit`; `source`,
`position` and `working`, the environment, are not. `cooling` is the set of symbols whose
`_cooldown_until` is in the future.

`working[s]` is the quantity Binance has taken and not yet filled. Orders of one symbol that
are unfilled at the same time are summed, and with `PartialFills` a MARKET order may fill in
part and expire.

`SourceReader` abstracts a payload to what its reading depends on: how `time` parses and how
old it is, whether `assetPositions` is given, absent or null, and for each entry its coin and
how its `szi` parses. `Decimal("NaN")` parses, and it is the comparison in `_derive_side()` that
raises; an entry that is not an object raises in `.get()`; neither is an exception the service
has a record for. `CopyTrader` starts from the outcomes of this: `SourceFetched` with the sizes
of mapped symbols, `SourceUnavailable`, `SourceUnexpected`.

`CycleClock` has the same awaits with a clock of one-second ticks, and one more: the rows of the
snapshot, which are written one by one between the look at its age and the first read
(`SnapshotPersisted`), take time. The code promises nothing
about how long a fill, these writes, the reads of a symbol or the turn of a decision take, so `bound` is chosen
at the start of a behaviour, from any set, and each property says for which bounds it holds.
`due` is the set of symbols whose decision is executable and not yet acted on, `moved` those
whose position has changed since this cycle read it.

`AuditTrail` keeps `reconciliation_decisions` and `execution_results` as sequences of rows,
`orders` as what Binance has taken, and `gaps` as the cycles of which a row may be missing.
A decision's row is written just before its order goes out, the row of an outcome from
`finally`, after the counter and possibly the mode have changed; `Stopped` may come with a write
that was under way made or not. `RecordedSize` is computed twice in the code, by `submit()` for
an order that was answered and by the loop for one that ended in an exception, and so here.

In `PnlReport` a loop of the script is a function on how far it has come: `Settlement(trades)[n]`
is the profit and the open lots after `n` trades, `Matchings(pnl, trade)[n]` what is left of a
trade after it has met `n` lots. The `while` of `compute_pnl` stops at a lot of the same side;
since the open lots are all of one side, passing over those gives the same result. `TradesOf` is
what the `LEFT JOIN` makes of one row of `execution_results`: nothing if no decision with a price is joined,
two trades if two are.

### Defective variants

`Reconciliation`, `CopyTrader`, `SourceReader`, `CycleClock`, `AuditTrail` and `PnlReport` hold, each just before the definition it distorts and marked
`Faulty:`, the mistakes the properties are there to catch: rounding up, forgetting a cap, the
wrong side of the book, a cooldown that is not looked up, a counter that is reset in the
wrong place, a retry of an order of unknown status, absent symbols left out of a snapshot, rows
joined to another trade's price, the newest lot matched first, and so on. No specification uses them.
`PROJECT.json` says which property each one violates when it replaces its definition.

## Runs

| Run | Bounds | What it shows |
|---|---|---|
| `decision_table` | 3 symbols (one blacklisted, one not listed), 13 source sizes times a ratio of 3, 41 positions, 5 prices, fresh or not, cooling or not; step 3 against 1, minimum 4, maximum 8, guard of 15 bps | the engine's six properties, among them that long and short are mirror images |
| `solo` | one symbol, all modes, all read faults, all answers, partial fills at any time, exit at any await | `TypeOK`, cooldown, breaker |
| `pair` | two symbols, late fills, restarts, failing reads | cooldown across symbols, one decision per symbol, breaker |
| `prompt` | two symbols long or short, two prices, timeouts; fills before the next cycle | orders rest on the true position and bring the account nearer; flips pass through flat; the account comes to rest at the target |
| `cover` | two symbols, truthful answers, fills within the cooldown | no order while one is unfilled; the breaker trips or orders are accepted |
| `audit` | one symbol, two books of prices, a long or a short wallet, three cycles over restarts, one cycle with a missing write; timeouts that are filled or not, failing reads, exit at any await | every order has its row; accepted rows are orders; the report prices them right, its net position and unconfirmed orders are the account, its gains the cash flow, its open lots the newest |
| `source` | every list of up to three entries out of 18 kinds, with two coins on one symbol, one that is not copied, one not mapped, and a copied symbol without coin; every kind of time and list | a snapshot is the wallet, makes nothing up, and ignores other coins |
| `timing` | two symbols; cooldown 4, sleep 2, freshness 2 seconds; fills of up to 1 to 4, writing a snapshot up to 0 or 1, reads of up to 0 to 2, turns of up to 1 second; answers that tell all or not | which delays keep decisions current, the age of a snapshot, what `FillTiming` stands for |
| `drift`, `residue`, `unknown`, `incomplete` | as above | the first four disagreements below |

Why the bounds are enough. The step, the minimum and the caps of `decision_table` are chosen
so that the step divides neither the minimum nor the caps, the maximum is below what the caps allow, and every rule of `evaluate()` but
the drift threshold (which never does) blocks some input; positions go well beyond the caps on
both sides. In the other runs a target of up to 8 quanta with a convergence ratio of one half
takes several orders to be worked off, so stepwise convergence, a flip in several parts, and a
last part that is too small all happen. Two symbols are what it takes for one symbol's answer to come between another's decision and order. A threshold of two (three in
`unknown`) lets failures be cleared as well as trip. `MaxExposure` is the account's margin: it
bounds the position, and an order beyond it is rejected, as by Binance. `MaxFailures`
bounds the counter where no threshold does (auto-downgrade switched off).

In `audit`, three cycles suffice for a position to be opened, closed and turned round, hence for
a trade that closes several lots and opens one, for two accepted orders of which one is
unconfirmed, and for rows of two processes; bid, mark and ask differ, and the two books differ
enough to tell any wrongly joined price. `MaxCycles` bounds the tables; `MaxGaps` bounds the
cycles that lost a write, of which the properties ask only that there is one. In `timing` the
bounds lie on both sides of each limit a property names: fills shorter and longer than
the sleep, and with the reads shorter and longer than the cooldown. In `source` three entries are
two of one symbol with another before, between or behind.

Deadlock is checked everywhere but in `DecisionTable` and `SourceReader`, which stop after one
step, and in `audit`, which stops at its last cycle: the loop never stops by itself, since
`run()` outlives every exception.

`FillTiming` says how late an order may fill: at `any` time; `within_cooldown`, so
that the cooldown of a symbol only ends when its orders are filled; or `before_next_cycle`. MARKET
orders fill within moments, the cooldown is 30 seconds and the poll interval 10 by default,
so the last is the normal case and the first the worst. `CycleClock` says when each may be
assumed (`FillTimingIsMet`): `before_next_cycle` when fills take less than the poll interval,
`within_cooldown` when they take less than the cooldown and every answer tells what became of
the order. `KnowsPosition` is checked under the
last only, and with good reason: `within_cooldown` is not enough for it. The position is read
before the cooldown is looked up, so a fill and the end of the cooldown between the two let
the old position decide. `DecisionsAreCurrent` has the exact condition: the cooldown must
outlast the fill and the reads of the symbol together. The defaults do not grant that by
themselves, for the three reads of a symbol may take 10 seconds each (and httpx counts its
timeout per phase of a request), which is all of the cooldown of 30 seconds.

`prompt` and `cover` leave `PositionMissing` out: a position read as flat although it is not
(`exchange/binance_client.py:79`) breaks what they check by itself.
`solo` has it. They leave restarts out as well: the program is meant to forget its cooldowns
(`docs/EPHEMERAL-STATE.md:56-65`), and a new process may order what an old one has at work.

### Fairness

`FairSpec` asks for weak fairness of the program's next step, of fills and of the end of
cooldowns. Every await of the program returns: HTTP requests time out after 10 seconds or
`request_timeout_seconds`, SQLite after its own timeout, the sleep ends. Binance fills a MARKET
order it has taken, and time passes. Nothing is asked of starting, stopping or the
wallet; `Converges` says itself that the wallet rests and the program stays live.

## Disagreements between documents and code

| Run | Document | Code |
|---|---|---|
| `drift` | `min_rebalance_pct` is the minimum percentage drift (`docs/CONFIG-SCHEMA.md:172`), the stricter of two thresholds counts (`strategy/risk_policy.py:88`) | `notional_ok or pct_ok` (`strategy/risk_policy.py:103`). Theorem `DriftRuleNeverBlocks`: for no configuration does the rule block anything |
| `residue` | a residue below the tradable minimum is operationally flat and does not block the reverse side (`docs/DECISION-ENGINE.md:222-234`) | `_select_action` goes by the sign alone; the close of the residue is refused by Binance |
| `unknown` | after an unknown status no second order in the same cycle (`docs/ERROR-TAXONOMY.md:90`) | the loop goes on to the next decision (`runtime/loop.py:178`) |
| `incomplete` | missing required fields are data-unavailable errors, not zero values (`docs/API-CONTRACTS.md:20`, with `assetPositions` and `coin` required, `:47`, `:52`) | a missing `assetPositions` is an empty wallet, an entry without coin is skipped, and what is absent is flat (`source/normalization.py:60`, `:66-68`, `:91-102`) |
| | a malformed payload gives `SKIP_DATA_UNAVAILABLE` (`docs/ERROR-TAXONOMY.md:46-50`), one outcome per symbol and cycle (`docs/RUNTIME-STATE-MACHINE.md:159`) | where `normalize_snapshot()` raises something else than the two caught exceptions (`assetPositions` null, an entry that is no object, `szi` "NaN", a `time` out of range) the cycle ends without a record (`app/service.py:86`) |
| | only mapped symbols are eligible (`docs/API-CONTRACTS.md:111-113`, `source/models.py:42`) | a whitelisted symbol without a mapping has source size 0 and its position is closed (`strategy/reconciliation.py:104`). `docs/API-CONTRACTS.md:122-124` asks for that reading of a configured symbol that is absent, and does not say whether an unmapped one is configured |
| | `positionAmt` is required (`docs/API-CONTRACTS.md:143`), and missing is not zero (`:20`) | an entry without it is a flat position (`exchange/binance_client.py:79`), and the target is ordered again |
| | cooldown prevents immediate repeated execution after accepted orders (`docs/HANDOFF.md:98`) | a symbol listed twice, which `config/validation.py` allows, is decided twice before either order is sent |
| | a server-side answer that does not confirm the order leaves it unknown (`docs/ERROR-TAXONOMY.md:84`) | every HTTP error is a reject, and recorded as one (`execution/executor.py:93`, `runtime/loop.py:210`) |

The last five have no run of their own. The steps they come from are modelled
(`SourceUnexpected`, `Normalized`, `PositionMissing`, `FailureStatus`), and the properties that
they break are checked and proved for instances without the cause: `OneOutcomePerSymbol` for
payloads of other kinds, `KnowsPosition` and its relatives without missing positions,
`NoOrderDuringCooldown` for a whitelist without repetitions (`DistinctWhitelist`, named by the
theorem). `SnapshotIsWallet` states the flat reading of an unmapped symbol, as the code has it,
and `EveryOrderIsRecorded` asks of a row the right side and quantity, not a truthful status.

## Proofs

Every theorem holds for all values of the constants that the named assumptions
(`ConfigAssumption`, `FilterAssumption`, `NoPriceAssumption`, `InputAssumption`,
`RuntimeAssumption`, `EnvironmentAssumption`, `ReaderAssumption`, `ClockAssumption`,
`AuditAssumption`, `ReportAssumption`) allow: any whitelist, filters, prices, sizes, payloads, delays.

`ReconciliationProofs` has the arithmetic. `RoundingBounds`: rounding down gives a natural number
not above the fraction. `CapBounds`: so the capped quantity is at most the drift and respects both
caps. `ExecutableDecision`: an executable decision has passed every rule (`Grounds`).
`OrderSizeBounds`: so its order, a flip's close included, is non-zero, in the direction of the
drift, and within the cap (`Bounded`). `DriftRuleNeverBlocks` follows from `CapBounds` alone.

`DecisionTableProofs` has the invariant that the decision is that of its inputs, hence has its
grounds and bounds, and from there `OrderApproachesTarget`, `OrderIsCapped`, `LabelsAreTrue` and
`OrdersAreGuarded`.
Two more theorems need an assumption of their own, which the instance of the
run meets. `OrdersAreTakeable` has `AlignedSteps`: of the two lot steps the larger is a multiple of
the smaller, so that what is rounded to the larger fits both. `LongIsShortMirrored` has
`TightBooks`: no quote is twice the mark price, so that the mirrored book is one of positive prices.

`CopyTraderProofs`:

* `TypeCorrect`. `TypeOK` is inductive as it stands, because it says how long the lists of
  decisions and results are at each await; without that, `Whitelist[Len(results) + 1]` could be
  outside the list.
* `CooldownIsRespected`. `NoOrderDuringCooldown` speaks of the one order that is out, but
  decisions wait while others are answered. The inductive invariant `Cold` speaks of every
  decision that is still to be acted on and executable: its symbol is not cooling down. An
  answer only starts the cooldown of its own symbol, so this needs `DistinctWhitelist`: a symbol
  listed twice, which `config/validation.py` allows, is ordered twice in one cycle.
* `NoOrderIsBlind`. The invariant `Remembered`: a symbol with an unfilled order is cooling down.
  It needs the four conditions of `Gentle`, and TLC shows a blind order when any one is dropped.
* `ImplementsBreaker`. The breaker runs while `pc` is not `down` and has permission in `live`.
  With `Braked` (the counter is below the threshold, an order is out only in `live`, a process
  that is down has counted no failure), initial states map to initial states and each step to a
  step of `CircuitBreaker` or a stutter: a start to `PowerOn`, an exit to `PowerOff`, and between
  them only `Trip` to a loss of permission.
* `CyclesAreComplete`. From `TypeOK`: a cycle that ends has acted on a list as long as the
  whitelist, unless a payload trips `normalize_snapshot()` over.

Its last part: `PositionIsKnown`, `OrdersConverge` and `NoFillTurnsPosition`, under
`Undisturbed`: fills before the next cycle (orders of unknown fate included), no position left
out of an answer, no restart, no symbol listed twice. `TypeOK` together with `Known` and `NoneTurns` is
inductive. `Known` speaks of every decision that may still become an order, because all are made
before the first is sent: its symbol has nothing at work, its position is the true one, and its
order is a step towards the target that does not pass zero, which `ReconciliationProofs` supplies
(`EvaluatedOrderApproaches`). Without a repetition in the whitelist an answer disturbs no other
decision.

`CycleClockProofs`: the invariant adds up times. While an order is at work, the time left of
its cooldown and the time it has worked are together at least a cooldown (`CooldownLasts`); a
symbol that was read over an order at work has more cooldown left than its reads have time
(`LookUpInTime`); while the program sleeps, an order has worked at least as long as the sleep
(`SleepLasts`). `DueOrdersAreCurrent` and `FillTimingHolds` follow. `SnapshotAgeHolds`
adds the writing of the snapshot and the turns that have passed, for a whitelist of any length.

`SequenceFoldsProofs` does the inductions the other modules need. The library's induction theorems take
a predicate as a parameter, which the provers cannot instantiate; `Induction` says the same of a
set (`0 \in S`, and `n - 1 \in S => n \in S`), and follows from `LeastExists`, an instance of the
library's `WFMin`. From it come `Recursion` (a function defined along an interval exists), the
sums (`TotalOfAppend`, `TotalOfChanged`, `TotalOfCombined`, `TotalOfFlattened`) and the places
that rows keep in a selection or a concatenation (`KeptPlaces`, `FlattenPlaces`).

`SourceReaderProofs`: for payloads of any length. A
snapshot exists only if no entry is faulty, so each entry it takes a size from states a number.
`OtherCoinsDoNotMatter` compares a payload with the one that has the entries of other coins removed: the
kept entries are in their order (`KeptPlaces`), so the first faulty and the last entry of a symbol
are the same ones (`EndsCorrespond`).

`AuditTrailProofs`: `AuditIsCopyTrader` first, step by step, so that `TypeOK` holds of `AuditSpec`
as well. `EveryOrderIsRecorded` is not inductive: between the answer and its row nothing says
that the row about to be written is that order's. `Accounted` says so (`IsPending`: its cycle,
symbol and size are those of the last decision acted on), and needs `RecordedSizeIsOrderSize`:
the size the loop computes for a failed order is the one that was sent. `AcceptedIsPending` and
`RowsPointBack` (no row names an order to come) give `RecordedOrdersExist`.

`AuditedReportProofs`, for tables of any length:

* `GainsAreCashFlow`. `MatchLotBalance`: what one lot takes of a trade changes neither the sum of
  the sizes nor profit less cost of the open lots less the rest at the trade's price. Along the
  lots (`SettleBalance`) and the trades (`PnlBalance`) this gives both sums for any report.
* `OldestLotsAreClosed`. The lots are the newest trades of a side, so all of one side; a trade
  of that side meets nothing (`NothingMatched`), one of the other side takes them from
  the oldest on (`MatchedAgainstOthers`) and opens a lot only when none is left (`SettledAreNewest`).
* `AcceptedOrdersArePriced`, under `DistinctWhitelist`. The inductive invariant is `RInv`: no two
  rows of decisions name the same cycle and symbol (`NamedOnce`), which needs that no row is of a
  later cycle (`Dated`) and those of this cycle are of symbols already acted on (`InTurn`); an
  executable decision has a price (`ExecutableIsPriced`), so an order that is out has a row with one unless the
  cycle has a gap (`OrderIsPriced`), and so have the accepted rows (`AcceptedIsPriced`). The join then
  finds that row and no other (`JoinedOnce`), and no other trade has the order
  (`RecordedOrdersExist`). A symbol listed twice would have two decision rows in one cycle, and
  the join would double its trades.
* `ReportIsAccount`, under `DistinctWhitelist`, `WholeFills` (no `PartialFills`) and `FlatStart`
  (the account held nothing before the first start). The inductive invariant is `Balanced`: the accepted rows
  of a symbol and the orders that no row names add up to its position and what is at work. An order
  that is taken is counted by itself at first (`LedgerOfOrder`), and when its row is written the
  row is counted instead, for its size is the order's (`LedgerOfRow`). Without a gap the report's
  net position is the sum of the accepted rows (`NetOfRows`). Both conditions are needed: the report
  counts the quantity that was requested, and starts from nothing.

Only model-checked: the liveness properties (`Converges`, `TripsOrRecovers`), which are beyond
the prover. Every other property that a passing run checks is stated by a theorem.

## Not modelled

* Of the store, the two tables of snapshots: they name no cycle, nothing reads them, and their
  errors are swallowed. The order id of a row that was not accepted is dropped, since the report
  asks for accepted rows only. `AuditTrail` takes the ids of two cycles to differ; a
  process that is restarted within a second could repeat one (`logging/events.py:50-54`).
* Of the report, average prices, the arguments and the output; a period is one of cycles.
* Logging, the loading of the configuration, and `check-config`.
* HTTP and signing are abstracted to the outcome of a request, parsing to what parses.
* In `CopyTrader` freshness is a boolean and cooldowns are a set; `CycleClock` has the
  seconds, but neither restarts nor jumps of the wall clock, which the cooldown is measured by
  (`runtime/cooldown.py:65-67`). A `time` in the future counts as fresh (`SourceReader` has it;
  no document says what it should count as).
* Liquidation and other trading on the account.
* `runtime/modes.validate_transition`, `copy_trade.allowed_sides`, `max_symbol_notional_usdt`,
  `max_total_notional_usdt` and `max_orders_per_cycle` have no effect in the code, and so none
  here.

## Plan

Done, in this order, because every order the program sends depends on the first: the engine and
its table, the running program, the breaker as its abstract specification; then the source, the
clock, the audit trail and the report; and the proofs with each. What could follow:

1. `SourceReader` composed into `CopyTrader` in place of `Mapped`, and the ticks of `CycleClock`
   in place of `CooldownExpires`; today the first two meet at the outcomes of a poll, and the
   last two at `FillTiming`.
2. Several symbols in `audit`, which one symbol and three cycles already fill with some 700
   thousand states; the theorems about it hold for any number.
