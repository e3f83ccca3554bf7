----------------------------- MODULE CycleClock ------------------------------
(***************************************************************************)
(* The cycle of CopyTrader against the clock: sleeping, reading and        *)
(* ordering take time, a cooldown lasts symbol_cooldown_seconds, a snapshot *)
(* ages, and an order may take its time to fill.  What is read, decided    *)
(* and answered is left open: here only the order of events in time counts.*)
(*                                                                         *)
(* The code promises nothing about the time a fill or a request may take.  *)
(* So the bounds are chosen at the beginning, and a property says for      *)
(* which of them it holds.  An order counts as taken when it is answered;  *)
(* taken earlier it is filled earlier.  Restarts are left to CopyTrader.   *)
(***************************************************************************)
EXTENDS Integers, Sequences

CONSTANTS
    Symbols,                 \* the Binance symbols the model speaks of
    Whitelist,               \* copy_trade.symbols.whitelist
    SymbolCooldownSeconds,   \* execution.symbol_cooldown_seconds
    PollIntervalSeconds,     \* source.poll_interval_seconds
    FreshnessTimeout,        \* source.freshness_timeout_seconds
    Bounds                   \* how long things may take

\* fill: an order that was taken.  persist: writing the rows of one snapshot.
\* collect: all reads of one symbol.  execute: persisting one decision, its order
\* and its result.  ambiguous: whether an order may be taken without an answer
\* that says so.
Bound == [fill : Nat, persist : Nat, collect : Nat, execute : Nat, ambiguous : BOOLEAN]

ASSUME ClockAssumption ==
    /\ Whitelist \in Seq(Symbols) /\ Whitelist # <<>>
    /\ \A i, j \in DOMAIN Whitelist : Whitelist[i] = Whitelist[j] => i = j
    /\ SymbolCooldownSeconds \in Nat
    /\ PollIntervalSeconds \in Nat
    /\ FreshnessTimeout \in Nat
    /\ Bounds \subseteq Bound

VARIABLES
    bound,       \* the bounds of this behaviour
    pc,
    index,       \* the symbol that is read, or whose decision is acted on
    timer,       \* seconds since the sleep, the writing of the snapshot, the
                 \* symbol's reads or its turn began
    fresh,       \* is_fresh() of the snapshot
    age,         \* seconds since the snapshot's source_timestamp
    due,         \* symbols whose executable decision has not been acted on
    remaining,   \* seconds until _cooldown_until, 0 when it has passed
    working,     \* symbols an order of which is not filled yet
    workedFor,   \* seconds since that order was taken
    moved        \* symbols whose position has changed since this cycle read it

cycleVars == <<pc, index, timer, fresh, age, due>>
orderVars == <<working, workedFor, moved>>
vars == <<bound, cycleVars, remaining, orderVars>>

Phases == {"sleeping", "source", "snapshot", "position", "price", "act", "awaiting"}

Current == Whitelist[index]

Init ==
    /\ bound \in Bounds
    /\ pc = "source"
    /\ index = 1
    /\ timer = 0
    /\ fresh = FALSE
    /\ age = 0
    /\ due = {}
    /\ remaining = [s \in Symbols |-> 0]
    /\ working = {}
    /\ workedFor = [s \in Symbols |-> 0]
    /\ moved = {}

-----------------------------------------------------------------------------
\* Faulty: the next cycle starts without a sleep.
HasNotToSleep == TRUE

\* asyncio.sleep() returns, not before its time.
HasSlept == timer >= PollIntervalSeconds

WakeUp ==
    /\ pc = "sleeping"
    /\ HasSlept
    /\ pc' = "source"
    /\ UNCHANGED <<bound, index, timer, fresh, age, due, remaining, orderVars>>

\* Faulty: whatever was fetched is fresh.
EverythingIsFresh(seconds) == TRUE

IsFresh(seconds) == seconds <= FreshnessTimeout

\* The snapshot is some seconds old when it is looked at, at most one too many.
SourceFetched(seconds) ==
    /\ pc = "source"
    /\ fresh' = IsFresh(seconds)
    /\ age' = seconds
    /\ pc' = "snapshot"
    /\ timer' = 0
    /\ UNCHANGED <<bound, index, due, remaining, orderVars>>

\* Every position of the snapshot has been written, one await each, or none is to be.
SnapshotPersisted ==
    /\ pc = "snapshot"
    /\ pc' = "position"
    /\ index' = 1
    /\ timer' = 0
    /\ UNCHANGED <<bound, fresh, age, due, remaining, orderVars>>

\* No snapshot, by whichever exception.
SourceFailed ==
    /\ pc = "source"
    /\ pc' = "sleeping"
    /\ timer' = 0
    /\ UNCHANGED <<bound, index, fresh, age, due, remaining, orderVars>>

PositionFetched ==
    /\ pc = "position"
    /\ moved' = moved \ {Current}
    /\ pc' = "price"
    /\ UNCHANGED <<bound, index, timer, fresh, age, due, remaining, working, workedFor>>

\* Faulty: one turn too many.
NextTurnPastTheLast(again, end) ==
    /\ timer' = 0
    /\ IF index > Len(Whitelist)
       THEN pc' = end /\ index' = 1
       ELSE pc' = again /\ index' = index + 1

\* The next symbol's turn, or what comes after the last one.
NextTurn(again, end) ==
    /\ timer' = 0
    /\ IF index = Len(Whitelist)
       THEN pc' = end /\ index' = 1
       ELSE pc' = again /\ index' = index + 1

IsCoolingDown(s) == remaining[s] > 0

\* evaluate(), or the exception that takes its place: an order may be due only
\* for a fresh snapshot and a symbol that is not cooling down.
Decided(executable) ==
    /\ pc = "price"
    /\ executable => fresh /\ ~IsCoolingDown(Current)
    /\ due' = IF executable THEN due \cup {Current} ELSE due
    /\ NextTurn("position", "act")
    /\ UNCHANGED <<bound, fresh, age, remaining, orderVars>>

\* The decision asks for no order, or the mode does not allow one.
PassOver ==
    /\ pc = "act"
    /\ due' = due \ {Current}
    /\ NextTurn("act", "sleeping")
    /\ UNCHANGED <<bound, fresh, age, remaining, orderVars>>

Submit ==
    /\ pc = "act"
    /\ Current \in due
    /\ pc' = "awaiting"
    /\ UNCHANGED <<bound, index, timer, fresh, age, due, remaining, orderVars>>

\* Faulty: the cooldown counts from the moment the decision was taken up.
CooldownFromSubmit ==
    IF SymbolCooldownSeconds > timer THEN SymbolCooldownSeconds - timer ELSE 0

CooldownFromAnswer == SymbolCooldownSeconds

\* With an earlier order of the symbol at work, the younger one counts.
Answered(accepted, taken) ==
    /\ pc = "awaiting"
    /\ accepted => taken
    /\ taken => accepted \/ bound.ambiguous
    /\ due' = due \ {Current}
    /\ remaining' = IF accepted
                    THEN [remaining EXCEPT ![Current] = CooldownFromAnswer]
                    ELSE remaining
    /\ working' = IF taken THEN working \cup {Current} ELSE working
    /\ workedFor' = IF taken THEN [workedFor EXCEPT ![Current] = 0] ELSE workedFor
    /\ NextTurn("act", "sleeping")
    /\ UNCHANGED <<bound, fresh, age, moved>>

-----------------------------------------------------------------------------
Filled(s) ==
    /\ s \in working
    /\ working' = working \ {s}
    /\ workedFor' = [workedFor EXCEPT ![s] = 0]
    /\ moved' = moved \cup {s}
    /\ UNCHANGED <<bound, cycleVars, remaining>>

\* What is bounded has not yet taken all its time.
TimeIsLeft ==
    /\ \A s \in working : workedFor[s] < bound.fill
    /\ pc = "snapshot" => timer < bound.persist
    /\ pc \in {"position", "price"} => timer < bound.collect
    /\ pc \in {"act", "awaiting"} => timer < bound.execute

\* One second passes.  Nothing asks how long a sleep or the wait for the source
\* has lasted beyond poll_interval_seconds, nor how old a snapshot is between
\* two cycles.
Tick ==
    /\ TimeIsLeft
    /\ timer' = IF pc \in {"sleeping", "source"} /\ timer >= PollIntervalSeconds
                THEN timer ELSE timer + 1
    /\ age' = IF pc \in {"sleeping", "source"} THEN age ELSE age + 1
    /\ remaining' = [s \in Symbols |-> IF remaining[s] > 0 THEN remaining[s] - 1 ELSE 0]
    /\ workedFor' = [s \in Symbols |-> IF s \in working THEN workedFor[s] + 1 ELSE 0]
    /\ UNCHANGED <<bound, pc, index, fresh, due, working, moved>>

-----------------------------------------------------------------------------
ProgramStep ==
    \/ WakeUp
    \/ \E seconds \in 0 .. FreshnessTimeout + 1 : SourceFetched(seconds)
    \/ SourceFailed
    \/ SnapshotPersisted
    \/ PositionFetched
    \/ \E executable \in BOOLEAN : Decided(executable)
    \/ PassOver
    \/ Submit
    \/ \E accepted, taken \in BOOLEAN : Answered(accepted, taken)

Next == ProgramStep \/ (\E s \in Symbols : Filled(s)) \/ Tick

Spec == Init /\ [][Next]_vars

-----------------------------------------------------------------------------
(* Properties.                                                             *)

TypeOK ==
    /\ bound \in Bounds
    /\ pc \in Phases
    /\ index \in DOMAIN Whitelist
    /\ timer \in Nat
    /\ fresh \in BOOLEAN
    /\ age \in Nat
    /\ due \subseteq Symbols
    /\ remaining \in [Symbols -> Nat]
    /\ working \subseteq Symbols
    /\ workedFor \in [Symbols -> Nat]
    /\ moved \subseteq Symbols

\* Either the cooldown outlasts the fill and the reads of the symbol, and every
\* answer tells what became of the order, or fills take less than the sleep.
Covered ==
    \/ bound.fill + bound.collect < SymbolCooldownSeconds /\ ~bound.ambiguous
    \/ bound.fill < PollIntervalSeconds

\* An order that is due rests on the true position: nothing of its symbol is at
\* work and nothing was filled since the position was read, whatever happens
\* between the read, the look-up of the cooldown some requests later, and the
\* orders that go first (service.py:115-135, loop.py:124-142).  The cooldown
\* must cover the reads too: it may end between the read and the look-up.
DecisionsAreCurrent == Covered => due \cap (working \cup moved) = {}

\* Freshness is looked at once a cycle (hyperliquid_reader.py:69-81), so an order
\* may rest on a snapshot older than freshness_timeout_seconds, but only by the
\* time it took to write the snapshot's rows (service.py:107-110), to read all
\* symbols and to act on the decisions up to this one.
SnapshotAgeIsBounded ==
    pc = "awaiting" =>
        age <= FreshnessTimeout + bound.persist
                 + Len(Whitelist) * bound.collect + index * bound.execute

\* What CopyTrader's FillTiming assumes, from the time a fill may take: with
\* "within_cooldown" no cooldown expires over an order at work, with
\* "before_next_cycle" none is at work while the symbols are read (cooldown.py:36-43,
\* loop.py:82).
FillTimingIsMet ==
    /\ bound.fill < SymbolCooldownSeconds /\ ~bound.ambiguous =>
          \A s \in working : IsCoolingDown(s)
    /\ bound.fill < PollIntervalSeconds /\ pc \in {"position", "price"} =>
          working = {}
=============================================================================
