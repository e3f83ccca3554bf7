-------------------------- MODULE CycleClockProofs ---------------------------
(***************************************************************************)
(* For every choice of the bounds: orders rest on the true position when   *)
(* the cooldown or the sleep covers the fills, snapshots age no more than  *)
(* the requests allow, and CopyTrader's FillTiming is met.                 *)
(***************************************************************************)
EXTENDS CycleClock, TLAPS

\* What is bounded has taken no more than its time.
WithinBounds ==
    /\ \A s \in working : workedFor[s] <= bound.fill
    /\ pc = "snapshot" => timer <= bound.persist
    /\ pc \in {"position", "price"} => timer <= bound.collect
    /\ pc \in {"act", "awaiting"} => timer <= bound.execute

\* Decisions are due only between their making and their turn.
Between(m, n) == {Whitelist[i] : i \in m .. n}
DueInOrder ==
    /\ pc \in {"position", "price"} => due \subseteq Between(1, index - 1)
    /\ pc \in {"act", "awaiting"} => due \subseteq Between(index, Len(Whitelist))
    /\ pc \in {"sleeping", "source", "snapshot"} => due = {}
    /\ pc = "awaiting" => Current \in due
    /\ due # {} => fresh

\* With truthful answers the cooldown and the age of an order at work add up to
\* at least a whole cooldown.
CooldownLasts ==
    bound.fill < SymbolCooldownSeconds /\ ~bound.ambiguous =>
        \A s \in working : remaining[s] + workedFor[s] >= SymbolCooldownSeconds

\* If the cooldown covers the reads as well, a symbol read while an order was at
\* work still cools down at the look-up.
LookUpInTime ==
    bound.fill + bound.collect < SymbolCooldownSeconds /\ ~bound.ambiguous =>
        (pc = "price" /\ Current \in working \cup moved
            => remaining[Current] + timer > bound.collect)

\* If the sleep covers the fills, an order at work is older than the sleep, and
\* none is at work while symbols are read.
SleepLasts ==
    bound.fill < PollIntervalSeconds =>
        /\ pc = "sleeping" => \A s \in working : workedFor[s] >= timer
        /\ pc \in {"source", "snapshot", "position", "price"} => working = {}
        /\ pc = "price" => Current \notin moved

IInv ==
    /\ TypeOK
    /\ WithinBounds
    /\ DueInOrder
    /\ CooldownLasts
    /\ LookUpInTime
    /\ SleepLasts
    /\ DecisionsAreCurrent

-----------------------------------------------------------------------------
LEMMA WhitelistFacts ==
    /\ Len(Whitelist) \in Nat /\ Len(Whitelist) >= 1
    /\ DOMAIN Whitelist = 1 .. Len(Whitelist)
    /\ \A i \in DOMAIN Whitelist : Whitelist[i] \in Symbols
BY ClockAssumption

LEMMA BoundFacts ==
    ASSUME TypeOK
    PROVE  /\ bound.fill \in Nat
           /\ bound.persist \in Nat
           /\ bound.collect \in Nat
           /\ bound.execute \in Nat
           /\ bound.ambiguous \in BOOLEAN
BY ClockAssumption DEF TypeOK, Bound

LEMMA BetweenFacts ==
    /\ Between(1, 0) = {}
    /\ \A n \in DOMAIN Whitelist :
          /\ Between(1, n - 1) \cup {Whitelist[n]} \subseteq Between(1, n)
          /\ Between(n, Len(Whitelist)) \ {Whitelist[n]} \subseteq Between(n + 1, Len(Whitelist))
    /\ Between(Len(Whitelist) + 1, Len(Whitelist)) = {}
BY WhitelistFacts DEF Between

LEMMA InitInductive == Init => IInv
<1> SUFFICES ASSUME Init PROVE IInv
    OBVIOUS
<1>1. TypeOK
    <2>1. index \in DOMAIN Whitelist
        BY WhitelistFacts DEF Init
    <2>2. remaining \in [Symbols -> Nat] /\ workedFor \in [Symbols -> Nat]
        BY DEF Init
    <2>3. QED
        BY <2>1, <2>2 DEF Init, TypeOK, Phases
<1>2. working = {}
    BY DEF Init
<1>3. QED
    BY <1>1, <1>2 DEF Init, IInv, WithinBounds, DueInOrder, CooldownLasts,
       LookUpInTime, SleepLasts, DecisionsAreCurrent

\* A turn passed on to the next symbol, or ended with the last.
LEMMA TurnType ==
    ASSUME TypeOK, NEW again \in Phases, NEW end \in Phases, NextTurn(again, end)
    PROVE  /\ pc' \in {again, end} /\ pc' \in Phases
           /\ index' \in DOMAIN Whitelist
           /\ timer' = 0
BY WhitelistFacts DEF NextTurn, TypeOK

LEMMA TypeInductive ==
    ASSUME TypeOK, [Next]_vars
    PROVE  TypeOK'
<1>1. CASE UNCHANGED vars
    BY <1>1 DEF TypeOK, vars, cycleVars, orderVars
<1>2. CASE WakeUp
    BY <1>2 DEF WakeUp, TypeOK, orderVars, Phases
<1>3. ASSUME NEW seconds \in 0 .. FreshnessTimeout + 1, SourceFetched(seconds)
      PROVE  TypeOK'
    BY <1>3, WhitelistFacts, ClockAssumption
    DEF SourceFetched, TypeOK, orderVars, Phases, IsFresh
<1>4. CASE SourceFailed \/ SnapshotPersisted
    BY <1>4, WhitelistFacts DEF SourceFailed, SnapshotPersisted, TypeOK, orderVars, Phases
<1>5. CASE PositionFetched
    BY <1>5 DEF PositionFetched, TypeOK, Phases
<1>6. ASSUME NEW executable \in BOOLEAN, Decided(executable)
      PROVE  TypeOK'
    <2>1. NextTurn("position", "act")
        BY <1>6 DEF Decided
    <2>2. pc' \in Phases /\ index' \in DOMAIN Whitelist /\ timer' = 0
        BY <2>1, TurnType DEF Phases
    <2>3. QED
        BY <1>6, <2>2, WhitelistFacts DEF Decided, TypeOK, orderVars, Current
<1>7. CASE PassOver
    <2>1. NextTurn("act", "sleeping")
        BY <1>7 DEF PassOver
    <2>2. pc' \in Phases /\ index' \in DOMAIN Whitelist /\ timer' = 0
        BY <2>1, TurnType DEF Phases
    <2>3. QED
        BY <1>7, <2>2 DEF PassOver, TypeOK, orderVars
<1>8. CASE Submit
    BY <1>8 DEF Submit, TypeOK, orderVars, Phases
<1>9. ASSUME NEW accepted \in BOOLEAN, NEW taken \in BOOLEAN, Answered(accepted, taken)
      PROVE  TypeOK'
    <2>1. NextTurn("act", "sleeping")
        BY <1>9 DEF Answered
    <2>2. pc' \in Phases /\ index' \in DOMAIN Whitelist /\ timer' = 0
        BY <2>1, TurnType DEF Phases
    <2>3. remaining' \in [Symbols -> Nat]
        <3>1. CASE accepted
            BY <1>9, <3>1, ClockAssumption DEF Answered, TypeOK, CooldownFromAnswer
        <3>2. CASE ~accepted
            BY <1>9, <3>2 DEF Answered, TypeOK
        <3>3. QED
            BY <3>1, <3>2
    <2>4. workedFor' \in [Symbols -> Nat]
        <3>1. CASE taken
            BY <1>9, <3>1 DEF Answered, TypeOK
        <3>2. CASE ~taken
            BY <1>9, <3>2 DEF Answered, TypeOK
        <3>3. QED
            BY <3>1, <3>2
    <2>5. QED
        BY <1>9, <2>2, <2>3, <2>4, WhitelistFacts DEF Answered, TypeOK, Current
<1>10. ASSUME NEW s \in Symbols, Filled(s)
       PROVE  TypeOK'
    BY <1>10 DEF Filled, TypeOK, cycleVars
<1>11. CASE Tick
    <2>1. timer' \in Nat /\ age' \in Nat
        BY <1>11 DEF Tick, TypeOK
    <2>2. remaining' \in [Symbols -> Nat]
        BY <1>11 DEF Tick, TypeOK
    <2>3. workedFor' \in [Symbols -> Nat]
        BY <1>11 DEF Tick, TypeOK
    <2>4. QED
        BY <1>11, <2>1, <2>2, <2>3 DEF Tick, TypeOK
<1>12. QED
    BY <1>1, <1>2, <1>3, <1>4, <1>5, <1>6, <1>7, <1>8, <1>9, <1>10, <1>11
    DEF Next, ProgramStep

\* TypeOK is an invariant.
THEOREM Typing == Spec => []TypeOK
<1>1. Init => TypeOK
    BY InitInductive DEF IInv
<1>2. TypeOK /\ [Next]_vars => TypeOK'
    BY TypeInductive
<1>3. QED
    BY <1>1, <1>2, PTL DEF Spec

-----------------------------------------------------------------------------
(* One lemma for each kind of step.                                        *)

LEMMA StutterInductive ==
    ASSUME IInv, UNCHANGED vars
    PROVE  IInv'
BY DEF IInv, vars, cycleVars, orderVars, TypeOK, WithinBounds, DueInOrder,
   CooldownLasts, LookUpInTime, SleepLasts, DecisionsAreCurrent, Covered, Current

\* The steps that neither read a symbol nor act on a decision.
LEMMA IdleInductive ==
    ASSUME IInv, TypeOK',
           \/ WakeUp
           \/ \E seconds \in 0 .. FreshnessTimeout + 1 : SourceFetched(seconds)
           \/ SourceFailed
           \/ SnapshotPersisted
    PROVE  IInv'
<1> USE DEF IInv
<1>0. /\ bound' = bound /\ due' = due /\ due = {}
      /\ remaining' = remaining /\ working' = working /\ workedFor' = workedFor
      /\ moved' = moved
      /\ pc' \in {"sleeping", "source", "snapshot", "position"}
    BY DEF WakeUp, SourceFetched, SourceFailed, SnapshotPersisted, orderVars, DueInOrder
<1>1. WithinBounds'
    <2>1. CASE WakeUp \/ SourceFailed
        BY <1>0, <2>1 DEF WithinBounds, WakeUp, SourceFailed
    <2>2. CASE \E seconds \in 0 .. FreshnessTimeout + 1 : SourceFetched(seconds)
        BY <1>0, <2>2, BoundFacts DEF WithinBounds, SourceFetched
    <2>3. CASE SnapshotPersisted
        BY <1>0, <2>3, BoundFacts DEF WithinBounds, SnapshotPersisted
    <2>4. QED
        BY <2>1, <2>2, <2>3
<1>2. DueInOrder'
    BY <1>0 DEF DueInOrder
<1>3. CooldownLasts'
    BY <1>0 DEF CooldownLasts
<1>4. LookUpInTime'
    BY <1>0 DEF LookUpInTime
<1>5. SleepLasts'
    <2>1. CASE WakeUp
        BY <1>0, <2>1, BoundFacts, ClockAssumption
        DEF SleepLasts, WakeUp, HasSlept, WithinBounds, TypeOK
    <2>2. CASE \E seconds \in 0 .. FreshnessTimeout + 1 : SourceFetched(seconds)
        BY <1>0, <2>2 DEF SleepLasts, SourceFetched
    <2>3. CASE SourceFailed
        BY <1>0, <2>3 DEF SleepLasts, SourceFailed, TypeOK
    <2>4. CASE SnapshotPersisted
        BY <1>0, <2>4 DEF SleepLasts, SnapshotPersisted
    <2>5. QED
        BY <2>1, <2>2, <2>3, <2>4
<1>6. DecisionsAreCurrent'
    BY <1>0 DEF DecisionsAreCurrent
<1>7. QED
    BY <1>1, <1>2, <1>3, <1>4, <1>5, <1>6

\* The read is where the cooldown has to outlast what is still to come.
LEMMA PositionFetchedInductive ==
    ASSUME IInv, TypeOK', PositionFetched
    PROVE  IInv'
<1> USE DEF IInv
<1>0. /\ pc = "position" /\ pc' = "price"
      /\ bound' = bound /\ index' = index /\ timer' = timer /\ fresh' = fresh
      /\ due' = due /\ remaining' = remaining
      /\ working' = working /\ workedFor' = workedFor
      /\ moved' = moved \ {Current} /\ Current' = Current
      /\ Current \in Symbols
    BY WhitelistFacts DEF PositionFetched, Current, TypeOK
<1>1. WithinBounds' /\ DueInOrder' /\ CooldownLasts' /\ DecisionsAreCurrent'
    BY <1>0 DEF WithinBounds, DueInOrder, CooldownLasts, DecisionsAreCurrent, Covered
<1>2. LookUpInTime'
    <2> SUFFICES ASSUME bound.fill + bound.collect < SymbolCooldownSeconds,
                        ~bound.ambiguous, Current \in working
                 PROVE  remaining[Current] + timer > bound.collect
        BY <1>0 DEF LookUpInTime
    <2>1. remaining[Current] + workedFor[Current] >= SymbolCooldownSeconds
        BY BoundFacts, ClockAssumption DEF CooldownLasts
    <2>2. workedFor[Current] <= bound.fill
        BY DEF WithinBounds
    <2>3. remaining[Current] \in Nat /\ workedFor[Current] \in Nat /\ timer \in Nat
        BY <1>0 DEF TypeOK
    <2>4. bound.fill \in Nat /\ bound.collect \in Nat /\ SymbolCooldownSeconds \in Nat
        BY BoundFacts, ClockAssumption
    <2>5. QED
        BY <2>1, <2>2, <2>3, <2>4
<1>3. SleepLasts'
    BY <1>0 DEF SleepLasts
<1>4. QED
    BY <1>1, <1>2, <1>3

\* At the look-up a symbol that was read over an order at work, or has moved
\* since, is found cooling down.
LEMMA DecidedInductive ==
    ASSUME IInv, TypeOK', NEW executable \in BOOLEAN, Decided(executable)
    PROVE  IInv'
<1> USE DEF IInv
<1>0. /\ pc = "price" /\ timer' = 0
      /\ pc' \in {"position", "act"}
      /\ bound' = bound /\ fresh' = fresh
      /\ remaining' = remaining /\ working' = working
      /\ workedFor' = workedFor /\ moved' = moved
    BY DEF Decided, NextTurn, orderVars
<1>1. WithinBounds'
    BY <1>0, BoundFacts DEF WithinBounds
<1>2. DueInOrder'
    <2>1. due' \subseteq Between(1, index)
        BY <1>0, BetweenFacts DEF DueInOrder, Decided, Current, TypeOK
    <2>2. pc' = "position" => index' - 1 = index
        BY WhitelistFacts DEF Decided, NextTurn, TypeOK
    <2>3. pc' = "act" => index = Len(Whitelist) /\ index' = 1
        BY DEF Decided, NextTurn
    <2>4. due' # {} => fresh'
        BY <1>0 DEF DueInOrder, Decided
    <2>5. QED
        BY <1>0, <2>1, <2>2, <2>3, <2>4 DEF DueInOrder
<1>3. CooldownLasts' /\ LookUpInTime'
    BY <1>0 DEF CooldownLasts, LookUpInTime
<1>4. SleepLasts'
    BY <1>0 DEF SleepLasts
<1>5. DecisionsAreCurrent'
    <2> SUFFICES ASSUME Covered, executable
                 PROVE  Current \notin working \cup moved
        BY <1>0 DEF DecisionsAreCurrent, Covered, Decided
    <2>1. remaining[Current] = 0
        BY WhitelistFacts DEF Decided, IsCoolingDown, TypeOK, Current
    <2>2. CASE bound.fill < PollIntervalSeconds
        BY <1>0, <2>2 DEF SleepLasts
    <2>3. CASE bound.fill + bound.collect < SymbolCooldownSeconds /\ ~bound.ambiguous
        BY <1>0, <2>1, <2>3, BoundFacts DEF LookUpInTime, WithinBounds, TypeOK
    <2>4. QED
        BY <2>2, <2>3 DEF Covered
<1>6. QED
    BY <1>1, <1>2, <1>3, <1>4, <1>5

\* A turn without an order, and the sending of one.
LEMMA TurnInductive ==
    ASSUME IInv, TypeOK', PassOver \/ Submit
    PROVE  IInv'
<1> USE DEF IInv
<1>0. /\ pc = "act" /\ pc' \in {"act", "sleeping", "awaiting"}
      /\ bound' = bound /\ fresh' = fresh /\ due' \subseteq due
      /\ remaining' = remaining /\ working' = working
      /\ workedFor' = workedFor /\ moved' = moved
      /\ timer' = 0 \/ timer' = timer
    BY DEF PassOver, Submit, NextTurn, orderVars
<1>1. WithinBounds'
    BY <1>0, BoundFacts DEF WithinBounds
<1>2. DueInOrder'
    <2>1. CASE Submit
        BY <2>1 DEF Submit, DueInOrder, Current
    <2>2. CASE PassOver
        <3>1. due' \subseteq Between(index + 1, Len(Whitelist))
            BY <1>0, <2>2, BetweenFacts DEF PassOver, DueInOrder, Current, TypeOK
        <3>2. \/ pc' = "act" /\ index' = index + 1
              \/ pc' = "sleeping" /\ index = Len(Whitelist)
            BY <2>2 DEF PassOver, NextTurn
        <3>3. QED
            BY <1>0, <3>1, <3>2, BetweenFacts DEF DueInOrder
    <2>3. QED
        BY <2>1, <2>2
<1>3. CooldownLasts' /\ LookUpInTime'
    BY <1>0 DEF CooldownLasts, LookUpInTime
<1>4. SleepLasts'
    BY <1>0 DEF SleepLasts, PassOver, Submit, NextTurn, TypeOK
<1>5. DecisionsAreCurrent'
    BY <1>0 DEF DecisionsAreCurrent, Covered
<1>6. QED
    BY <1>1, <1>2, <1>3, <1>4, <1>5

\* An answer starts the cooldown and the fill together.
LEMMA AnsweredInductive ==
    ASSUME IInv, TypeOK', NEW accepted \in BOOLEAN, NEW taken \in BOOLEAN,
           Answered(accepted, taken)
    PROVE  IInv'
<1> USE DEF IInv
<1>0. /\ pc = "awaiting" /\ pc' \in {"act", "sleeping"} /\ timer' = 0
      /\ bound' = bound /\ fresh' = fresh /\ due' = due \ {Current}
      /\ moved' = moved /\ Current \in Symbols
      /\ working' \subseteq working \cup {Current}
      /\ \A s \in working \ {Current} : remaining'[s] = remaining[s] /\ workedFor'[s] = workedFor[s]
    BY WhitelistFacts DEF Answered, NextTurn, TypeOK, Current
<1>1. ASSUME taken
      PROVE  WithinBounds' /\ CooldownLasts' /\ SleepLasts'
    <2>0. workedFor'[Current] = 0
        BY <1>0, <1>1 DEF Answered, TypeOK
    <2>1. WithinBounds'
        BY <1>0, <2>0, BoundFacts DEF WithinBounds
    <2>2. CooldownLasts'
        <3> SUFFICES ASSUME ~bound.ambiguous, bound.fill < SymbolCooldownSeconds,
                            NEW s \in working'
                     PROVE  remaining'[s] + workedFor'[s] >= SymbolCooldownSeconds
            BY <1>0 DEF CooldownLasts
        <3>1. CASE s = Current
            <4>1. accepted
                BY <1>1 DEF Answered
            <4>2. remaining'[Current] = SymbolCooldownSeconds
                BY <1>0, <4>1 DEF Answered, CooldownFromAnswer, TypeOK
            <4>3. QED
                BY <2>0, <3>1, <4>2, ClockAssumption
        <3>2. CASE s # Current
            BY <1>0, <3>2 DEF CooldownLasts
        <3>3. QED
            BY <3>1, <3>2
    <2>3. SleepLasts'
        <3>1. \A s \in working' : workedFor'[s] \in Nat
            BY DEF TypeOK
        <3>2. QED
            BY <1>0, <3>1 DEF SleepLasts
    <2>4. QED
        BY <2>1, <2>2, <2>3
<1>2. ASSUME ~taken
      PROVE  WithinBounds' /\ CooldownLasts' /\ SleepLasts'
    <2>0. working' = working /\ workedFor' = workedFor /\ remaining' = remaining
        BY <1>2 DEF Answered
    <2>1. WithinBounds' /\ CooldownLasts' /\ SleepLasts'
        BY <1>0, <2>0, BoundFacts DEF WithinBounds, CooldownLasts, SleepLasts, TypeOK
    <2>2. QED
        BY <2>1
<1>3. DueInOrder'
    <2>1. due' \subseteq Between(index + 1, Len(Whitelist))
        BY <1>0, BetweenFacts DEF DueInOrder, Current, TypeOK
    <2>2. \/ pc' = "act" /\ index' = index + 1
          \/ pc' = "sleeping" /\ index = Len(Whitelist)
        BY DEF Answered, NextTurn
    <2>3. QED
        BY <1>0, <2>1, <2>2, BetweenFacts DEF DueInOrder
<1>4. LookUpInTime'
    BY <1>0 DEF LookUpInTime
<1>5. DecisionsAreCurrent'
    BY <1>0 DEF DecisionsAreCurrent, Covered
<1>6. QED
    BY <1>1, <1>2, <1>3, <1>4, <1>5

LEMMA FilledInductive ==
    ASSUME IInv, TypeOK', NEW s \in Symbols, Filled(s)
    PROVE  IInv'
<1> USE DEF IInv
<1>0. /\ bound' = bound /\ pc' = pc /\ index' = index /\ timer' = timer
      /\ fresh' = fresh /\ due' = due /\ remaining' = remaining
      /\ s \in working /\ working' = working \ {s}
      /\ moved' = moved \cup {s} /\ Current' = Current
      /\ \A t \in working \ {s} : workedFor'[t] = workedFor[t]
    BY DEF Filled, cycleVars, TypeOK, Current
<1>1. WithinBounds' /\ DueInOrder' /\ CooldownLasts'
    BY <1>0 DEF WithinBounds, DueInOrder, CooldownLasts
<1>2. LookUpInTime'
    BY <1>0 DEF LookUpInTime
<1>3. SleepLasts'
    BY <1>0 DEF SleepLasts
<1>4. DecisionsAreCurrent'
    BY <1>0 DEF DecisionsAreCurrent, Covered
<1>5. QED
    BY <1>1, <1>2, <1>3, <1>4

LEMMA TickInductive ==
    ASSUME IInv, TypeOK', Tick
    PROVE  IInv'
<1> USE DEF IInv
<1>0. /\ bound' = bound /\ pc' = pc /\ index' = index /\ fresh' = fresh /\ due' = due
      /\ working' = working /\ moved' = moved /\ Current' = Current
      /\ Current \in Symbols /\ working \subseteq Symbols
      /\ timer' \in {timer, timer + 1} /\ timer \in Nat
    BY WhitelistFacts DEF Tick, TypeOK, Current
<1>1. ASSUME NEW s \in Symbols
      PROVE  /\ remaining[s] \in Nat /\ workedFor[s] \in Nat
             /\ remaining'[s] = IF remaining[s] > 0 THEN remaining[s] - 1 ELSE 0
             /\ s \in working => workedFor'[s] = workedFor[s] + 1 /\ workedFor[s] < bound.fill
    BY DEF Tick, TypeOK, TimeIsLeft
<1>2. /\ bound.fill \in Nat /\ bound.persist \in Nat
      /\ bound.collect \in Nat /\ bound.execute \in Nat
    BY BoundFacts
<1>3. WithinBounds'
    <2>1. \A s \in working' : workedFor'[s] <= bound'.fill
        BY <1>0, <1>1, <1>2
    <2>2. pc' \in {"position", "price"} => timer' <= bound'.collect
        BY <1>0, <1>2 DEF Tick, TimeIsLeft
    <2>3. pc' \in {"act", "awaiting"} => timer' <= bound'.execute
        BY <1>0, <1>2 DEF Tick, TimeIsLeft
    <2>4. pc' = "snapshot" => timer' <= bound'.persist
        BY <1>0, <1>2 DEF Tick, TimeIsLeft
    <2>5. QED
        BY <2>1, <2>2, <2>3, <2>4 DEF WithinBounds
<1>4. DueInOrder' /\ DecisionsAreCurrent'
    BY <1>0 DEF DueInOrder, DecisionsAreCurrent, Covered
<1>5. CooldownLasts'
    <2> SUFFICES ASSUME bound.fill < SymbolCooldownSeconds, ~bound.ambiguous,
                        NEW s \in working
                 PROVE  remaining'[s] + workedFor'[s] >= SymbolCooldownSeconds
        BY <1>0 DEF CooldownLasts
    <2>1. remaining[s] + workedFor[s] >= SymbolCooldownSeconds
        BY DEF CooldownLasts
    <2>2. QED
        BY <1>0, <1>1, <1>2, <2>1, ClockAssumption
<1>6. LookUpInTime'
    <2> SUFFICES ASSUME bound.fill + bound.collect < SymbolCooldownSeconds,
                        ~bound.ambiguous, pc = "price", Current \in working \cup moved
                 PROVE  remaining'[Current] + timer' > bound.collect
        BY <1>0 DEF LookUpInTime
    <2>1. remaining[Current] + timer > bound.collect
        BY DEF LookUpInTime
    <2>2. timer < bound.collect /\ timer' = timer + 1
        BY DEF Tick, TimeIsLeft
    <2>3. QED
        BY <1>0, <1>1, <1>2, <2>1, <2>2
<1>7. SleepLasts'
    <2> SUFFICES ASSUME bound.fill < PollIntervalSeconds, pc = "sleeping", NEW s \in working
                 PROVE  workedFor'[s] >= timer'
        BY <1>0 DEF SleepLasts
    <2>1. workedFor[s] >= timer
        BY DEF SleepLasts
    <2>2. QED
        BY <1>0, <1>1, <2>1
<1>8. QED
    BY <1>3, <1>4, <1>5, <1>6, <1>7

THEOREM ClockInvariant == Spec => []IInv
<1>1. Init => IInv
    BY InitInductive
<1>2. IInv /\ [Next]_vars => IInv'
    <2> SUFFICES ASSUME IInv, [Next]_vars PROVE IInv'
        OBVIOUS
    <2>1. TypeOK'
        BY TypeInductive DEF IInv
    <2>2. QED
        BY <2>1, StutterInductive, IdleInductive, PositionFetchedInductive,
           DecidedInductive, TurnInductive, AnsweredInductive, FilledInductive,
           TickInductive
        DEF Next, ProgramStep
<1>3. QED
    BY <1>1, <1>2, PTL DEF Spec

\* DecisionsAreCurrent, for all times: an order that is due rests on the true
\* position if the cooldown covers fills and reads, or the sleep covers fills.
THEOREM DueOrdersAreCurrent == Spec => []DecisionsAreCurrent
<1>1. IInv => DecisionsAreCurrent
    BY DEF IInv
<1>2. QED
    BY <1>1, ClockInvariant, PTL

\* FillTimingIsMet: what CopyTrader assumes of fills, from their duration.
THEOREM FillTimingHolds == Spec => []FillTimingIsMet
<1>1. IInv => FillTimingIsMet
    <2> SUFFICES ASSUME IInv PROVE FillTimingIsMet
        OBVIOUS
    <2> USE DEF IInv
    <2>1. ASSUME bound.fill < SymbolCooldownSeconds, ~bound.ambiguous, NEW s \in working
          PROVE  IsCoolingDown(s)
        <3>1. remaining[s] + workedFor[s] >= SymbolCooldownSeconds /\ workedFor[s] <= bound.fill
            BY <2>1 DEF CooldownLasts, WithinBounds
        <3>2. remaining[s] \in Nat /\ workedFor[s] \in Nat
            BY DEF TypeOK
        <3>3. QED
            BY <2>1, <3>1, <3>2, BoundFacts, ClockAssumption DEF IsCoolingDown
    <2>2. QED
        BY <2>1 DEF FillTimingIsMet, SleepLasts
<1>2. QED
    BY <1>1, ClockInvariant, PTL

-----------------------------------------------------------------------------
(* The age of the snapshot.                                                *)

\* Kept folded, so that the provers see linear arithmetic only.
Turns(n, seconds) == n * seconds

\* How old a snapshot may be when its rows are written.
AgeWhenWritten == FreshnessTimeout + bound.persist

\* The age of a fresh snapshot, by the turns that are over and the time the
\* present one has taken.
AgeInTurn ==
    fresh =>
        /\ pc = "snapshot" => age <= FreshnessTimeout + timer
        /\ pc \in {"position", "price"} =>
              age <= AgeWhenWritten + Turns(index - 1, bound.collect) + timer
        /\ pc \in {"act", "awaiting"} =>
              age <= AgeWhenWritten + Turns(Len(Whitelist), bound.collect)
                       + Turns(index - 1, bound.execute) + timer

LEMMA OneMore ==
    ASSUME NEW n \in Nat, NEW b \in Nat
    PROVE  Turns(n, b) \in Nat /\ Turns(n + 1, b) = Turns(n, b) + b /\ Turns(0, b) = 0
BY DEF Turns

LEMMA TurnFacts ==
    ASSUME IInv
    PROVE  /\ bound.collect \in Nat /\ bound.execute \in Nat /\ FreshnessTimeout \in Nat
           /\ bound.persist \in Nat /\ AgeWhenWritten \in Nat
           /\ index \in Nat /\ age \in Nat /\ timer \in Nat /\ index >= 1
           /\ Turns(Len(Whitelist), bound.collect) \in Nat
           /\ \A b \in {bound.collect, bound.execute} :
                 /\ Turns(index, b) \in Nat /\ Turns(index - 1, b) \in Nat
                 /\ Turns(index, b) = Turns(index - 1, b) + b
                 /\ Turns(0, b) = 0
<1>1. /\ bound.collect \in Nat /\ bound.execute \in Nat /\ FreshnessTimeout \in Nat
      /\ bound.persist \in Nat /\ AgeWhenWritten \in Nat
      /\ index \in Nat /\ age \in Nat /\ timer \in Nat /\ index >= 1
    BY BoundFacts, WhitelistFacts, ClockAssumption DEF IInv, TypeOK, AgeWhenWritten
<1>2. Turns(Len(Whitelist), bound.collect) \in Nat
    BY <1>1, WhitelistFacts, OneMore
<1>3. ASSUME NEW b \in Nat
      PROVE  /\ Turns(index, b) \in Nat /\ Turns(index - 1, b) \in Nat
             /\ Turns(index, b) = Turns(index - 1, b) + b
             /\ Turns(0, b) = 0
    <2>1. index - 1 \in Nat /\ index - 1 + 1 = index
        BY <1>1
    <2>2. Turns(index - 1 + 1, b) = Turns(index - 1, b) + b
        BY <2>1, OneMore
    <2>3. QED
        BY <1>1, <2>1, <2>2, OneMore
<1>4. QED
    BY <1>1, <1>2, <1>3

\* A turn that is over has taken no more than its bound.
LEMMA AgeInductive ==
    ASSUME IInv, AgeInTurn, [Next]_vars
    PROVE  AgeInTurn'
<1>1. CASE UNCHANGED vars
    BY <1>1 DEF AgeInTurn, AgeWhenWritten, vars, cycleVars
<1>2. CASE WakeUp \/ SourceFailed
    BY <1>2 DEF WakeUp, SourceFailed, AgeInTurn
<1>3. ASSUME NEW seconds \in 0 .. FreshnessTimeout + 1, SourceFetched(seconds)
      PROVE  AgeInTurn'
    <2>0. fresh' => seconds <= FreshnessTimeout
        BY <1>3, Zenon DEF SourceFetched, IsFresh
    <2>1. age' = seconds /\ timer' = 0 /\ pc' = "snapshot"
        BY <1>3 DEF SourceFetched
    <2>2. seconds \in Int /\ FreshnessTimeout \in Nat
        BY TurnFacts
    <2>3. QED
        BY <2>0, <2>1, <2>2 DEF AgeInTurn
<1>4. CASE PositionFetched \/ Submit
    BY <1>4 DEF PositionFetched, Submit, AgeInTurn, AgeWhenWritten
<1>5. ASSUME NEW executable \in BOOLEAN, Decided(executable)
      PROVE  AgeInTurn'
    <2>1. timer <= bound.collect
        BY <1>5 DEF Decided, WithinBounds, IInv
    <2>2. fresh => age <= AgeWhenWritten + Turns(index, bound.collect)
        BY <1>5, <2>1, TurnFacts DEF Decided, AgeInTurn
    <2>3. /\ fresh' = fresh /\ age' = age /\ timer' = 0 /\ bound' = bound
          /\ AgeWhenWritten' = AgeWhenWritten
        BY <1>5 DEF Decided, NextTurn, AgeWhenWritten
    <2>4. CASE pc' = "act" /\ index' = 1 /\ index = Len(Whitelist)
        <3>1. index' - 1 = 0
            BY <2>4
        <3>2. Turns(index' - 1, bound'.execute) = 0
            BY <2>3, <3>1, TurnFacts
        <3>3. Turns(index, bound.collect) = Turns(Len(Whitelist), bound'.collect)
            BY <2>3, <2>4
        <3>4. QED
            BY <2>2, <2>3, <2>4, <3>2, <3>3, TurnFacts DEF AgeInTurn
    <2>5. CASE pc' = "position" /\ index' = index + 1
        <3>1. index' - 1 = index
            BY <2>5, TurnFacts
        <3>2. Turns(index' - 1, bound'.collect) = Turns(index, bound.collect)
            BY <2>3, <3>1
        <3>3. QED
            BY <2>2, <2>3, <2>5, <3>2, TurnFacts DEF AgeInTurn
    <2>6. QED
        BY <1>5, <2>4, <2>5 DEF Decided, NextTurn
<1>6. CASE PassOver \/ \E accepted, taken \in BOOLEAN : Answered(accepted, taken)
    <2>1. /\ pc \in {"act", "awaiting"} /\ fresh' = fresh /\ age' = age
          /\ timer' = 0 /\ bound' = bound /\ AgeWhenWritten' = AgeWhenWritten
          /\ \/ pc' = "sleeping"
             \/ pc' = "act" /\ index' = index + 1
        BY <1>6 DEF PassOver, Answered, NextTurn, AgeWhenWritten
    <2>2. timer <= bound.execute
        BY <2>1 DEF WithinBounds, IInv
    <2>3. CASE pc' = "sleeping"
        BY <2>3 DEF AgeInTurn
    <2>4. CASE pc' = "act" /\ index' = index + 1
        <3>1. index' - 1 = index
            BY <2>4, TurnFacts
        <3>2. /\ Turns(index' - 1, bound'.execute) = Turns(index, bound.execute)
              /\ Turns(Len(Whitelist), bound'.collect) = Turns(Len(Whitelist), bound.collect)
            BY <2>1, <3>1
        <3>3. fresh => age <= AgeWhenWritten + Turns(Len(Whitelist), bound.collect)
                                + Turns(index, bound.execute)
            BY <2>1, <2>2, TurnFacts DEF AgeInTurn
        <3>4. QED
            BY <2>1, <2>4, <3>2, <3>3, TurnFacts DEF AgeInTurn
    <2>5. QED
        BY <2>1, <2>3, <2>4
<1>7. ASSUME NEW s \in Symbols, Filled(s)
      PROVE  AgeInTurn'
    BY <1>7 DEF Filled, cycleVars, AgeInTurn, AgeWhenWritten
<1>8. CASE Tick
    <2>1. CASE pc \in {"sleeping", "source"}
        BY <1>8, <2>1 DEF Tick, AgeInTurn
    <2>2. CASE pc \notin {"sleeping", "source"}
        <3>1. /\ age' = age + 1 /\ timer' = timer + 1
              /\ fresh' = fresh /\ pc' = pc /\ index' = index /\ bound' = bound
              /\ AgeWhenWritten' = AgeWhenWritten
            BY <1>8, <2>2 DEF Tick, AgeWhenWritten
        <3>2. /\ Turns(index' - 1, bound'.collect) = Turns(index - 1, bound.collect)
              /\ Turns(index' - 1, bound'.execute) = Turns(index - 1, bound.execute)
              /\ Turns(Len(Whitelist), bound'.collect) = Turns(Len(Whitelist), bound.collect)
            BY <3>1
        <3>3. ASSUME fresh, pc \in {"position", "price"}
              PROVE  age + 1 <= AgeWhenWritten + Turns(index - 1, bound.collect) + timer + 1
            BY <3>3, TurnFacts DEF AgeInTurn
        <3>4. ASSUME fresh, pc \in {"act", "awaiting"}
              PROVE  age + 1 <= AgeWhenWritten + Turns(Len(Whitelist), bound.collect)
                                  + Turns(index - 1, bound.execute) + timer + 1
            BY <3>4, TurnFacts DEF AgeInTurn
        <3>5. ASSUME fresh', pc' \in {"position", "price"}
              PROVE  age' <= AgeWhenWritten + Turns(index' - 1, bound'.collect) + timer'
            <4>1. age + 1 <= AgeWhenWritten + Turns(index - 1, bound.collect) + timer + 1
                BY <3>1, <3>3, <3>5
            <4>2. QED
                BY <3>1, <3>2, <4>1, TurnFacts
        <3>6. ASSUME fresh', pc' \in {"act", "awaiting"}
              PROVE  age' <= AgeWhenWritten + Turns(Len(Whitelist), bound'.collect)
                                  + Turns(index' - 1, bound'.execute) + timer'
            <4>1. age + 1 <= AgeWhenWritten + Turns(Len(Whitelist), bound.collect)
                                  + Turns(index - 1, bound.execute) + timer + 1
                BY <3>1, <3>4, <3>6
            <4>2. QED
                BY <3>1, <3>2, <4>1, TurnFacts
        <3>7. ASSUME fresh', pc' = "snapshot"
              PROVE  age' <= FreshnessTimeout + timer'
            BY <3>1, <3>7, TurnFacts DEF AgeInTurn
        <3>8. QED
            BY <3>1, <3>5, <3>6, <3>7 DEF AgeInTurn
    <2>3. QED
        BY <2>1, <2>2
<1>9. CASE SnapshotPersisted
    <2>1. /\ pc = "snapshot" /\ pc' = "position" /\ index' - 1 = 0 /\ timer' = 0
          /\ fresh' = fresh /\ age' = age /\ bound' = bound
        BY <1>9 DEF SnapshotPersisted
    <2>2. timer <= bound.persist
        BY <2>1 DEF WithinBounds, IInv
    <2>3. fresh => age <= AgeWhenWritten
        BY <2>1, <2>2, TurnFacts DEF AgeInTurn, AgeWhenWritten
    <2>4. Turns(index' - 1, bound'.collect) = 0 /\ AgeWhenWritten' = AgeWhenWritten
        BY <2>1, TurnFacts DEF AgeWhenWritten
    <2>5. QED
        BY <2>1, <2>3, <2>4, TurnFacts DEF AgeInTurn
<1>10. QED
    BY <1>1, <1>2, <1>3, <1>4, <1>5, <1>6, <1>7, <1>8, <1>9 DEF Next, ProgramStep

\* SnapshotAgeIsBounded: how old the data behind an order can be.
THEOREM SnapshotAgeHolds == Spec => []SnapshotAgeIsBounded
<1>1. Init => AgeInTurn
    BY DEF Init, AgeInTurn
<1>2. ASSUME IInv, AgeInTurn
      PROVE  SnapshotAgeIsBounded
    <2> SUFFICES ASSUME pc = "awaiting"
                 PROVE  age <= AgeWhenWritten + Turns(Len(Whitelist), bound.collect)
                                 + Turns(index, bound.execute)
        BY DEF SnapshotAgeIsBounded, AgeWhenWritten, Turns
    <2>1. fresh /\ timer <= bound.execute
        BY <1>2 DEF DueInOrder, WithinBounds, IInv
    <2>2. QED
        BY <1>2, <2>1, TurnFacts DEF AgeInTurn
<1>3. IInv /\ AgeInTurn /\ [Next]_vars => AgeInTurn'
    BY AgeInductive
<1>4. QED
    BY <1>1, <1>2, <1>3, ClockInvariant, PTL DEF Spec
=============================================================================
