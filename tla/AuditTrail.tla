----------------------------- MODULE AuditTrail -----------------------------
(***************************************************************************)
(* What the program leaves behind: CopyTrader together with the two tables *)
(* of SQLiteStore that name a cycle, reconciliation_decisions and           *)
(* execution_results, and with the orders Binance has taken.               *)
(*                                                                         *)
(* The tables outlive the process.  A write that fails is only warned of   *)
(* (ERROR-TAXONOMY section 6), and a process that is stopped in the midst  *)
(* of one may or may not have made it.  Rows are listed by created_at.     *)
(***************************************************************************)
EXTENDS CopyTrader, FiniteSets

CONSTANTS
    WriteFaults,   \* whether a write may be lost, or switched off by persist_*
    (* Bounds. *)
    MaxCycles,     \* of the cycles that are ever begun
    MaxGaps        \* of the cycles of which a write may be missing

ASSUME AuditAssumption == WriteFaults \in BOOLEAN /\ MaxCycles \in Nat /\ MaxGaps \in Nat

VARIABLES
    cycle,          \* EventLogger._cycle_id, as the number of the cycle
    executable,     \* executable[i] is executable_price of decisions[i], 0 for None
    decisionRows,   \* reconciliation_decisions
    resultRows,     \* execution_results
    orders,         \* the orders Binance took; orderId is the index
    gaps            \* history: cycles of which a write may be missing

auditVars == <<cycle, executable, decisionRows, resultRows, orders, gaps>>
allVars == <<vars, auditVars>>

AuditInit ==
    /\ Init
    /\ cycle = 0
    /\ executable = <<>>
    /\ decisionRows = <<>>
    /\ resultRows = <<>>
    /\ orders = <<>>
    /\ gaps = {}

-----------------------------------------------------------------------------
(* Begin and collect.                                                      *)

\* Faulty: a restarted process counts its cycles from the start again.
NewCycleIdRestarting == cycle' = IF pc = "down" THEN 1 ELSE cycle + 1

\* new_cycle_id(): time stamp and counter make it unlike every earlier one.
NewCycleId == cycle' = cycle + 1

BeginCycle ==
    /\ cycle < MaxCycles
    /\ WakeUp \/ \E m \in StartModes : Start(m)
    /\ NewCycleId
    /\ UNCHANGED <<executable, decisionRows, resultRows, orders, gaps>>

\* evaluate() has reached the price guard.
IsGuarded(d) == d.type \in Rebalances \cup {"SKIP_PRICE_GUARD"}

ExecutableOf(d, p) == IF IsGuarded(d) THEN ExecutablePrice(p, d.raw > 0) ELSE 0

Priced(p) ==
    /\ PriceFetched(p)
    /\ executable' = Append(executable, ExecutableOf(decisions'[Len(decisions')], p))
    /\ UNCHANGED <<cycle, decisionRows, resultRows, orders, gaps>>

\* Every synthetic record has no price.
Unpriced ==
    /\ SourceUnavailable \/ BinanceUnavailable
    /\ executable' = [i \in DOMAIN decisions' |->
                         IF i \in DOMAIN executable THEN executable[i] ELSE 0]
    /\ UNCHANGED <<cycle, decisionRows, resultRows, orders, gaps>>

\* Steps that touch neither a record of the cycle nor a table.
Untraced ==
    /\ \/ \E isRecent \in BOOLEAN : SourceFetched(isRecent)
       \/ SourceUnexpected
       \/ PositionFetched
       \/ PositionMissing
       \/ \E s \in Symbols, size \in SourceSizes : SourceMoves(s, size)
       \/ \E s \in Symbols : \E q \in FilledOf(working[s]) : Fill(s, q)
       \/ \E s \in Symbols : CooldownExpires(s)
    /\ UNCHANGED auditVars

-----------------------------------------------------------------------------
(* The rows: persist_decision() and the end of _execute().                 *)

Side(size) == IF size > 0 THEN "BUY" ELSE "SELL"

DecisionRow(i) ==
    [cycle |-> cycle, symbol |-> Whitelist[i],
     reference |-> decisions[i].mark, executable |-> executable[i]]

\* Faulty: the row of a flip's close has the size the engine decided.
SizeAsDecided(d, status) == d.capped

\* ExecutionResult.requested_size of an answered order; what an exception left
\* is computed again from the decision, in the loop's own words.
RecordedSize(d, status) ==
    IF status \in {"ACCEPTED", "UNACCEPTED"} THEN OrderSize(d)
    ELSE IF d.type = "REBALANCE_FLIP_CLOSE"
         THEN IF d.actual < 0 THEN Lesser(Abs(d.actual), Abs(d.capped))
                              ELSE -Lesser(Abs(d.actual), Abs(d.capped))
         ELSE d.capped

\* The orderId of an unaccepted status is not told apart from none: the only
\* reader of the column asks for accepted rows.
ResultRow(i, status) ==
    LET size == RecordedSize(decisions[i], status)
    IN  [cycle |-> cycle, symbol |-> Whitelist[i], action |-> Side(size),
         qty |-> Abs(size), status |-> status,
         order |-> IF status = "ACCEPTED" THEN Len(orders) ELSE 0]

ModeAllowsSqlite == mode \in {"armed", "live"}

Written(rows, row, done) == IF done THEN Append(rows, row) ELSE rows

\* A write is made when the mode allows it, and may fail.
MayWrite(done) == IF done THEN ModeAllowsSqlite ELSE WriteFaults \/ ~ModeAllowsSqlite

NoteGap(done) ==
    /\ gaps' = IF done \/ ~ModeAllowsSqlite THEN gaps ELSE gaps \cup {cycle}
    /\ Cardinality(gaps') <= MaxGaps

KeepPrices == executable' = IF decisions' = <<>> THEN <<>> ELSE executable

\* Faulty: the row of a decision is written after the order has been sent.
DecisionOnlyWithoutOrder(done) ==
    /\ MayWrite(done)
    /\ decisionRows' = Written(decisionRows, DecisionRow(Acting), done /\ ~ShouldExecute)

PersistDecision(done) ==
    /\ MayWrite(done)
    /\ decisionRows' = Written(decisionRows, DecisionRow(Acting), done)

PassedOver(decided, recorded) ==
    /\ PassOver
    /\ PersistDecision(decided)
    /\ IF ShouldExecute
       THEN /\ MayWrite(recorded)
            /\ resultRows' = Written(resultRows, ResultRow(Acting, "LOCAL_ERROR"), recorded)
       ELSE recorded /\ UNCHANGED resultRows
    /\ NoteGap(decided /\ recorded)
    /\ KeepPrices
    /\ UNCHANGED <<cycle, orders>>

Submitted(decided) ==
    /\ Submit
    /\ PersistDecision(decided)
    /\ NoteGap(decided)
    /\ UNCHANGED <<cycle, executable, resultRows, orders>>

TakenOrders(taken) ==
    orders' = IF taken
              THEN Append(orders, [cycle |-> cycle, symbol |-> Symbol,
                                   size |-> OrderSize(Due)])
              ELSE orders

Answered ==
    /\ \/ OrderAccepted /\ TakenOrders(TRUE)
       \/ \E answer \in AllAnswers \ {"accepted"}, taken \in BOOLEAN :
             OrderFailed(answer, taken) /\ TakenOrders(taken)
    /\ UNCHANGED <<cycle, executable, decisionRows, resultRows, gaps>>

\* The row belongs to the result that came last.
RecordedRow == ResultRow(Len(results), results[Len(results)])

\* Faulty: after a downgrade the row of the failure is not written.
RecordedWhileLive(done) ==
    /\ ResultRecorded
    /\ MayWrite(done)
    /\ resultRows' = Written(resultRows, RecordedRow, done /\ ModeAllowsExecution)
    /\ NoteGap(done)
    /\ KeepPrices
    /\ UNCHANGED <<cycle, decisionRows, orders>>

Recorded(done) ==
    /\ ResultRecorded
    /\ MayWrite(done)
    /\ resultRows' = Written(resultRows, RecordedRow, done)
    /\ NoteGap(done)
    /\ KeepPrices
    /\ UNCHANGED <<cycle, decisionRows, orders>>

-----------------------------------------------------------------------------
\* A cancelled POST leaves neither a result nor an exception that _execute()
\* catches, so no row; a write that was under way may be made all the same.
Stopped(taken, done) ==
    /\ Exit(taken)
    /\ TakenOrders(taken)
    /\ done => ModeAllowsSqlite /\ pc \in {"act", "record"}
    /\ IF pc = "act"
       THEN decisionRows' = Written(decisionRows, DecisionRow(Acting), done)
       ELSE UNCHANGED decisionRows
    /\ IF pc = "record"
       THEN resultRows' = Written(resultRows, RecordedRow, done)
       ELSE UNCHANGED resultRows
    /\ NoteGap(pc \notin {"act", "awaiting", "record"})
    /\ executable' = <<>>
    /\ UNCHANGED cycle

-----------------------------------------------------------------------------
AuditNext ==
    \/ BeginCycle
    \/ \E p \in Prices : Priced(p)
    \/ Unpriced
    \/ Untraced
    \/ \E decided, recorded \in BOOLEAN : PassedOver(decided, recorded)
    \/ \E decided \in BOOLEAN : Submitted(decided)
    \/ Answered
    \/ \E done \in BOOLEAN : Recorded(done)
    \/ \E taken, done \in BOOLEAN : Stopped(taken, done)

AuditSpec == AuditInit /\ [][AuditNext]_allVars

-----------------------------------------------------------------------------
(* Properties.                                                             *)

DecisionRowType == [cycle : Positive, symbol : Symbols, reference : Nat, executable : Nat]
ResultRowType == [cycle : Positive, symbol : Symbols, action : {"BUY", "SELL"},
                  qty : Nat, status : Statuses, order : Nat]
OrderType == [cycle : Positive, symbol : Symbols, size : Int]

AuditTypeOK ==
    /\ cycle \in Nat
    /\ executable \in Seq(Nat)
    /\ Len(executable) = Len(decisions)
    /\ decisionRows \in Seq(DecisionRowType)
    /\ resultRows \in Seq(ResultRowType)
    /\ orders \in Seq(OrderType)
    /\ gaps \subseteq 0 .. cycle

IsRecorded(i) ==
    \E j \in DOMAIN resultRows :
        /\ resultRows[j].cycle = orders[i].cycle
        /\ resultRows[j].symbol = orders[i].symbol
        /\ resultRows[j].action = Side(orders[i].size)
        /\ resultRows[j].qty = Abs(orders[i].size)

\* Every order that Binance took has left a row of its cycle, symbol, side and
\* quantity, whatever was answered and whatever mode the loop was left in,
\* unless a write failed or the process was stopped: no outcome of _execute()
\* goes unrecorded (loop.py:186-227).
EveryOrderIsRecorded ==
    \A i \in DOMAIN orders :
        \/ IsRecorded(i)
        \/ orders[i].cycle \in gaps
        \/ pc = "record" /\ i = Len(orders)

\* An accepted row names an order that Binance took, of that symbol, side and
\* quantity, and no two rows name the same one, restarts and lost writes
\* notwithstanding (executor.py:76-91, loop.py:189-199).
RecordedOrdersExist ==
    \A j \in DOMAIN resultRows :
        resultRows[j].status = "ACCEPTED" =>
            /\ resultRows[j].order \in DOMAIN orders
            /\ LET o == orders[resultRows[j].order]
               IN  /\ o.cycle = resultRows[j].cycle
                   /\ o.symbol = resultRows[j].symbol
                   /\ Side(o.size) = resultRows[j].action
                   /\ Abs(o.size) = resultRows[j].qty
            /\ \A k \in DOMAIN resultRows :
                  k # j => resultRows[k].order # resultRows[j].order
=============================================================================
