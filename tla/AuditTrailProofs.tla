-------------------------- MODULE AuditTrailProofs --------------------------
(***************************************************************************)
(* The audit trail of every whitelist, configuration and exchange: the     *)
(* tables are those of a behaviour of CopyTrader, every order leaves a row *)
(* and every accepted row names an order of its own.                       *)
(***************************************************************************)
EXTENDS AuditTrail, CopyTraderProofs

-----------------------------------------------------------------------------
(* A behaviour of AuditTrail is one of CopyTrader.                         *)

LEMMA StepIsCopyTraders ==
    ASSUME AuditNext
    PROVE  Next
<1>1. CASE BeginCycle
  BY <1>1 DEF BeginCycle, Next, ReadStep, EnvironmentStep
<1>2. CASE \E p \in Prices : Priced(p)
  BY <1>2 DEF Priced, Next, ReadStep
<1>3. CASE Unpriced
  BY <1>3 DEF Unpriced, Next, ReadStep
<1>4. CASE Untraced
  BY <1>4 DEF Untraced, Next, ReadStep, EnvironmentStep
<1>5. CASE \E decided, recorded \in BOOLEAN : PassedOver(decided, recorded)
  BY <1>5 DEF PassedOver, Next, ActStep
<1>6. CASE \E decided \in BOOLEAN : Submitted(decided)
  BY <1>6 DEF Submitted, Next, ActStep
<1>7. CASE Answered
  BY <1>7 DEF Answered, Next, ActStep
<1>8. CASE \E done \in BOOLEAN : Recorded(done)
  BY <1>8 DEF Recorded, Next, ActStep
<1>9. CASE \E taken, done \in BOOLEAN : Stopped(taken, done)
  BY <1>9 DEF Stopped, Next, EnvironmentStep
<1> QED
  BY <1>1, <1>2, <1>3, <1>4, <1>5, <1>6, <1>7, <1>8, <1>9 DEF AuditNext

\* The database is a side channel: with the tables beside it the program does
\* nothing that it does not do without them, so that what is proved of
\* CopyTrader holds of the audited program (storage/sqlite_store.py:1-20).
THEOREM AuditIsCopyTrader == AuditSpec => Spec
<1>1. AuditInit => Init
  BY DEF AuditInit
<1>2. [AuditNext]_allVars => [Next]_vars
  BY StepIsCopyTraders DEF allVars
<1> QED
  BY <1>1, <1>2, PTL DEF AuditSpec, Spec

-----------------------------------------------------------------------------
(* The inductive invariant.                                                *)

\* A cycle runs only after it was numbered, an order only in live mode, and
\* the row of its answer is written in a mode that allows it.
Numbered ==
    /\ pc # "down" => cycle >= 1
    /\ pc = "awaiting" => mode = "live"
    /\ pc = "record" => mode \in {"armed", "live"}

\* The order that the answer still to be recorded belongs to.
IsPending(i) ==
    /\ pc = "record"
    /\ i = Len(orders)
    /\ orders[i] = [cycle |-> cycle, symbol |-> Whitelist[Len(results)],
                    size |-> OrderSize(decisions[Len(results)])]

Accounted ==
    \A i \in DOMAIN orders : IsRecorded(i) \/ orders[i].cycle \in gaps \/ IsPending(i)

\* An accepted answer is not recorded yet, and nothing was taken since.
AcceptedIsPending ==
    pc = "record" /\ results[Len(results)] = "ACCEPTED" =>
        /\ Len(orders) \in DOMAIN orders
        /\ IsPending(Len(orders))
        /\ \A k \in DOMAIN resultRows : resultRows[k].order < Len(orders)

RowsPointBack ==
    \A k \in DOMAIN resultRows : resultRows[k].order \in 0 .. Len(orders)

AInv ==
    /\ TypeOK
    /\ AuditTypeOK
    /\ Numbered
    /\ Accounted
    /\ AcceptedIsPending
    /\ RowsPointBack
    /\ RecordedOrdersExist

-----------------------------------------------------------------------------
(* Rows.                                                                   *)

LEMMA Appended ==
    ASSUME NEW S, NEW q \in Seq(S), NEW x \in S
    PROVE  /\ Append(q, x) \in Seq(S)
           /\ Len(Append(q, x)) = Len(q) + 1
           /\ DOMAIN Append(q, x) = DOMAIN q \cup {Len(q) + 1}
           /\ \A i \in DOMAIN q : Append(q, x)[i] = q[i]
           /\ Append(q, x)[Len(q) + 1] = x
           /\ Len(q) + 1 \notin DOMAIN q
OBVIOUS

\* What _execute() computes for the row of an exception is the order's size.
LEMMA RecordedSizeIsOrderSize ==
    ASSUME NEW d \in Decision, NEW status \in Statuses
    PROVE  RecordedSize(d, status) = OrderSize(d)
<1>1. d.actual \in Int /\ d.capped \in Int
  BY DEF Decision
<1> QED
  BY <1>1 DEF RecordedSize, OrderSize, FlipCloseDelta, Lesser, Abs

LEMMA ActingFacts ==
    ASSUME AInv, pc = "act"
    PROVE  /\ Acting \in DOMAIN Whitelist /\ Acting \in DOMAIN decisions
           /\ "LOCAL_ERROR" \in Statuses /\ pc # "down"
BY ConfigAssumption DEF AInv, TypeOK, Acting, Statuses

LEMMA ResultRowFacts ==
    ASSUME AInv, pc # "down", NEW i \in DOMAIN Whitelist, i \in DOMAIN decisions,
           NEW status \in Statuses
    PROVE  /\ ResultRow(i, status) \in ResultRowType
           /\ ResultRow(i, status).cycle = cycle
           /\ ResultRow(i, status).symbol = Whitelist[i]
           /\ ResultRow(i, status).action = Side(OrderSize(decisions[i]))
           /\ ResultRow(i, status).qty = Abs(OrderSize(decisions[i]))
           /\ ResultRow(i, status).status = status
           /\ ResultRow(i, status).order = IF status = "ACCEPTED" THEN Len(orders) ELSE 0
<1>1. decisions[i] \in Decision /\ Whitelist[i] \in Symbols
  BY ConfigAssumption DEF AInv, TypeOK
<1>2. OrderSize(decisions[i]) \in Int
  BY <1>1, OrderSizeType
<1>3. RecordedSize(decisions[i], status) = OrderSize(decisions[i])
  BY <1>1, RecordedSizeIsOrderSize
<1>4. cycle \in Positive /\ Len(orders) \in Nat
  BY DEF AInv, AuditTypeOK, Numbered, Positive
<1>5. /\ Side(OrderSize(decisions[i])) \in {"BUY", "SELL"}
      /\ Abs(OrderSize(decisions[i])) \in Nat
  BY <1>2 DEF Side, Abs
<1> QED
  BY <1>1, <1>3, <1>4, <1>5 DEF ResultRow, ResultRowType

LEMMA DecisionRowFacts ==
    ASSUME AInv, pc # "down", NEW i \in DOMAIN Whitelist, i \in DOMAIN decisions
    PROVE  DecisionRow(i) \in DecisionRowType
<1>1. decisions[i].mark \in Nat /\ Whitelist[i] \in Symbols
  <2>1. decisions[i] \in Decision /\ Whitelist[i] \in Symbols
    BY ConfigAssumption DEF AInv, TypeOK
  <2> QED
    BY <2>1 DEF Decision
<1>2. executable[i] \in Nat
  <2> HIDE DEF Decision
  <2>1. i \in 1 .. Len(decisions) /\ executable \in Seq(Nat) /\ Len(executable) = Len(decisions)
    BY DEF AInv, AuditTypeOK, TypeOK
  <2> QED
    BY <2>1
<1>3. cycle \in Positive
  BY DEF AInv, AuditTypeOK, Numbered, Positive
<1> QED
  BY <1>1, <1>2, <1>3 DEF DecisionRow, DecisionRowType

-----------------------------------------------------------------------------
(* What the steps do to orders and rows.                                   *)

\* A table is only ever added to.
LEMMA WrittenFacts ==
    ASSUME NEW S, NEW rows \in Seq(S), NEW row \in S, NEW done \in BOOLEAN
    PROVE  /\ Written(rows, row, done) \in Seq(S)
           /\ DOMAIN rows \subseteq DOMAIN Written(rows, row, done)
           /\ \A j \in DOMAIN rows : Written(rows, row, done)[j] = rows[j]
           /\ \A j \in DOMAIN Written(rows, row, done) \ DOMAIN rows :
                 done /\ Written(rows, row, done)[j] = row
           /\ \A j, k \in DOMAIN Written(rows, row, done) \ DOMAIN rows : j = k
           /\ done => \E j \in DOMAIN Written(rows, row, done) :
                         Written(rows, row, done)[j] = row
<1>1. CASE done
  BY <1>1, Appended DEF Written
<1>2. CASE ~done
  BY <1>2 DEF Written
<1> QED
  BY <1>1, <1>2

\* What is recorded stays recorded.
LEMMA StaysRecorded ==
    ASSUME NEW i \in DOMAIN orders, IsRecorded(i), orders'[i] = orders[i],
           DOMAIN resultRows \subseteq DOMAIN resultRows',
           \A j \in DOMAIN resultRows : resultRows'[j] = resultRows[j]
    PROVE  IsRecorded(i)'
  BY DEF IsRecorded

Books == Accounted /\ AcceptedIsPending /\ RowsPointBack /\ RecordedOrdersExist

\* Steps that neither answer an order nor write a row of a result.
LEMMA QuietBooks ==
    ASSUME AInv, UNCHANGED <<resultRows, orders>>, gaps \subseteq gaps',
           \/ pc # "record" /\ pc' # "record"
           \/ UNCHANGED <<pc, cycle, results, decisions>>
    PROVE  Books'
<1>1. ASSUME NEW i \in DOMAIN orders'
      PROVE  (IsRecorded(i) \/ orders[i].cycle \in gaps \/ IsPending(i))'
  <2>1. CASE IsRecorded(i)
    BY <2>1 DEF IsRecorded
  <2>2. CASE orders[i].cycle \in gaps
    BY <2>2
  <2>3. CASE IsPending(i)
    BY <2>3 DEF IsPending
  <2> QED
    BY <1>1, <2>1, <2>2, <2>3 DEF AInv, Accounted
<1>2. AcceptedIsPending'
  BY DEF AInv, AcceptedIsPending, IsPending
<1>3. RowsPointBack' /\ RecordedOrdersExist'
  BY DEF AInv, RowsPointBack, RecordedOrdersExist
<1> QED
  BY <1>1, <1>2, <1>3 DEF Books, Accounted

\* A row that names no order is added outside of "record".
LEMMA LocalErrorBooks ==
    ASSUME AInv, pc = "act", pc' # "record", UNCHANGED orders, gaps \subseteq gaps',
           NEW done \in BOOLEAN,
           resultRows' = Written(resultRows, ResultRow(Acting, "LOCAL_ERROR"), done)
    PROVE  Books'
<1>1. /\ Acting \in DOMAIN Whitelist /\ Acting \in DOMAIN decisions
      /\ "LOCAL_ERROR" \in Statuses /\ pc # "down"
  BY ActingFacts
<1> DEFINE row == ResultRow(Acting, "LOCAL_ERROR")
<1>2. row \in ResultRowType /\ row.status = "LOCAL_ERROR" /\ row.order = 0
  BY <1>1, ResultRowFacts
<1> HIDE DEF row
<1>3. /\ DOMAIN resultRows \subseteq DOMAIN resultRows'
      /\ \A j \in DOMAIN resultRows : resultRows'[j] = resultRows[j]
      /\ \A j \in DOMAIN resultRows' \ DOMAIN resultRows : resultRows'[j] = row
  <2>1. resultRows \in Seq(ResultRowType) /\ resultRows' = Written(resultRows, row, done)
    BY DEF AInv, AuditTypeOK, row
  <2> QED
    BY <1>2, <2>1, WrittenFacts
<1>4. Accounted'
  <2> SUFFICES ASSUME NEW i \in DOMAIN orders
               PROVE  (IsRecorded(i) \/ orders[i].cycle \in gaps)'
    BY DEF Accounted
  <2>1. IsRecorded(i) \/ orders[i].cycle \in gaps
    BY DEF AInv, Accounted, IsPending
  <2> QED
    BY <1>3, <2>1, StaysRecorded
<1>5. RowsPointBack'
  <2>1. Len(orders) \in Nat
    BY DEF AInv, AuditTypeOK
  <2> QED
    BY <1>2, <1>3, <2>1 DEF AInv, RowsPointBack
<1>6. RecordedOrdersExist'
  <2> SUFFICES ASSUME NEW j \in DOMAIN resultRows', resultRows'[j].status = "ACCEPTED"
               PROVE  /\ resultRows[j] = resultRows'[j] /\ j \in DOMAIN resultRows
                      /\ \A k \in DOMAIN resultRows' :
                            k # j => resultRows'[k].order # resultRows[j].order
    BY DEF AInv, RecordedOrdersExist
  <2>1. j \in DOMAIN resultRows /\ resultRows[j] = resultRows'[j]
    BY <1>2, <1>3
  <2>2. resultRows[j].order \in DOMAIN orders
    BY <2>1 DEF AInv, RecordedOrdersExist
  <2>3. resultRows[j].order # 0
    BY <2>2 DEF AInv, AuditTypeOK
  <2> QED
    BY <1>2, <1>3, <2>1, <2>3 DEF AInv, RecordedOrdersExist
<1>7. AcceptedIsPending'
  BY DEF AcceptedIsPending
<1> QED
  BY <1>4, <1>5, <1>6, <1>7 DEF Books

LEMMA RecordedRowType ==
    ASSUME AInv, pc = "record", NEW done \in BOOLEAN,
           resultRows' = Written(resultRows, RecordedRow, done)
    PROVE  resultRows' \in Seq(ResultRowType)
<1>1. /\ Len(results) \in DOMAIN Whitelist /\ Len(results) \in DOMAIN decisions
      /\ results[Len(results)] \in Statuses /\ pc # "down"
  BY ConfigAssumption DEF AInv, TypeOK
<1>2. RecordedRow \in ResultRowType
  BY <1>1, ResultRowFacts DEF RecordedRow
<1>3. resultRows \in Seq(ResultRowType)
  BY DEF AInv, AuditTypeOK
<1> QED
  BY <1>2, <1>3, WrittenFacts

\* The row of an answer: the order it belongs to is pending no more.
LEMMA RecordedBooks ==
    ASSUME AInv, pc = "record", pc' # "record", UNCHANGED orders, gaps \subseteq gaps',
           NEW done \in BOOLEAN, ~done => cycle \in gaps',
           resultRows' = Written(resultRows, RecordedRow, done)
    PROVE  Books'
<1>1. /\ Len(results) \in DOMAIN Whitelist /\ Len(results) \in DOMAIN decisions
      /\ results[Len(results)] \in Statuses /\ pc # "down"
  BY ConfigAssumption DEF AInv, TypeOK
<1> DEFINE size == OrderSize(decisions[Len(results)])
<1>2. /\ RecordedRow \in ResultRowType
      /\ RecordedRow.cycle = cycle
      /\ RecordedRow.symbol = Whitelist[Len(results)]
      /\ RecordedRow.action = Side(size)
      /\ RecordedRow.qty = Abs(size)
      /\ RecordedRow.status = results[Len(results)]
      /\ RecordedRow.order = IF results[Len(results)] = "ACCEPTED" THEN Len(orders) ELSE 0
  BY <1>1, ResultRowFacts DEF RecordedRow
<1> HIDE DEF size
<1>3. /\ DOMAIN resultRows \subseteq DOMAIN resultRows'
      /\ \A j \in DOMAIN resultRows : resultRows'[j] = resultRows[j]
      /\ \A j \in DOMAIN resultRows' \ DOMAIN resultRows : resultRows'[j] = RecordedRow
      /\ \A j, k \in DOMAIN resultRows' \ DOMAIN resultRows : j = k
      /\ done => \E j \in DOMAIN resultRows' : resultRows'[j] = RecordedRow
  <2>1. resultRows \in Seq(ResultRowType)
    BY DEF AInv, AuditTypeOK
  <2> QED
    BY <1>2, <2>1, WrittenFacts
<1>4. Accounted'
  <2> SUFFICES ASSUME NEW i \in DOMAIN orders
               PROVE  (IsRecorded(i) \/ orders[i].cycle \in gaps)'
    BY DEF Accounted
  <2>1. CASE IsRecorded(i) \/ orders[i].cycle \in gaps
    BY <1>3, <2>1, StaysRecorded
  <2>2. CASE IsPending(i)
    <3>1. /\ orders[i].cycle = cycle /\ orders[i].symbol = Whitelist[Len(results)]
          /\ orders[i].size = size
      BY <2>2 DEF IsPending, size
    <3>2. CASE ~done
      BY <3>1, <3>2
    <3>3. CASE done
      BY <1>2, <1>3, <3>1, <3>3 DEF IsRecorded
    <3> QED
      BY <3>2, <3>3
  <2> QED
    BY <2>1, <2>2 DEF AInv, Accounted
<1>5. RowsPointBack'
  <2>1. Len(orders) \in Nat
    BY DEF AInv, AuditTypeOK
  <2> QED
    BY <1>2, <1>3, <2>1 DEF AInv, RowsPointBack
<1>6. RecordedOrdersExist'
  <2> SUFFICES ASSUME NEW j \in DOMAIN resultRows', resultRows'[j].status = "ACCEPTED"
               PROVE  /\ resultRows'[j].order \in DOMAIN orders
                      /\ LET o == orders[resultRows'[j].order]
                         IN  /\ o.cycle = resultRows'[j].cycle
                             /\ o.symbol = resultRows'[j].symbol
                             /\ Side(o.size) = resultRows'[j].action
                             /\ Abs(o.size) = resultRows'[j].qty
                      /\ \A k \in DOMAIN resultRows' :
                            k # j => resultRows'[k].order # resultRows'[j].order
    BY DEF RecordedOrdersExist
  <2>1. \A k \in DOMAIN orders : k # 0
    BY DEF AInv, AuditTypeOK
  <2>2. \A k \in DOMAIN resultRows : results[Len(results)] = "ACCEPTED" =>
            resultRows[k].order # Len(orders)
    <3>1. Len(orders) \in Nat
      BY DEF AInv, AuditTypeOK
    <3> QED
      BY <3>1 DEF AInv, AcceptedIsPending, RowsPointBack
  <2>3. CASE j \in DOMAIN resultRows
    <3>1. resultRows'[j] = resultRows[j]
      BY <1>3, <2>3
    <3>2. resultRows[j].order \in DOMAIN orders
      BY <2>3, <3>1 DEF AInv, RecordedOrdersExist
    <3>3. ASSUME NEW k \in DOMAIN resultRows', k # j
          PROVE  resultRows'[k].order # resultRows[j].order
      <4>1. CASE k \in DOMAIN resultRows
        BY <1>3, <2>3, <3>1, <3>3, <4>1 DEF AInv, RecordedOrdersExist
      <4>2. CASE k \notin DOMAIN resultRows
        BY <1>2, <1>3, <2>1, <2>2, <2>3, <3>2, <4>2
      <4> QED
        BY <4>1, <4>2
    <3> QED
      BY <2>3, <3>1, <3>2, <3>3 DEF AInv, RecordedOrdersExist
  <2>4. CASE j \notin DOMAIN resultRows
    <3>1. resultRows'[j] = RecordedRow /\ results[Len(results)] = "ACCEPTED"
      BY <1>2, <1>3, <2>4
    <3>2. /\ Len(orders) \in DOMAIN orders
          /\ orders[Len(orders)].cycle = cycle
          /\ orders[Len(orders)].symbol = Whitelist[Len(results)]
          /\ orders[Len(orders)].size = size
      BY <3>1 DEF AInv, AcceptedIsPending, IsPending, size
    <3>3. ASSUME NEW k \in DOMAIN resultRows', k # j
          PROVE  resultRows'[k].order # Len(orders)
      BY <1>3, <2>2, <2>4, <3>1, <3>3
    <3> QED
      BY <1>2, <3>1, <3>2, <3>3
  <2> QED
    BY <2>3, <2>4
<1>7. AcceptedIsPending'
  BY DEF AcceptedIsPending
<1> QED
  BY <1>4, <1>5, <1>6, <1>7 DEF Books

\* An answer: the order, if it was taken, is the last one and pending.
LEMMA AnsweredBooks ==
    ASSUME AInv, pc = "awaiting", pc' = "record", UNCHANGED <<cycle, decisions>>,
           resultRows' = resultRows, gaps' = gaps,
           NEW status \in Statuses, results' = Append(results, status),
           NEW taken \in BOOLEAN, TakenOrders(taken), status = "ACCEPTED" => taken
    PROVE  Books'
<1> DEFINE order == [cycle |-> cycle, symbol |-> Symbol, size |-> OrderSize(Due)]
<1>1. /\ results' \in Seq(Statuses) /\ Len(results') = Acting
      /\ results'[Len(results')] = status
  BY DEF AInv, TypeOK, Acting
<1>2. cycle \in Positive /\ order \in OrderType
  <2>1. Symbol \in Symbols /\ OrderSize(Due) \in Int
    BY ActingType DEF AInv
  <2>2. cycle \in Positive
    BY DEF AInv, AuditTypeOK, Numbered, Positive
  <2> QED
    BY <2>1, <2>2 DEF OrderType
<1>3. orders \in Seq(OrderType) /\ Len(orders) \in Nat
  BY DEF AInv, AuditTypeOK
<1>4. CASE taken
  <2>1. orders' = Append(orders, order)
    BY <1>4 DEF TakenOrders
  <2> HIDE DEF order
  <2>2. /\ Len(orders') = Len(orders) + 1
        /\ DOMAIN orders' = DOMAIN orders \cup {Len(orders) + 1}
        /\ \A i \in DOMAIN orders : orders'[i] = orders[i]
        /\ orders'[Len(orders) + 1] = order
    BY <1>2, <1>3, <2>1, Appended
  <2>3. IsPending(Len(orders))'
    BY <1>1, <2>2 DEF IsPending, order, Symbol, Due
  <2>4. Accounted'
    <3> SUFFICES ASSUME NEW i \in DOMAIN orders'
                 PROVE  (IsRecorded(i) \/ orders[i].cycle \in gaps \/ IsPending(i))'
      BY DEF Accounted
    <3>1. CASE i \in DOMAIN orders
      <4>1. IsRecorded(i) \/ orders[i].cycle \in gaps
        BY <3>1 DEF AInv, Accounted, IsPending
      <4> QED
        BY <2>2, <3>1, <4>1, StaysRecorded
    <3>2. CASE i = Len(orders')
      BY <2>3, <3>2
    <3> QED
      BY <2>2, <3>1, <3>2
  <2>5. AcceptedIsPending'
    BY <1>3, <2>2, <2>3 DEF AInv, AcceptedIsPending, RowsPointBack
  <2>6. RowsPointBack'
    BY <1>3, <2>2 DEF AInv, RowsPointBack
  <2>7. RecordedOrdersExist'
    BY <2>2 DEF AInv, RecordedOrdersExist
  <2> QED
    BY <2>4, <2>5, <2>6, <2>7 DEF Books
<1>5. CASE ~taken
  <2>1. orders' = orders
    BY <1>5 DEF TakenOrders
  <2>2. Accounted'
    <3> SUFFICES ASSUME NEW i \in DOMAIN orders'
                 PROVE  (IsRecorded(i) \/ orders[i].cycle \in gaps \/ IsPending(i))'
      BY DEF Accounted
    <3> QED
      BY <2>1, StaysRecorded DEF AInv, Accounted, IsPending
  <2>3. AcceptedIsPending'
    BY <1>1, <1>5 DEF AcceptedIsPending
  <2>4. RowsPointBack' /\ RecordedOrdersExist'
    BY <2>1 DEF AInv, RowsPointBack, RecordedOrdersExist
  <2> QED
    BY <2>2, <2>3, <2>4 DEF Books
<1> QED
  BY <1>4, <1>5

-----------------------------------------------------------------------------
(* Every step keeps the invariant.                                         *)

LEMMA NoteGapFacts ==
    ASSUME AInv, NEW done \in BOOLEAN, NoteGap(done)
    PROVE  /\ gaps \subseteq gaps' /\ gaps' \subseteq 0 .. cycle
           /\ ~done /\ ModeAllowsSqlite => cycle \in gaps'
<1>1. cycle \in Nat /\ gaps \subseteq 0 .. cycle
  BY DEF AInv, AuditTypeOK
<1> QED
  BY <1>1 DEF NoteGap

\* The prices go with the decisions at the end of the cycle.
LEMMA KeepPricesFacts ==
    ASSUME AInv, NEW rows, Proceed(rows), KeepPrices
    PROVE  executable' \in Seq(Nat) /\ Len(executable') = Len(decisions')
<1>1. executable \in Seq(Nat) /\ Len(executable) = Len(decisions)
  BY DEF AInv, AuditTypeOK
<1>2. CASE decisions' = <<>>
  BY <1>2 DEF KeepPrices
<1>3. CASE decisions' # <<>>
  BY <1>1, <1>3 DEF KeepPrices, Proceed
<1> QED
  BY <1>2, <1>3

LEMMA BeginCycleKeeps ==
    ASSUME AInv, TypeOK', BeginCycle
    PROVE  AInv'
<1>1. /\ pc \in {"sleeping", "down"} /\ pc' = "fetch_source"
      /\ UNCHANGED <<results, decisions, executable, decisionRows, resultRows, orders, gaps>>
      /\ cycle' = cycle + 1
  BY DEF BeginCycle, NewCycleId, WakeUp, Start, cycleVars
<1>2. Books'
  BY <1>1, QuietBooks
<1>3. AuditTypeOK' /\ Numbered'
  BY <1>1 DEF AInv, AuditTypeOK, Numbered
<1> QED
  BY <1>2, <1>3 DEF AInv, Books

LEMMA PricedKeeps ==
    ASSUME AInv, TypeOK', NEW p \in Prices, Priced(p)
    PROVE  AInv'
<1>1. /\ pc = "fetch_price" /\ pc' \in {"act", "fetch_position"}
      /\ UNCHANGED <<cycle, decisionRows, resultRows, orders, gaps>>
  BY DEF Priced, PriceFetched, AddDecision
<1>2. Books'
  BY <1>1, QuietBooks
<1>3. executable' \in Seq(Nat) /\ Len(executable') = Len(decisions')
  <2> DEFINE d == decisions'[Len(decisions')]
  <2>1. ExecutableOf(d, p) \in Nat
    BY EnvironmentAssumption DEF ExecutableOf, ExecutablePrice, PriceSnapshot, Positive
  <2>2. executable \in Seq(Nat) /\ Len(executable) = Len(decisions)
    BY DEF AInv, AuditTypeOK
  <2>3. executable' = Append(executable, ExecutableOf(d, p))
    BY DEF Priced
  <2>4. Len(decisions') = Len(decisions) + 1
    <3>1. decisions \in Seq(Decision) /\ \E r : decisions' = Append(decisions, r)
      BY DEF AInv, TypeOK, Priced, PriceFetched, AddDecision
    <3> HIDE DEF Decision
    <3> QED
      BY <3>1
  <2> HIDE DEF d
  <2> QED
    BY <2>1, <2>2, <2>3, <2>4
<1>4. AuditTypeOK' /\ Numbered'
  BY <1>1, <1>3 DEF AInv, AuditTypeOK, Numbered
<1> QED
  BY <1>2, <1>4 DEF AInv, Books

LEMMA UnpricedKeeps ==
    ASSUME AInv, TypeOK', Unpriced
    PROVE  AInv'
<1>1. /\ pc \in {"fetch_source", "fetch_position", "fetch_price"}
      /\ pc' \in {"act", "fetch_position"}
      /\ UNCHANGED <<cycle, decisionRows, resultRows, orders, gaps>>
  BY DEF Unpriced, SourceUnavailable, BinanceUnavailable, AddDecision
<1>2. Books'
  BY <1>1, QuietBooks
<1>3. executable' \in Seq(Nat) /\ Len(executable') = Len(decisions')
  <2> HIDE DEF Decision
  <2>1. decisions' \in Seq(Decision) /\ executable \in Seq(Nat)
    BY DEF AInv, TypeOK, AuditTypeOK
  <2>2. Len(decisions') \in Nat /\ DOMAIN decisions' = 1 .. Len(decisions')
    BY <2>1
  <2>3. \A i \in DOMAIN executable : executable[i] \in Nat
    BY <2>1
  <2>4. executable' = [i \in 1 .. Len(decisions') |->
                          IF i \in DOMAIN executable THEN executable[i] ELSE 0]
    BY <2>2 DEF Unpriced
  <2> DEFINE n == Len(decisions')
  <2>5. n \in Nat
    BY <2>2
  <2> HIDE DEF n
  <2>6. executable' \in [1 .. n -> Nat]
    BY <2>3, <2>4 DEF n
  <2>7. executable' \in Seq(Nat) /\ Len(executable') = n
    BY <2>5, <2>6
  <2> QED
    BY <2>7 DEF n
<1>4. AuditTypeOK' /\ Numbered'
  BY <1>1, <1>3 DEF AInv, AuditTypeOK, Numbered
<1> QED
  BY <1>2, <1>4 DEF AInv, Books

LEMMA UntracedKeeps ==
    ASSUME AInv, TypeOK', Untraced
    PROVE  AInv'
<1>1. /\ UNCHANGED <<cycle, executable, decisionRows, resultRows, orders, gaps, decisions>>
      /\ \/ UNCHANGED <<pc, mode, results>>
         \/ pc \in {"fetch_source", "fetch_position"}
            /\ pc' \in {"fetch_position", "fetch_price", "sleeping"}
  BY DEF Untraced, auditVars, SourceFetched, SourceUnexpected, PositionFetched,
         PositionMissing, SourceMoves, Fill, CooldownExpires, loopVars, cycleVars
<1>2. Books'
  BY <1>1, QuietBooks
<1>3. AuditTypeOK' /\ Numbered'
  BY <1>1 DEF AInv, AuditTypeOK, Numbered
<1> QED
  BY <1>2, <1>3 DEF AInv, Books

\* The row of the decision that is acted on.
LEMMA PersistFacts ==
    ASSUME AInv, pc = "act", NEW done \in BOOLEAN,
           decisionRows' = Written(decisionRows, DecisionRow(Acting), done)
    PROVE  decisionRows' \in Seq(DecisionRowType)
<1>1. Acting \in DOMAIN Whitelist /\ Acting \in DOMAIN decisions /\ pc # "down"
  BY ActingFacts
<1>2. decisionRows \in Seq(DecisionRowType)
  BY DEF AInv, AuditTypeOK
<1> QED
  BY <1>1, <1>2, DecisionRowFacts, WrittenFacts

LEMMA PassedOverKeeps ==
    ASSUME AInv, TypeOK', NEW decided \in BOOLEAN, NEW recorded \in BOOLEAN,
           PassedOver(decided, recorded)
    PROVE  AInv'
<1>1. /\ pc = "act" /\ pc' \in {"sleeping", "act"} /\ UNCHANGED <<cycle, orders>>
      /\ decisionRows' = Written(decisionRows, DecisionRow(Acting), decided)
      /\ NoteGap(decided /\ recorded) /\ KeepPrices
      /\ \E rows : Proceed(rows)
  BY DEF PassedOver, PassOver, PersistDecision, Proceed
<1>2. gaps \subseteq gaps' /\ gaps' \subseteq 0 .. cycle
  BY <1>1, NoteGapFacts
<1>3. resultRows' = Written(resultRows, ResultRow(Acting, "LOCAL_ERROR"), ShouldExecute /\ recorded)
  BY DEF PassedOver, Written
<1>4. Books'
  BY <1>1, <1>2, <1>3, LocalErrorBooks
<1>5. executable' \in Seq(Nat) /\ Len(executable') = Len(decisions')
  BY <1>1, KeepPricesFacts
<1>6. decisionRows' \in Seq(DecisionRowType)
  BY <1>1, PersistFacts
<1>7. resultRows' \in Seq(ResultRowType)
  <2>1. /\ Acting \in DOMAIN Whitelist /\ Acting \in DOMAIN decisions
        /\ "LOCAL_ERROR" \in Statuses /\ pc # "down"
    BY <1>1, ActingFacts
  <2>2. ResultRow(Acting, "LOCAL_ERROR") \in ResultRowType
    BY <2>1, ResultRowFacts
  <2>3. resultRows \in Seq(ResultRowType)
    BY DEF AInv, AuditTypeOK
  <2> QED
    BY <1>3, <2>2, <2>3, WrittenFacts
<1>8. AuditTypeOK' /\ Numbered'
  BY <1>1, <1>2, <1>5, <1>6, <1>7 DEF AInv, AuditTypeOK, Numbered
<1> QED
  BY <1>4, <1>8 DEF AInv, Books

LEMMA SubmittedKeeps ==
    ASSUME AInv, TypeOK', NEW decided \in BOOLEAN, Submitted(decided)
    PROVE  AInv'
<1>1. /\ pc = "act" /\ pc' = "awaiting" /\ mode' = "live"
      /\ UNCHANGED <<cycle, executable, decisions, resultRows, orders>>
      /\ decisionRows' = Written(decisionRows, DecisionRow(Acting), decided)
      /\ NoteGap(decided)
  BY DEF Submitted, Submit, ShouldExecute, ModeAllowsExecution, PersistDecision,
         loopVars, cycleVars
<1>2. gaps \subseteq gaps' /\ gaps' \subseteq 0 .. cycle
  BY <1>1, NoteGapFacts
<1>3. Books'
  BY <1>1, <1>2, QuietBooks
<1>4. decisionRows' \in Seq(DecisionRowType)
  BY <1>1, PersistFacts
<1>5. AuditTypeOK' /\ Numbered'
  BY <1>1, <1>2, <1>4 DEF AInv, AuditTypeOK, Numbered
<1> QED
  BY <1>3, <1>5 DEF AInv, Books

LEMMA AnsweredKeeps ==
    ASSUME AInv, TypeOK', Answered
    PROVE  AInv'
<1>1. UNCHANGED <<cycle, executable, decisionRows, resultRows, gaps>>
  BY DEF Answered
<1>2. ASSUME NEW status \in Statuses, NEW taken \in BOOLEAN,
             pc = "awaiting", pc' = "record", mode' \in {"armed", "live"},
             decisions' = decisions, results' = Append(results, status),
             TakenOrders(taken), status = "ACCEPTED" => taken
      PROVE  AInv'
  <2>1. Books'
    BY <1>1, <1>2, AnsweredBooks
  <2>2. orders' \in Seq(OrderType)
    <3>1. orders \in Seq(OrderType)
      BY DEF AInv, AuditTypeOK
    <3>2. [cycle |-> cycle, symbol |-> Symbol, size |-> OrderSize(Due)] \in OrderType
      <4>1. Symbol \in Symbols /\ OrderSize(Due) \in Int
        BY <1>2, ActingType DEF AInv
      <4>2. cycle \in Positive
        BY <1>2 DEF AInv, AuditTypeOK, Numbered, Positive
      <4> QED
        BY <4>1, <4>2 DEF OrderType
    <3> QED
      BY <1>2, <3>1, <3>2, Appended DEF TakenOrders
  <2>3. AuditTypeOK' /\ Numbered'
    BY <1>1, <1>2, <2>2 DEF AInv, AuditTypeOK, Numbered
  <2> QED
    BY <2>1, <2>3 DEF AInv, Books
<1>3. CASE OrderAccepted /\ TakenOrders(TRUE)
  <2>1. /\ pc = "awaiting" /\ pc' = "record" /\ mode' = mode /\ decisions' = decisions
        /\ results' = Append(results, "ACCEPTED") /\ "ACCEPTED" \in Statuses
    BY <1>3 DEF OrderAccepted, Statuses
  <2> QED
    BY <1>2, <1>3, <2>1 DEF AInv, Numbered
<1>4. ASSUME NEW answer \in AllAnswers \ {"accepted"}, NEW taken \in BOOLEAN,
             OrderFailed(answer, taken), TakenOrders(taken)
      PROVE  AInv'
  <2>1. /\ pc = "awaiting" /\ pc' = "record" /\ mode' \in {"armed", mode}
        /\ decisions' = decisions /\ results' = Append(results, FailureStatus(answer))
    BY <1>4 DEF OrderFailed, HandleExecutionFailure
  <2>2. FailureStatus(answer) \in Statuses /\ FailureStatus(answer) # "ACCEPTED"
    BY FailureStatusType DEF FailureStatus, AllAnswers
  <2> QED
    BY <1>2, <1>4, <2>1, <2>2 DEF AInv, Numbered
<1> QED
  BY <1>3, <1>4 DEF Answered

LEMMA RecordedKeeps ==
    ASSUME AInv, TypeOK', NEW done \in BOOLEAN, Recorded(done)
    PROVE  AInv'
<1>1. /\ pc = "record" /\ pc' \in {"sleeping", "act"} /\ UNCHANGED <<cycle, decisionRows, orders>>
      /\ resultRows' = Written(resultRows, RecordedRow, done)
      /\ NoteGap(done) /\ KeepPrices
      /\ Proceed(results)
  BY DEF Recorded, ResultRecorded, Proceed
<1>2. ModeAllowsSqlite
  BY <1>1 DEF AInv, Numbered, ModeAllowsSqlite
<1>3. /\ gaps \subseteq gaps' /\ gaps' \subseteq 0 .. cycle
      /\ ~done => cycle \in gaps'
  BY <1>1, <1>2, NoteGapFacts
<1>4. Books'
  BY <1>1, <1>3, RecordedBooks
<1>5. executable' \in Seq(Nat) /\ Len(executable') = Len(decisions')
  BY <1>1, KeepPricesFacts
<1>6. resultRows' \in Seq(ResultRowType)
  BY <1>1, RecordedRowType
<1>7. AuditTypeOK' /\ Numbered'
  BY <1>1, <1>3, <1>5, <1>6 DEF AInv, AuditTypeOK, Numbered
<1> QED
  BY <1>4, <1>7 DEF AInv, Books

LEMMA StoppedKeeps ==
    ASSUME AInv, TypeOK', NEW taken \in BOOLEAN, NEW done \in BOOLEAN,
           Stopped(taken, done)
    PROVE  AInv'
<1>1. /\ pc # "down" /\ pc' = "down" /\ cycle' = cycle
      /\ executable' = <<>> /\ decisions' = <<>>
      /\ TakenOrders(taken)
      /\ taken => pc = "awaiting"
      /\ NoteGap(pc \notin {"act", "awaiting", "record"})
  BY DEF Stopped, Exit
<1>2. /\ gaps \subseteq gaps' /\ gaps' \subseteq 0 .. cycle
      /\ pc \in {"awaiting", "record"} => cycle \in gaps'
  BY <1>1, NoteGapFacts DEF AInv, Numbered, ModeAllowsSqlite
<1>3. decisionRows' \in Seq(DecisionRowType)
  <2>1. CASE pc = "act"
    BY <2>1, PersistFacts DEF Stopped
  <2>2. CASE pc # "act"
    BY <2>2 DEF Stopped, AInv, AuditTypeOK
  <2> QED
    BY <2>1, <2>2
<1>4. resultRows' \in Seq(ResultRowType)
  <2>1. CASE pc = "record"
    BY <2>1, RecordedRowType DEF Stopped
  <2>2. CASE pc # "record"
    BY <2>2 DEF Stopped, AInv, AuditTypeOK
  <2> QED
    BY <2>1, <2>2
<1>5. CASE ~taken
  <2>1. orders' = orders
    BY <1>1, <1>5 DEF TakenOrders
  <2>2. Books'
    <3>1. CASE pc = "record"
      BY <1>1, <1>2, <2>1, <3>1, RecordedBooks DEF Stopped
    <3>2. CASE pc # "record"
      BY <1>1, <1>2, <2>1, <3>2, QuietBooks DEF Stopped
    <3> QED
      BY <3>1, <3>2
  <2>3. AuditTypeOK' /\ Numbered'
    BY <1>1, <1>2, <1>3, <1>4, <2>1 DEF AInv, AuditTypeOK, Numbered
  <2> QED
    BY <2>2, <2>3 DEF AInv, Books
<1>6. CASE taken
  <2> DEFINE order == [cycle |-> cycle, symbol |-> Symbol, size |-> OrderSize(Due)]
  <2>1. pc = "awaiting" /\ orders' = Append(orders, order) /\ resultRows' = resultRows
    BY <1>1, <1>6 DEF TakenOrders, Stopped
  <2>2. order \in OrderType
    <3>1. Symbol \in Symbols /\ OrderSize(Due) \in Int
      BY <2>1, ActingType DEF AInv
    <3>2. cycle \in Positive
      BY <1>1 DEF AInv, AuditTypeOK, Numbered, Positive
    <3> QED
      BY <3>1, <3>2 DEF OrderType
  <2>3. orders \in Seq(OrderType) /\ Len(orders) \in Nat
    BY DEF AInv, AuditTypeOK
  <2>4. order.cycle = cycle
    OBVIOUS
  <2> HIDE DEF order
  <2>5. /\ orders' \in Seq(OrderType)
        /\ Len(orders') = Len(orders) + 1
        /\ DOMAIN orders' = DOMAIN orders \cup {Len(orders) + 1}
        /\ \A i \in DOMAIN orders : orders'[i] = orders[i]
        /\ orders'[Len(orders) + 1] = order
    BY <2>1, <2>2, <2>3, Appended
  <2>6. Accounted'
    <3> SUFFICES ASSUME NEW i \in DOMAIN orders'
                 PROVE  (IsRecorded(i) \/ orders[i].cycle \in gaps)'
      BY DEF Accounted
    <3>1. CASE i \in DOMAIN orders
      <4>1. IsRecorded(i) \/ orders[i].cycle \in gaps
        BY <2>1, <3>1 DEF AInv, Accounted, IsPending
      <4> QED
        BY <1>2, <2>1, <2>5, <3>1, <4>1, StaysRecorded
    <3>2. CASE i = Len(orders) + 1
      BY <1>2, <2>1, <2>4, <2>5, <3>2
    <3> QED
      BY <2>5, <3>1, <3>2
  <2>7. AcceptedIsPending'
    BY <1>1 DEF AcceptedIsPending
  <2>8. RowsPointBack'
    BY <2>1, <2>3, <2>5 DEF AInv, RowsPointBack
  <2>9. RecordedOrdersExist'
    BY <2>1, <2>5 DEF AInv, RecordedOrdersExist
  <2>10. AuditTypeOK' /\ Numbered'
    BY <1>1, <1>2, <1>3, <1>4, <2>5 DEF AInv, AuditTypeOK, Numbered
  <2> QED
    BY <2>6, <2>7, <2>8, <2>9, <2>10 DEF AInv
<1> QED
  BY <1>5, <1>6

LEMMA AuditInductive == AuditSpec => []AInv
<1>1. AuditInit => AInv
  <2> SUFFICES ASSUME AuditInit
               PROVE  AInv
    OBVIOUS
  <2>1. /\ TypeOK /\ pc = "down" /\ decisions = <<>>
        /\ cycle = 0 /\ executable = <<>> /\ decisionRows = <<>>
        /\ resultRows = <<>> /\ orders = <<>> /\ gaps = {}
    BY InitType DEF AuditInit, Init
  <2> QED
    BY <2>1 DEF AInv, AuditTypeOK, Numbered, Accounted, AcceptedIsPending, RowsPointBack,
                RecordedOrdersExist
<1>2. AInv /\ [AuditNext]_allVars => AInv'
  <2>1. ASSUME AInv, AuditNext
        PROVE  AInv'
    <3>1. TypeOK'
      BY <2>1, StepIsCopyTraders, ReadStepType, ActStepType, EnvironmentStepType
      DEF AInv, Next
    <3> QED
      BY <2>1, <3>1, BeginCycleKeeps, PricedKeeps, UnpricedKeeps, UntracedKeeps,
         PassedOverKeeps, SubmittedKeeps, AnsweredKeeps, RecordedKeeps, StoppedKeeps
      DEF AuditNext
  <2>2. ASSUME AInv, UNCHANGED allVars
        PROVE  AInv'
    BY <2>2 DEF allVars, vars, exchangeVars, loopVars, cycleVars, auditVars, AInv, TypeOK,
                AuditTypeOK, Numbered, Accounted, IsRecorded, IsPending,
                AcceptedIsPending, RowsPointBack, RecordedOrdersExist
  <2> QED
    BY <2>1, <2>2
<1> QED
  BY <1>1, <1>2, PTL DEF AuditSpec

-----------------------------------------------------------------------------
\* Types, and the prices of a cycle beside its decisions, one for each.
THEOREM AuditTypeCorrect == AuditSpec => []AuditTypeOK
<1>1. AInv => AuditTypeOK
  BY DEF AInv
<1> QED
  BY <1>1, AuditInductive, PTL

\* EveryOrderIsRecorded: however the answers, failures, downgrades, restarts and
\* lost writes fall, an order without a row is one of a cycle with a gap.
THEOREM EveryOrderLeavesItsRow == AuditSpec => []EveryOrderIsRecorded
<1>1. AInv => EveryOrderIsRecorded
  BY DEF AInv, Accounted, EveryOrderIsRecorded, IsPending
<1> QED
  BY <1>1, AuditInductive, PTL

\* RecordedOrdersExist: the accepted rows are distinct orders of the exchange.
THEOREM AcceptedRowsAreOrders == AuditSpec => []RecordedOrdersExist
<1>1. AInv => RecordedOrdersExist
  BY DEF AInv
<1> QED
  BY <1>1, AuditInductive, PTL
=============================================================================
