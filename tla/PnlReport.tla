------------------------------ MODULE PnlReport ------------------------------
(***************************************************************************)
(* scripts/pnl_report.py, which reads the SQLite database offline: it joins *)
(* the accepted orders of one symbol with the prices of their decisions,    *)
(* matches them first-in first-out and reports what was gained.            *)
(*                                                                         *)
(* A table is the sequence of its rows in the order of created_at, and a   *)
(* column that is NULL holds 0.  Averages and the printing are left out.   *)
(***************************************************************************)
EXTENDS SequenceFolds

CONSTANT AcceptedStatuses   \* ACCEPTED_STATUSES

Magnitude(x) == IF x < 0 THEN -x ELSE x
Smaller(a, b) == IF a <= b THEN a ELSE b

-----------------------------------------------------------------------------
(* load_trades()                                                           *)

\* Faulty: whatever was sent counts as traded.
AnyOrderCounts(e) == TRUE

WasAccepted(e) == e.status \in AcceptedStatuses /\ e.order # 0

\* Faulty: the reference price stands for every trade.
ReferencePriceOf(r) == r.reference

\* executable_price or reference_price, 0 when neither was recorded.
PriceOf(r) == IF r.executable # 0 THEN r.executable ELSE r.reference

\* Faulty: joins the rows on the symbol alone.
JoinedOnSymbol(e, decisionRows) ==
    {k \in DOMAIN decisionRows : decisionRows[k].symbol = e.symbol}

\* LEFT JOIN reconciliation_decisions ON cycle_id and symbol: a result row
\* without a decision row stays, unpriced, and one with two comes twice.
Joined(e, decisionRows) ==
    {k \in DOMAIN decisionRows :
        decisionRows[k].cycle = e.cycle /\ decisionRows[k].symbol = e.symbol}

TradeOf(e, r) ==
    [cycle |-> e.cycle, order |-> e.order, price |-> PriceOf(r),
     size |-> IF e.action = "BUY" THEN e.qty ELSE -e.qty]

\* What the join makes of one result row; rows without a price are skipped.
TradesOf(e, decisionRows) ==
    LET priced == {k \in Joined(e, decisionRows) : PriceOf(decisionRows[k]) # 0}
        rows   == Kept(decisionRows, priced)
    IN  [k \in DOMAIN rows |-> TradeOf(e, rows[k])]

Selected(e, s, since, until) ==
    e.symbol = s /\ WasAccepted(e) /\ e.cycle \in since .. until

LoadTrades(resultRows, decisionRows, s, since, until) ==
    FlattenSeq([j \in DOMAIN resultRows |->
                   IF Selected(resultRows[j], s, since, until)
                   THEN TradesOf(resultRows[j], decisionRows) ELSE <<>>])

\* load_latest_mark_price(): 0 when no row has a price.
LatestMark(decisionRows, s) ==
    LET priced == {k \in DOMAIN decisionRows :
                      decisionRows[k].symbol = s /\ PriceOf(decisionRows[k]) # 0}
    IN  IF priced = {} THEN 0 ELSE PriceOf(decisionRows[Max(priced)])

-----------------------------------------------------------------------------
(* compute_pnl(): a lot is [size, price], its size signed like its side.    *)

IsOpposite(a, b) == a # 0 /\ (a > 0) # (b > 0)

\* Faulty: the gain of a short is counted as a loss.
GainAsOfLong(lot, price, matched) == matched * (price - lot.price)

Gain(lot, price, matched) ==
    IF lot.size > 0 THEN matched * (price - lot.price)
                    ELSE matched * (lot.price - price)

\* What one lot takes of the rest of a trade; taken lots leave the queue.
MatchLot(book, lot, price) ==
    IF ~IsOpposite(book.remaining, lot.size)
    THEN [book EXCEPT !.lots = Append(@, lot)]
    ELSE LET matched == Smaller(Magnitude(book.remaining), Magnitude(lot.size))
             sign    == IF lot.size > 0 THEN 1 ELSE -1
             rest    == lot.size - sign * matched
         IN  [remaining |-> book.remaining + sign * matched,
              realized  |-> book.realized + Gain(lot, price, matched),
              lots      |-> IF rest = 0 THEN book.lots
                            ELSE Append(book.lots, [lot EXCEPT !.size = rest])]

\* matchings[n] is what is left of a trade, and of the lots, after the first n lots.
Matchings(pnl, trade) ==
    LET matchings[n \in 0 .. Len(pnl.lots)] ==
            IF n = 0
            THEN [remaining |-> trade.size, realized |-> pnl.realized, lots |-> <<>>]
            ELSE MatchLot(matchings[n - 1], pnl.lots[n], trade.price)
    IN  matchings

\* What remains of a trade opens a new lot.
Opened(book, trade) ==
    [realized |-> book.realized,
     lots     |-> IF book.remaining = 0 THEN book.lots
                  ELSE Append(book.lots, [size |-> book.remaining, price |-> trade.price])]

\* Faulty: matches the newest lot first.
SettleNewestFirst(pnl, trade) ==
    LET turned == [pnl EXCEPT !.lots = Reverse(@)]
        book   == Matchings(turned, trade)[Len(pnl.lots)]
    IN  Opened([book EXCEPT !.lots = Reverse(@)], trade)

\* The lots are all of one side, so a trade meets them in turn, the oldest
\* first, until nothing remains of it.
Settle(pnl, trade) == Opened(Matchings(pnl, trade)[Len(pnl.lots)], trade)

\* settled[n] is the profit, and the open lots, after the first n trades.
Settlement(trades) ==
    LET settled[n \in 0 .. Len(trades)] ==
            IF n = 0 THEN [realized |-> 0, lots |-> <<>>]
            ELSE Settle(settled[n - 1], trades[n])
    IN  settled

ComputePnl(trades) == Settlement(trades)[Len(trades)]

Buys(trades) == {i \in DOMAIN trades : trades[i].size > 0}
Sells(trades) == {i \in DOMAIN trades : trades[i].size < 0}

\* total_buy_amount, total_sell_amount.
Amount(trades, I) ==
    Total([i \in DOMAIN trades |->
              IF i \in I THEN Magnitude(trades[i].size) * trades[i].price ELSE 0])

NetOpen(pnl) == Total([i \in DOMAIN pnl.lots |-> pnl.lots[i].size])
Unrealized(pnl, mark) ==
    Total([i \in DOMAIN pnl.lots |->
              Gain(pnl.lots[i], mark, Magnitude(pnl.lots[i].size))])
=============================================================================
