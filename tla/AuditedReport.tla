---------------------------- MODULE AuditedReport ----------------------------
(***************************************************************************)
(* The PnL report, run at any moment against the database the program      *)
(* leaves behind: what it says is compared with what Binance has done.     *)
(***************************************************************************)
EXTENDS AuditTrail, PnlReport

\* The statuses of Binance that the report selects are those the executor takes
\* for an answer: NEW, FILLED and PARTIALLY_FILLED.
ASSUME ReportAssumption == AcceptedStatuses = {"ACCEPTED"}

\* The report of symbol s from a cycle on, and of everything.
TradesSince(s, first) == LoadTrades(resultRows, decisionRows, s, first, MaxCycles)
Trades(s) == TradesSince(s, 1)

\* What Binance has taken of s without an answer that said so.
Unconfirmed(s) ==
    {i \in DOMAIN orders :
        /\ orders[i].symbol = s
        /\ \A j \in DOMAIN resultRows : resultRows[j].order # i}

-----------------------------------------------------------------------------
\* An accepted order whose cycle lost no write is a trade of the report, once,
\* and its price is the executable price of the decision it came from, not the
\* reference price and not that of another cycle: the join by cycle and symbol
\* neither drops nor doubles it (pnl_report.py:92-146).
TradesArePriced ==
    \A j \in DOMAIN resultRows :
        LET row    == resultRows[j]
            trades == Trades(row.symbol)
            own    == {i \in DOMAIN trades : trades[i].order = row.order}
        IN  row.status = "ACCEPTED" /\ row.cycle \notin gaps =>
                \E i \in own :
                    /\ own = {i}
                    /\ \E k \in DOMAIN decisionRows :
                          /\ decisionRows[k].cycle = row.cycle
                          /\ decisionRows[k].executable = trades[i].price

\* The net position of the report and the orders that were taken although their
\* answer did not say so are together the position of the account, as long as
\* fills are whole, the account was flat before the first start and no write is
\* missing: those orders are all the report can miss (pnl_report.py:106-108).
NetIsAccount ==
    gaps = {} =>
        \A s \in Symbols :
            NetOpen(ComputePnl(Trades(s)))
              + Total([i \in DOMAIN orders |->
                          IF i \in Unconfirmed(s) THEN orders[i].size ELSE 0])
              = position[s] + working[s]

\* Whatever is matched with whatever, realized and unrealized gain together are
\* the money that came in less the money that went out plus what is left at the
\* mark price, in a report of any period (pnl_report.py:180-228).
PnlIsCashFlow ==
    \A s \in Symbols, first \in 1 .. cycle :
        LET trades == TradesSince(s, first)
            pnl    == ComputePnl(trades)
            mark   == LatestMark(decisionRows, s)
        IN  pnl.realized + Unrealized(pnl, mark)
              = Amount(trades, Sells(trades)) - Amount(trades, Buys(trades))
                + NetOpen(pnl) * mark

\* Some of size b is open, and none that b does not have.
IsPartOf(a, b) == a # 0 /\ (a > 0) = (b > 0) /\ Magnitude(a) <= Magnitude(b)

\* The lots are the last ones of a side, the oldest perhaps in part.
AreNewest(lots, side) ==
    LET closed == Len(side) - Len(lots)
    IN  /\ closed >= 0
        /\ \A i \in DOMAIN lots :
              /\ lots[i].price = side[closed + i].price
              /\ IF i = 1 THEN IsPartOf(lots[i].size, side[closed + i].size)
                          ELSE lots[i].size = side[closed + i].size

\* First in, first out: what is open was traded last.  The open lots are the
\* newest trades of one side, each in whole but the oldest, of which a part may
\* be closed (pnl_report.py:190-210).
OpenLotsAreNewest ==
    \A s \in Symbols :
        LET trades == Trades(s)
            lots   == ComputePnl(trades).lots
        IN  \/ AreNewest(lots, Kept(trades, Buys(trades)))
            \/ AreNewest(lots, Kept(trades, Sells(trades)))
=============================================================================
