--------------------------- MODULE MCSourceReader ----------------------------
(***************************************************************************)
(* Payloads for SourceReader: two coins mapped to one copied symbol, one   *)
(* mapped to a symbol that is not copied, one not mapped, and a copied     *)
(* symbol that nothing is mapped to.                                       *)
(***************************************************************************)
EXTENDS SourceReader

CONSTANTS btc, ubtc, sol, doge, BTCUSDT, ETHUSDT, SOLUSDT

Config == btc :> BTCUSDT @@ ubtc :> BTCUSDT @@ sol :> SOLUSDT

Number(n) == [kind |-> "number", size |-> n]
SomeSzi == {Number(-2), Number(3), [kind |-> "unreadable", size |-> 0],
            [kind |-> "nan", size |-> 0]}
SomeEntries == [coin : Coins, szi : SomeSzi]
               \cup [coin : {NoCoin, Broken}, szi : {Number(0)}]
EntryLists == BoundedSeq(SomeEntries, 3)

Known(age) == [kind |-> "known", age |-> age]
Recent == Known(2)
\* Stale, dated in the future, and not readable.
OtherTimes == {Known(31), Known(-5)}
              \cup [kind : {"missing", "unreadable", "overflowing"}, age : {0}]

Listing(time, list, entries) ==
    [isObject |-> TRUE, time |-> time, list |-> list, entries |-> entries]

SomePayloads ==
    {Listing(Recent, "given", l) : l \in EntryLists}
    \cup {Listing(t, list, <<e>>) : t \in OtherTimes, list \in {"given", "absent", "null"},
                                    e \in SomeEntries}
    \cup {[Listing(Recent, list, <<>>) EXCEPT !.isObject = b] :
             list \in {"absent", "null"}, b \in BOOLEAN}

\* Payloads that only lack fields: the time, the list, a coin, a size.
LackingEntries == {[coin |-> btc, szi |-> Number(3)], [coin |-> NoCoin, szi |-> Number(3)],
                   [coin |-> btc, szi |-> [kind |-> "unreadable", size |-> 0]]}
LackingPayloads ==
    {Listing(t, list, l) : t \in {Recent, [kind |-> "missing", age |-> 0]},
                           list \in {"given", "absent"},
                           l \in BoundedSeq(LackingEntries, 3)}
=============================================================================
