---------------------------- MODULE MCCopyTrader ----------------------------
(***************************************************************************)
(* Values for the constants of CopyTrader.  Quantities are small whole     *)
(* numbers, the mark price 10 unless named otherwise.                      *)
(***************************************************************************)
EXTENDS CopyTrader

CONSTANTS btc, eth

Solo == <<btc>>
Pair == <<btc, eth>>

\* A calm book at two marks, and one whose ask the price guard refuses.
Quiet == [mark |-> 10, bid |-> 10, ask |-> 10]
Higher == [mark |-> 13, bid |-> 13, ask |-> 13]
WideAsk == [mark |-> 10, bid |-> 10, ask |-> 11]

QuietPrices == {Quiet}
CalmPrices == {Quiet, Higher}
MovingPrices == {Quiet, Higher, WideAsk}

AnyLot == [step |-> 1, min |-> 1, max |-> 100]
CoarseLot == [step |-> 2, min |-> 2, max |-> 100]
MinTwoLot == [step |-> 1, min |-> 2, max |-> 100]
SingleLots == [s \in Symbols |-> AnyLot]
CoarseLots == [s \in Symbols |-> CoarseLot]
MinTwoLots == [s \in Symbols |-> MinTwoLot]
SmallMinNotional == [s \in Symbols |-> 5]

SmallLongFlat == {0, 2}
LongShort == {-4, 4}

Flat == {[s \in Symbols |-> 0]}
FlatOrShort == {[s \in Symbols |-> x] : x \in {0, -3}}

Unambiguous == {"accepted", "rejected"}
OrTimeout == {"accepted", "rejected", "timeout"}
NoFaults == {}
=============================================================================
