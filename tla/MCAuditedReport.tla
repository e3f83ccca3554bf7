--------------------------- MODULE MCAuditedReport ---------------------------
(***************************************************************************)
(* Values for the constants of AuditedReport: one symbol, prices at which  *)
(* bid, mark and ask differ, and a long or a short wallet to copy.         *)
(***************************************************************************)
EXTENDS AuditedReport

CONSTANT btc

Solo == <<btc>>

\* Two books within the price guard, with an executable price on either side.
Low == [mark |-> 1000, bid |-> 999, ask |-> 1001]
High == [mark |-> 1300, bid |-> 1299, ask |-> 1301]
TwoBooks == {Low, High}

AnyLot == [step |-> 1, min |-> 1, max |-> 100]
AnyLots == [s \in Symbols |-> AnyLot]
NoMinNotional == [s \in Symbols |-> 0]

LongShort == {-2, 2}
Flat == {[s \in Symbols |-> 0]}
=============================================================================
