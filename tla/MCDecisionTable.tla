-------------------------- MODULE MCDecisionTable ---------------------------
(***************************************************************************)
(* Awkward numbers for the decision engine: a step that divides neither    *)
(* the caps nor the minimum, a disabled and an unlisted symbol, prices on  *)
(* both sides of the guard's limit.                                        *)
(***************************************************************************)
EXTENDS DecisionTable

CONSTANTS btc, eth, xrp

Listed == <<btc, eth>>

Lots == [s \in Symbols |-> [step |-> 1, min |-> 2, max |-> 15]]
MarketLots == [s \in Symbols |-> [step |-> 3, min |-> 4, max |-> 8]]
Notionals == [s \in Symbols |-> 5000]

SomeSources == -6 .. 6
SomeActuals == -20 .. 20

\* At a mark of 1000 and 15 bps a quote may be one unit away, at 2000 three.
SomePrices ==
    {[mark |-> 1000, bid |-> 1000, ask |-> 1001],
     [mark |-> 1000, bid |-> 999, ask |-> 1002],
     [mark |-> 1000, bid |-> 998, ask |-> 1001],
     [mark |-> 2000, bid |-> 1998, ask |-> 2003],
     NoPrice}
=============================================================================
