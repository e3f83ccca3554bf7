---------------------------- MODULE SequenceFolds ----------------------------
(***************************************************************************)
(* The sum and the selection that the program's loops over rows compute,   *)
(* as functions on how far the loop has come, which can be proved about.   *)
(***************************************************************************)
EXTENDS Integers, Sequences, SequencesExt

\* Totals(q)[n] is the sum of the first n numbers of q.
Totals(q) ==
    LET totals[n \in 0 .. Len(q)] == IF n = 0 THEN 0 ELSE totals[n - 1] + q[n]
    IN  totals

Total(q) == Totals(q)[Len(q)]

\* The rows at the indices I, in their order.
Kept(rows, I) ==
    FlattenSeq([n \in DOMAIN rows |-> IF n \in I THEN <<rows[n]>> ELSE <<>>])
=============================================================================
