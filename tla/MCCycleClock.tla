---------------------------- MODULE MCCycleClock -----------------------------
(***************************************************************************)
(* Small times for CycleClock, on both sides of every limit: a cooldown of *)
(* four seconds, a sleep of two, and fills of one to four.                 *)
(***************************************************************************)
EXTENDS CycleClock

CONSTANTS btc, eth

Pair == <<btc, eth>>

SomeBounds == [fill : 1 .. 4, persist : {0, 1}, collect : {0, 1, 2}, execute : {1},
               ambiguous : BOOLEAN]
=============================================================================
