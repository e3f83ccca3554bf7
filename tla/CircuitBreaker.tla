--------------------------- MODULE CircuitBreaker ---------------------------
(***************************************************************************)
(* What docs/RUNTIME-STATE-MACHINE.md asks of trading permission, with     *)
(* nothing said of cycles, symbols or sizes: one order is out at a time,   *)
(* only while there is permission; while the process runs, Limit failures  *)
(* in a row take the permission away and nothing else does; an order that  *)
(* is confirmed clears the count; and only a start of the process gives    *)
(* permission.                                                             *)
(***************************************************************************)
EXTENDS Naturals

CONSTANTS
    Limit,          \* failures in a row that trip the breaker, at least one
    Armed           \* whether it trips at all

VARIABLES
    running,        \* the process is up
    permission,     \* orders may be placed
    strikes,        \* failures since the last confirmed order
    outstanding     \* an order is out, its answer not known

vars == <<running, permission, strikes, outstanding>>

TypeOK ==
    /\ running \in BOOLEAN
    /\ permission \in BOOLEAN
    /\ strikes \in Nat
    /\ outstanding \in BOOLEAN

Init ==
    /\ running = FALSE
    /\ permission = FALSE
    /\ strikes = 0
    /\ outstanding = FALSE

\* The operator starts the process, in live mode or in another.
PowerOn ==
    /\ ~running
    /\ running' = TRUE
    /\ permission' \in BOOLEAN
    /\ UNCHANGED <<strikes, outstanding>>

Place ==
    /\ permission
    /\ ~outstanding
    /\ outstanding' = TRUE
    /\ UNCHANGED <<running, permission, strikes>>

Confirm ==
    /\ outstanding
    /\ outstanding' = FALSE
    /\ strikes' = 0
    /\ UNCHANGED <<running, permission>>

Strike ==
    /\ outstanding
    /\ Armed => strikes + 1 < Limit
    /\ outstanding' = FALSE
    /\ strikes' = strikes + 1
    /\ UNCHANGED <<running, permission>>

Trip ==
    /\ Armed
    /\ outstanding
    /\ strikes + 1 = Limit
    /\ permission' = FALSE
    /\ strikes' = 0
    /\ outstanding' = FALSE
    /\ UNCHANGED running

\* The process stops, and remembers nothing.
PowerOff ==
    /\ running
    /\ running' = FALSE
    /\ permission' = FALSE
    /\ strikes' = 0
    /\ outstanding' = FALSE

Next == PowerOn \/ Place \/ Confirm \/ Strike \/ Trip \/ PowerOff

Spec == Init /\ [][Next]_vars

=============================================================================
