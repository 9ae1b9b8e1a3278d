-------------------------- MODULE ConfirmedHandover --------------------------
(***************************************************************************)
(* What Gate 3 of a migration promises, whatever the pipeline underneath   *)
(* does: the customer grants hand-overs one at a time, the records go to   *)
(* the target database at most once per grant and never before it, and the *)
(* migration is shown as complete only when a hand-over was made.          *)
(***************************************************************************)
EXTENDS Naturals

CONSTANT MaxGrants     \* bound: grants given

VARIABLES
    granted,   \* grants given so far, numbered from 1
    handed,    \* handed[k]: hand-overs made on grant k (0 is no grant)
    shown      \* the migration is shown as complete

Init ==
    /\ granted = 0
    /\ handed = [k \in 0..MaxGrants |-> 0]
    /\ shown = FALSE

Grant ==
    /\ granted < MaxGrants
    /\ granted' = granted + 1
    /\ UNCHANGED <<handed, shown>>

HandOver ==
    \E k \in 1..granted :
       /\ handed[k] = 0
       /\ handed' = [handed EXCEPT ![k] = 1]
       /\ UNCHANGED <<granted, shown>>

Show ==
    /\ ~shown
    /\ \E k \in 1..granted : handed[k] = 1
    /\ shown' = TRUE
    /\ UNCHANGED <<granted, handed>>

\* Rerun, cancelled or failed after all.
Withdraw ==
    /\ shown
    /\ shown' = FALSE
    /\ UNCHANGED <<granted, handed>>

Next == Grant \/ HandOver \/ Show \/ Withdraw

Spec == Init /\ [][Next]_<<granted, handed, shown>>
=============================================================================
