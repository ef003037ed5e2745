----------------------------- MODULE MCRunStore -----------------------------
(* Small instances of RunStore for TLC. *)
EXTENDS RunStore

CONSTANTS r1, r2

\* One window, minutes 5 to 6 with two ticks a minute.
MCWindow == {[from |-> 10, to |-> 12]}
\* The night minutes in which no run may start or end: only tick 2 here.
MCNoEdge == {2}

\* Ids are alike, so the first run may as well be r1. (Symmetry is not sound for liveness.)
InOrder == status'[r2] # "none" => status'[r1] # "none"

OrderedSpec == StoreInit /\ [][StoreStep /\ InOrder]_storeVars /\ Fairness
=============================================================================
