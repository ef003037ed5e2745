---------------------------- MODULE MCRunChain ------------------------------
(* Small instances of RunChain for TLC. *)
EXTENDS RunChain

CONSTANTS r1, r2

\* Ids are alike, so the first run may as well be r1. (Symmetry is not sound for liveness.)
InOrder == status'[r2] # "none" => status'[r1] # "none"

OrderedSpec == ChainInit /\ [][ChainNext /\ InOrder]_chainVars /\ ChainFairness
=============================================================================
