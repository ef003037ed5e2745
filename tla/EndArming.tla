----------------------------- MODULE EndArming ------------------------------
(***************************************************************************)
(* What the applier promises to the schedule service, without its steps.   *)
(* The service publishes numbered sets; the applier may claim that one of  *)
(* them is in force. While a claim stands, Home Assistant runs exactly the *)
(* claimed set and would load it again after a restart. To change what is  *)
(* in force, the claim is taken back first.                                *)
(*                                                                         *)
(* run_armed (sched/store.py) is a reading of the claim.                   *)
(***************************************************************************)
CONSTANTS
  Set,     \* rendered sets
  Mixed,   \* no member of Set: what is in force is half-written, or not loaded
  None     \* no claim

VARIABLES
  published, \* every <<seq, set>> published so far
  claim,     \* None, or the published pair the applier says is in force
  inForce    \* the set that Home Assistant runs and would load at a restart

Init ==
  /\ claim = None
  /\ inForce \in Set \cup {Mixed}

Publish ==
  /\ published \subseteq published'
  /\ UNCHANGED <<claim, inForce>>

Claim ==
  /\ claim' \in published /\ claim'[2] = inForce
  /\ UNCHANGED <<published, inForce>>

TakeBack ==
  /\ claim # None /\ claim' = None
  /\ UNCHANGED <<published, inForce>>

Change ==
  /\ claim = None
  /\ inForce' \in Set \cup {Mixed}
  /\ UNCHANGED <<published, claim>>

Next == Publish \/ Claim \/ TakeBack \/ Change

Spec == Init /\ [][Next]_<<published, claim, inForce>>
=============================================================================
