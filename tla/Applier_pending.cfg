\* Home Assistant may be down, or its webhook fail, when the reload is due: the pass stays pending.
SPECIFICATION Spec
CONSTANTS
  File = {f1, f2}
  Value = {v1, v2}
  Unset = Unset
  Drift = FALSE
  HaMayStop = TRUE
  MayAbort = FALSE
  MaxPublish = 2
  MaxTrouble = 2
INVARIANT RollsBackToVerified
