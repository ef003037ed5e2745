\* Two files with two contents each, two renders, two troubles of any kind;
\* one phone and one browser, and a queue of two.
SPECIFICATION LoopsSpec
CONSTANTS
  v1 = v1
  File = {f1, f2}
  Value = {v1, v2}
  Unset = Unset
  Drift = TRUE
  HaMayStop = TRUE
  MayAbort = TRUE
  MaxPublish = 2
  MaxTrouble = 2
  Client = {c1, c2}
  Phone = {c1}
  QueueLimit = 2
  Keep = 3
  MaxEventNo = 4
INVARIANTS ApplierSafe EventsSafe
PROPERTIES ImplementsEndArming VerdictsHold RevokedStreamEnds
CHECK_DEADLOCK FALSE
