\* One plug, two runs, a minute a tick; one setback, of the service or of the host.
SPECIFICATION OrderedSpec
CONSTANTS
  r1 = r1
  r2 = r2
  Plug = {p1}
  RunId = {r1, r2}
  Minutes = {1}
  Window = {}
  NoEdge = {}
  Minute = 1
  MaxOn = 3
  MinGap = 0
  AllowedFrom = 0
  AllowedTo = 7
  Grace = 1
  MinRemaining = 1
  MaxTime = 1
  MaxSeq = 4
  MaxFaults = 1
  NoSet = NoSet
  Drift = FALSE
  HaMayStop = TRUE
  MayAbort = TRUE
  MaxTrouble = 1
  MaxSetbacks = 1
INVARIANT ArmedEndInForce
PROPERTY AcceptedIsArmed
