\* Somebody ends a run whose start is still under way.
SPECIFICATION RunSpec
CONSTANTS
  Plug = {p1}
  ThePlug = p1
  RunId = {r1}
  Minutes = {2}
  Window = {}
  NoEdge = {}
  Minute = 2
  MaxOn = 8
  MinGap = 0
  AllowedFrom = 0
  AllowedTo = 40
  Grace = 4
  MinRemaining = 3
  MaxTime = 4
  MaxSeq = 4
  MaxFaults = 0
  NoSet = NoSet
  Req = {q1, q2}
  Kinds = {"start", "end"}
  ArmWait = 2
  CallMayMislead = FALSE
  HaMayStop = FALSE
  MaxTrouble = 0
INVARIANT EndForEveryStart
