\* Two requests: starts, ends and switch-offs with a misleading call, a stop or a hand
\* press, or starts and extensions with a hand press; a fault of the service.
SPECIFICATION ScenarioSpec
CONSTANTS
  Plug = {p1}
  ThePlug = p1
  RunId = {r1}
  Minutes = {2}
  Window = {}
  NoEdge = {}
  Minute = 2
  MaxOn = 8
  MinGap = 0
  AllowedFrom = 0
  AllowedTo = 40
  Grace = 8
  MinRemaining = 3
  MaxTime = 10
  MaxSeq = 4
  MaxFaults = 1
  NoSet = NoSet
  Req = {q1, q2}
  Kinds = {"start", "extend", "end", "off"}
  ArmWait = 2
  CallMayMislead = TRUE
  HaMayStop = TRUE
  MaxTrouble = 1
INVARIANTS RunIsBounded StartedHasEnd
PROPERTY ExtensionInTime

SYMMETRY Requests
