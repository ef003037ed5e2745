\* One plug, two runs, two ticks a minute, every operation, one fault.
SPECIFICATION OrderedSpec
CONSTANTS
  r1 = r1
  r2 = r2
  Plug = {p1}
  RunId = {r1, r2}
  Minutes = {1, 2}
  Window <- MCWindow
  NoEdge <- MCNoEdge
  Minute = 2
  MaxOn = 6
  MinGap = 2
  AllowedFrom = 0
  AllowedTo = 14
  Grace = 2
  MinRemaining = 3
  MaxTime = 11
  MaxSeq = 5
  MaxFaults = 1
INVARIANTS RunsKept StaleIsVisible RevCovered
PROPERTIES ClosedIsFinal LeavesTheRender
