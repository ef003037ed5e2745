\* Two lists of one name (a set switches a list; to rename one is the same call), two requests
\* of any kind; one trouble; one new content.
SPECIFICATION FlSpec
CONSTANTS
  u1 = u1
  u2 = u2
  n1 = n1
  Url = {u1, u2}
  Label = {n1}
  Need <- MCNeed
  Bait <- MCBait
  Text <- MCText
  Absent = Absent
  Start <- MCStart
  Kinds = {"add", "set", "remove", "refresh", "revert"}
  MaxReq = 2
  MaxTroubleF = 1

PROPERTIES FilterListsSafe AllOrNothing EveryChangeEnds
CHECK_DEADLOCK FALSE
