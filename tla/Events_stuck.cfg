\* One phone and one browser; a queue of two. Only the hub's own steps: no fairness needed.
SPECIFICATION EvSpec
CONSTANTS
  Client = {c1, c2}
  Phone = {c1}
  QueueLimit = 2
  Keep = 3
  MaxEventNo = 4
INVARIANT EveryEventArrives
CHECK_DEADLOCK FALSE
