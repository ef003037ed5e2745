\* Two devices; two things that people do; one trouble.
SPECIFICATION CDSpec
CONSTANTS
  a = a
  b = b
  Device = {a, b}
  Window <- MCWindow
  EndTime = 3
  Absent = Absent
  Broken = Broken
  Start <- MCStart
  KeepFor = 3
  MaxChange = 2
  MaxTrouble = 1
  Patience = 2
INVARIANT PolicySafe
PROPERTIES CreatedIsEnforced PolicyArrives EveryDeviceChangeEnds
