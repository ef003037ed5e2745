\* Each module on its own small instance; the bounds are explained in the README.
SPECIFICATION HostSpec
CONSTANTS
  t1 = t1
  t2 = t2
  d1 = d1
  d2 = d2
  g1 = g1
  g2 = g2
  g3 = g3
  a1 = a1
  a2 = a2
  b1 = b1
  c1 = c1
  s1 = s1
  m1 = m1
  m2 = m2
  m3 = m3
  Thread = {t1, t2}
  Host = {h1}
  Ctl = Ctl
  Damaged = Damaged
  NoFile = NoFile
  Cap = 1
  Threshold = 1
  CoolDown = 2
  TsWindow = 0
  DayLength = 1
  AuthLimit = 1
  Slots = {1}
  HostSlots = 1
  MaxHops = 1
  LastTick = 1
  MaxRequests = 2
  MaxEvents = 1
  Dog = {d1, d2}
  Tier <- MCTier
  Remind = 1
  OutboxAge = 0
  LastHour = 1
  MaxRuns = 2
  MaxDeaths = 1
  DayTicks = 8
  PlanTimes = {4}
  DueGrace = 1
  Hung = 2
  QuietAfter = 2
  EscalateAfter = 3
  Horizon = 5
  RunHorizon = 3
  LastPoll = 6
  MaxTurns = 4
  DayLen = 6
  Timetables <- MCTimetables
  StuckAfter = 1
  StuckMax = 3
  ForeignKeep = 6
  Ceiling = 3
  LastTickP = 11
  MaxEventsP = 2
  Device = {dev1}
  Socket = {so1, so2}
  DownAfter = 2
  DegradedAfter = 2
  TransientRuns = 2
  PersistRuns = 2
  MaxLooks = 4
  MaxNews = 3
  MaxKills = 1
  MaxLosses = 1
  LastCode = 2
  MaxAppDeaths = 1
  MaxOffers = 1
  Song = {s1}
  Recording = {m1, m2, m3}
  Release = {a1, a2, b1, c1}
  ReleaseGroup = {g1, g2, g3}
  Passing <- MCPassing
  GroupOf <- MCGroupOf
  RankOf <- MCRankOf
  DateOf <- MCDateOf
  Answers <- MCAnswers
  Allowed = {1}
  MissTtl = 1
  LastDay = 1
  MaxTouches = 1
  MaxTrips = 1
SYMMETRY Sym
INVARIANTS RelayHold NotifyHold VacuumAlertsHold PlugAlertsHold WatchersHold UpdatesHold MusicTagsHold
PROPERTY HostSteps
CHECK_DEADLOCK FALSE
