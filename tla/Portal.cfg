\* Each module on its own small instance; the bounds are explained in the README.
SPECIFICATION PortalSpec
CONSTANTS
  e1 = e1
  e2 = e2
  adm = adm
  kid = kid
  p1 = p1
  p2 = p2
  quiet = quiet
  strong = strong
  EntityId = {e1, e2}
  Seeded = {e1}
  TokenId = {adm, kid}
  AdminToken = {adm}
  FirstTokens = {adm}
  RuleSets <- MCRuleSets
  Guards <- MCGuards
  Horizon = 5
  NoEntity = NoEntity
  NoRequest = NoRequest
  MaxEvents = 3
  Person = {ivan, dasha}
  FirstAdmin = ivan
  NoPerson = NoPerson
  MaxPerPerson = 1
  MaxTotal = 2
  Sliding = 1
  Idle = 0
  AbsTtl = 1
  EnrolTtl = 0
  LastTick = 1
  MaxSent = 2
  MaxDeeds = 5
  FailWindow = 3
  FreeFails = 1
  IpLimit = 4
  StepLength = 2
  LinkTtl = 2
  LastSecond = 4
  MaxLinks = 2
  MaxTries = 4
  Wish = {w1, w2}
  Repeated = {w1}
  MaxRestarts = 1
  Watched <- MCWatched
  MaxChanges = 1
  MaxOutages = 1
  Visitor = {p1, p2}
  Scenario = {quiet, strong}
  GuardPolls = 2
  SendGap = 1
  MaxSends = 1
  MaxMoves = 3
  MaxDelay = 4
  Operator = {op1, op2}
  Version = {1, 2}
  Content = {x1, x2}
  Cert = {ce1, ce2}
  Handset = {h1}
  MaxMishaps = 1
  MaxAdds = 2
  Kid = {k1, k2}
  View = {v1}
  PolicyTtl = 1
  Slack = 1
  LastBeat = 1
  MaxEdits = 1
  MaxAsks = 2
  MaxBreaks = 1
  t1 = t1
  t2 = t2
  Tablet = {t1, t2}
  Host = {"x", "b"}
  Needed = {"b"}
  MapsHosts = {"m"}
  Payloads <- MCPayloads
  NoTablet = NoTablet
  NoRowYet = NoRowYet
  NoDefinition = NoDefinition
  MaxChangesCL = 4
SYMMETRY Sym
INVARIANTS SchedulesHold AccessHold SignInHold RequestsHold HaLinkHold VacuumsHold ReleasesHold ParentalHold ListsHold
PROPERTY PortalSteps
CHECK_DEADLOCK FALSE
