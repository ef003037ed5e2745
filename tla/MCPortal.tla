------------------------------ MODULE MCPortal ------------------------------
(***************************************************************************)
(* Small instances of the portal's modules that share no state, for TLC:   *)
(* in a behaviour one of them moves, and the others are not there.         *)
(***************************************************************************)
EXTENDS Schedules, Access, SignIn, Requests, HaLink, Vacuums, Releases, Parental, ChildLists, TLC

CONSTANTS e1, e2, adm, kid, p1, p2, quiet, strong, t1, t2

VARIABLE part  \* the module that moves in this behaviour

\* Windows that touch, windows apart, and one that ends with the week.
WindowOf(i, f, t) == [id |-> i, from |-> f, to |-> t]
MCRuleSets ==
  {{}, {WindowOf(1, 0, 2), WindowOf(2, 2, 3)}, {WindowOf(1, 1, 2), WindowOf(2, 4, 5)}}
MCGuards == {[max |-> 2, gap |-> g, from |-> 0, to |-> 5] : g \in {0, 2}}

MCWatched == <<"plug", "vacuum">>

\* Devices to import: with a domain in both lists, with a list that is refused, with old house lists
\* and a window that opens Maps.
Given(a, n, o) == [allow |-> a, deny |-> n, opens |-> o]
MCPayloads ==
  {[devices |-> t1 :> Given({"x"}, {"x"}, {"youtube"}), house |-> [always |-> {"m"}, weekdays |-> {}]],
   [devices |-> t1 :> Given({}, {"b"}, {}), house |-> [always |-> {"m"}, weekdays |-> {}]],
   [devices |-> t1 :> Given({"b"}, {}, {"maps"}) @@ t2 :> Given({}, {"x"}, {}),
    house |-> [always |-> {}, weekdays |-> {"m"}]]}

\* Visitors are alike, and so are scenarios.
Sym == {v @@ s : v \in Permutations({p1, p2}), s \in Permutations({quiet, strong})}

Absent == 0

NoSchedules ==
  /\ entities = Absent /\ tokens = Absent /\ audit = Absent /\ inFlight = Absent /\ views = Absent
  /\ verdict = Absent /\ audited = Absent /\ lastKey = Absent /\ crashes = Absent

NoAccess ==
  /\ db = Absent /\ clockA = Absent /\ sent = Absent /\ ctlJob = Absent /\ overlapped = Absent
  /\ task = Absent /\ brink = Absent /\ deeds = Absent

NoSignIn ==
  /\ clockS = Absent /\ isAdmin = Absent /\ setupLink = Absent /\ made = Absent /\ cred = Absent
  /\ failRows = Absent /\ tries = Absent /\ accepted = Absent /\ twice = Absent /\ setups = Absent

NoRequests ==
  /\ intent = Absent /\ stage = Absent /\ reply = Absent /\ stored = Absent /\ current = Absent
  /\ applied = Absent /\ trail = Absent /\ rivals = Absent /\ lost = Absent /\ restarts = Absent

NoHaLink ==
  /\ world = Absent /\ haServes = Absent /\ socket = Absent /\ broken = Absent /\ feed = Absent
  /\ cache = Absent /\ link = Absent /\ pass = Absent /\ regressed = Absent /\ overtaken = Absent
  /\ outages = Absent

NoVacuums ==
  /\ robot = Absent /\ plan = Absent /\ order = Absent /\ work = Absent /\ seen = Absent
  /\ events = Absent /\ linked = Absent /\ wish = Absent /\ guardian = Absent /\ card = Absent
  /\ result = Absent /\ ended = Absent /\ muddled = Absent /\ spoiled = Absent /\ moves = Absent

NoReleases ==
  /\ releases = Absent /\ files = Absent /\ pinned = Absent /\ releaseCurrent = Absent
  /\ manifest = Absent /\ stopped = Absent /\ minSupported = Absent /\ signingKey = Absent
  /\ gwctl = Absent /\ adds = Absent /\ mishaps = Absent /\ handset = Absent /\ crossed = Absent

NoParental ==
  /\ beat = Absent /\ edits = Absent /\ breaks = Absent /\ wins = Absent /\ excs = Absent
  /\ phase = Absent /\ phaseAt = Absent /\ live = Absent /\ unconfirmed = Absent
  /\ confirmed = Absent /\ policyVerdict = Absent /\ view = Absent /\ rightSince = Absent

NoChildLists ==
  /\ child = Absent /\ house = Absent /\ cutover = Absent /\ serving = Absent /\ lastRow = Absent
  /\ mapsRow = Absent /\ definition = Absent /\ changesCL = Absent /\ renewed = Absent
  /\ legacy = Absent /\ migration = Absent /\ priorData = Absent

PortalInit ==
  \/ /\ part = "schedules" /\ SchedInit
     /\ NoAccess /\ NoSignIn /\ NoRequests /\ NoHaLink /\ NoVacuums /\ NoReleases /\ NoParental /\ NoChildLists
  \/ /\ part = "access" /\ AccessInit
     /\ NoSchedules /\ NoSignIn /\ NoRequests /\ NoHaLink /\ NoVacuums /\ NoReleases /\ NoParental /\ NoChildLists
  \/ /\ part = "signIn" /\ SignInit
     /\ NoSchedules /\ NoAccess /\ NoRequests /\ NoHaLink /\ NoVacuums /\ NoReleases /\ NoParental /\ NoChildLists
  \/ /\ part = "requests" /\ ReqInit
     /\ NoSchedules /\ NoAccess /\ NoSignIn /\ NoHaLink /\ NoVacuums /\ NoReleases /\ NoParental /\ NoChildLists
  \/ /\ part = "haLink" /\ HlInit
     /\ NoSchedules /\ NoAccess /\ NoSignIn /\ NoRequests /\ NoVacuums /\ NoReleases /\ NoParental /\ NoChildLists
  \/ /\ part = "vacuums" /\ VacInit
     /\ NoSchedules /\ NoAccess /\ NoSignIn /\ NoRequests /\ NoHaLink /\ NoReleases /\ NoParental /\ NoChildLists
  \/ /\ part = "releases" /\ RelInit
     /\ NoSchedules /\ NoAccess /\ NoSignIn /\ NoRequests /\ NoHaLink /\ NoVacuums /\ NoParental /\ NoChildLists
  \/ /\ part = "parental" /\ KidInit
     /\ NoSchedules /\ NoAccess /\ NoSignIn /\ NoRequests /\ NoHaLink /\ NoVacuums /\ NoReleases /\ NoChildLists
  \/ /\ part = "childLists" /\ ListInit
     /\ NoSchedules /\ NoAccess /\ NoSignIn /\ NoRequests /\ NoHaLink /\ NoVacuums /\ NoReleases /\ NoParental

PortalNext ==
  \/ part = "schedules" /\ SchedNext
     /\ UNCHANGED <<part, accessVars, signVars, reqVars, hlVars, vacVars, relVars, kidVars, listVars>>
  \/ part = "access" /\ AccessNext
     /\ UNCHANGED <<part, schedVars, signVars, reqVars, hlVars, vacVars, relVars, kidVars, listVars>>
  \/ part = "signIn" /\ SignNext
     /\ UNCHANGED <<part, schedVars, accessVars, reqVars, hlVars, vacVars, relVars, kidVars, listVars>>
  \/ part = "requests" /\ ReqNext
     /\ UNCHANGED <<part, schedVars, accessVars, signVars, hlVars, vacVars, relVars, kidVars, listVars>>
  \/ part = "haLink" /\ HlNext
     /\ UNCHANGED <<part, schedVars, accessVars, signVars, reqVars, vacVars, relVars, kidVars, listVars>>
  \/ part = "vacuums" /\ VacNext
     /\ UNCHANGED <<part, schedVars, accessVars, signVars, reqVars, hlVars, relVars, kidVars, listVars>>
  \/ part = "releases" /\ RelNext
     /\ UNCHANGED <<part, schedVars, accessVars, signVars, reqVars, hlVars, vacVars, kidVars, listVars>>
  \/ part = "parental" /\ KidNext
     /\ UNCHANGED <<part, schedVars, accessVars, signVars, reqVars, hlVars, vacVars, relVars, listVars>>
  \/ part = "childLists" /\ ListNext
     /\ UNCHANGED <<part, schedVars, accessVars, signVars, reqVars, hlVars, vacVars, relVars, kidVars>>

portalVars == <<part, schedVars, accessVars, signVars, reqVars, hlVars, vacVars, relVars, kidVars, listVars>>

PortalSpec == PortalInit /\ [][PortalNext]_portalVars

---------------------------------------------------------------------------
(* Properties *)

\* Whatever editors, guardrails, undos and crashes do in whatever order: rules within their
\* guardrails, versions and audit rows that tell the truth, edges that are the schedule.
SchedulesHold == part = "schedules" => SchedulesSafe

\* What the changes of people, codes, phones and sessions keep together, whatever their order.
AccessHold == part = "access" => AccessSafe

\* A code and a link work once, and guessing stays slow, in every order of setups and sign-ins.
SignInHold == part = "signIn" => SignInSafe

\* A request that is repeated, or loses its answer, changes the service once and leaves its trace.
RequestsHold == part = "requests" => RequestsSafe

\* The cache of a live link is the state of Home Assistant, whatever crossed while it came up.
HaLinkHold == part = "haLink" => HaLinkSafe

\* The guard of a stop leaves people alone, and the card tells of the plan that runs or ran.
VacuumsHold == part = "vacuums" => VacuumsSafe

\* The channel holds together, and a phone gets from it what was published and nothing else.
ReleasesHold == part = "releases" => ReleasesSafe

\* What the page shows of a child is true of the rules that it was judged by.
ParentalHold == part = "parental" => ParentalSafe

\* What the changes of the policy's data keep together.
ListsHold == part = "childLists" => ListsSafe

\* What a step may never do: overwrite a schedule that its editor has not seen, move the channel
\* of the app backwards, show a verdict that is older than the cache allows.
PortalSteps ==
  [][/\ (part = "schedules" => OverwritesWhatWasSeen)
     /\ (part = "releases" => RollForward)
     /\ (part = "parental" => ShownIsRecent)]_portalVars
==============================================================================
