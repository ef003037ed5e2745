------------------------------- MODULE MCHost -------------------------------
(***************************************************************************)
(* Small instances of the programs of the host that share no state, for    *)
(* TLC: in a behaviour one of them moves, and the others are not there.    *)
(***************************************************************************)
EXTENDS Relay, Notify, VacuumAlerts, PlugAlerts, Watchers, Updates, MusicTags, TLC

CONSTANTS t1, t2, d1, d2, g1, g2, g3, a1, a2, b1, c1, s1, m1, m2, m3

VARIABLE part  \* the module that moves in this behaviour

\* Two watchdogs, one of each class.
MCTier == d1 :> "A" @@ d2 :> "B"

\* An evening window every day, or to the end of the day every other day; a noon window; both.
MCTimetables ==
  LET evening == {<<4, 5>>} noon == {<<1, 3>>} IN
  {[d \in {0, 1} |-> evening], [d \in {0, 1} |-> IF d = 0 THEN {<<4, 6>>} ELSE {}],
   [d \in {0, 1} |-> noon], [d \in {0, 1} |-> IF d = 0 THEN noon ELSE {<<2, 6>>}]}

\* Two official albums of one year, the first with two releases, and an older compilation. Two recordings
\* pass the gate of the song, a third does not.
MCGroupOf == a1 :> g1 @@ a2 :> g1 @@ b1 :> g2 @@ c1 :> g3
MCRankOf == g1 :> 1 @@ g2 :> 1 @@ g3 :> 2
MCDateOf == g1 :> 2 @@ g2 :> 2 @@ g3 :> 1
MCPassing == s1 :> {m1, m2}
MCAnswers ==
  s1 :> {{}, {m3}, {m1, m2}} @@ m1 :> {{b1}, {c1}} @@ m2 :> {{}, {a1, b1}, {a1, a2}} @@ m3 :> {{}}

\* The threads of the relay are alike.
Sym == Permutations({t1, t2})

Absent == 0

NoRelay ==
  /\ tick = Absent /\ file = Absent /\ tmp = Absent /\ lock = Absent /\ wr = Absent /\ req = Absent
  /\ seen = Absent /\ fails = Absent /\ limit = Absent /\ slots = Absent /\ hostSlots = Absent
  /\ arrived = Absent /\ events = Absent /\ off = Absent /\ raced = Absent /\ served = Absent

NoNotify ==
  /\ hour = Absent /\ outbox = Absent /\ boxTmp = Absent /\ alerts = Absent /\ call = Absent
  /\ runs = Absent /\ deaths = Absent /\ got = Absent /\ queued = Absent /\ expired = Absent
  /\ crossing = Absent /\ outage = Absent /\ unnoted = Absent /\ into = Absent

NoVacuumAlerts ==
  /\ nowV = Absent /\ states = Absent /\ planRuns = Absent /\ openV = Absent /\ toldV = Absent
  /\ polledV = Absent /\ turns = Absent

NoPlugAlerts ==
  /\ tickP = Absent /\ timetable = Absent /\ editedAt = Absent /\ snapshot = Absent
  /\ copied = Absent /\ plug = Absent /\ load = Absent /\ byHa = Absent /\ haStarts = Absent
  /\ openP = Absent /\ polledP = Absent /\ eventsP = Absent

NoWatchers ==
  /\ watcher = Absent /\ world = Absent /\ stateFile = Absent /\ todo = Absent /\ found = Absent
  /\ alertW = Absent /\ toldW = Absent /\ looks = Absent /\ news = Absent /\ kills = Absent
  /\ lostIn = Absent /\ lastRun = Absent /\ initial = Absent /\ tellings = Absent
  /\ orphans = Absent /\ sent = Absent /\ unmarked = Absent

NoUpdates ==
  /\ offer = Absent /\ offers = Absent /\ appDeaths = Absent /\ installed = Absent
  /\ visible = Absent /\ face = Absent /\ entry = Absent /\ place = Absent /\ slipped = Absent
  /\ lastSeen = Absent /\ minSupported = Absent /\ installing = Absent /\ worker = Absent
  /\ folder = Absent /\ fetched = Absent /\ session = Absent /\ answered = Absent
  /\ highest = Absent /\ orphaned = Absent /\ lateMin = Absent /\ crossed = Absent

NoMusicTags ==
  /\ today = Absent /\ touches = Absent /\ trips = Absent /\ answers = Absent /\ cache = Absent
  /\ tags = Absent /\ before = Absent /\ plan = Absent /\ hand = Absent /\ daily = Absent
  /\ unscanned = Absent /\ owed = Absent

HostInit ==
  \/ /\ part = "relay" /\ RelayInit
     /\ NoNotify /\ NoVacuumAlerts /\ NoPlugAlerts /\ NoWatchers /\ NoUpdates /\ NoMusicTags
  \/ /\ part = "notify" /\ NotifyInit
     /\ NoRelay /\ NoVacuumAlerts /\ NoPlugAlerts /\ NoWatchers /\ NoUpdates /\ NoMusicTags
  \/ /\ part = "vacuumAlerts" /\ VaInit
     /\ NoRelay /\ NoNotify /\ NoPlugAlerts /\ NoWatchers /\ NoUpdates /\ NoMusicTags
  \/ /\ part = "plugAlerts" /\ PlugInit
     /\ NoRelay /\ NoNotify /\ NoVacuumAlerts /\ NoWatchers /\ NoUpdates /\ NoMusicTags
  \/ /\ part = "watchers" /\ WatchInit
     /\ NoRelay /\ NoNotify /\ NoVacuumAlerts /\ NoPlugAlerts /\ NoUpdates /\ NoMusicTags
  \/ /\ part = "updates" /\ UpdInit
     /\ NoRelay /\ NoNotify /\ NoVacuumAlerts /\ NoPlugAlerts /\ NoWatchers /\ NoMusicTags
  \/ /\ part = "music" /\ MtInit
     /\ NoRelay /\ NoNotify /\ NoVacuumAlerts /\ NoPlugAlerts /\ NoWatchers /\ NoUpdates

\* Three runs of the two watchdogs together: a fourth repeats.
ThreeRuns == runs'[d1] + runs'[d2] <= 3

HostNext ==
  \/ part = "relay" /\ RelayNext
     /\ UNCHANGED <<part, notifyVars, vaVars, plugVars, watchVars, updVars, music>>
  \/ part = "notify" /\ NotifyNext /\ ThreeRuns
     /\ UNCHANGED <<part, relayVars, vaVars, plugVars, watchVars, updVars, music>>
  \/ part = "vacuumAlerts" /\ VaNext
     /\ UNCHANGED <<part, relayVars, notifyVars, plugVars, watchVars, updVars, music>>
  \/ part = "plugAlerts" /\ PlugNext
     /\ UNCHANGED <<part, relayVars, notifyVars, vaVars, watchVars, updVars, music>>
  \/ part = "watchers" /\ WatchNext
     /\ UNCHANGED <<part, relayVars, notifyVars, vaVars, plugVars, updVars, music>>
  \/ part = "updates" /\ UpdNext
     /\ UNCHANGED <<part, relayVars, notifyVars, vaVars, plugVars, watchVars, music>>
  \/ part = "music" /\ MtNext
     /\ UNCHANGED <<part, relayVars, notifyVars, vaVars, plugVars, watchVars, updVars>>

hostVars == <<part, relayVars, notifyVars, vaVars, plugVars, watchVars, updVars, music>>

HostSpec == HostInit /\ [][HostNext]_hostVars

---------------------------------------------------------------------------
(* Properties *)

\* Replay, daily cap, kill switch and slots hold under every interleaving of the threads and relayctl.
RelayHold == part = "relay" => RelaySafe

\* No queued message vanishes, and no outage is told too often or noted as told when it was not.
NotifyHold == part = "notify" => NotifySafe

\* A robot's trouble is told, and told once, whatever order its states and the polls come in.
VacuumAlertsHold == part = "vacuumAlerts" => VacuumAlertsSafe

\* A plug that is against its schedule is listed, and one that stays on after its end is told.
PlugAlertsHold == part = "plugAlerts" => PlugAlertsSafe

\* News is told once, and open alerts fit what the last completed run saw, through runs that are killed.
WatchersHold == part = "watchers" => WatchersSafe

\* What the app remembers of its updates and hands to the installer, with the screen, the job and
\* the death of the process in every order.
UpdatesHold == part = "updates" => UpdatesSafe

\* The tags of a file fit together and are the best known, and what was changed gets scanned.
MusicTagsHold == part = "music" => MusicTagsSafe

\* What a step may never do: end the time of an open breaker early without a command, list as foreign
\* what the timetable explains, overwrite a tag that is set.
HostSteps ==
  [][/\ (part = "relay" => BreakerStays)
     /\ (part = "plugAlerts" => EdgesAreNotForeign)
     /\ (part = "music" => SetIsKept)]_hostVars
==============================================================================
