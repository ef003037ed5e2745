--------------------------- MODULE HostInvariants ---------------------------
(***************************************************************************)
(* The inductive invariants of the programs of the host: what each knows   *)
(* of its own state between any two steps, strong enough to be kept by     *)
(* every step and to imply what the program promises. Host_proofs shows    *)
(* both.                                                                   *)
(***************************************************************************)
EXTENDS MCHost

-----------------------------------------------------------------------------
(* MusicTags: the tags of the files.                                       *)

Image == [album : Value, other : Value]
CachedAnswer == [found : SUBSET (Recording \cup Release), day : Int]
HandRun == {Resting} \cup [at : {"save"}, song : Song, image : Image, crossed : BOOLEAN]
DailyRun == {Resting} \cup [at : {"match"}, todo : SUBSET Song, wrote : BOOLEAN]
            \cup [at : {"save"}, song : Song, image : Image, crossed : BOOLEAN, todo : SUBSET Song, wrote : BOOLEAN]

MtTypes ==
  /\ today \in 0..LastDay /\ touches \in 0..MaxTouches /\ trips \in 0..MaxTrips
  /\ answers \in [Song -> {"open", "same", "moved"}] /\ cache \in [Song \cup Recording -> CachedAnswer]
  /\ tags \in [Song -> Image] /\ before \in [Song -> Image \cup {NoTags}]
  /\ plan \in [Song -> ReleaseGroup \cup {"none"}]
  /\ hand \in HandRun /\ daily \in DailyRun
  /\ \A k \in Song \cup Recording : cache[k].day <= today

\* A release group that stands in a tag, in the snapshot, in the plan or in the hand of a run was chosen from
\* the answers of its song, and is what they still say, as long as they have not moved.
Say == [s \in Song |-> [how |-> answers[s], group |-> Chosen(Pool(s))]]
FromAnswer(say, v) == v \in ReleaseGroup => say.how = "moved" \/ (say.how = "same" /\ v = say.group)
Approved(v) == v \in ReleaseGroup => RankOf[v] \in Allowed
Sound(say, image) == FromAnswer(say, image.album) /\ FromAnswer(say, image.other) /\ Approved(image.album)
SoundTags ==
  /\ \A s \in Song : Sound(Say[s], tags[s]) /\ Sound(Say[s], before[s]) /\ FromAnswer(Say[s], plan[s])
  /\ hand.at = "save" => Sound(Say[hand.song], hand.image)
  /\ daily.at = "save" => Sound(Say[daily.song], daily.image)

\* What a run has loaded and will save holds what is set, unless somebody saved the file since.
Keeps(image, old) == (~Empty(old.album) => image.album = old.album) /\ (~Empty(old.other) => image.other = old.other)
LoadedKeeps ==
  /\ hand.at = "save" /\ ~hand.crossed => Keeps(hand.image, tags[hand.song])
  /\ daily.at = "save" /\ ~daily.crossed => Keeps(daily.image, tags[daily.song])

\* What a run before the present one left unscanned is owed.
ScanOwed ==
  /\ owed \subseteq unscanned
  /\ daily = Resting \/ ~daily.wrote => unscanned \subseteq owed

MtInv == MtTypes /\ SoundTags /\ LoadedKeeps /\ ScanOwed

-----------------------------------------------------------------------------
(* Updates: the update channel in the app.                                 *)

Number == 0..LastCode
Released == [code : Number, min : Number]
Checking == {"idle", "asked", "store", "fetch"}
Run == [at : Checking \cup InFolder, code : Number, min : Number, stores : SUBSET {"seen", "min"}, alone : BOOLEAN]
Session == {NoSession} \cup [at : {"open"}, code : Number]
           \cup [at : {"committed"}, code : Number, good : BOOLEAN, alone : BOOLEAN]

UpdTypes ==
  /\ offer \in Released /\ offer.min <= offer.code
  /\ installed \in Code /\ highest \in Number
  /\ lastSeen \in 0..highest /\ minSupported \in 0..highest /\ installing \in 0..highest
  /\ worker \in [Worker -> Run]
  /\ folder \in [File -> Worker \cup {"none"}] /\ fetched \in [Worker -> {"whole", "unfit"}]
  /\ session \in [Worker -> Session]
  /\ answered \in BOOLEAN /\ orphaned \in BOOLEAN /\ lateMin \in BOOLEAN /\ crossed \in BOOLEAN

\* Somebody on the way in or out is so in an open app, and only a queued session can be ahead of the check.
UiTypes ==
  /\ face \in {"closed", "door", "web", "force"} /\ entry \in {"none", "prompt", "session"} /\ place \in {"ahead", "behind"}
  /\ place = "ahead" => Queued
  /\ face = "closed" => entry = "none"

\* A run past its check is of a newer version that was seen; so is what it left in the folder and in a session.
OfSeen ==
  /\ \A w \in Worker :
       /\ worker[w].at = "store" => worker[w].code \in Code /\ worker[w].min <= worker[w].code
       /\ worker[w].at \in InFolder \cup {"fetch"} => worker[w].code > installed /\ worker[w].code <= highest
       /\ session[w].code <= highest
  /\ \A f \in File : f[1] = "apk" /\ folder[f] # "none" => f[2] <= highest

\* A run that is alone in the folder finds there what it verified.
AloneIsUndisturbed ==
  \A w \in Worker : worker[w].at \in InFolder /\ worker[w].alone =>
    /\ worker[Other(w)].at \notin InFolder
    /\ worker[w].at = "rename" => Whole(Part(w))
    /\ worker[w].at \in {"install", "open", "commit"} => Whole(Apk(w))

\* Two checks that did not cross store one after the other, and what is to be stored is not out of date.
StoresAreCurrent ==
  ~crossed =>
    /\ lastSeen >= highest
    /\ \A w \in Worker : worker[w].at = "store" =>
         worker[Other(w)].at # "store" /\ (worker[w].code > lastSeen <=> "seen" \in worker[w].stores)

\* Family data, and whoever is on the way to them, is on the screen below the minimum, or comes back to it
\* without another check, only before the screen's check is over.
PastIsBlocked ==
  /\ face \in {"web", "door"} \/ entry # "none"
  /\ MustUpdate /\ worker["screen"].at \notin {"asked", "store"}
  /\ visible \/ worker["screen"].at # "idle"
  => lateMin \/ slipped

UpdInv ==
  /\ UpdTypes /\ UiTypes /\ OfSeen
  /\ AloneIsUndisturbed /\ VerifiedWhenAlone /\ InstallingIsReal /\ StoresAreCurrent /\ PastIsBlocked

-----------------------------------------------------------------------------
(* Relay: the state file, the cap, the signatures and the slots.            *)

Way == [at : {"none", "loaded", "opened", "written"}, copy : State, fd : {"none", "tmp", "file", "gone"}]
Place == {"idle", "kill", "cap", "auth", "slot", "use", "check", "host", "fetch", "record", "end"}
Request == [pc : Place, sig : Sig, honest : BOOLEAN, host : Host, hop : 0..MaxHops, bad : BOOLEAN, slot : BOOLEAN]

RelayTypes ==
  /\ tick \in 0..LastTick
  /\ file \in State \cup {Damaged} /\ tmp \in State \cup {Damaged, NoFile}
  /\ lock \in Thread \cup {"free"}
  /\ wr \in [Writer -> Way] /\ req \in [Thread -> Request]
  /\ \A w \in Writer : wr[w].at = "opened" => wr[w].fd # "none"
  /\ seen \subseteq Sig \X Int /\ fails \in [at : 0..LastTick, n : Nat]
  /\ limit \in Slots /\ slots \in Nat /\ hostSlots \in [Host -> Nat]
  /\ arrived \in Nat /\ events \in Nat
  /\ off \in BOOLEAN /\ raced \in BOOLEAN
  /\ served \in [sigs : Seq(Sig), days : [0..LastTick -> Nat]]

\* The lock is held by the thread that is on its way through the file, in one of three places; a slot
\* is held from the place where it is taken to the end.
InFile == {"cap", "use", "record"}
OneHolder ==
  \A r \in Thread :
    /\ wr[r].at # "none" <=> lock = r
    /\ wr[r].at # "none" => req[r].pc \in InFile
    /\ req[r].slot => req[r].pc \in {"use", "check", "host", "fetch", "record", "end"}

\* Without a race one writer at most has a copy, and the temporary file is its own.
FileIsWhole ==
  ~raced =>
    /\ file # Damaged
    /\ \A r \in Thread : wr[r].at = "none" \/ wr[Ctl].at = "none"
    /\ \A w \in Writer : /\ wr[w].at = "opened" => wr[w].fd = "tmp" /\ tmp = Damaged
                         /\ wr[w].at = "written" => tmp = wr[w].copy

\* After "off" the file and every copy of it say so.
OffIsKept ==
  off /\ ~raced => file.killed /\ \A w \in Writer : wr[w].at # "none" => wr[w].copy.killed

\* Requests that are past the cap and not counted yet.
Uncounted == {r \in Thread : req[r].pc \in {"auth", "slot", "use"}}
CountHolds ==
  ~raced =>
    /\ file.day <= Day
    /\ \A d \in 0..LastTick :
         /\ d > file.day => served.days[d] = 0
         /\ d = file.day => served.days[d] <= file.used
         /\ served.days[d] <= Cap + Cardinality(Thread) - 1
    /\ file.used + Cardinality(Uncounted) <= Cap + Cardinality(Thread) - 1
CopiesCount ==
  ~raced =>
    /\ wr[Ctl].at # "none" => wr[Ctl].copy.day = file.day /\ wr[Ctl].copy.used = file.used
    /\ \A r \in Thread : wr[r].at # "none" =>
         /\ file.day <= wr[r].copy.day /\ wr[r].copy.day <= Day
         /\ req[r].pc \in {"cap", "use"} => wr[r].copy.day >= 0
         /\ req[r].pc = "record" => wr[r].copy.day = file.day
         /\ wr[r].copy.used = (IF wr[r].copy.day = file.day THEN file.used ELSE 0) + (IF req[r].pc = "use" THEN 1 ELSE 0)

\* A breaker is open for no longer than its time from now, and no copy of a thread shortens it.
UntilHolds ==
  ~raced =>
    \A h \in Host :
      /\ file.until[h] <= tick + CoolDown
      /\ \A w \in Writer : wr[w].at # "none" => wr[w].copy.until[h] <= tick + CoolDown
      /\ \A r \in Thread : wr[r].at # "none" => file.until[h] <= wr[r].copy.until[h]

\* A signature that was accepted is remembered until its time has left the window.
SeenCovers ==
  \A i \in DOMAIN served.sigs :
    \/ served.sigs[i][1] + TsWindow < tick
    \/ \E e \in seen : e[1] = served.sigs[i] /\ served.sigs[i][1] + TsWindow <= e[2]

WithSlot == {r \in Thread : req[r].slot}
FetchingFrom(h) == {r \in Thread : At(r, "fetch") /\ req[r].host = h}
SlotsCount ==
  /\ slots + Cardinality(WithSlot) = limit
  /\ \A h \in Host : hostSlots[h] + Cardinality(FetchingFrom(h)) = HostSlots

RelayInv ==
  /\ RelayTypes /\ OneHolder /\ FileIsWhole /\ OffIsKept /\ CountHolds /\ CopiesCount /\ UntilHolds
  /\ SeenCovers /\ AcceptedOnce /\ SlotsCount

-----------------------------------------------------------------------------
(* Notify: the outbox and the alerts' state files.                         *)

Msg == Dog \X Nat \X {"fault", "clear", "send"}
Item == [msg : Msg, at : Int]
Note == [since : Int, last : Int, told : BOOLEAN, reminders : Nat]
Stage == {"idle", "flush", "write", "replace", "act", "save", "queue", "remove", "done"}
Call == [op : {"none", "alert", "clear", "send"}, at : Stage, todo : Seq(Item), keep : Seq(Item), st : Note,
         msg : Msg \cup {<<>>}]
Handle == {"none", "tmp", "box", "gone"}

NotifyTypes ==
  /\ hour \in 0..LastHour /\ deaths \in 0..MaxDeaths /\ runs \in [Dog -> 0..MaxRuns]
  /\ outbox \in Seq(Item) \cup {NoBox} /\ boxTmp \in Seq(Item) \cup {NoBox}
  /\ alerts \in [Dog -> Note] /\ call \in [Dog -> Call] /\ outage \in [Dog -> Seq(Int)]
  /\ unnoted \subseteq Dog /\ queued \subseteq Msg /\ into \in [Dog -> Handle]
  /\ \A d \in Dog : /\ call[d].at = "idle" => call[d] = Quiet
                    /\ call[d].at = "queue" => call[d].msg \in Msg
                    /\ into[d] # "none" => call[d].at = "write"
                    /\ into[d] = "tmp" => boxTmp # NoBox

\* What is noted of an alert is from now or before, and a reminder is one of a run's.
NotesInTime ==
  \A d \in Dog :
    /\ alerts[d].since \in -1..hour /\ alerts[d].last \in 0..hour /\ alerts[d].reminders <= runs[d]
    /\ call[d].at = "save" => call[d].st.since \in -1..hour /\ call[d].st.last \in 0..hour /\ call[d].st.reminders <= runs[d]
                             /\ (alerts[d].told => call[d].st.told)
    /\ call[d].at \in {"flush", "write", "replace", "act"} => alerts[d].reminders < runs[d]

Holds(box, m) == \E i \in DOMAIN box : box[i].msg = m
Settled(m) == m \in got \/ m \in expired

\* A box holds what was queued.
MadeOf(box, some) == box \in Seq(Item) /\ \A i \in DOMAIN box : box[i].msg \in some
BoxesQueued ==
  /\ MadeOf(Lines, queued) /\ (boxTmp # NoBox => MadeOf(boxTmp, queued))
  /\ \A d \in Dog : call[d].at \in {"flush", "write"} => MadeOf(call[d].todo, queued) /\ MadeOf(call[d].keep, queued)

\* A message waits: in the outbox, in what each flushing run has read of it, and in the temporary
\* file of the only run that is rewriting it.
Waits(m) ==
  /\ Holds(Lines, m)
  /\ \A d \in Dog : /\ call[d].at = "flush" => Holds(call[d].todo, m) \/ Holds(call[d].keep, m)
                    /\ call[d].at = "write" => Holds(call[d].keep, m) /\ into[d] = "tmp" /\ boxTmp = <<>>
                    /\ call[d].at = "replace" /\ boxTmp # NoBox => Holds(boxTmp, m)
  /\ \A d, e \in Dog : Rewriting(d) /\ Rewriting(e) => d = e
CopiesKeep == \A m \in queued \ crossing : Settled(m) \/ Waits(m)

\* What a state file says of an outage fits the messages that were delivered.
Spaced(t) == \A i \in 1..Len(t) - 1 : t[i + 1] - t[i] >= Remind
Fits(tier, st, t) ==
  /\ tier = "C" => t = <<>>
  /\ tier # "C" => (st.told <=> t # <<>>)
  /\ tier = "B" => Len(t) <= 1
  /\ tier = "A" => Spaced(t) /\ (t # <<>> => t[Len(t)] <= st.last)
NotesFit ==
  \A d \in Dog \ unnoted : Fits(Tier[d], IF call[d].at = "save" THEN call[d].st ELSE alerts[d], outage[d])

\* Whatever is noted, or about to be: who is told, was.
ToldFits ==
  \A d \in Dog : Tier[d] # "C" => /\ (alerts[d].told => outage[d] # <<>>)
                                 /\ (call[d].at = "save" /\ call[d].st.told => outage[d] # <<>>)

NotifyInv == NotifyTypes /\ NotesInTime /\ BoxesQueued /\ CopiesKeep /\ NotesFit /\ ToldFits

-----------------------------------------------------------------------------
(* PlugAlerts: the latest edge of a timetable, and what is told of a plug.  *)

PlugTypes ==
  /\ tickP \in 0..LastTickP /\ eventsP \in 0..MaxEventsP /\ editedAt \in 0..tickP
  /\ timetable \in Timetables /\ (copied = {} \/ \E tt \in Timetables : copied = {tt})
  /\ plug \in [state : {"on", "off", "unavailable"}, at : Int] /\ plug.at <= tickP
  /\ byHa \subseteq 0..tickP /\ polledP \in BOOLEAN

\* A foreign change is listed for its time, and until the next run for a tick more.
ListedInTime ==
  \A k \in openP : k[1] = "foreign" =>
    /\ k[2] \in Int /\ k[2] <= tickP /\ k[2] >= tickP - ForeignKeep - 1
    /\ polledP => k[2] >= tickP - ForeignKeep

SaysNoSchedules == <<"noSchedules", -1>> \in openP => copied = {}

\* Home Assistant switches at edges of the timetable that is in force.
HaKeepsEdges == \A t \in byHa : editedAt < t => AtEdge(timetable, t)

PlugInv ==
  /\ PlugTypes /\ ListedInTime /\ SaysNoSchedules /\ HaKeepsEdges
  /\ ContradictionListed /\ StuckIsToldThatDay

-----------------------------------------------------------------------------
(* Watchers: the watchdogs that remember between runs.                     *)

\* What an alert may be of: of what is listed, of a release, of sockets, of a trouble.
Listable == {"device", "revert"} \X Device
NewSockets == {"new"} \X (SUBSET Socket)
Troubles == {<<"down">>, <<"token">>, <<"logins">>, <<"degraded">>, <<"drift">>, <<"persistent">>}
Topic == Listable \cup ({"release"} \X Nat) \cup NewSockets \cup Troubles

Sight == [up : BOOLEAN, token : BOOLEAN, full : BOOLEAN, listed : SUBSET Listable, left : SUBSET Listable, release : Nat,
          logins : {"few", "some", "many"}, degraded : BOOLEAN, sockets : SUBSET Socket,
          policy : {"good", "bad", "unknown"}]
StateFile == [devices : (SUBSET Listable) \cup {Never}, reverts : SUBSET Listable, release : Int, down : Nat,
              degraded : Nat, alerted : SUBSET NewSockets, bad : Nat, since : Int]

WatchTypes ==
  /\ watcher \in {"gateway", "listener", "drift"}
  /\ looks \in 0..MaxLooks /\ news \in 0..MaxNews /\ kills \in 0..MaxKills
  /\ world \in Sight /\ stateFile \in StateFile
  /\ found \in {NoRun} \cup [active : {TRUE}, saw : Sight, next : StateFile]
  /\ lastRun \in [world : Sight, run : Nat]
  /\ todo \subseteq {"alert", "clear"} \X Topic /\ tellings \subseteq Topic \X Nat
  /\ sent \in {NoneSent} \cup (Topic \X BOOLEAN) /\ (sent # NoneSent => <<"alert", sent[1]>> \in todo)
  /\ toldW \subseteq alertW /\ orphans \subseteq alertW
  /\ found.active => lastRun.run < looks
  /\ ~found.active => lastRun.run <= looks /\ todo = {}

\* Counters do not run ahead of the runs, and one alert at most is noted.
Counted(st) ==
  /\ st.down <= looks /\ st.bad <= looks /\ st.since \in -1..looks
  /\ st.alerted = {} \/ \E S \in SUBSET Socket : st.alerted = {<<"new", S>>}
  /\ st.bad = 0 <=> st.since = -1

\* What is told once. It is listed, or a release, and what has left the list does not come back. A message that
\* got through is noted as told, or about to be.
Once(k) == k \in Topic /\ k[1] \in {"device", "revert", "release"}
Single(k) == Once(k) /\ k \notin unmarked
Accounted(k) == k \in toldW \/ (k \in world.left /\ <<"alert", k>> \notin todo)
OnceOnly ==
  /\ world.listed \cap world.left = {}
  /\ \A k \in Topic : <<"alert", k>> \in todo => k \notin toldW
  /\ \A k \in Topic : Once(k) /\ <<"clear", k>> \in todo => k \in world.left /\ <<"alert", k>> \notin todo
  /\ \A m \in tellings : Single(m[1]) => Accounted(m[1]) \/ sent = <<m[1], TRUE>>
  /\ \A m, n \in tellings : m[1] = n[1] /\ Single(m[1]) => m[2] = n[2]

\* What the state file names was listed.
Listed(st) ==
  /\ st.devices # Never => \A k \in st.devices : k[1] = "device" /\ k \in world.listed \cup world.left
  /\ \A k \in st.reverts : k[1] = "revert" /\ k \in world.listed \cup world.left

AlertsRecorded ==
  /\ stateFile.devices # Never => (stateFile.devices \cap world.listed) \ initial \subseteq alertW
  /\ found.active /\ stateFile.devices # Never =>
       /\ found.next.devices # Never
       /\ \A k \in (found.next.devices \cap world.listed) \ initial : k \in alertW \/ <<"alert", k>> \in todo

NowOf(sight) == IF sight.sockets = {} THEN {} ELSE {<<"new", sight.sockets>>}
Listening ==
  watcher = "listener" =>
    /\ ~found.active => alertW \subseteq stateFile.alerted \cup orphans
    /\ found.active =>
         /\ found.next.alerted = NowOf(found.saw)
         /\ alertW \subseteq stateFile.alerted \cup orphans \cup found.next.alerted
         /\ \A k \in found.next.alerted : (k \in alertW \/ <<"alert", k>> \in todo) /\ <<"clear", k>> \notin todo
         /\ \A k \in alertW \ found.next.alerted : k \in stateFile.alerted => <<"clear", k>> \in todo
         /\ \A k \in Topic : <<"alert", k>> \in todo => k \in found.next.alerted
    /\ ~found.active /\ lastRun.run = looks =>
         NowOf(lastRun.world) \subseteq alertW /\ alertW \subseteq NowOf(lastRun.world) \cup orphans

Drifting ==
  watcher = "drift" =>
    /\ alertW \subseteq {<<"drift">>, <<"persistent">>}
    /\ \A c \in todo : c[2] \in {<<"drift">>, <<"persistent">>}
    /\ stateFile.bad = 0 => alertW = {} /\ todo = {}
    /\ found.active /\ found.saw.policy = "good" => found.next.bad = 0
    /\ found.active /\ found.next.bad = 0 =>
         (\A k \in alertW : <<"clear", k>> \in todo) /\ \A c \in todo : c[1] # "alert"
    /\ ~found.active /\ lastRun.run = looks /\ lastRun.world.policy = "good" => alertW = {}

WatchInv ==
  /\ WatchTypes
  /\ Counted(stateFile) /\ Listed(stateFile)
  /\ found.active => Counted(found.next) /\ Listed(found.next)
  /\ OnceOnly
  /\ AlertsRecorded
  /\ Listening
  /\ Drifting

-----------------------------------------------------------------------------
(* VacuumAlerts: what is told of a robot with a plan.                      *)

RobotStates == {"docked", "cleaning", "paused", "unavailable"}
RobotAlerts == {"stuck", "unavail", "hung", "failed", "unavailQuiet", "failedQuiet"}
PlanRun == [start : Nat, end : Int, done : BOOLEAN, stopped : BOOLEAN]

\* The records are in the order of time; a run ends after it started.
VaTypes ==
  /\ nowV \in 0..LastPoll /\ turns \in 0..MaxTurns /\ polledV \in BOOLEAN
  /\ states \in Seq([at : Nat, state : RobotStates]) /\ states # <<>>
  /\ \A i, j \in 1..Len(states) : i <= j => states[i].at <= states[j].at
  /\ \A i \in 1..Len(states) : states[i].at <= nowV
  /\ \A i \in 1..Len(states) - 1 : states[i].state # states[i + 1].state
  /\ planRuns \in Seq(PlanRun)
  /\ \A i \in 1..Len(planRuns) : LET r == planRuns[i] IN
       r.start <= nowV /\ (r.end # -1 => r.start <= r.end /\ r.end <= nowV)
  /\ openV \subseteq RobotAlerts /\ toldV \subseteq Loud \X (0..nowV)

\* Paused since before t, at most unavailable by now.
StandsSince(t) ==
  \E i \in 1..Len(states) : /\ states[i].state = "paused" /\ states[i].at < t
                            /\ i = Len(states) \/ (i = Len(states) - 1 /\ RobotIs = "unavailable" /\ states[Len(states)].at >= t)

\* A robot told as stuck that did nothing since still stands there, and its alert is open.
StuckKept ==
  \A m \in toldV : m[1] = "stuck" /\ OnlyBecame(m[2], nowV, {"unavailable"}) => "stuck" \in openV /\ StandsSince(m[2])

\* A pause of two ticks is told at its first one.
StuckIsTold ==
  \A i \in 1..Len(states) : states[i].state = "paused" =>
    LET t == states[i].at + 1 IN
    /\ i < Len(states) /\ states[i + 1].at > t => <<"stuck", t>> \in toldV
    /\ i = Len(states) =>
         /\ nowV > t => <<"stuck", t>> \in toldV
         /\ nowV = t => <<"stuck", t>> \in toldV \/ ("stuck" \notin openV /\ ~polledV)
         /\ nowV < t /\ polledV => "stuck" \notin openV

\* An open alert of a failed plan is of the last plan, once a run has seen that one end.
FailureIsTold ==
  planRuns # <<>> /\ LastRun.end # -1 /\ RunHorizon > 0 =>
    /\ nowV = LastRun.end /\ polledV => "failed" \notin openV
    /\ nowV > LastRun.end /\ "failed" \in openV => \E t \in 0..nowV : t > LastRun.end /\ <<"failed", t>> \in toldV

VaInv ==
  VaTypes /\ StuckKept /\ StuckIsTold /\ FailureIsTold /\ OneMessagePerIncident /\ UnfinishedIsToldUnlessGone
=============================================================================
