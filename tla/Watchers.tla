------------------------------- MODULE Watchers -------------------------------
(***************************************************************************)
(* Three watchdogs that remember between runs what they saw: gateway-watch *)
(* (_system/gateway-watch), listener-watch and policy-drift-watch. A run   *)
(* reads its state file and the world, calls alert and clear of the        *)
(* notifier (Notify), each of which sends its message and then notes it,   *)
(* and saves its state file last; it can be killed between any two of      *)
(* these. The order of the calls of one run is left open.                  *)
(***************************************************************************)
EXTENDS Integers, FiniteSets

CONSTANTS
  Device,     \* phones that are added, filter changes that are reverted
  Socket,     \* sockets that are not on the allowlist
  DownAfter, DegradedAfter, TransientRuns, PersistRuns, \* thresholds, in runs
  MaxLooks,   \* bound on runs
  MaxNews,    \* bound on changes of the world
  MaxKills,   \* bound on runs that are killed
  MaxLosses   \* bound on messages that cannot be sent

\* TRANSIENT_RUNS is 2, PERSIST_S several of the runs' two minutes (policy-drift-watch.py:26): the first
\* bad run says nothing yet, and a later one has it on file that something is to be cleared.
ASSUME WatcherNumbers ==
  /\ {DownAfter, DegradedAfter, TransientRuns, PersistRuns, MaxLooks, MaxNews, MaxKills, MaxLosses} \subseteq Nat
  /\ TransientRuns > 1 /\ PersistRuns > 0

VARIABLES
  watcher,  \* which of the three runs
  world,    \* what a run observes
  stateFile,     \* its state file
  todo,     \* calls of the notifier that the run has still to make
  found,    \* the run under way: what it saw, and the state it will save
  sent,     \* the alert whose message is sent and not noted yet, and whether it was answered
  alertW, toldW,  \* open alerts, and those of them that were delivered
  looks, news, kills,
  lostIn,   \* runs in which a message could not be sent
  lastRun,     \* what the last completed run saw, and which it was
  initial,  \* devices the first completed run only recorded
  tellings, \* deliveries: <<alert, run>>
  unmarked, \* alerts of which a message got through and was not noted: the run was killed, or the answer was lost
  orphans   \* alerts that a killed run left open

watchVars == <<watcher, world, stateFile, todo, found, sent, alertW, toldW, looks, news, kills, lostIn, lastRun, initial,
               tellings, unmarked, orphans>>

NoneSent == <<>>
Never == {<<"never">>}
NoRun == [active |-> FALSE]
EmptyFile == [devices |-> Never, reverts |-> {}, release |-> -1, down |-> 0, degraded |-> 0,
              alerted |-> {}, bad |-> 0, since |-> -1]
Calm == [up |-> TRUE, token |-> TRUE, full |-> TRUE, listed |-> {}, left |-> {}, release |-> 0, logins |-> "few",
         degraded |-> FALSE, sockets |-> {}, policy |-> "good"]

WatchInit ==
  /\ watcher \in {"gateway", "listener", "drift"}
  /\ world = Calm /\ stateFile = EmptyFile /\ todo = {} /\ found = NoRun /\ sent = NoneSent
  /\ alertW = {} /\ toldW = {} /\ looks = 0 /\ news = 0 /\ kills = 0 /\ lostIn = {}
  /\ lastRun = [world |-> Calm, run |-> 0] /\ initial = {} /\ tellings = {} /\ unmarked = {}
  /\ orphans = {}

---------------------------------------------------------------------------
(* The world *)

\* A new phone or a reverted filter change is listed for two days, at most.
Listing(k) ==
  \/ k \notin world.listed \cup world.left /\ world' = [world EXCEPT !.listed = @ \cup {k}]
  \/ k \in world.listed /\ world' = [world EXCEPT !.listed = @ \ {k}, !.left = @ \cup {k}]

WorldChanges ==
  /\ news < MaxNews /\ news' = news + 1
  /\ \/ /\ watcher = "gateway"
        /\ \/ world' = [world EXCEPT !.up = ~@]
           \/ world' = [world EXCEPT !.token = ~@]
           \/ world' = [world EXCEPT !.full = ~@]
           \/ world' = [world EXCEPT !.degraded = ~@]
           \/ world' = [world EXCEPT !.release = @ + 1]
           \/ \E x \in {"few", "some", "many"} : x # world.logins /\ world' = [world EXCEPT !.logins = x]
           \/ \E k \in {"device", "revert"} \X Device : Listing(k)
     \/ watcher = "listener" /\ \E S \in SUBSET Socket : S # world.sockets /\ world' = [world EXCEPT !.sockets = S]
     \/ /\ watcher = "drift"
        /\ \E x \in {"good", "bad", "unknown"} : x # world.policy /\ world' = [world EXCEPT !.policy = x]
  /\ UNCHANGED <<watcher, stateFile, todo, found, sent, alertW, toldW, looks, kills, lostIn, lastRun, initial, tellings,
                 unmarked, orphans>>

---------------------------------------------------------------------------
(* What a run decides: the calls it makes, and the state it will save *)

Alerts(K) == {"alert"} \X K
Clears(K) == {"clear"} \X K
Toggle(bad, k) == IF bad THEN Alerts({k}) ELSE Clears({k})
Plan(calls, next) == [calls |-> calls, next |-> next]

Of(kind) == {k \in world.listed : k[1] = kind}

\* The first run only records the devices and the release that are there.
GatewayFull ==
  LET first == stateFile.devices = Never
      released == stateFile.release # -1 /\ world.release > stateFile.release
      degraded == IF world.degraded THEN stateFile.degraded + 1 ELSE 0
      recorded == IF first THEN {} ELSE stateFile.devices
  IN  Plan(Clears({<<"down">>, <<"token">>})
             \cup (IF first THEN {} ELSE Alerts(Of("device") \ recorded)) \cup Clears(recorded \ Of("device"))
             \cup Alerts(Of("revert") \ stateFile.reverts) \cup Clears(stateFile.reverts \ Of("revert"))
             \cup (IF released THEN Alerts({<<"release", world.release>>}) ELSE {})
             \cup (IF world.logins = "some" THEN {} ELSE Toggle(world.logins = "many", <<"logins">>))
             \cup (IF world.degraded /\ degraded < DegradedAfter THEN {} ELSE Toggle(world.degraded, <<"degraded">>)),
           [stateFile EXCEPT !.devices = Of("device"), !.reverts = Of("revert"), !.down = 0, !.degraded = degraded,
                        !.release = IF @ = -1 \/ released THEN world.release ELSE @])

GatewayEvaluate ==
  IF ~world.up
  THEN Plan(IF stateFile.down + 1 >= DownAfter THEN Alerts({<<"down">>}) ELSE {}, [stateFile EXCEPT !.down = @ + 1])
  ELSE IF ~world.token THEN Plan(Clears({<<"down">>}) \cup Alerts({<<"token">>}), [stateFile EXCEPT !.down = 0])
  ELSE IF ~world.full THEN Plan(Clears({<<"down">>, <<"token">>}), [stateFile EXCEPT !.down = 0])
  ELSE GatewayFull

\* One alert for the set of all unlisted sockets.
ListenerEvaluate ==
  LET now == IF world.sockets = {} THEN {} ELSE {<<"new", world.sockets>>}
  IN  Plan(Alerts(now) \cup Clears(stateFile.alerted \ now), [stateFile EXCEPT !.alerted = now])

\* policy-drift: no conclusion without AdGuard; any bad run before is cleared up.
DriftEvaluate ==
  LET since == IF stateFile.since = -1 THEN looks ELSE stateFile.since
  IN  IF world.policy = "unknown" THEN Plan({}, stateFile)
      ELSE IF world.policy = "good"
      THEN Plan(IF stateFile.bad > 0 THEN Clears({<<"drift">>, <<"persistent">>}) ELSE {},
                [stateFile EXCEPT !.bad = 0, !.since = -1])
      ELSE Plan(Alerts({k \in {<<"drift">>, <<"persistent">>} :
                          IF k = <<"drift">> THEN stateFile.bad + 1 >= TransientRuns ELSE looks - since >= PersistRuns}),
                [stateFile EXCEPT !.bad = @ + 1, !.since = since])

Evaluated ==
  CASE watcher = "gateway" -> GatewayEvaluate
    [] watcher = "listener" -> ListenerEvaluate
    [] watcher = "drift" -> DriftEvaluate

---------------------------------------------------------------------------
(* A run *)

\* An alert that was delivered is not sent again; one that was not is tried at the next call.
Due(k) == k \notin toldW

\* Calls that change nothing: an alert that was told, a clear of one that is not open.
Idle(c) == IF c[1] = "alert" THEN ~Due(c[2]) ELSE c[2] \notin alertW

\* Mutant: the state is saved before the calls are made.
WatchStarts_SavesFirst ==
  /\ ~found.active /\ looks < MaxLooks /\ looks' = looks + 1
  /\ todo' = {c \in Evaluated.calls : ~Idle(c)}
  /\ found' = [active |-> TRUE, saw |-> world, next |-> Evaluated.next] /\ stateFile' = Evaluated.next
  /\ UNCHANGED <<watcher, world, sent, alertW, toldW, news, kills, lostIn, lastRun, initial, tellings, unmarked, orphans>>

WatchStarts ==
  /\ ~found.active /\ looks < MaxLooks /\ looks' = looks + 1
  /\ todo' = {c \in Evaluated.calls : ~Idle(c)}
  /\ found' = [active |-> TRUE, saw |-> world, next |-> Evaluated.next]
  /\ UNCHANGED <<watcher, world, stateFile, sent, alertW, toldW, news, kills, lostIn, lastRun, initial, tellings,
                 unmarked, orphans>>

\* The message of an alert goes out: answered; or not answered, and then it may have got through.
SendsAlert ==
  /\ sent = NoneSent
  /\ \E c \in todo, answered, through \in BOOLEAN :
       LET k == c[2] IN
       /\ c[1] = "alert" /\ Due(k) /\ (answered => through)
       /\ ~answered => Cardinality(lostIn) < MaxLosses
       /\ sent' = <<k, answered>>
       /\ tellings' = IF through THEN tellings \cup {<<k, looks>>} ELSE tellings
       /\ unmarked' = IF through /\ ~answered THEN unmarked \cup {k} ELSE unmarked
       /\ lostIn' = IF answered THEN lostIn ELSE lostIn \cup {looks}
  /\ UNCHANGED <<watcher, world, stateFile, todo, found, alertW, toldW, looks, news, kills, lastRun, initial, orphans>>

\* A clear forgets its alert; an alert that was sent is noted, as told when the sending was answered.
Calls ==
  /\ \E c \in todo :
       LET k == c[2] IN
       /\ todo' = todo \ {c}
       /\ \/ c[1] = "clear" /\ sent = NoneSent /\ alertW' = alertW \ {k} /\ toldW' = toldW \ {k}
          \/ /\ c[1] = "alert" /\ sent # NoneSent /\ sent[1] = k /\ alertW' = alertW \cup {k}
             /\ toldW' = IF sent[2] THEN toldW \cup {k} ELSE toldW
  /\ sent' = NoneSent /\ orphans' = orphans \cap alertW'
  /\ UNCHANGED <<watcher, world, stateFile, found, looks, news, kills, lostIn, lastRun, initial, tellings, unmarked>>

SavesState ==
  /\ found.active /\ todo = {} /\ found' = NoRun
  /\ stateFile' = found.next /\ lastRun' = [world |-> found.saw, run |-> looks]
  /\ initial' = IF stateFile.devices = Never /\ found.next.devices # Never THEN found.next.devices ELSE initial
  /\ orphans' = orphans \ found.next.alerted
  /\ UNCHANGED <<watcher, world, todo, sent, alertW, toldW, looks, news, kills, lostIn, tellings, unmarked>>

WatchKilled ==
  /\ found.active /\ kills < MaxKills /\ kills' = kills + 1
  /\ found' = NoRun /\ todo' = {} /\ sent' = NoneSent
  /\ unmarked' = IF sent # NoneSent /\ sent[2] THEN unmarked \cup {sent[1]} ELSE unmarked
  /\ orphans' = orphans \cup ((found.next.alerted \cap alertW) \ stateFile.alerted)
  /\ UNCHANGED <<watcher, world, stateFile, alertW, toldW, looks, news, lostIn, lastRun, initial, tellings>>

WatchNext == WorldChanges \/ WatchStarts \/ SendsAlert \/ Calls \/ SavesState \/ WatchKilled

WatchSpec == WatchInit /\ [][WatchNext]_watchVars

---------------------------------------------------------------------------
(* Properties *)

WatchTypeOK ==
  /\ looks \in 0..MaxLooks /\ news \in 0..MaxNews /\ kills \in 0..MaxKills /\ toldW \subseteq alertW
  /\ stateFile.down \in 0..looks /\ stateFile.bad \in 0..looks /\ stateFile.since \in -1..looks
  /\ Cardinality(stateFile.alerted) <= 1 /\ orphans \subseteq alertW
  /\ ~found.active => todo = {}

\* "every new device is announced ONCE": also when runs are killed before they save their state file,
\* a device, a reverted filter change and a release are told by one run only. Excepted is a message
\* that got through and was not noted: its answer was lost, or the run was killed before it noted it.
AnnouncedOnce ==
  \A m, n \in tellings :
    m[1] = n[1] /\ m[1] \notin unmarked /\ m[1][1] \in {"device", "revert", "release"} => m[2] = n[2]

\* The state file names a listed device only when its alert was opened, by this run or a killed one
\* before, or when the first run found it.
RecordedIsAlerted == Never # stateFile.devices => (stateFile.devices \cap world.listed) \ initial \subseteq alertW

\* After a completed run of listener-watch the alert of the sockets it saw is open, and no other
\* but those a killed run left.
ListenerAlertIsCurrent ==
  watcher = "listener" /\ ~found.active /\ lastRun.run = looks
  => LET now == IF lastRun.world.sockets = {} THEN {} ELSE {<<"new", lastRun.world.sockets>>}
     IN  now \subseteq alertW /\ alertW \subseteq now \cup orphans

\* After a completed run that found the policy as expected no alert of a drift is open, also when
\* runs before it were killed.
DriftAlertEnds ==
  watcher = "drift" /\ ~found.active /\ lastRun.run = looks /\ lastRun.world.policy = "good" => alertW = {}

\* News is told once, and open alerts fit what the last completed run saw, through runs that are killed.
WatchersSafe ==
  /\ WatchTypeOK
  /\ AnnouncedOnce
  /\ RecordedIsAlerted
  /\ ListenerAlertIsCurrent
  /\ DriftAlertEnds
=============================================================================
