# TLA+ for the mini server

TLA+ modules for the programs of this repository that keep state and talk to
each other: what they do is modelled from their source, checked with TLC on
small instances, and, for the core, proved with TLAPS for every instance.

## 1. The system

A family's home server. The part with logic of its own is the *portal*: a
gateway with the phones' API, a schedule service that is the source of truth
for schedules and timed runs, a program on the host that turns the service's
render into Home Assistant automations, and the programs for the children's
internet access and the filter lists. Around it stand a relay, host watchers,
and a lot of declarative configuration.

```
 phone ──HTTP──> gateway (gw) ──HTTP──> schedule service (sched)
                  │    │                     │ out/: render.json, READY, files
                  │    └──> AdGuard Home     v
                  └──ws/REST──> Home   <── portal-apply (host) ──> apply-status.json
                                Assistant        (read by the service as "armed")
```

### Components, their state, and what is hard about them

| component | state | operations | interacts with | hard | correct means |
|---|---|---|---|---|---|
| timed runs of the service (`schedules/sched/store.py`, `model.py`, `render.py`, `api.py`) | tables `runs`, `audit`, `entities`, `schedules`; `out/`; `publish_error` | start, extend, cancel, withdraw, expire, edit schedule, switch `managed`, publish, republish | reads `apply-status.json`; read by the applier | commit and publication are two steps; a crash or failed write between or inside them; sequence numbers stand for contents | one active run a plug, gaps, bounded length, a stale publication is visible, `rev_seq` is sound, an old run leaves the render |
| applier (`schedules/applier/portal_apply.py`) | `generated/`, `apply-status.json`, last-good copy | take, write, check, reload, verify, commit, roll back, re-verify, hold | reads `out/`; reloads Home Assistant | a pass can be cut anywhere; Home Assistant restarts from half-written files; a newer render arrives during a pass | what the status claims is in force; every render gets a verdict; roll-back is to something verified |
| timed runs of the gateway (`gateway/gw/core.py`, `ha.py`, `sched.py`) | cache of Home Assistant's states, cached runs; requests in flight | start, extend, end, switch off | service, Home Assistant | every `await` lets another request in; a call that timed out was maybe executed; the cache lags | a plug on for a run has its end in Home Assistant; it goes off in time; the fail-safe bounds the rest |
| schedules, versions, undo, tokens (`sched/store.py`, `model.py`, `api.py`) | tables `schedules`, `audit`, `tokens` | put, undo, skip a date, guardrails, tokens | gateway | the undo reads what a later edit may have changed; version conflicts | no lost update, guardrails hold for every stored rule |
| child policy of the service (`sched/child_*.py`) | child schedules, exceptions, domain lists, published policy | exception, lists and their undo, devices, import, cut-over, Maps move, expiry, publish under invariants | AdGuard scripts on the host | an expiry between two steps; a broken invariant keeps the old file | a policy in force is one that passed the invariants |
| AdGuard child scripts (`src/adguard/*.py`) | AdGuard clients and rules, last good snapshot | apply, fall back, cut over | both AdGuard instances | half-applied policy; two instances | never less blocked than the policy says |
| filter lists (`gateway/gw/filterlists.py`, `agh.py`) | table of changes, AdGuard's lists, refresh hold | pipeline: baseline, apply, settle, probe, replica, parity, restore; recover at start | AdGuard and its replica | crash in the pipeline, a failing restore, two changes at once | a bad change is taken back |
| people, phones, sessions (`gw/people.py`, `auth.py`, `db.py`) | tables of people, devices, sessions, enrolments | enrol, log in, revoke, rename, roles | hub (kick) | checks before and outside the transaction | an enrolment is used once; a revoked phone is out |
| event hub (`gw/hub.py`, SSE in `api.py`) | ring of events, subscriber queues | publish, resume, kick | every component | a full queue, an event between the snapshot and the subscription | no event is lost silently |
| vacuums (`gw/core.py`) | cache, stop guard | start, stop, dock, guard | Home Assistant | a late cloud answer | a stop is a stop |
| parental control (`gw/parental.py`, `childdevices.py`) | cached policy, device requests | approve, exception, push | service | stale cache | what was shown is what is in force |
| HA link (`gw/ha.py`) | websocket and polling link, cache | connect, poll, apply events | Home Assistant | an older answer overwrites a newer event | the cache converges |
| app releases (`gw/releases.py`) | published and pinned releases | publish, withdraw, serve | phones | partial upload | a phone sees a signed release only |
| relay (`src/relay`) | `relay.json`, breaker, daily counter | relay, kill switch, watch | outside hosts | read-modify-write by two programs | a kill holds |
| host watchers (`src/_system/…`) | state files, notification tiers | check, alert, heartbeat | phone push | repeated or lost alerts | every incident is told, once |
| music tagging (`src/_system/music-tagging`) | tags of files, cache of answers, snapshots | plan, apply, daily run, roll-back | MusicBrainz, Navidrome, the owner's edits | load, change and save of a whole block; answers that grow later | one release a file, nothing set is overwritten, what changed is scanned |
| maintenance scripts | files | sort, back up | disks | I/O | not modelled |
| Android app, update (`UpdateCore.kt`, `UpdateAndroid.kt`) | remembered numbers, download folder, installer sessions | check, fetch, verify, install | gateway's channel, the system installer | a job and a screen at once; the process dies | what is installed was verified |
| Android app, the rest | screens | client of the API | gateway | - | not modelled |
| robots' tools, Caddy, HA, host and Pi configuration | none | declarative | - | - | not modelled |

`PROJECT.json` lists the same components with their status, and the hazards of
the code with the line at which each bites.

## 2. Modules

| module | models | extends / instantiates |
|---|---|---|
| `RunStore` | the run table and its operations, the audit sequence, the publication, crash and restart | – |
| `EndArming` | abstract: what the applier promises to the service | – |
| `Applier` | a pass of `portal_apply.py`, step by step, with Home Assistant | instantiates `EndArming` (refinement) |
| `RunChain` | service and applier over `out/` and `apply-status.json` | extends `RunStore`, instantiates `Applier` |
| `TimedRun` | the gateway's requests with every await, the service, Home Assistant and the plug | extends `RunStore`, instantiates `EndArming` |
| `FilterBook` | abstract: a change of a block list is all or nothing | – |
| `FilterLists` | requests, pipeline, restore and recovery of `filterlists.py`, with AdGuard's engine, its replica and the parity checker | instantiates `FilterBook` (refinement) |
| `ChildPolicy` | the children's policy in the service, its snapshot file, the minute job and AdGuard's rules | – |
| `ChildDevices` | adding, removing and restoring a device from the portal, with every wait and check | extends `ChildPolicy` (and implements it) |
| `ChildLists` | the policy's data over its releases: domain lists and undo, import, cut-over, the Maps move and its roll-back | – |
| `Schedules` | entities, rules, guardrails, versions, undo, tokens and the audit of the service | – |
| `Parental` | the verdicts on the children's rules, their caches, the page that confirms a change | – |
| `Requests` | how the gateway passes a change on: keys, versions, lost answers, its audit | – |
| `Access` | people, phones, sessions and codes of the gateway, with `gwctl` beside it | – |
| `SignIn` | setup links, password and authenticator, the throttle | – |
| `Events` | the event hub and the streams | – |
| `HaLink` | the cache of Home Assistant's states, its socket, polling and single reads | – |
| `Vacuums` | a robot, its plans, requests that start, pause, resume and send home, the guard of a stop | – |
| `Releases` | the update channel: `gwctl` as processes of their own, the gateway, phones | – |
| `Updates` | the app's end of that channel | – |
| `Relay` | the relay's requests with their limits, `relayctl` on the same file | – |
| `Notify` | `watchnotify`: the alerts' state files and the common outbox | – |
| `VacuumAlerts`, `PlugAlerts` | what `ha-alerts` says of a robot with a plan, of a plug with a schedule | – |
| `Watchers` | `gateway-watch`, `listener-watch`, `policy-drift-watch` over several runs | – |
| `MusicTags` | the taggers of music, by hand and daily, and their roll-back | – |
| `RunStore_proofs`, `ChildPolicy_proofs` | theorems about the module of that name | the module |
| `Loops_proofs` | theorems about `Applier`, `Events`, `FilterLists` | `MCLoops`, `FilterLists` |
| `RunChain_proofs`, `TimedRun_proofs` | theorems about the chain and the timed run, from those about the service | `RunStore_proofs` too |
| `Portal_proofs` | theorems about `Releases`, `Requests`, `Parental`, `ChildLists`, `Vacuums` | `MCPortal` |
| `Gateway_proofs` | theorems about `HaLink`, `SignIn`, `Schedules`, `Access` | `Portal_proofs` |
| `Host_proofs` | theorems about `Relay`, `Notify`, `VacuumAlerts`, `PlugAlerts`, `Watchers`, `Updates`, `MusicTags` | `HostInvariants` |
| `HostInvariants` | their inductive invariants | `MCHost` |
| `MCRunStore`, `MCRunChain`, `MCTimedRun`, `MCFilterLists`, `MCChildDevices` | definitions for TLC | the module |
| `MCPortal`, `MCHost`, `MCLoops` | small instances of several modules that share no state, for one run | the modules |

### RunStore

`status`, `entity`, `startedAt`, `endsAt`, `endedAt` and `revSeq` are the columns
of table `runs`; `seq` is the last row of `audit`; `windows` is what rules and
skipped dates make of today, `managed` the column of `entities`; `out` is the
directory `out/`: its sequence number, its contents and whether files,
`render.json` and `READY` agree. Operations of the service run on one event
loop, so one operation with the publication it ends in is one action;
`PublishOutcome` is what can go wrong after the commit: the append to
`audit.jsonl` raises and nothing is published, the publication fails half-way
and is flagged, or the process dies. `published` and `mirrorFailed` are history
variables: no action reads them to decide anything.

Times are ticks. Contents of a render are abstracted to what the properties tell
apart: which windows, and which end of which run, a plug's file holds.

### Applier and EndArming

`pc` is where the pass is: `write`, `reload`, `verify`, `commit` or `undo`. The
files of `generated/` are a function from file to content and are replaced one
at a time, so a cut or a restart of Home Assistant finds every mixture. `loaded`
is what Home Assistant runs; it changes when an accepted reload really runs, at
a start, or by hand. `held` is the hour during which a failed render is not
tried again. `EndArming` has three variables: what was published, what is
claimed, what is in force. Nothing may change in force while something is
claimed, and a claim is of a published pair that is in force. `Applier` refines
it with `claim` = the status when it says applied and `loaded_ok`, `inForce` =
the files, if Home Assistant runs them (hand changes apart).

### RunChain

The composition. `Armed(r)` is `run_armed`: the run is active, the status says
applied and loaded, and its `seq` is at or after the run's `rev_seq`. The
property is about what the number stands for.

### TimedRun

A request's `pc` names the await it is in; between any two steps other requests,
the applier, Home Assistant, a hand at the plug or the clock may act. The
applier is `EndArming` here, which `Applier` was shown to implement. The
automations that `render.py` writes for a run (end of run, fail-safe,
reconcile at a start of Home Assistant) are the actions of Home Assistant. A
tick is half a minute; `deadline` makes a request take its next step in time, as
its timeouts do.

### FilterLists and FilterBook

A request asks (it reads the lists and decides on its operations, awaits and
all), enters the exclusive pipeline or is refused, and goes through `baseline`,
`apply`, `probe` (`_settle` before it included), `replica`, `parity`; from any of these to `undo` and
`restore`. `result`, `kind`, `target` and `snapshot` are columns of
`filter_changes`: they survive a crash, `busy` and the request's `ops` and `base`
do not. `Recover` is `recover()` before the gateway serves. A list is a name, a
switch and the domains it contains; `offered` is what its address serves, so an
addition or a refresh brings in what is there at that time. `engine` is what
AdGuard answers from, which follows `lists` later; `replica` follows with a sync
pass. The checker's pass reads both, saves its state file with the old streaks
(`compare`) and saves it again with the new ones (`main`). Steps of the engine,
the sync and the checker are left to just before someone may look at them, which
keeps the state space small and loses no outcome of a request.

`FilterBook` knows the lists as the applied changes left them. `FilterLists`
refines it with the snapshot of the change that runs, or else the lists; a
restore that fails, a recovery that fails and a crash between the two writes of
a held refresh *spoil* the book, and nothing else does.

### ChildPolicy and ChildDevices

`book` is what the tables `entities`, `schedules` and `child_exceptions` hold of
the devices, `kept` the last row of `child_removed` of each, `file` is
`out/child-policy.json` and `lastGood` the job's copy of it. A run of
`childpolicy.py` takes four steps, for other things happen in between: it reads the
time, gets the lock and loads the snapshot, replaces the rules, makes the client
entries. `block` is the managed block of AdGuard's rules, kept as the snapshot
and the minute it was made from; `Line` says what it lets a device reach. Domain
lists, display names and guardrails do not matter to that and are left out.
`granted` is a history of what parents opened: no action reads it.

`flow` is the device change that runs (`_busy` admits one): `pc` names the await
it is in. `answer` is what it said. The
device changes take no step that `ChildPolicy` does not allow, which is proved.

The last minute stands for all that follow it. A service that ends a request with
nothing published is down, or has `publish_error` set (`behind`), which the
background loop tries again, or nothing tries again (`missed`): the audit's mirror raised
between the commit and the publication, or `verify_snapshot` refused the snapshot. Left out: that AdGuard re-creates an entry while
`_delete_client` waits for it to be gone (the change then says it is incomplete),
and the mode before the cutover.

### ChildLists

The same devices seen over weeks instead of minutes. `lastRow` is the audit row that
the undo of a domain change takes (`child_store.py:237`): it survives the import of
devices and their removal, which leave no such row; `renewed` is the history of that.
`serving` is the release that runs: `StartNew` migrates the data of Maps when the new
one starts, `Revert` is `live_maps.py` taking it back. What the old release does to
the data (it is not in this repository) is taken to be what the new one does, but for
windows that open Maps, which only the old one accepts.

### Schedules, Requests, Parental

`Schedules` takes a request in two steps, `Accept` (authenticated, the body still on its
way) and `Serve`; a row of the audit is found by its number (`RuleChanges`, `Latest`); `verdict` is what the applier's status says and `RecordApply` audits
once. `views` is what editors have seen, for a put names its version. `Requests` follows
two attempts of a client through `idem()`: `stored` is the row of the key, `applied` what
the service did for a wish, `trail` the gateway's audit. `Parental` counts changes of
windows and exceptions per child instead of naming them; the block of now and the block of
75 s before are rendered by two calls, so they are two steps (`RendersNow`, `Renders`); a verdict carries what it was
worked out from, which no action reads, so that the page's answer can be compared with
it.

### Access, SignIn, Events, HaLink

`Access` keeps the tables of `db.py` as records in `db`. A handler that waits for its body
is admitted in one step and acts in a later one. A sign-in, an enrolment, the opening of an
app session and a patch check in one step and write in another (`task`, `ctlJob`), because
`gwctl`, a process of its own, may write between them; no other handler may, on one event
loop. `overlapped` notes that two changes of the people crossed, `crossed` marks the row of
a sign-in during which `gwctl` shut the person out. In `SignIn` a code of the authenticator is the time step
it belongs to; the throttle counts the rows of failures. `Events` has a queue per open
stream, a `replay` of what the ring had at the subscription, and `kick`; `overfull` notes
a full queue. In `HaLink` a state is the number of its changes, so that an older
answer is seen to be older; the code cannot see that, which is the point.

### Vacuums, Releases, Updates

`order` and `work` are Home Assistant's order to a robot that may reach it late, and what
it does because of it; `seen` is the gateway's cache of both, which `events` brings later;
`guardian` is the guard of a stop. What the card shows (`RunningScenario`) is worked out when it
is asked for. `muddled` notes that a stop and a start were under way
together. In `Releases` a file's content stands for its hash, and commands of operators take
the steps `check`, `copy`, `insert`. In `Updates` a file of the folder is written, verified
and renamed in steps by two workers (the screen's run, the job), and `session` is what
the system installer got. `face` is the app's screen; whoever unlocks, signs in or out is `entry`, a prompt that
is open and then a session queued on the activity's one thread, `place` before or after the check. `slipped`
notes that a check ended below the minimum with somebody on the way.

### Relay and the watchers

A save of `relay.json` is load, open, write, replace, of threads under one lock and of
`relayctl` under none; they share the temporary file. `raced` notes when that happened.
`Notify` has the same shape for the outbox: opening the temporary file empties it, closing it writes, and
`into` says what the opened file is by then, after others put theirs in place. A sending has two sides, what the
notifier makes of it and whether the message got through (`Outcome`, `late`). `VacuumAlerts` and `PlugAlerts` judge a recorded
history at polls; every alert is open or not, what was told stays in a history.
`Watchers` reads, sends, notes what was sent and saves in steps between which a run can be
killed (`sent` is the message not noted yet); the order of the alerts of a run is free. A
message that got through and was not noted, because its answer was lost or the run was killed
before it, is sent again by a later run: `AnnouncedOnce` names these messages (`unmarked`)
and speaks of all others.

### MusicTags

A file has its album and its other fields as one. Each tagger loads, changes and saves a
block; the owner edits between, also titles and artists. `cache` has the search of each song and, apart from it,
the releases of each recording: what was found stays for ever, a miss for `MissTtl` days; which answer
MusicBrainz gives, and when, is open within `Answers`. A release group is chosen from the pool of all
recordings that pass the gate (`Pool`). `answers` is a history: whether the pool of a song changed after a group
was chosen from it. A run that listed a file under its old title is taken to look the new one up.

### MCPortal, MCHost, MCLoops

The modules of each share neither state nor actions, so composing them would only multiply
their states. These modules put them side by side: `part` is chosen at the start, the
module of that name moves, and the variables of the others are `Absent` (in `MCLoops`, where
temporal properties need their values, they stay as they began). A property `XHold` says
that the invariant `XSafe` holds in the behaviours of `X`; the conjuncts of `XSafe` are named
and explained in module `X`. Nothing is checked of two of these modules together.

## 3. Runs

| run | checks | bounds |
|---|---|---|
| `RunStore` | `RunsKept` (one active run a plug, the gap, the length); a stale publication is visible; soundness of `rev_seq`; closed rows are final; an over-run leaves the render (liveness) | two runs, one plug, two lengths, one window, one forbidden minute, 11 ticks, one fault of any kind, cut-over at any time |
| `RunChain` | an armed run's end, and no other, is loaded and on disk; an accepted run is armed in the end (liveness) | two runs that are started in the order of their ids, one setback (a fault of the service or a trouble of the host) |
| `TimedRun` | `RunIsBounded` (types, off at the end, the fail-safe); a plug on for an active run has its end in Home Assistant; an extension is confirmed only in time | two requests: starts, ends and switch-offs with one setback of any kind (a service fault, a misleading call, a stop, a hand press), or starts and extensions with Home Assistant up |
| `Loops` | `Applier`: types, the claim is true and was published, refinement of `EndArming`, every render gets a verdict and a false claim is taken back (liveness). `Events`: a resumed stream misses nothing, a revoked one hears nothing and ends (liveness) | two files, two contents, two renders, two troubles; a phone and a browser, queues of two, a ring of three, four events |
| `FilterLists` | `FilterListsSafe` (types; an applied change blocks no domain the house needs, if the probe met the new engine; a reverted one leaves each list as it was); refinement of `FilterBook`; each change ends (liveness) | two lists (one on, one off or absent), one name, harmless and harmful contents, two requests of any kind, one failed call or crash |
| `ChildDevices` | `PolicySafe` (types; no copy of the policy restricts nobody; no device is let further than a parent opened it for the minute of its rules); `created` is said of what is enforced; openings end and changes arrive, with the service down or its file spoilt (liveness); each device change ends (liveness) | two devices, one window, two things people do, one trouble, four minutes |
| `Portal` | `Schedules`, `Access`, `SignIn`, `Requests`, `HaLink`, `Vacuums`, `Releases`, `Parental`, `ChildLists`, and what a step of them may never do: overwrite a schedule its editor has not seen, move the channel backwards, show an old verdict | see below |
| `Host` | `Relay`, `Notify`, `VacuumAlerts`, `PlugAlerts`, `Watchers`, `Updates`, `MusicTags`, and what a step may never do: call an edge of the schedule foreign, overwrite what the owner set | see below |
| `Applier_pending` | *violated*: a failed pass rolls back to something verified | two renders, Home Assistant down once, or its webhook failing |
| `TimedRun_offrace` | *violated*: every plug switched on for a run has its end in Home Assistant | two requests, no fault at all |
| `Updates_race` | *violated*: only a verified file is handed to the installer | the screen and the job, one version, no death of the process |
| `Events_stuck` | *violated*: every event arrives | two clients, no fault at all |

Why the bounds are enough. Two runs of one plug meet in every way the code
distinguishes (active, over but in grace, closed early, closed by the next
start); plugs share nothing but the sequence number, which schedule edits and
`RecordApply` advance as well. Two renders let a newer one overtake a pass, two
files let a pass be half-written, two troubles let a roll-back be disturbed. One
tick is half a minute, so that a moment inside a minute differs from its
boundary, where automations run and ends are rounded to. The sweep of the
background loop is bounded by the runs, not by `MaxSeq`, which would otherwise
forbid it. What a number in a configuration bounds is named there.
Two devices suffice for the children's policy: one that changes and one that must
not; two actions of people are a change and another that meets it (a removal and
its undo, an edit and a run by hand), and the job waits on its lock for one
other run at most. A run takes less than a minute unless a trouble delays it; 75
seconds ago is one of the last two minutes; two minutes stand for the 150 s that
the gateway waits, three for the 24 h that a definition is kept.

In `Portal`: a week of five slots and rule sets whose windows touch, stand apart or end with
the week, two guardrails, three requests, an applier's verdict and crashes; two people
with one phone each and two in the house, a clock that ticks once, at which everything can
expire, five deeds; two links, four tries in four seconds with a window
of three (a wait of the throttle ends, and failures leave the window); two wishes of which one is repeated, one restart; two watched
entities with a change each and one outage; two visitors, two plans, three moves of the
robot with events up to four steps late, a guard that sends once and polls twice; two operators with two commands each,
two versions, contents and certificates, one mishap; two children, one viewer asking twice,
two ticks of the cache, one edit and one breakage; two devices with one ordinary and one
needed domain, three payloads to import (one with a domain in both lists, one that is
refused, one with the old house lists), four changes. Every one of these lets two actors
meet in each of the orders that the code distinguishes; a third adds only repetitions.

In `Host`: two threads, one host with one slot and one hop, a cap of one, a threshold of
one, one command or restart, two ticks of which each is a day; two watchdogs of two tiers
with three runs together and one death; a robot with four changes of state over seven polls around
one plan; a plug over two days of six ticks with two events and four timetables (one with a window to the end
of every other day); one device,
two sockets, four looks, three pieces of news, two kills; versions one and two, one new
offer, one death of the app; one song, three recordings (two that pass the gate), four releases of three groups (two of one
year, the first with two releases, and an older compilation), two days, one edit, one failure.

Fairness. `RunStore`: the clock, the sweep and the retry of the background loop,
and the supervisor's restart are weakly fair; nothing is assumed of people or
faults. `Loops`: an open stream
sends what is in its queue, its heartbeat comes and rechecks the token when it is due; nothing is
assumed of publishers and clients. `FilterLists`: every wait of a request has its limit, the supervisor
restarts the gateway; AdGuard's engine, the sync and the checker need not run. `Applier`: the timer starts a pass every five minutes and a pass goes
on, an hour passes, Home Assistant comes back and runs accepted reloads. Faults
are bounded, which stands for: they stop for long enough. `ChildDevices`: the timer, the runs it starts and
the gateway's waits are weakly fair; of the service nothing is assumed, it may
stay down, and `PolicyArrives` speaks of the behaviours in which it does not.
`TimedRun` states no
liveness: its deadlines are safety. Nor do the modules of `Portal` and `Host`: what they promise is
about the order of things.

### What the four violated properties say

* **A roll-back to unverified files** (`Applier_pending`). A pass that finds
  Home Assistant down, or whose webhook fails, keeps its new files and stays pending. The next pass reads
  those as `previous` (`portal_apply.py:301`); when it fails it "rolls back" to
  files that were never verified, while `README.md:64` of the schedules says the
  applier already rolled back to the previous files.
* **Ending a run that is still starting** (`TimedRun_offrace`). The plug is still
  off, so the request to end the run is confirmed from the cache
  (`core.py:191`) and the run is closed; the start, which had just seen the run
  armed, switches the plug on, and the end leaves Home Assistant with the next
  render. Only the fail-safe is left. `StartedHasEnd` is the part of the promise
  that does hold: for a run that is still active.

* **Two updates in one folder** (`Updates_race`). The job looks whether the app is on the
  screen only when it starts (`UpdateAndroid.kt:294`), so the screen's run can join it in
  the folder that each clears for itself (`UpdateCore.kt:77`). The file that one has
  verified can then be the partial file of the other when it is renamed and committed,
  while `UpdateLogic.kt:102` says "Only then is it handed to the installer". The system
  installer checks the signature once more. `VerifiedWhenAlone` is what does hold.

* **A stuck consumer that takes others along** (`Events_stuck`). With a full queue
  `put_nowait(None)` raises as `put_nowait(ev)` did (`hub.py:28`), so the consumer is not
  dropped, and the loop over the subscribers ends: those after it miss the event and
  their streams stay open, while the comment says "it reconnects and resumes". The
  properties of `Events` that hold leave out behaviours after a full queue (`overfull`).

### What else was seen while modelling

Behaviours that the models have, or that a property leaves out by name, and that no
run states as violated.

*A parity check that believes too early.* The checker saves its state file once before
its result is in (`parity.py:208`), with the streaks of the pass before, and it may have
compared before the change. The gateway takes any file that is newer than the change
(`filterlists.py:372`), so a change may be `applied` and not on the replica
(`filterlists.py:14` says otherwise).

*A probe of the old engine.* Without witnesses `_settle` waits a second at most, and with them it gives up at its
deadline (`filterlists.py:287`, `:300`): when AdGuard is slower than that, the probe finds the old engine healthy
and the change is `applied` unproven. `FilterListsSafe` exempts such a change (`base[q].old`).

*An undo that loses what it restores.* Restoring a device deletes its row of
`child_removed` (`child_store.py:675`); when the device cannot be verified, the roll-back
removes it with `forget=1` (`childdevices.py:251`). No fault is needed: a device that an
exception opened completely comes back open, and the catch-all that the verification
waits for does not appear in time. The definition, promised for 24 hours
(`child_store.py:590`), is gone but for the audit.

*"created" for rules that do not last.* A run of the job that loaded its snapshot before a device was removed
and is slow writes the device's rules once more (`childpolicy.py:243`); an addition that comes in between takes them
for its own, and if its own publication failed the next run removes them. The model notes that such a run was under
way (`held`), as it does of rules that an unfinished removal left behind. Two failures do the same without it: the
good copy cannot be written by the run that makes the rules, and then the file becomes unreadable, so that the next run
goes back to a copy without the device.

*The lists of a child.* An undo takes the last audit row of a domain change, also after an
import or when the device was removed and added anew: it then restores lists of another
time, and its own audit row tells of a before-state that never was. An import accepts a
domain in both lists. The roll-back of the Maps move overwrites later edits, fails as a whole
when a device of its record is gone, and the old release is started all the same. A
definition removed before the move and restored after it brings an exception for Maps
back to life, which `verify_snapshot` refuses.

*People and requests.* `gwctl` writes a whole row it read earlier, so a change that crosses
it is undone, and it has no hub to kick streams with (`people.py:84`). A sign-in reads the
person before scrypt and inserts its row later, outside any transaction (`people.py:263`, `185`, `204`; an
enrolment `376`, `388`): whom `gwctl` deactivates in between keeps a session or a phone.
The phone works again after a reactivation, and an open stream of the session goes on
(`415`); `InactiveHoldsNothing` and `StreamsMayTrust` exempt these rows, by `crossed`. The row of an app
session that comes after the revocation stays too, and is of no use: its phone is revoked. Two attempts with one
key run the handler twice when they overlap (`api.py:122`). A token of the service that is
revoked while a body is on its way still counts for that request (`api.py:45` and `74` of the
service).

*Home Assistant's states and the vacuums.* An older answer of a read replaces a newer event
(`ha.py:91`), and a polling pass that ends after the socket came up leaves the link
"down" until the next one (`ha.py:200`). Two starts of a plan may both pass the check of the
other (`core.py:431`); a plan that Home Assistant's schedule started within six hours of one of the
portal's is shown as that one (`core.py:404`). The guard of a stop decides from the cache: if
the events about a robot that docked are several steps late (the run allows four; with
`MaxDelay = 5` TLC finds it), a plan that Home Assistant's schedule starts meanwhile is sent home as if it were the stopped
one. So `GuardSparesPeople` is true of a cache that is not that stale, which is what the run checks and
what `VacuumsStaySafe` takes as its hypothesis.

*Releases, the app.* A return to the screen during a download starts no second check, so a
minimum that the job learns meanwhile blocks the app at the next return (`MainActivity.kt:151`). And `openWeb`
does not look at the blocking screen: a session that was queued behind the check (`MainActivity.kt:437`), or a
prompt that was open when it ended (`MainActivity.kt:389`), puts the family's page over it until the next check,
against "nothing of the family is shown" (`MainActivity.kt:110`). `BlockedBelowMinimum` names both cases
(`lateMin`, `slipped`), and TLC finds it violated without either. Two `add`
or `pin` commands cross between check and write (`releases.py:187`); a process that dies between `installingCode` and the commit leaves a mark
that keeps the job from that version (`UpdateAndroid.kt:283`, `InstallingIsReal`).

*The relay and the watchers.* `relayctl` and the relay save the same file over one
temporary name, so a switch or a count may be lost (`relay.py:134`). A message queued while
another watchdog flushes the outbox is lost, and so is all that waits there when one empties the
temporary file another is about to put in place, and dies (`watchnotify.py:94-113`); a message that got through
without an answer, or whose sender died before saving, is sent again (`watchnotify.py:62-70`, 189-193); a first send of
`gateway-watch` that failed is not repeated (`gateway-watch.py:150`). `last_edge` looks at
today's windows only (`ha-alerts.py:318`): a plug that stays on after a switch-off at the very end of a day is
not told as stuck the day after, when that day has other windows (`StuckIsToldThatDay` speaks of the day itself). A file of music edited between load and save loses
the edit (`apply.py:55`). A recording without releases is asked again after 30 days, although its song has an
answer already (`mb_client.py:66-87`), and of two taggers that ask at once the later answer replaces the other, even a
hit (`mb_cache.py:45`): an album that was emptied, or restored as empty, is then filled from another release group,
while the ids of the first stay. `OneRelease` and the comparison in `WrittenIsBest` leave out songs whose answers
moved like that after a group was chosen; TLC finds both violated without it.

Smaller divergences the models have on board but state no failing property for:
a `turn_on` that was executed but reported as failed makes `start_run` withdraw
the run with the plug on (`core.py:334`); an append to `audit.jsonl` that raises
after the commit skips the publication without raising the health flag
(`store.py:310`, `child_store.py:162`), the reason for `mirrorFailed` in `StaleIsVisible` and for `~missed`
in `ChangesArrive`: such a change arrives with the next write of the service; `managed`
may be switched off under an active run, which still reads as armed
(`store.py:538`), the reason for `rendered` in `RevCovered` and `ArmedEndInForce`;
a start whose poll gets no answer fails without withdrawing its run
(`core.py:288`); a refresh that brought in bad content is "reverted" by no
operation and stays, for `diff_ops` does not see contents (`filterlists.py:472`);
`recover()` closes a row it could not restore as failed, while `server.py:44`
expects it to be retried; a crash inside a held refresh makes `recover()` remove
every list (`filterlists.py:613`).

## 4. Proofs

`RunStore_proofs`, for any plugs, runs, guardrails, windows and bounds:
types; `AtMostOneActive`; `GapAlwaysKept`; `LengthKept`; `RevSeqSound`; `StaleShown`;
`ClosedStaysClosed`.

* `GapInv` strengthens `GapKept`: an *active* run started after all others of its
  plug that count. Without it an extension could not be shown harmless: its end
  moves, but nothing of the plug comes after it.
* `RevInv` strengthens `RevCovered` with: one active run a plug, and neither a
  `rev_seq` nor a published number is ahead of the audit. So a change of a run
  always gets a number greater than everything published before it.
* `LengthInv` adds that a run started in the past, so that a cancelled run cannot
  end before it started.

`Loops_proofs`. Of `Applier`, for any files, contents, numbers of renders and troubles: types;
`ClaimTrue`; `ClaimPublished`; `ApplierImplements` (the refinement). The inductive
invariant `ClaimInv` says that a pass in progress has a pending status from before
its first file on, that after the write the files are the job's, and that at the
commit Home Assistant runs them. It carries all three results. Of `Events`, for any clients,
queue limit and number of events: `StreamsStayInStep`. `EvInv` says where every open stream leads: what was
sent last, the replay and the queue join without a gap (`Line`) up to the latest event, or, when its phone
is revoked, up to the mark in its queue, behind which nothing counts.
Of `FilterLists`, for any lists, names, contents, kinds and number of requests, and any number of failed calls and
crashes: `FilterListsStaySafe` (an applied change whose probe met the new engine blocks no needed domain, a reverted one leaves
the lists as they were) and `ChangesAreAllOrNothing` (the refinement of `FilterBook`). The inductive invariant `FlInv` says where a
request may be by what its row and the gateway say (`RowFits`); that one request is in the pipeline, one row is being
recovered and, as long as nothing is spoilt, one change is under way (`OneAtATime`); that up to the decision its
operations are of its list and all others are as in its snapshot (`OneList`); that what is left of a restore is exactly
the difference of the lists from the snapshot, also after a crash, as the difference is computed anew (`Restores`); and
that from a probe of the new engine on AdGuard's engine has what was probed (`Probed`). So a restore or recovery that goes through
ends at the snapshot, whatever part of the change was executed before it. That takes the lemma `OneDifferenceLess`: an
operation of `diff_ops` that is possible and whose turn it is takes itself off the difference and adds nothing to it,
also where a list that comes back needs two operations.

`ChildPolicy_proofs`, for any devices, windows, times and bounds: types;
`NeverUnrestricted`; `OpenIsGranted`; that `ChildDevices` implements `ChildPolicy`
(`DevicesImplementPolicy`), and so keeps both. The inductive invariant `IInv` asks
of *every* copy of the policy, the one a run holds in its hands included, what
the two properties ask of AdGuard's: it restricts some device (`Good`) and opens
no more than was ever granted; the same of the removed definitions, which may
come back. A clock is not needed in it: that an exception has ended by the minute
of the rules follows from how `Line` reads that minute.
`CreatedHolds` is `CreatedIsEnforced` for at most one trouble (with two it is false, above). The invariant `AddingOK`
follows an addition: as long as nothing went wrong the file has the device; once its rules are made or about to be, what
the next run would load has it, and so has the last good copy unless the one trouble has been (`AddedOK`); and
because of the lock no other run is between its snapshot and its rules (`OneRun`).

Assumptions are the named ones of the modules: the sets are finite where they are
counted, times are natural numbers, `Unset` is no set of files, no scenario is called "no plan" or "scheduled", windows lie
within the times, `Absent` is no row, no list and no setting of one, there is some list, and the service starts with
some device.

The conjunctions that the runs name follow: `RunsAlwaysKept` (`RunsKept`),
`ApplierAlwaysSafe` (`ApplierSafe`), `DevicesSafe` (`PolicySafe`).

`RunChain_proofs`: every behaviour of the chain is one of the service
(`ChainRefinesStore`), so what `RunStore_proofs` shows holds in it; the claim stays true
whatever the service publishes meanwhile (`ChainClaimTrue`, with `ChainInv`: `ClaimInv` of the
applier over what the service has published); and from the two, `ArmedIsEnforced`: what
`run_armed` calls armed is what Home Assistant holds. The step between is that a claimed number
at or after a run's `rev_seq` is of a publication that has the run's current end (`RevCovered`).

`TimedRun_proofs`, for any runs, requests, times and bounds:
`RunRefinesStore`; types; `FailSafeHolds`; `ExtensionsInTime`; and with hypotheses
`StartedAlwaysHasEnd` and `RunAlwaysBounded`. The inductive invariants go from the service to
the plug: `SetsInv` (what Home Assistant runs or may come to run was published, with one end at
most), `ExactInv` (without extensions, that end is the end of the row), `StartInv` (a request between
"armed" and "switched on" has a run whose end is in every set that Home Assistant may still take).

* `LongRuns`: no run is shorter than the wait for its arming. `RUN_ARM_WAIT_S` is a minute and so
  is the shortest run, so a run of one minute may be switched on after its end (a hazard that
  no property covers).
* `NoExtensions`, or for `StartedHasEnd` no stop of Home Assistant: an extension whose pass fails
  after the old end brings back an end in the past, and the plug is left to the fail-safe. The
  run's two scenarios make the same cut.
* `MarginAssumption`: `run_arm_wait_s` is less than the time an extension must leave (60 s, 90 s).

`Portal_proofs`, for any people, children, operators, versions, devices and bounds, each with its
inductive invariant:

* `ReleasesAreSound` with `RelInv`: as long as nothing rots, dies or crosses (`CalmChannel`), one
  command at most is under way and what it found still holds. `ChannelRollsForward` needs the types only.
* `RepeatsAreSafe` with `ReqInv`: what an attempt has read, stored or answered fits what the service did
  for its wish, the one it lost included.
* `ShownOfAChildIsTrue` with `KidInv`: a verdict in the works, in the cache or on a page was
  worked out from lines that hold what was confirmed before it began, unless a change crossed it;
  `ShownStaysRecent`.
* `ListsHoldTogether` with `ListInv`: what a kept definition, a row for undo or the row of the Maps
  move may bring back is within what the properties ask of the lists in force. `PayloadsAreLists` is what
  `import_children` validates.
* `CardTellsThePlan` and `VacuumsStaySafe` with `VacInv`: the events that the cache has not seen tell a story
  (`Tale`), from what it shows to what is so: state by state of robot and script, each by its own event, and home from
  cleaning by no fewer than two. As long as nothing crossed (`~muddled`), it is known of the story whether a plan ends
  or sets off in it and what the card will tell then (`PlanKnown`), that one request starts at a time (`StartsKnown`),
  that a stop crosses neither a start nor a resuming (`DocksKnown`), and that under a guard a robot cleans only for a plan
  whose switching on the cache sees before the robot (`GuardKnows`). What the card tells holds for every delay. That the guard
  spares people needs `MaxDelay <= 4`: the two events of a way home, the old script's, the new
  script's and the robot's way out are five, and with all of them unseen the guard still sees the old cleaning.

`Gateway_proofs`, likewise:

* `CacheIsCurrent` with `HlInv`: nothing known is from the future; a subscription that holds is complete
  (the last event of an entity brings its state, and an entity without one is known already); the
  link of a live socket is set by nothing but an overtaken polling pass.
* `CodesAndLinksWorkOnce` with `SignInv`: the seed of an unused link is nobody's yet, and no code of the seed in
  force that was accepted is later than the last one recorded.
* `SignInStaysSafe` adds `FailsInv`: the failures of an account that are still in the window have ranks, every rank up to
  their number is somebody's (`RanksAreTaken`, a matter of cardinalities), and between two of them past the free ones
  lies at least the difference of the powers of their ranks (`WaitsDouble`). When the oldest leave the window all
  ranks fall alike and the differences only shrink (`WaitsStayDouble`). Of powers it assumes that they multiply as powers
  do (`PowersOfTwo`, which TLC evaluates): the provers know nothing of `^`.
* `SchedulesStaySafe` with `SchedInv`. `ValidIsRespected` is the lemma it rests on: comparing each window with its
  next one (round the week) keeps *all* windows apart. Each set of windows has an earliest one
  (`EarliestExists`, from the well-foundedness of numbers), the next start is at most that of every later
  window, and the one that starts last closes the circle. `EdgesAreTheSchedule` turns that into the
  agreement of the switching times with `target_state`. Of the state `SchedInv` adds that no view and no request
  under way knows a version from the future, that rows on rules are of entities that exist, and that a
  row on the applier's result is not later than the last one recorded.
* `AccessStaysRightful` with `AccessInv`. The tables are sound (`SoundTables`): rows refer to rows that are there;
  what still works is of somebody active, a web session of one who may use the web, but for the rows
  that are `crossed` (`Rightful`); a code
  has at most one phone and a person one open code (`CodesOnce`); phones within the limits, but those of `brink`
  (`Limited`). A change either takes away (`Fewer`: it keeps all of that at once) or adds one row, whose
  conditions its handler has checked. What a handler between its two steps has found still holds, or `gwctl` shut
  the person out and the row will be `crossed` (`TaskInv`). An admin remains (`AdminKept`): what `gwctl` or
  the gateway has checked and not yet written still holds as long as nobody changed the people between.
* `StepsOfThePortal`: the action properties of `Portal` together.

`Host_proofs`, for any songs, versions, threads, hosts, timetables and bounds, with the invariants of
`HostInvariants`:

* `MusicTagsStaySafe` with `MtInv`: every image of a file, on disk, in the record for the roll-back or in a tagger's
  hands, is of the release group that the cached answers decide for, or these have changed since one was chosen
  (`Say`, `FromAnswer`); one that is loaded and not saved keeps what
  the file has, unless the owner saved it meanwhile; and what is unscanned without a run that wrote is owed.
* `UpdatesStaySafe` with `UpdInv`: a run that is alone in the folder finds there what it left; what a run knows
  of the channel was seen before; the mark of an install in progress has a session or a run behind it. For the
  blocking screen the invariant speaks of whoever can still reach the page, not only of the page (`PastIsBlocked`):
  below the minimum, with the check over, somebody at the door or on the way is there by an exempted case.
* `RelayStaysSafe` with `RelayInv`: without a race one writer at a time has opened the temporary file, and what it
  writes continues what is on disk; used plus not yet counted fetches of a day are at most the cap plus the threads
  but one; a nonce stays known as long as its time window; the slots of a host are counted by the threads that hold
  one (a matter of cardinalities); and the copy a thread holds of the breakers never shortens one.
* `NotifyStaysSafe` with `NotifyInv`: a message that is not settled, nor exempted by name (`crossing`), is in every
  copy of the outbox there is: the box, what a flush has still to try or to keep, and the temporary file of the only
  run that is rewriting it (`Waits`); what a file holds after lines were written over it came from one of the two
  (`OverwritesIs`). What is noted of an alert, on disk or in the hands of the run that is to save it, fits the
  messages delivered (`Fits`), unless one of them went unnoted; that it was told is true always (`ToldFits`).
* `PlugAlertsStaySafe` with `PlugInv`: whatever Home Assistant did at an edge since the last edit is at an edge of the
  timetable in force. `LatestIsTheEnd` shows that, after the end of a window, the latest edge as `last_edge`
  counts it is that switch-off, within a day and across midnight when the days are alike. It rests on
  lemmas about days and clock times (quotients and remainders) and on the least-number principle.
* `WatchersStaySafe` with `WatchInv`: what got through once is noted as told, or about to be, until it has left the
  list, after which it does not come back (`OnceOnly`), unless its answer was lost or its run killed before the note; what a run is about to save names no device whose alert is not open or
  about to be (`Recording`); which alerts of sockets and of the policy a run has still to open or to clear, from what it
  saw (`Listening`, `Drifting`). A run that was killed leaves a part of these, and the file it did not save.
* `VacuumAlertsStaySafe` with `VaInv`: a robot that was told as stuck and did nothing since still stands there with
  its alert open (`StuckKept`), so every later judgement finds its incident (`StandsIsIncident`); a pause of two
  ticks was told at its first one (`StuckIsTold`); an open alert of a failed plan is of the last plan
  (`FailureIsTold`).
* `StepsOfTheHost`: the action properties of `Host` together.

They assume what the modules name: a window ends after it starts (`model.py:184` refuses any other, and
`ha-alerts.py:83` reads them so), the two temporary states of a file and "no file" are no saved states, the hosts are
not none, and no thread is called "free". The
first bad look of `policy-drift-watch` says nothing yet (`TRANSIENT_RUNS` is 2): else a run killed before it
saved would leave an alert that no later run knows of.

Every invariant that a run checks has its theorem. Only model-checked is all liveness, of `Applier`, `Events`,
`FilterLists` and the others, which is out of the prover's reach, as are `ENABLED` and induction over data; and the
guard of a stop with a cache more than four events behind, of which the theorem says nothing and TLC finds it wrong.

## 5. Not modelled

* The mode of the children's policy before the cutover (`child-ui.py`, `overrides.py`,
  the lists in files): the model is the source since, and the code only reads.
* Text: validation of single fields, time zones and summer time, rendering of YAML and of
  AdGuard's rules line by line, web pages and strings, parsing of APKs, signatures and
  hashes. Where a decision depends on one, it is an input of the action.
* `check_planless_vacuums` and the checks of services in `ha-alerts.py`; `portal-watch`,
  `relay-watch`, `watch-heartbeat` and the like: of the form of `Watchers`, over other sources.
* The tiles' probes (`core.py:580-650`): a cache of results that nothing decides on.
* Sorting of the library, backups, the robots' tools: sequences of file operations or
  one-shot commands whose state is the disk's.
* The app's lock screen and web view; the configuration of Caddy, Home Assistant, the host
  and the Pi: declarative, or without shared state.

## 6. What could follow

Models of the watchers that are left out, where they
differ from the form of `Watchers`.
