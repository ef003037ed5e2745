------------------------------ MODULE TimedRun ------------------------------
(***************************************************************************)
(* A timed run of one plug, from the button to the automatic OFF: the      *)
(* gateway's requests (portal/gateway/gw/core.py: start_run, extend_run,   *)
(* end_run and a plain switch-off), each a sequence of calls with awaits   *)
(* in between; the schedule service (RunStore); the host-side applier,     *)
(* here only as what it promises (EndArming, which Applier implements);    *)
(* and the automations that render.py puts into Home Assistant.            *)
(*                                                                         *)
(* A tick is half a minute. What happens in a tick happens after the       *)
(* automations of that minute have run.                                    *)
(***************************************************************************)
EXTENDS RunStore

CONSTANTS
  NoSet,          \* no claim of the applier
  ThePlug,        \* the plug
  Req,            \* requests to the gateway
  Kinds,          \* what a request may ask for: "start", "extend", "end", "off"
  ArmWait,        \* RUN_ARM_WAIT_S, in ticks
  CallMayMislead, \* may a call to Home Assistant fail, executed or not?
  HaMayStop,      \* may Home Assistant be down?
  MaxTrouble      \* bound on failed calls, stops and hand presses

ASSUME PlugAssumption == Plug = {ThePlug} /\ NoSet \notin RunId
ASSUME GatewayAssumption ==
  /\ Kinds \subseteq {"start", "extend", "end", "off"} /\ ArmWait \in Nat
  /\ CallMayMislead \in BOOLEAN /\ HaMayStop \in BOOLEAN /\ MaxTrouble \in Nat
\* 60 s against 90 s, and 20 minutes: an extension may be waited for, and a late
\* minute still counts as the end of the run.
ASSUME MarginAssumption == ArmWait < MinRemaining /\ Grace > 0

VARIABLES
  claim,     \* the applier's claim (EndArming)
  inForce,   \* the set that Home Assistant runs (EndArming)
  good,      \* the set claimed last, to which a failed pass goes back
  haUp,      \* is Home Assistant running?
  on,        \* the plug
  changedAt, \* last_changed of the plug in Home Assistant
  by,        \* history: the run for which the plug was switched on, or NoSet
  seen,      \* the plug's state in the gateway's cache
  pc,        \* where each request is
  mine,      \* the run each request works on
  deadline,  \* the tick by which each request has made its next step
  oldEnd,    \* the end an extend request moves
  closes,    \* how often a request still calls _close_active_run
  trouble    \* troubles used up

armVars == <<claim, inForce, good>>
plugVars == <<haUp, on, changedAt, by>>
reqVars == <<pc, mine, deadline, oldEnd, closes>>
runVars == <<storeVars, armVars, plugVars, seen, reqVars, trouble>>

Steps == {"idle", "arming", "turn_on", "withdraw", "failed", "turn_off", "read_off",
          "close", "delete", "moving", "done"}

TypesOK ==
  /\ TypeOK
  /\ claim \in (Nat \X RenderedSet) \cup {NoSet} /\ inForce \in RenderedSet /\ good \in RenderedSet
  /\ haUp \in BOOLEAN /\ on \in BOOLEAN /\ changedAt \in Nat /\ by \in RunId \cup {NoSet}
  /\ seen \in BOOLEAN
  /\ pc \in [Req -> Steps] /\ mine \in [Req -> RunId \cup {NoSet}]
  /\ deadline \in [Req -> Nat] /\ oldEnd \in [Req -> Nat] /\ closes \in [Req -> 0..2]
  /\ trouble \in Nat

Arming == INSTANCE EndArming WITH Set <- RenderedSet, Mixed <- NoSet, None <- NoSet

Trouble == trouble < MaxTrouble /\ trouble' = trouble + 1

\* Store.run_armed: the service's reading of the claim.
Armed(r) == status[r] = "active" /\ claim # NoSet /\ claim[1] >= revSeq[r]

\* active_runs filtered by _run_view: the service's active run, unless it is over.
Running == ActiveOn(ThePlug) \ Over(ThePlug)

\* Request q goes on at step s, and takes that step within the next tick.
Goto(q, s) == pc' = [pc EXCEPT ![q] = s] /\ deadline' = [deadline EXCEPT ![q] = now + 1]

-----------------------------------------------------------------------------
(* start_run.                                                              *)

\* The cache says off and the service accepts the run (or fails after its commit).
StartPost(q, r, m) ==
  /\ "start" \in Kinds /\ pc[q] = "idle"
  /\ haUp /\ ~seen
  /\ StartRun(ThePlug, r, m)
  /\ pc' = [pc EXCEPT ![q] = IF mirrorFailed' THEN "failed" ELSE "arming"]
  /\ mine' = [mine EXCEPT ![q] = r]
  /\ deadline' = [deadline EXCEPT ![q] = now + ArmWait]
  /\ UNCHANGED <<armVars, plugVars, seen, oldEnd, closes, trouble>>

\* Mutant: when the time is up the plug is switched on all the same.
Poll_TurnOnAnyway(q) ==
  /\ pc[q] = "arming"
  /\ \/ svc /\ Armed(mine[q]) /\ Goto(q, "turn_on")
     \/ svc /\ ~Armed(mine[q]) /\ now >= deadline[q] /\ Goto(q, "turn_on")
     \/ ~svc /\ Goto(q, "failed")
  /\ UNCHANGED <<storeVars, armVars, plugVars, seen, mine, oldEnd, closes, trouble>>

\* _wait_armed. An unreachable service raises out of start_run: no withdrawal.
Poll(q) ==
  /\ pc[q] = "arming"
  /\ \/ svc /\ Armed(mine[q]) /\ Goto(q, "turn_on")
     \/ svc /\ ~Armed(mine[q]) /\ mine[q] \notin Running /\ Goto(q, "withdraw")
     \/ svc /\ ~Armed(mine[q]) /\ now >= deadline[q] /\ Goto(q, "withdraw")
     \/ ~svc /\ Goto(q, "failed")
  /\ UNCHANGED <<storeVars, armVars, plugVars, seen, mine, oldEnd, closes, trouble>>

SwitchOn(r) ==
  /\ haUp /\ on' = TRUE /\ by' = r
  /\ changedAt' = IF on THEN changedAt ELSE now
  /\ UNCHANGED haUp

\* ha.call turn_on: refused or unanswered, it may still have been executed.
TurnOn(q) ==
  /\ pc[q] = "turn_on"
  /\ \/ SwitchOn(mine[q]) /\ Goto(q, "done") /\ UNCHANGED trouble
     \/ ~haUp /\ Goto(q, "withdraw") /\ UNCHANGED <<plugVars, trouble>>
     \/ /\ CallMayMislead /\ haUp /\ Trouble /\ Goto(q, "withdraw")
        /\ SwitchOn(mine[q]) \/ UNCHANGED plugVars
  /\ UNCHANGED <<storeVars, armVars, seen, mine, oldEnd, closes>>

\* DELETE ?withdraw=1; a refusal or no answer is ignored.
Withdraw(q) ==
  /\ pc[q] = "withdraw" /\ Goto(q, "failed")
  /\ \/ CancelRun(mine[q], "withdrawn")
     \/ (~svc \/ mine[q] \notin Running) /\ UNCHANGED storeVars
  /\ UNCHANGED <<armVars, plugVars, seen, mine, oldEnd, closes, trouble>>

-----------------------------------------------------------------------------
(* end_run and switch(off).                                                *)

\* end_run reads the runs first; without an answer it uses those it knew.
EndBegin(q) ==
  /\ "end" \in Kinds /\ pc[q] = "idle"
  /\ svc => Running # {}
  /\ Goto(q, "turn_off")
  /\ closes' = [closes EXCEPT ![q] = 1]
  /\ UNCHANGED <<storeVars, armVars, plugVars, seen, mine, oldEnd, trouble>>

OffBegin(q) ==
  /\ "off" \in Kinds /\ pc[q] = "idle"
  /\ Goto(q, "turn_off")
  /\ UNCHANGED <<storeVars, armVars, plugVars, seen, mine, oldEnd, closes, trouble>>

SwitchOff ==
  /\ haUp /\ on' = FALSE /\ by' = NoSet
  /\ changedAt' = IF on THEN now ELSE changedAt
  /\ UNCHANGED haUp

\* A cached "off" counts as confirmed, without a call: end_run then closes the
\* run, switch does not. Otherwise the plug is switched off and read back.
TurnOff(q) ==
  /\ pc[q] = "turn_off"
  /\ \/ ~seen /\ Goto(q, IF closes[q] > 0 THEN "close" ELSE "done") /\ UNCHANGED <<plugVars, trouble>>
     \/ seen /\ SwitchOff /\ Goto(q, "read_off") /\ UNCHANGED trouble
     \/ seen /\ ~haUp /\ Goto(q, "done") /\ UNCHANGED <<plugVars, trouble>>
     \/ /\ CallMayMislead /\ seen /\ haUp /\ Trouble /\ Goto(q, "done")
        /\ SwitchOff \/ UNCHANGED plugVars
  /\ UNCHANGED <<storeVars, armVars, seen, mine, oldEnd, closes>>

\* wait_state refreshes the cache; unconfirmed, the run stays. A confirmed OFF
\* closes the run here and, for end_run, once more when switch has returned.
ReadOff(q) ==
  /\ pc[q] = "read_off"
  /\ seen' = IF haUp THEN on ELSE seen
  /\ Goto(q, IF seen' THEN "done" ELSE "close")
  /\ closes' = [closes EXCEPT ![q] = IF seen' THEN 0 ELSE @ + 1]
  /\ UNCHANGED <<storeVars, armVars, plugVars, mine, oldEnd, trouble>>

\* _close_active_run: read the active run, whichever it is by now ...
Close(q) ==
  /\ pc[q] = "close"
  /\ closes' = [closes EXCEPT ![q] = @ - 1]
  /\ \/ svc /\ \E r \in Running : mine' = [mine EXCEPT ![q] = r] /\ Goto(q, "delete")
     \/ /\ ~svc \/ Running = {}
        /\ Goto(q, IF closes'[q] > 0 THEN "close" ELSE "done") /\ UNCHANGED mine
  /\ UNCHANGED <<storeVars, armVars, plugVars, seen, oldEnd, trouble>>

\* ... and delete it; errors are ignored.
Delete(q) ==
  /\ pc[q] = "delete" /\ Goto(q, IF closes[q] > 0 THEN "close" ELSE "done")
  /\ \/ CancelRun(mine[q], "cancelled")
     \/ (~svc \/ mine[q] \notin Running) /\ UNCHANGED storeVars
  /\ UNCHANGED <<armVars, plugVars, seen, mine, oldEnd, closes, trouble>>

-----------------------------------------------------------------------------
(* extend_run.                                                             *)

ExtendPost(q, r, m) ==
  /\ "extend" \in Kinds /\ pc[q] = "idle" /\ r \in Running
  /\ ExtendRun(r, m)
  /\ pc' = [pc EXCEPT ![q] = IF mirrorFailed' THEN "failed" ELSE "moving"]
  /\ mine' = [mine EXCEPT ![q] = r]
  /\ oldEnd' = [oldEnd EXCEPT ![q] = endsAt[r]]
  /\ deadline' = [deadline EXCEPT ![q] = now + ArmWait]
  /\ UNCHANGED <<armVars, plugVars, seen, closes, trouble>>

\* Confirmed when armed, else unconfirmed; nothing is taken back.
ExtendPoll(q) ==
  /\ pc[q] = "moving"
  /\ ~svc \/ Armed(mine[q]) \/ mine[q] \notin Running \/ now >= deadline[q]
  /\ Goto(q, "done")
  /\ UNCHANGED <<storeVars, armVars, plugVars, seen, mine, oldEnd, closes, trouble>>

-----------------------------------------------------------------------------
(* The applier, as EndArming has it: new files only when nothing is        *)
(* claimed, the published ones or, after a failure, the last good ones.    *)

ApplierStep ==
  /\ \/ claim = NoSet /\ \E c \in published : claim' = c /\ Arming!Claim /\ good' = inForce
     \/ Arming!TakeBack /\ UNCHANGED good
     \/ out.whole /\ inForce' = out.set /\ Arming!Change /\ UNCHANGED good
     \/ inForce' = good /\ Arming!Change /\ UNCHANGED good
  /\ UNCHANGED <<storeVars, plugVars, seen, reqVars, trouble>>

-----------------------------------------------------------------------------
(* Home Assistant and the plug.                                            *)

\* Mutant: the automation of the end acts a minute late.
RunEnds_Late(t) ==
  \E e \in inForce[ThePlug].ends : e[2] < t /\ t < e[2] + Grace /\ changedAt < e[2]

\* The automations of a minute: the end of a run, for RUN_GRACE_S from its end,
\* if the plug is on since before it; and the fail-safe.
RunEnds(t) ==
  \E e \in inForce[ThePlug].ends : e[2] <= t /\ t < e[2] + Grace /\ changedAt < e[2]

FailSafe(t) == t - changedAt > MaxOn

MinutePasses ==
  /\ \A q \in Req : pc[q] \in {"idle", "done", "failed"} \/ now < deadline[q]
  /\ Tick
  /\ IF haUp /\ on /\ now' % Minute = 0 /\ (RunEnds(now') \/ FailSafe(now'))
       THEN on' = FALSE /\ by' = NoSet /\ changedAt' = now' /\ UNCHANGED haUp
       ELSE UNCHANGED plugVars
  /\ UNCHANGED <<armVars, seen, reqVars, trouble>>

HaStop ==
  /\ HaMayStop /\ haUp /\ Trouble /\ haUp' = FALSE
  /\ UNCHANGED <<storeVars, armVars, on, changedAt, by, seen, reqVars>>

\* A start restores the state with a new last_changed and reconciles: a plug
\* that is on outside a run is switched off; none is ever switched on.
HaStart ==
  /\ ~haUp /\ haUp' = TRUE /\ changedAt' = now
  /\ LET inRun == \E e \in inForce[ThePlug].ends : now < e[2] IN
     IF on /\ ~inRun THEN on' = FALSE /\ by' = NoSet ELSE UNCHANGED <<on, by>>
  /\ UNCHANGED <<storeVars, armVars, seen, reqVars, trouble>>

\* Somebody presses the button of the plug.
Press ==
  /\ haUp /\ Trouble
  /\ on' = ~on /\ by' = NoSet /\ changedAt' = now
  /\ UNCHANGED <<storeVars, armVars, haUp, seen, reqVars>>

\* The gateway's cache catches up.
Sync ==
  /\ haUp /\ seen # on /\ seen' = on
  /\ UNCHANGED <<storeVars, armVars, plugVars, reqVars, trouble>>

\* The rest of the service.
ServiceStep ==
  /\ ExpireRuns \/ Republish \/ Crash \/ Restart
  /\ UNCHANGED <<armVars, plugVars, seen, reqVars, trouble>>

-----------------------------------------------------------------------------
\* Everything is applied and claimed, the plug is off.
RunInit ==
  /\ StoreInit
  /\ inForce = Rendered /\ good = inForce /\ claim = <<1, inForce>>
  /\ haUp = TRUE /\ on = FALSE /\ changedAt = 0 /\ by = NoSet /\ seen = FALSE
  /\ pc = [q \in Req |-> "idle"] /\ mine = [q \in Req |-> NoSet]
  /\ deadline = [q \in Req |-> 0] /\ oldEnd = [q \in Req |-> 0] /\ closes = [q \in Req |-> 0]
  /\ trouble = 0

RequestStep(q) ==
  \/ \E r \in RunId, m \in Minutes : StartPost(q, r, m) \/ ExtendPost(q, r, m)
  \/ Poll(q) \/ TurnOn(q) \/ Withdraw(q) \/ ExtendPoll(q)
  \/ EndBegin(q) \/ OffBegin(q) \/ TurnOff(q) \/ ReadOff(q) \/ Close(q) \/ Delete(q)

RunNext ==
  \/ \E q \in Req : RequestStep(q)
  \/ ApplierStep \/ ServiceStep
  \/ MinutePasses \/ HaStop \/ HaStart \/ Press \/ Sync

RunSpec == RunInit /\ [][RunNext]_runVars

-----------------------------------------------------------------------------
(* Properties.                                                             *)

\* "From then on HA ends the run by itself, whatever happens to the gateway and
\* the service" (start_run): while the plug is on for a run that is still active,
\* Home Assistant holds an end of that run that applies to it.
StartedHasEnd ==
  haUp /\ on /\ by # NoSet /\ status[by] = "active" =>
    \E e \in inForce[ThePlug].ends : e[1] = by /\ changedAt < e[2]

\* The same for every run a plug was switched on for, whatever became of the run.
EndForEveryStart ==
  haUp /\ on /\ by # NoSet =>
    \E e \in inForce[ThePlug].ends : e[1] = by /\ changedAt < e[2]

\* A plug switched on for a run is off when the run's end, as it stands in the
\* service, is reached; only an absent Home Assistant delays it.
OffByEnd == haUp /\ on /\ by # NoSet /\ status[by] = "active" => now < endsAt[by]

\* Whatever the requests did, the fail-safe bounds how long the plug stays on.
FailSafeBound == haUp /\ on => now - changedAt < MaxOn + Minute

\* A run's time on is bounded, by its end and by the fail-safe, whatever the requests did.
RunIsBounded ==
  /\ TypesOK
  /\ OffByEnd
  /\ FailSafeBound

\* An extension is confirmed only before the end it moves, while Home Assistant
\* has not switched the plug off for the old end yet (RUN_MIN_REMAINING_S against
\* RUN_ARM_WAIT_S), and then the new end is what Home Assistant runs.
ExtensionInTime ==
  [][\A q \in Req :
       pc[q] = "moving" /\ pc'[q] = "done" /\ svc /\ Armed(mine[q])
         => now < oldEnd[q] /\ inForce[ThePlug].ends = {<<mine[q], endsAt[mine[q]]>>}]_runVars
=============================================================================
