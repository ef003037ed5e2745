---------------------------- MODULE VacuumAlerts ----------------------------
(***************************************************************************)
(* What ha-alerts (_system/ha-alerts/ha-alerts.py) tells of a robot with a *)
(* plan. Every run judges the recorded history of the robot and of its     *)
(* script as of now; alerts stay open from run to run (Notify). One tick   *)
(* is the half hour after which a robot off its dock counts as stuck.      *)
(***************************************************************************)
EXTENDS Integers, Sequences

CONSTANTS
  DayTicks,    \* ticks of a day
  PlanTimes,   \* PLAN_TIMES of the script: ticks of the day
  DueGrace,    \* PLAN_DUE_GRACE
  Hung,        \* PLAN_HUNG_SECS
  QuietAfter, EscalateAfter, \* VACUUM_UNAVAIL_QUIET_SECS, VACUUM_UNAVAIL_ESCALATE_SECS
  Horizon,     \* the 24 h of recent incidents and failed runs
  RunHorizon,  \* the 12 h of the last run, and how long before it an incident counts
  LastPoll,    \* bound on the time
  MaxTurns     \* bound on what happens to the robot and to its script

ASSUME VacuumAlertNumbers ==
  {DayTicks, DueGrace, Hung, QuietAfter, EscalateAfter, Horizon, RunHorizon, LastPoll, MaxTurns} \subseteq Nat

VARIABLES
  nowV,      \* the time
  states,    \* the recorded states of the robot: <<[at, state], ...>>
  planRuns,  \* the runs of the script: [start, end (or -1), done, stopped]
  openV,     \* alerts of the robot that are open
  toldV,     \* messages: <<alert, time>>
  polledV,   \* a run has judged what is there now
  turns

vaVars == <<nowV, states, planRuns, openV, toldV, polledV, turns>>

StuckStates == {"paused"}   \* and error, idle

\* Tier B: told at once; tier C is a line of the heartbeat.
Loud == {"stuck", "unavail", "hung", "failed"}

RobotIs == states[Len(states)].state
Age == nowV - states[Len(states)].at
Running == planRuns # <<>> /\ planRuns[Len(planRuns)].end = -1

VaInit ==
  /\ nowV = 0 /\ states = <<[at |-> 0, state |-> "docked"]>> /\ planRuns = <<>>
  /\ openV = {} /\ toldV = {} /\ polledV = FALSE /\ turns = 0

---------------------------------------------------------------------------
(* The house *)

Turn == turns < MaxTurns /\ turns' = turns + 1 /\ polledV' = FALSE /\ UNCHANGED <<nowV, openV, toldV>>

RobotTurns(s) ==
  /\ Turn /\ s # RobotIs
  /\ s = "cleaning" => RobotIs # "docked" \/ Running
  /\ states' = Append(states, [at |-> nowV, state |-> s])
  /\ UNCHANGED planRuns

PlanStarts ==
  /\ Turn /\ ~Running
  /\ planRuns' = Append(planRuns, [start |-> nowV, end |-> -1, done |-> FALSE, stopped |-> FALSE])
  /\ UNCHANGED states

\* With its last line in the logbook, stopped through the gateway (stops.jsonl), or neither.
PlanStops(how) ==
  /\ Turn /\ Running
  /\ planRuns' = [planRuns EXCEPT ![Len(planRuns)] =
                    [start |-> @.start, end |-> nowV, done |-> how = "done", stopped |-> how = "person"]]
  /\ UNCHANGED states

HalfHour ==
  /\ polledV /\ nowV < LastPoll /\ nowV' = nowV + 1 /\ polledV' = FALSE
  /\ UNCHANGED <<states, planRuns, openV, toldV, turns>>

---------------------------------------------------------------------------
(* What the history says *)

\* Ctx.transitions, Ctx.periods: stretches of the given states, at least a tick long, that reach
\* into the time after since; an open one ends now. The first is cut off at since.
Period(since, S) ==
  {p \in [from : 0..nowV, to : 0..nowV] :
     \E i \in DOMAIN states :
       LET from == IF states[i].at < since THEN since ELSE states[i].at
           to == IF i < Len(states) THEN states[i + 1].at ELSE nowV
       IN  states[i].state \in S /\ to >= since /\ p.from = from /\ p.to = to /\ to - from >= 1}

Incidents(since) == Period(since, StuckStates)

\* recent_runs: running, or ended within the horizon.
Recently(r, horizon) == r.end = -1 \/ nowV - r.end < horizon

\* failed_runs: ended without the end marker, and no person stopped it.
FailedRun(r) == r.end # -1 /\ ~r.done /\ ~r.stopped
RecentFail == \E i \in DOMAIN planRuns : Recently(planRuns[i], Horizon) /\ FailedRun(planRuns[i])

DueNow ==
  \E m \in PlanTimes :
    LET late == (nowV - m) % DayTicks
    IN  late <= DueGrace /\ states[Len(states)].at < nowV - late

\* recent_runs(..)[-1]. The runs of a script follow one another: if any is recent, the last one is.
LastRun == planRuns[Len(planRuns)]
RanLately == planRuns # <<>> /\ Recently(LastRun, RunHorizon)

\* Mutant: an incident that was over before the plan counts too.
HadIncident_Before(r) == Period(r.start - RunHorizon, StuckStates \cup {"unavailable"}) # {}

\* Stuck or unavailable for half an hour, up to the start of the plan or later.
HadIncident(r) ==
  \E p \in Period(r.start - RunHorizon, StuckStates \cup {"unavailable"}) : p.to >= r.start

---------------------------------------------------------------------------
(* check_vacuums *)

IsStuck == RobotIs \in StuckStates /\ Age >= 1
Gone == RobotIs = "unavailable"
Escalates == Age >= EscalateAfter \/ DueNow

\* Unavailable is part of an open incident when the robot was stuck, or its plan failed, before.
RaisedOfRobot ==
  {k \in {"stuck", "unavailQuiet", "unavail"} :
     CASE k = "stuck" -> IsStuck
       [] k = "unavailQuiet" -> Gone /\ Age >= QuietAfter
       [] k = "unavail" -> Gone /\ Escalates /\ Incidents(nowV - Horizon) = {} /\ ~RecentFail}

\* An unavailable robot keeps its incident open.
ClearedOfRobot == IF Gone THEN {} ELSE {"stuck", "unavail", "unavailQuiet"} \ RaisedOfRobot

Ended(r) == r.end # -1 /\ nowV - r.end >= 1 /\ ~r.done
RaisedOfPlan ==
  IF ~RanLately THEN {}
  ELSE {k \in {"hung", "failed", "failedQuiet"} :
          CASE k = "hung" -> LastRun.end = -1 /\ nowV - LastRun.start > Hung /\ ~HadIncident(LastRun)
            [] k = "failed" -> Ended(LastRun) /\ ~LastRun.stopped /\ ~HadIncident(LastRun)
            [] k = "failedQuiet" -> Ended(LastRun) /\ (LastRun.stopped \/ HadIncident(LastRun))}

\* An earlier failure stays listed while the quiet line tells of an incident.
ClearedOfPlan ==
  {"hung", "failed", "failedQuiet"} \ (RaisedOfPlan \cup
     IF RanLately /\ Ended(LastRun) /\ ~LastRun.stopped THEN {"failed", "failedQuiet"}
     ELSE IF RanLately /\ Ended(LastRun) THEN {"failedQuiet"} ELSE {})

Judges ==
  /\ ~polledV /\ polledV' = TRUE
  /\ LET raised == RaisedOfRobot \cup RaisedOfPlan IN
       /\ openV' = (openV \ (ClearedOfRobot \cup ClearedOfPlan)) \cup raised
       /\ toldV' = toldV \cup {<<k, nowV>> : k \in (raised \cap Loud) \ openV}
  /\ UNCHANGED <<nowV, states, planRuns, turns>>

VaNext ==
  \/ \E s \in {"docked", "cleaning", "paused", "unavailable"} : RobotTurns(s)
  \/ PlanStarts \/ \E how \in {"done", "person", "neither"} : PlanStops(how)
  \/ HalfHour \/ Judges

VaSpec == VaInit /\ [][VaNext]_vaVars

---------------------------------------------------------------------------
(* Properties *)

VaTypeOK ==
  /\ nowV \in 0..LastPoll /\ turns \in 0..MaxTurns
  /\ openV \subseteq {"stuck", "unavail", "hung", "failed", "unavailQuiet", "failedQuiet"}
  /\ toldV \subseteq {"stuck", "unavail", "hung", "failed"} \X (0..nowV)
  /\ \A i \in 1..Len(states) - 1 : states[i].at <= states[i + 1].at /\ states[i].state # states[i + 1].state

\* All that the robot did between two times is to get into such states.
OnlyBecame(t, u, S) == \A i \in DOMAIN states : states[i].at \in t..u => states[i].state \in S

\* "ONE message per incident": while a robot that was told as stuck stands where it is, or is not
\* there any more, nothing else is told of it or of the plan it interrupted, for a day. (One that
\* comes back from unavailable and still stands is a new incident to the code.)
OneMessagePerIncident ==
  \A m, n \in toldV :
    m[1] = "stuck" /\ m[2] < n[2] /\ n[2] < m[2] + Horizon => ~OnlyBecame(m[2], n[2], {"unavailable"})

\* A plan that a robot did not finish, and what was told of it: a message since shortly before it,
\* or one of a robot that has not moved from there to the start of the plan.
Unfinished(r) == FailedRun(r) /\ Ended(r) /\ Recently(r, RunHorizon) /\ r = planRuns[Len(planRuns)]
ToldOf(r) ==
  \E m \in toldV :
    m[2] >= r.start - RunHorizon \/ OnlyBecame(m[2], r.start - 1, StuckStates \cup {"unavailable"})

\* "B: plan did not finish, unless an incident already told Ivan about it" (check_vacuums): of the
\* latest plan that did not finish something is told, unless the robot was unavailable for half an
\* hour around the plan, or stuck so shortly (less than two ticks) that no run saw it stuck.
UnfinishedIsToldUnlessGone ==
  polledV => \A i \in DOMAIN planRuns :
    LET r == planRuns[i] IN
      Unfinished(r) => \/ ToldOf(r)
                       \/ Period(r.start - RunHorizon, {"unavailable"}) # {}
                       \/ \E p \in Incidents(r.start - RunHorizon) : p.to >= r.start /\ p.to - p.from < 2

\* A robot's trouble is told, and told once, whatever order its states and the polls come in.
VacuumAlertsSafe ==
  /\ VaTypeOK
  /\ OneMessagePerIncident
  /\ UnfinishedIsToldUnlessGone
=============================================================================
