------------------------------ MODULE Vacuums ------------------------------
(***************************************************************************)
(* A robot vacuum behind the gateway (portal/gateway/gw/core.py): starting *)
(* a plan, pausing, resuming, sending home, and the guard that for two     *)
(* minutes after a stop sends the robot home again when it starts anyway.  *)
(*                                                                         *)
(* A plan is a script of Home Assistant (mode: single) that orders the     *)
(* robot to start, room after room; an order may reach the robot long      *)
(* after the script has ended. The gateway decides on its cache, which     *)
(* follows Home Assistant in order but later; every call is awaited.       *)
(***************************************************************************)
EXTENDS Integers, Sequences

CONSTANTS
  Visitor,     \* requests that may be under way at once
  Scenario,    \* the plans of the robot's card
  GuardPolls,  \* STOP_GUARD_S in polls
  SendGap,     \* polls between two sends of the guard (8 s)
  MaxSends,    \* of one guard
  MaxMoves,    \* bound on requests, plans of the schedule, failed calls and lost links together
  MaxDelay     \* bound on the events the cache is behind

ASSUME VacuumNumbers ==
  {GuardPolls, SendGap, MaxSends, MaxMoves, MaxDelay} \subseteq Nat

VARIABLES
  robot,     \* "docked", "station" (drying on its base), "cleaning", "paused", "returning"
  plan,      \* what the script runs: a scenario, Scheduled or NoPlan
  order,     \* the plan's start command on its way: "none", "wanted", "stopped" (of a stopped plan)
  work,      \* what the robot cleans for, likewise
  seen,      \* the cache: [robot, script]
  events,    \* changes the cache has not seen: <<"robot", state>> or <<"script", on>>
  linked,    \* ~HA.stale()
  wish,      \* visitor -> the request and where it is
  guardian,  \* the guard: polls left, polls until it may send again, sends
  card,       \* vacuum_runs.scenario
  result,    \* vacuum_runs.last_result
  ended,     \* how the last plan ended: "home", "away", "person" (turned off), "stopped" (and the robot home)
  muddled,   \* two starts, or a stop and a resuming, at once; a start without confirmation; a plan that
             \* starts or ends as a stop is asked for; a change the link missed
  spoiled,       \* the guard has sent home a robot that was to clean
  moves

vacVars == <<robot, plan, order, work, seen, events, linked, wish, guardian, card, result, ended,
             muddled, spoiled, moves>>

NoPlan == "no plan"
Scheduled == "scheduled"
ASSUME ScenariosAreNamed == NoPlan \notin Scenario /\ Scheduled \notin Scenario

Nobody == [op |-> "none", at |-> "none", on |-> FALSE, was |-> "docked", scenario |-> NoPlan, ok |-> FALSE]
NoGuard == [left |-> 0, gap |-> 0, sends |-> 0]

VacInit ==
  /\ robot = "docked" /\ plan = NoPlan /\ order = "none" /\ work = "none"
  /\ seen = [robot |-> "docked", script |-> FALSE] /\ events = <<>> /\ linked = TRUE
  /\ wish = [v \in Visitor |-> Nobody] /\ guardian = NoGuard
  /\ card = NoPlan /\ result = "none" /\ ended = "home" /\ muddled = FALSE /\ spoiled = FALSE
  /\ moves = 0

\* _vstate.
VState(s) == IF s = "station" THEN "docked" ELSE s

\* What the card shows as running: vacuum_view. (Within six hours of a person's start its scenario.)
RunningScenario == IF ~seen.script THEN NoPlan ELSE IF card # NoPlan THEN card ELSE Scheduled

---------------------------------------------------------------------------
(* Home Assistant and the robot: what changes is an event for the cache *)

\* A request of this kind is under way.
Asked(op) == \E v \in Visitor : wish[v].op = op

Becomes(r, p) ==
  /\ robot' = r /\ plan' = p
  /\ LET out == (IF r # robot THEN <<<<"robot", r>>>> ELSE <<>>)
                \o (IF (p = NoPlan) # (plan = NoPlan) THEN <<<<"script", p # NoPlan>>>> ELSE <<>>)
     IN  IF linked THEN Len(events \o out) <= MaxDelay /\ events' = events \o out ELSE UNCHANGED events
  /\ muddled' = \/ muddled
                \/ ~linked /\ (p = NoPlan) # (plan = NoPlan)
                \/ plan = NoPlan /\ p # NoPlan /\ Asked("dock")

\* The robot gets the order it was given, perhaps by a plan that is over.
RobotStarts ==
  /\ order # "none" /\ VState(robot) = "docked"
  /\ Becomes("cleaning", plan) /\ work' = order /\ order' = "none"
  /\ UNCHANGED <<seen, linked, wish, guardian, card, result, ended, spoiled, moves>>

RobotGoesOn ==
  /\ \/ robot = "cleaning" /\ Becomes("returning", plan) /\ work' = "none"
     \/ robot = "returning" /\ (Becomes("docked", plan) \/ Becomes("station", plan)) /\ UNCHANGED work
     \/ robot = "station" /\ Becomes("docked", plan) /\ UNCHANGED work
  /\ UNCHANGED <<order, seen, linked, wish, guardian, card, result, ended, spoiled, moves>>

\* The script starts the next room, or ends: with the robot at home, or because it gave up.
PlanGoesOn ==
  /\ plan # NoPlan /\ order = "none" /\ VState(robot) = "docked"
  /\ order' = "wanted"
  /\ UNCHANGED <<robot, plan, work, seen, events, linked, wish, guardian, card, result, ended, muddled,
                 spoiled, moves>>

PlanEnds ==
  /\ plan # NoPlan /\ order # "wanted" /\ robot # "cleaning" /\ Becomes(robot, NoPlan)
  /\ ended' = IF VState(robot) = "docked" THEN "home" ELSE "away"
  /\ UNCHANGED <<order, work, seen, linked, wish, guardian, card, result, spoiled, moves>>

\* The rules of the schedule start the plan.
ScheduleStarts ==
  /\ plan = NoPlan /\ VState(robot) = "docked" /\ moves < MaxMoves /\ moves' = moves + 1
  /\ Becomes(robot, Scheduled) /\ order' = "wanted"
  /\ UNCHANGED <<work, seen, linked, wish, guardian, card, result, ended, spoiled>>

---------------------------------------------------------------------------
(* The cache *)

\* _on_ha_change, for the script.
Outcome(s) == IF VState(s) = "docked" THEN "finished" ELSE "interrupted"

EventSeen ==
  /\ linked /\ events # <<>> /\ events' = Tail(events)
  /\ LET what == Head(events)[1] value == Head(events)[2] IN
       /\ seen' = [seen EXCEPT ![what] = value]
       /\ result' = IF what = "script" /\ seen.script /\ ~value THEN Outcome(seen.robot) ELSE result
  /\ UNCHANGED <<robot, plan, order, work, linked, wish, guardian, card, ended, muddled, spoiled, moves>>

LinkDown ==
  /\ linked /\ moves < MaxMoves /\ moves' = moves + 1
  /\ linked' = FALSE /\ events' = <<>> /\ muddled' = (muddled \/ \E i \in DOMAIN events : events[i][1] = "script")
  /\ UNCHANGED <<robot, plan, order, work, seen, wish, guardian, card, result, ended, spoiled>>

\* refresh_all, in the order of the names: the script before the robot.
LinkUp ==
  /\ ~linked /\ linked' = TRUE
  /\ seen' = [robot |-> robot, script |-> plan # NoPlan]
  /\ result' = IF seen.script /\ plan = NoPlan THEN Outcome(seen.robot) ELSE result
  /\ UNCHANGED <<robot, plan, order, work, events, wish, guardian, card, ended, muddled, spoiled, moves>>

---------------------------------------------------------------------------
(* Requests. A call that fails ends the request with an error. *)

Asks(v, w) ==
  /\ wish[v] = Nobody /\ moves < MaxMoves /\ linked
  /\ wish' = [wish EXCEPT ![v] = w] /\ moves' = moves + 1
  /\ UNCHANGED <<robot, plan, order, work, seen, events, linked, card, result, ended, spoiled>>

\* start_scenario: the checks; then the call, the wait, the row.
StartScenario(v, s) ==
  /\ VState(seen.robot) = "docked" /\ ~seen.script
  /\ Asks(v, [Nobody EXCEPT !.op = "start", !.at = "call", !.scenario = s])
  /\ muddled' = (muddled \/ Asked("start"))
  /\ UNCHANGED guardian

\* dock, and pause of a plan whose robot has not left: the steps depend on what was seen first.
Dock(v) ==
  /\ Asks(v, [Nobody EXCEPT !.op = "dock", !.on = seen.script, !.was = VState(seen.robot),
                            !.at = IF seen.script THEN "off" ELSE IF VState(seen.robot) # "docked" THEN "home" ELSE "robot"])
  /\ muddled' = \/ muddled \/ Asked("resume")
                \/ \E i \in DOMAIN events : events[i][1] = "script"
  /\ UNCHANGED guardian

Pause(v) ==
  /\ VState(seen.robot) = "cleaning"
  /\ Asks(v, [Nobody EXCEPT !.op = "pause", !.at = "call"])
  /\ UNCHANGED <<muddled, guardian>>

Resume(v) ==
  /\ seen.robot = "paused"
  /\ Asks(v, [Nobody EXCEPT !.op = "resume", !.at = "call"])
  /\ guardian' = NoGuard
  /\ muddled' = (muddled \/ Asked("dock"))

Goes(v, at) == wish' = [wish EXCEPT ![v].at = at]
Leaves(v) == wish' = [wish EXCEPT ![v] = Nobody]

\* Home Assistant does not answer: 503, and nothing has happened there.
CallFails(v) ==
  /\ wish[v].at \in {"call", "off", "home"} /\ moves < MaxMoves /\ moves' = moves + 1
  /\ Leaves(v)
  /\ UNCHANGED <<robot, plan, order, work, seen, events, linked, guardian, card, result, ended, muddled,
                 spoiled>>

\* script.turn_on; a script that runs ignores it.
TurnOn(v) ==
  /\ wish[v].op = "start" /\ wish[v].at = "call" /\ Goes(v, "wait")
  /\ IF plan = NoPlan THEN Becomes(robot, wish[v].scenario) /\ order' = "wanted"
     ELSE UNCHANGED <<robot, plan, events, order>> /\ muddled' = (muddled \/ plan # wish[v].scenario)
  /\ UNCHANGED <<work, seen, linked, guardian, card, result, ended, spoiled, moves>>

\* The read-back: only a script that is seen on is noted.
StartEnds(v) ==
  /\ wish[v].op = "start" /\ wish[v].at = "wait" /\ Leaves(v)
  /\ card' = (IF seen.script THEN wish[v].scenario ELSE card) /\ muddled' = (muddled \/ ~seen.script)
  /\ UNCHANGED <<robot, plan, order, work, seen, events, linked, guardian, result, ended, spoiled, moves>>

Stopped(o) == IF o = "wanted" THEN "stopped" ELSE o

TurnOff(v) ==
  /\ wish[v].at = "off" /\ Goes(v, "home")
  /\ Becomes(robot, NoPlan) /\ order' = Stopped(order) /\ work' = Stopped(work)
  /\ ended' = "person"
  /\ UNCHANGED <<seen, linked, guardian, card, result, spoiled, moves>>

Home(r) == IF r \in {"cleaning", "paused"} THEN "returning" ELSE r

\* vacuum.return_to_base, then the guard.
ReturnToBase(v) ==
  /\ wish[v].at = "home" /\ Goes(v, "robot")
  /\ Becomes(Home(robot), plan) /\ work' = IF robot \in {"cleaning", "paused"} THEN "none" ELSE work
  /\ guardian' = IF wish[v].on \/ wish[v].was = "cleaning" THEN [left |-> GuardPolls, gap |-> 0, sends |-> 0] ELSE guardian
  /\ UNCHANGED <<order, seen, linked, card, result, ended, spoiled, moves>>

\* The two waits of dock, and the result of a plan it stopped.
DockSees(v) ==
  /\ wish[v].at = "robot"
  /\ wish' = [wish EXCEPT ![v].at = "script", ![v].ok = seen.robot \in {"returning", "docked"}]
  /\ UNCHANGED <<robot, plan, order, work, seen, events, linked, guardian, card, result, ended, muddled,
                 spoiled, moves>>

\* Mutant: the result is noted whether a plan was stopped or not.
DockEnds_NoPlan(v) ==
  /\ wish[v].at = "script" /\ Leaves(v)
  /\ LET halted == wish[v].ok /\ ~seen.script IN
       /\ result' = IF halted THEN "stopped" ELSE result
       /\ ended' = IF halted /\ ended = "person" THEN "stopped" ELSE ended
  /\ UNCHANGED <<robot, plan, order, work, seen, events, linked, guardian, card, muddled, spoiled,
                 moves>>

DockEnds(v) ==
  /\ wish[v].at = "script" /\ Leaves(v)
  /\ LET halted == wish[v].on /\ wish[v].ok /\ ~seen.script IN
       /\ result' = IF halted THEN "stopped" ELSE result
       /\ ended' = IF halted /\ ended = "person" THEN "stopped" ELSE ended
  /\ UNCHANGED <<robot, plan, order, work, seen, events, linked, guardian, card, muddled, spoiled,
                 moves>>

PauseCalls(v) ==
  /\ wish[v].op = "pause" /\ wish[v].at = "call" /\ Leaves(v)
  /\ Becomes(IF robot = "cleaning" THEN "paused" ELSE robot, plan)
  /\ UNCHANGED <<order, work, seen, linked, guardian, card, result, ended, spoiled, moves>>

\* vacuum.start: a robot that is no longer paused starts to clean all the same.
ResumeCalls(v) ==
  /\ wish[v].op = "resume" /\ wish[v].at = "call" /\ Leaves(v)
  /\ Becomes("cleaning", plan) /\ work' = "wanted"
  /\ UNCHANGED <<order, seen, linked, guardian, card, result, ended, spoiled, moves>>

---------------------------------------------------------------------------
(* The guard: one poll of _start_stop_guard.run *)

Due == VState(seen.robot) = "cleaning" /\ guardian.sends < MaxSends /\ guardian.gap = 0

GuardPasses ==
  /\ guardian.left > 0 /\ (~linked \/ (~seen.script /\ ~Due))
  /\ guardian' = [guardian EXCEPT !.left = @ - 1, !.gap = IF @ > 0 THEN @ - 1 ELSE 0]
  /\ UNCHANGED <<robot, plan, order, work, seen, events, linked, wish, card, result, ended, muddled, spoiled, moves>>

\* A plan started on purpose ends the guard.
GuardYields ==
  /\ guardian.left > 0 /\ linked /\ seen.script /\ guardian' = NoGuard
  /\ UNCHANGED <<robot, plan, order, work, seen, events, linked, wish, card, result, ended, muddled, spoiled,
                 moves>>

\* Sends the robot home; a failed call is tried again at the next poll.
GuardSends ==
  /\ guardian.left > 0 /\ linked /\ ~seen.script /\ Due
  /\ \/ /\ moves < MaxMoves /\ moves' = moves + 1
        /\ guardian' = [guardian EXCEPT !.left = @ - 1]
        /\ UNCHANGED <<robot, plan, events, work, muddled, spoiled>>
     \/ /\ guardian' = [left |-> guardian.left - 1, gap |-> SendGap, sends |-> guardian.sends + 1]
        /\ Becomes(Home(robot), plan) /\ work' = IF robot \in {"cleaning", "paused"} THEN "none" ELSE work
        /\ spoiled' = (spoiled \/ (robot = "cleaning" /\ work = "wanted"))
        /\ UNCHANGED moves
  /\ UNCHANGED <<order, seen, linked, wish, card, result, ended>>

VacNext ==
  \/ RobotStarts \/ RobotGoesOn \/ PlanGoesOn \/ PlanEnds \/ ScheduleStarts
  \/ EventSeen \/ LinkDown \/ LinkUp
  \/ \E v \in Visitor :
       \/ \E s \in Scenario : StartScenario(v, s)
       \/ Dock(v) \/ Pause(v) \/ Resume(v) \/ CallFails(v)
       \/ TurnOn(v) \/ StartEnds(v) \/ TurnOff(v) \/ ReturnToBase(v) \/ DockSees(v) \/ DockEnds(v)
       \/ PauseCalls(v) \/ ResumeCalls(v)
  \/ GuardPasses \/ GuardYields \/ GuardSends

VacSpec == VacInit /\ [][VacNext]_vacVars

---------------------------------------------------------------------------
(* Properties *)

Calm == linked /\ events = <<>> /\ \A v \in Visitor : wish[v] = Nobody

VacTypeOK ==
  /\ robot \in {"docked", "station", "cleaning", "paused", "returning"}
  /\ plan \in Scenario \cup {Scheduled, NoPlan} /\ {order, work} \subseteq {"none", "wanted", "stopped"}
  /\ guardian \in [left : 0..GuardPolls, gap : 0..SendGap, sends : 0..MaxSends]
  /\ card \in Scenario \cup {NoPlan} /\ result \in {"none", "finished", "interrupted", "stopped"}
  /\ work # "none" => robot \in {"cleaning", "paused"}

\* The guard of a stop does not send home a robot that a person resumed or a new plan started,
\* unless the stop and the resuming or the start were under way together.
GuardSparesPeople == spoiled => muddled

\* The card shows a plan when one runs, and a scenario that runs by its name.
CardNamesPlan ==
  Calm =>
    /\ RunningScenario = NoPlan <=> plan = NoPlan
    /\ plan \in Scenario => RunningScenario = plan \/ muddled

\* What is told of the last plan is how it ended; a plan that a person turned off without its
\* robot seen at home may be told in any way.
ResultIsTrue ==
  Calm /\ ~muddled /\ plan = NoPlan =>
    /\ ended = "stopped" => result = "stopped"
    /\ ended = "home" => result \in {"none", "finished"}
    /\ ended = "away" => result = "interrupted"

\* The guard of a stop leaves people alone, and the card tells of the plan that runs or ran.
VacuumsSafe ==
  /\ VacTypeOK
  /\ GuardSparesPeople
  /\ CardNamesPlan
  /\ ResultIsTrue
=============================================================================
