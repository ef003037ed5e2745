------------------------------ MODULE PlugAlerts ------------------------------
(***************************************************************************)
(* What ha-alerts (_system/ha-alerts/ha-alerts.py) says of a plug with a   *)
(* schedule. Every run is a process of its own: it reads the schedules of  *)
(* today from the snapshot (or its own copy) and judges the recorded state *)
(* of the plug. A tick is the half hour after which a plug that is still   *)
(* on counts as stuck; what happens within the grace times is one tick.    *)
(***************************************************************************)
EXTENDS Integers, FiniteSets

CONSTANTS
  DayLen,      \* ticks of a day
  Timetables,  \* what the schedule can be: kind of day -> windows [from, to) of its minutes
  StuckAfter, StuckMax,  \* STUCK_AFTER_EDGE, STUCK_WINDOW_MAX
  ForeignKeep, \* FOREIGN_KEEP
  Ceiling,     \* DRYER_CEILING_SECS
  LastTickP,    \* bound on the time
  MaxEventsP    \* bound on what persons and faults do

ASSUME PlugAlertNumbers ==
  /\ {DayLen, StuckAfter, StuckMax, ForeignKeep, Ceiling, LastTickP, MaxEventsP} \subseteq Nat
  /\ DayLen > 0 /\ StuckMax > 0
  /\ Timetables \subseteq [{0, 1} -> SUBSET ((0..DayLen) \X (0..DayLen))]
  /\ \A tt \in Timetables : \A w \in tt[0] \cup tt[1] : w[1] < w[2]

VARIABLES
  tickP,       \* the time
  timetable,  \* the schedule in force, in the portal and in Home Assistant
  editedAt,   \* when it was last changed
  snapshot,   \* the snapshot file can be read
  copied,     \* the copy of the last good snapshot: a set of at most one timetable
  plug,       \* recorded state of the plug and since when
  load,       \* it draws power, and since when
  byHa,       \* times of changes that Home Assistant made at an edge
  haStarts,   \* times at which Home Assistant started
  openP,      \* open alerts: <<kind, time of the change or -1>>
  polledP, eventsP

plugVars == <<tickP, timetable, editedAt, snapshot, copied, plug, load, byHa, haStarts, openP, polledP, eventsP>>

WeekDay(t) == (t \div DayLen) % 2
Clock(t) == t % DayLen

\* Edges of a timetable on the day of a time.
Edges(tt, t) == {<<w[1], "start">> : w \in tt[WeekDay(t)]} \cup {<<w[2], "end">> : w \in tt[WeekDay(t)]}
Expected(tt, t) == IF \E w \in tt[WeekDay(t)] : w[1] <= Clock(t) /\ Clock(t) < w[2] THEN "on" ELSE "off"

PlugInit ==
  /\ tickP = 0 /\ timetable \in Timetables /\ editedAt = 0
  /\ snapshot = TRUE /\ copied = {} /\ plug = [state |-> Expected(timetable, 0), at |-> -ForeignKeep]
  /\ load = [draws |-> TRUE, at |-> -ForeignKeep]
  /\ byHa = {} /\ haStarts = {} /\ openP = {} /\ polledP = FALSE /\ eventsP = 0

---------------------------------------------------------------------------
(* The house *)

Becomes(s) == plug' = IF s = plug.state THEN plug ELSE [state |-> s, at |-> tickP']

\* Home Assistant switches at every edge; a command may not reach the plug.
AtEdge(tt, t) ==
  Clock(t) \in {e[1] % DayLen : e \in Edges(tt, t) \cup {f \in Edges(tt, t - 1) : f[1] = DayLen}}

TickP ==
  /\ polledP /\ tickP < LastTickP /\ tickP' = tickP + 1 /\ polledP' = FALSE
  /\ \/ AtEdge(timetable, tickP') /\ plug.state # "unavailable" /\ Becomes(Expected(timetable, tickP'))
        /\ byHa' = byHa \cup {tickP'}
     \/ UNCHANGED <<plug, byHa>>
  /\ UNCHANGED <<timetable, editedAt, snapshot, copied, load, haStarts, openP, eventsP>>

Event == eventsP < MaxEventsP /\ eventsP' = eventsP + 1 /\ polledP' = FALSE /\ UNCHANGED <<tickP, openP, copied, byHa>>

PlugTurns(s) ==
  /\ Event /\ s # plug.state /\ Becomes(s)
  /\ UNCHANGED <<timetable, editedAt, snapshot, load, haStarts>>

HaRestarts(s) ==
  /\ Event /\ haStarts' = haStarts \cup {tickP} /\ Becomes(s)
  /\ UNCHANGED <<timetable, editedAt, snapshot, load>>

LoadTurns ==
  /\ Event /\ load' = [draws |-> ~load.draws, at |-> tickP]
  /\ UNCHANGED <<timetable, editedAt, snapshot, plug, haStarts>>

Edited(tt) ==
  /\ Event /\ snapshot /\ tt # timetable /\ timetable' = tt /\ editedAt' = tickP
  /\ UNCHANGED <<snapshot, plug, load, haStarts>>

SnapshotBreaks ==
  /\ Event /\ snapshot' = ~snapshot
  /\ UNCHANGED <<timetable, editedAt, plug, load, haStarts>>

---------------------------------------------------------------------------
(* What a run works out *)

\* init_schedules: the snapshot, else the copy, else nothing.
ReadSchedules == IF snapshot THEN {timetable} ELSE copied

\* last_edge: kind and age of the latest edge; before the first edge of the day, that of the day
\* before, taken from the windows of today. Without windows there is none.
LastEdge(tt) ==
  LET edges == Edges(tt, tickP)
      past == {e \in edges : e[1] <= Clock(tickP)}
      latest(E) == CHOOSE e \in E : \A f \in E : f[1] <= e[1]
  IN  IF edges = {} THEN [kind |-> "end", age |-> LastTickP + StuckMax]
      ELSE IF past # {} THEN [kind |-> latest(past)[2], age |-> Clock(tickP) - latest(past)[1]]
      ELSE [kind |-> latest(edges)[2], age |-> Clock(tickP) + DayLen - latest(edges)[1]]

\* Mutant: only switch-on edges are Home Assistant's.
NearEdge_Start(tt, t) == \E e \in Edges(tt, tickP) : e[2] = "start" /\ e[1] % DayLen = Clock(t)

\* near_edge: the change is at an edge of today, on whichever day it was.
NearEdge(tt, t) == \E e \in Edges(tt, tickP) : e[1] % DayLen = Clock(t)

\* A change that Home Assistant did not make.
Foreign(tt) ==
  /\ plug.state \in {"on", "off"} /\ tickP - plug.at < ForeignKeep
  /\ ~NearEdge(tt, plug.at) /\ plug.at \notin haStarts

\* Mutant: any change away from the edges counts as listed.
Mismatch_Edges(tt) ==
  /\ plug.state # Expected(tt, tickP) /\ tickP - plug.at >= 1 /\ LastEdge(tt).age >= 1
  /\ NearEdge(tt, plug.at)

\* Against the schedule, and no foreign change says so already.
Mismatch(tt) ==
  /\ plug.state # Expected(tt, tickP) /\ tickP - plug.at >= 1 /\ LastEdge(tt).age >= 1
  /\ ~Foreign(tt)

StuckOn(tt) ==
  /\ plug.state = "on" /\ Expected(tt, tickP) = "off"
  /\ LastEdge(tt).kind = "end" /\ LastEdge(tt).age \in StuckAfter..StuckMax

When(holds, kind) == IF holds THEN {<<kind, -1>>} ELSE {}

Raised(tt) ==
  When(Mismatch(tt), "mismatch") \cup When(StuckOn(tt), "stuck")
    \cup When(plug.state = "on" /\ tickP - plug.at > Ceiling, "runaway")
    \cup When(plug.state = "on" /\ tickP - plug.at >= 1 /\ ~load.draws /\ tickP - load.at >= 1, "zeroPower")
    \cup IF Foreign(tt) THEN {<<"foreign", plug.at>>} ELSE {}

\* Foreign changes are listed for a day.
Old == {k \in openP : k[1] = "foreign" /\ tickP - k[2] > ForeignKeep}

Unavailable == plug.state = "unavailable"

\* evaluate, check_plugs. An unavailable plug keeps its alerts; without schedules no plug is judged.
JudgesPlug ==
  /\ ~polledP /\ polledP' = TRUE
  /\ copied' = ReadSchedules
  /\ openP' = IF ReadSchedules = {} THEN (openP \ Old) \cup {<<"noSchedules", -1>>}
              ELSE LET tt == CHOOSE x \in ReadSchedules : TRUE
                       kept == openP \ (Old \cup {<<"noSchedules", -1>>, <<"unavail", -1>>})
                   IN  IF Unavailable
                       THEN kept \cup When(tickP - plug.at > 2, "unavail")
                       ELSE {k \in kept : k[1] = "foreign"} \cup Raised(tt)
  /\ UNCHANGED <<tickP, timetable, editedAt, snapshot, plug, load, byHa, haStarts, eventsP>>

PlugNext ==
  \/ TickP \/ LoadTurns \/ SnapshotBreaks \/ JudgesPlug
  \/ \E s \in {"on", "off", "unavailable"} : PlugTurns(s)
  \/ \E s \in {"on", "off"} : HaRestarts(s)
  \/ \E tt \in Timetables : Edited(tt)

PlugSpec == PlugInit /\ [][PlugNext]_plugVars

---------------------------------------------------------------------------
(* Properties *)

PlugTypeOK ==
  /\ tickP \in 0..LastTickP /\ eventsP \in 0..MaxEventsP /\ editedAt \in 0..tickP
  /\ Cardinality(copied) <= 1 /\ copied \subseteq Timetables
  /\ plug.state \in {"on", "off", "unavailable"} /\ plug.at <= tickP
  /\ \A k \in openP : k[1] = "foreign" => k[2] \in tickP - ForeignKeep - 1..tickP
  /\ <<"noSchedules", -1>> \in openP => copied = {}

\* When a run knows the schedule, a plug that is against it for more than a tick is listed, as a
\* mismatch or as the change that brought it there, whatever day that change was made.
ContradictionListed ==
  polledP /\ copied = {timetable} /\ ~Unavailable /\ plug.state # Expected(timetable, tickP)
    /\ tickP - plug.at >= 1 /\ ~AtEdge(timetable, tickP)
  => <<"mismatch", -1>> \in openP \/ <<"foreign", plug.at>> \in openP

\* The latest switch-off of the schedule before now, in absolute time, when none but it passed since.
SwitchOff(t) == t >= 0 /\ Expected(timetable, t) = "off" /\ Expected(timetable, t - 1) = "on"
OffSince(t) == \A u \in t..tickP : Expected(timetable, u) = "off"

Overdue(t) ==
  /\ polledP /\ copied = {timetable} /\ editedAt <= t /\ plug.state = "on"
  /\ SwitchOff(t) /\ OffSince(t) /\ tickP - t \in StuckAfter..StuckMax

\* "A: towel dryer / UV lamp still ON 30 min after its scheduled OFF edge" (ha-alerts): such an alert
\* is open for the end of a window of today, and across midnight when the days have the same windows.
StuckIsToldThatDay ==
  \A t \in 1..tickP :
    Overdue(t) /\ (tickP \div DayLen = (t - 1) \div DayLen \/ timetable[0] = timetable[1]) => <<"stuck", -1>> \in openP

\* What Home Assistant did at an edge becomes listed as a foreign change only when the schedule
\* was edited since, is read from an older copy, or today has other edges than the day that edge
\* belongs to.
NewForeign == {k \in openP' \ openP : k[1] = "foreign"}
EdgesAreNotForeign ==
  \A k \in NewForeign :
    k[2] \in byHa => \/ editedAt >= k[2] \/ copied' # {timetable}
                     \/ (\E t \in {k[2] - 1, k[2]} : Edges(timetable, t) # Edges(timetable, tickP))

\* A plug that is against its schedule is listed, and one that stays on after its end is told.
PlugAlertsSafe ==
  /\ PlugTypeOK
  /\ ContradictionListed
  /\ StuckIsToldThatDay
=============================================================================
