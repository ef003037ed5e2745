------------------------------ MODULE ChildLists ------------------------------
(***************************************************************************)
(* The data of the child policy that its parents and its releases change   *)
(* (sched/child_store.py): the allow and deny list of each device with its *)
(* undo, the import of the old policy until the cutover, and the move of   *)
(* Maps into the always-open set with its roll-back (tools/live_maps.py).  *)
(* One request runs at a time. Of a window only its targets count, of the  *)
(* exceptions those for Maps.                                              *)
(***************************************************************************)
EXTENDS Naturals, FiniteSets

CONSTANTS
  Tablet,      \* the devices there may be
  Host,        \* the domains that lists may name
  Needed,      \* those whose block would hit an always-on host
  MapsHosts,   \* MAPS_DOMAINS
  Payloads,    \* what may be imported: devices, and the house-wide lists
  NoTablet, NoRowYet, NoDefinition,
  MaxChangesCL \* bound on changes

Target == {"maps", "youtube"}  \* what a window opens

ASSUME ListConstants == Needed \subseteq Host /\ MaxChangesCL \in Nat

\* Each device of a payload has its lists and windows.
ASSUME PayloadsAreLists ==
  \A p \in Payloads : \A d \in DOMAIN p.devices :
    p.devices[d] \in [allow : SUBSET Host, deny : SUBSET Host, opens : SUBSET Target]

VARIABLES
  child,     \* device -> its lists, the targets of its windows, its exception for Maps
  house,     \* child_lists: the domains always open, and those of weekdays
  cutover,
  serving,   \* the release that serves: "old" or "new"
  lastRow,   \* device -> the last audit row of a domain change
  mapsRow,   \* the before-state in the audit row of the last migration
  definition, \* device -> its row of child_removed
  changesCL,
  renewed,   \* devices imported or created anew since that row
  legacy,    \* old data came in since the last migration
  migration, \* "fresh" or "reverted" until the next change of the data
  priorData  \* what the last migration found

listVars == <<child, house, cutover, serving, lastRow, mapsRow, definition, changesCL, renewed, legacy, migration, priorData>>

NoException == [status |-> "none", runs |-> FALSE]
Standing == {d \in Tablet : child[d] # NoTablet}
ListsOf(d) == [allow |-> child[d].allow, deny |-> child[d].deny]

\* The data the previous release left: Maps has windows and an exception, and weekday domains.
ListInit ==
  /\ \E open \in [Tablet -> {{"maps"}, {"maps", "youtube"}}] :
       child = [d \in Tablet |-> [allow |-> {}, deny |-> {}, opens |-> open[d],
                                  exception |-> [status |-> "active", runs |-> TRUE]]]
  /\ house = [always |-> {}, weekdays |-> MapsHosts] /\ cutover = FALSE
  /\ serving = "old" /\ mapsRow = NoRowYet /\ priorData = NoRowYet
  /\ lastRow = [d \in Tablet |-> NoRowYet] /\ definition = [d \in Tablet |-> NoDefinition]
  /\ changesCL = 0 /\ renewed = {} /\ legacy = TRUE /\ migration = "none"

Alters == changesCL < MaxChangesCL /\ changesCL' = changesCL + 1 /\ migration' = "none"
ListsBecome(d, l) == child' = [child EXCEPT ![d].allow = l.allow, ![d].deny = l.deny]
Audits(d, from, to) == lastRow' = [lastRow EXCEPT ![d] = [before |-> from, after |-> to]] /\ renewed' = renewed \ {d}

---------------------------------------------------------------------------
(* The lists of a device *)

Other(kind) == IF kind = "allow" THEN "deny" ELSE "allow"

\* A domain already there is no change. Adding takes it out of the other list.
AddDomain(d, kind, h) ==
  /\ d \in Standing /\ ~(kind = "deny" /\ h \in Needed) /\ h \notin ListsOf(d)[kind] /\ Alters
  /\ LET l == [ListsOf(d) EXCEPT ![kind] = @ \cup {h}, ![Other(kind)] = @ \ {h}]
     IN ListsBecome(d, l) /\ Audits(d, ListsOf(d), l)
  /\ UNCHANGED <<house, cutover, serving, mapsRow, definition, legacy, priorData>>

RemoveDomain(d, kind, h) ==
  /\ d \in Standing /\ h \in ListsOf(d)[kind] /\ Alters
  /\ LET l == [ListsOf(d) EXCEPT ![kind] = @ \ {h}] IN ListsBecome(d, l) /\ Audits(d, ListsOf(d), l)
  /\ UNCHANGED <<house, cutover, serving, mapsRow, definition, legacy, priorData>>

\* The lists become those before the last row, whatever they are by now, as a new change.
UndoDomain(d) ==
  /\ d \in Standing /\ lastRow[d] # NoRowYet /\ Alters
  /\ ListsBecome(d, lastRow[d].before) /\ Audits(d, lastRow[d].after, lastRow[d].before)
  /\ UNCHANGED <<house, cutover, serving, mapsRow, definition, legacy, priorData>>

---------------------------------------------------------------------------
(* The import and the cutover *)

SetCutover(on) ==
  /\ cutover # on /\ Alters /\ cutover' = on
  /\ UNCHANGED <<child, house, serving, lastRow, mapsRow, definition, renewed, legacy, priorData>>

\* Refused after the cutover, when a list would block an always-on host, and by the new release when
\* a window opens Maps. Devices, lists, windows and exceptions are replaced; audit rows and records
\* of removals stay.
ImportPolicy(p) ==
  /\ ~cutover /\ \A d \in DOMAIN p.devices : p.devices[d].deny \cap Needed = {}
  /\ \A d \in DOMAIN p.devices : serving = "new" => "maps" \notin p.devices[d].opens
  /\ Alters
  /\ child' = [d \in Tablet |-> IF d \in DOMAIN p.devices
                               THEN [allow |-> p.devices[d].allow, deny |-> p.devices[d].deny,
                                     opens |-> p.devices[d].opens, exception |-> NoException]
                               ELSE NoTablet]
  /\ house' = p.house /\ renewed' = Tablet
  /\ legacy' = (\/ p.house.weekdays # {} \/ ~MapsHosts \subseteq p.house.always
                \/ \E d \in DOMAIN p.devices : d \in Tablet /\ "maps" \in p.devices[d].opens)
  /\ UNCHANGED <<cutover, serving, lastRow, mapsRow, definition, priorData>>

---------------------------------------------------------------------------
(* Maps becomes always open *)

WithMaps == {d \in Standing : "maps" \in child[d].opens}
Excepted == {d \in Standing : child[d].exception.status = "active"}
MapsPending == WithMaps # {} \/ Excepted # {} \/ house.weekdays # {} \/ ~MapsHosts \subseteq house.always

\* One transaction when the new release starts. The audit row holds the rules, lists and exceptions
\* that it changes.
StartNew ==
  /\ serving' = "new" /\ changesCL < MaxChangesCL /\ changesCL' = changesCL + 1
  /\ \/ ~MapsPending /\ serving = "old" /\ migration' = "none"
        /\ UNCHANGED <<child, house, mapsRow, legacy, priorData>>
     \/ /\ MapsPending /\ legacy' = FALSE /\ migration' = "fresh" /\ priorData' = [child |-> child, house |-> house]
        /\ mapsRow' = [house |-> house, rules |-> [d \in WithMaps |-> child[d].opens], exceptions |-> Excepted]
        /\ child' = [d \in Tablet |-> IF d \notin Standing THEN NoTablet
                      ELSE [child[d] EXCEPT !.opens = @ \ {"maps"},
                                            !.exception.status = IF d \in Excepted THEN "cancelled" ELSE @]]
        /\ house' = [always |-> house.always \cup house.weekdays \cup MapsHosts, weekdays |-> {}]
  /\ UNCHANGED <<cutover, lastRow, definition, renewed>>

\* Mutant: the always-open domains are left as the migration made them.
RollbackMaps_WeekdaysOnly ==
  /\ mapsRow # NoRowYet /\ DOMAIN mapsRow.rules \subseteq Standing
  /\ child' = [d \in Tablet |-> IF d \notin Standing THEN NoTablet
                ELSE [child[d] EXCEPT
                  !.opens = IF d \in DOMAIN mapsRow.rules THEN mapsRow.rules[d] ELSE @,
                  !.exception.status = IF d \in mapsRow.exceptions /\ child[d].exception.runs THEN "active" ELSE @]]
  /\ house' = [house EXCEPT !.weekdays = mapsRow.house.weekdays] /\ legacy' = TRUE
  /\ migration' = IF migration = "fresh" THEN "reverted" ELSE "none"

\* The rules that the row names come back, whatever has been edited since, and so do the lists and
\* the exceptions whose time has not passed.
RollbackMaps ==
  /\ mapsRow # NoRowYet /\ DOMAIN mapsRow.rules \subseteq Standing
  /\ child' = [d \in Tablet |-> IF d \notin Standing THEN NoTablet
                ELSE [child[d] EXCEPT
                  !.opens = IF d \in DOMAIN mapsRow.rules THEN mapsRow.rules[d] ELSE @,
                  !.exception.status = IF d \in mapsRow.exceptions /\ child[d].exception.runs THEN "active" ELSE @]]
  /\ house' = mapsRow.house /\ legacy' = TRUE
  /\ migration' = IF migration = "fresh" THEN "reverted" ELSE "none"

\* The script stops the service, rolls the data back and starts the old release; when a device of
\* the row has gone the roll-back fails as a whole, and the old release starts all the same.
Revert ==
  /\ serving = "new" /\ serving' = "old" /\ changesCL < MaxChangesCL /\ changesCL' = changesCL + 1
  /\ \/ RollbackMaps
     \/ /\ mapsRow # NoRowYet => ~DOMAIN mapsRow.rules \subseteq Standing
        /\ migration' = "none" /\ UNCHANGED <<child, house, legacy>>
  /\ UNCHANGED <<cutover, lastRow, mapsRow, definition, renewed, priorData>>

---------------------------------------------------------------------------
(* Devices and windows *)

\* `like` brings its lists along; windows that open Maps are refused.
AddTablet(d, like) ==
  /\ d \notin Standing /\ like \in Standing \cup {NoTablet} /\ Alters
  /\ \/ like = NoTablet /\ \E o \in {{}, {"youtube"}} :
          child' = [child EXCEPT ![d] = [allow |-> {}, deny |-> {}, opens |-> o, exception |-> NoException]]
     \/ like # NoTablet /\ (serving = "new" => "maps" \notin child[like].opens)
        /\ child' = [child EXCEPT ![d] = [child[like] EXCEPT !.exception = NoException]]
  /\ renewed' = renewed \cup {d}
  /\ legacy' = (legacy \/ "maps" \in child'[d].opens)
  /\ UNCHANGED <<house, cutover, serving, lastRow, mapsRow, definition, priorData>>

\* Never the last one. The definition keeps what still runs.
RemoveTablet(d) ==
  /\ d \in Standing /\ Standing # {d} /\ Alters
  /\ child' = [child EXCEPT ![d] = NoTablet] /\ definition' = [definition EXCEPT ![d] = child[d]]
  /\ UNCHANGED <<house, cutover, serving, lastRow, mapsRow, renewed, legacy, priorData>>

\* The windows are validated again, the exceptions are not: one for Maps comes back to life.
RestoreTablet(d) ==
  /\ definition[d] # NoDefinition /\ d \notin Standing /\ Alters
  /\ serving = "new" => "maps" \notin definition[d].opens
  /\ LET x == definition[d].exception
         revived == x.status = "active" /\ x.runs
     IN /\ child' = [child EXCEPT ![d] = [definition[d] EXCEPT !.exception = IF revived THEN x ELSE NoException]]
        /\ legacy' = (legacy \/ revived \/ "maps" \in definition[d].opens)
  /\ definition' = [definition EXCEPT ![d] = NoDefinition] /\ renewed' = renewed \cup {d}
  /\ UNCHANGED <<house, cutover, serving, lastRow, mapsRow, priorData>>

\* A removal can be undone for a day.
ForgetTablet(d) ==
  /\ definition[d] # NoDefinition /\ definition' = [definition EXCEPT ![d] = NoDefinition]
  /\ UNCHANGED <<child, house, cutover, serving, lastRow, mapsRow, changesCL, renewed, legacy, migration, priorData>>

\* An editor's schedule: the new release refuses a window for Maps.
EditWindows(d, o) ==
  /\ d \in Standing /\ child[d].opens # o /\ (serving = "new" => "maps" \notin o) /\ Alters /\ child' = [child EXCEPT ![d].opens = o]
  /\ legacy' = (legacy \/ "maps" \in o)
  /\ UNCHANGED <<house, cutover, serving, lastRow, mapsRow, definition, renewed, priorData>>

\* The end of the exception passes, for the definition of a removed device as well.
ExceptionEnds(d) ==
  /\ \/ d \in Standing /\ child[d].exception.runs /\ child' = [child EXCEPT ![d].exception.runs = FALSE]
        /\ UNCHANGED definition
     \/ definition[d] # NoDefinition /\ definition[d].exception.runs
        /\ definition' = [definition EXCEPT ![d].exception.runs = FALSE] /\ UNCHANGED child
  /\ UNCHANGED <<house, cutover, serving, lastRow, mapsRow, changesCL, renewed, legacy, migration, priorData>>

ListNext ==
  \/ \E d \in Tablet, kind \in {"allow", "deny"}, h \in Host : AddDomain(d, kind, h) \/ RemoveDomain(d, kind, h)
  \/ \E d \in Tablet : UndoDomain(d) \/ RemoveTablet(d) \/ RestoreTablet(d) \/ ForgetTablet(d) \/ ExceptionEnds(d)
  \/ StartNew \/ Revert
  \/ \E on \in BOOLEAN : SetCutover(on)
  \/ \E p \in Payloads : ImportPolicy(p)
  \/ \E d \in Tablet, like \in Tablet \cup {NoTablet} : AddTablet(d, like)
  \/ \E d \in Tablet, o \in {{}, {"youtube"}, {"maps"}} : EditWindows(d, o)

ListSpec == ListInit /\ [][ListNext]_listVars

---------------------------------------------------------------------------
(* Properties *)

\* Whatever is added, undone, copied, imported or restored: no deny rule hits an always-on host.
AlwaysOnStaysOpen == \A d \in Standing : child[d].deny \cap Needed = {}

\* The lists of a device are what their last audit row says, in every sequence of changes, undos
\* and devices that go and come: the undo of a parent starts from there.
TrailIsTrue == \A d \in Standing \ renewed : lastRow[d] # NoRowYet => ListsOf(d) = lastRow[d].after

\* Once moved, Maps needs no move again until old data comes in.
MovedOnce == ~legacy => ~MapsPending

\* A roll-back with nothing in between brings back windows, lists and exceptions still running.
RollbackIsExact ==
  migration = "reverted" =>
    /\ house = priorData.house
    /\ \A d \in Tablet : child[d] # NoTablet =>
         /\ child[d].opens = priorData.child[d].opens
         /\ child[d].exception.runs => child[d].exception = priorData.child[d].exception

\* What the changes of the policy's data keep together.
ListsSafe == AlwaysOnStaysOpen /\ TrailIsTrue /\ MovedOnce /\ RollbackIsExact
==============================================================================
