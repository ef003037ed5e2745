------------------------------- MODULE Notify -------------------------------
(***************************************************************************)
(* The notifier every watchdog talks through (_system/lib/watchnotify.py): *)
(* a state file per alert, and one outbox for messages that could not be   *)
(* delivered. Watchdogs are processes of their own, started by timers, so  *)
(* several use the outbox at once; each owns its alert.                    *)
(***************************************************************************)
EXTENDS Integers, Sequences, FiniteSets

CONSTANTS
  Dog,        \* watchdogs, each with one alert
  Tier,       \* of the alert of each: "A", "B" or "C"
  Remind,     \* WATCH_REMIND_SECONDS in ticks
  OutboxAge,  \* OUTBOX_MAX_AGE in ticks
  LastHour,   \* bound on the clock
  MaxRuns,    \* bound on runs of a watchdog
  MaxDeaths   \* bound on runs that are killed

ASSUME NotifyConstants ==
  /\ Tier \in [Dog -> {"A", "B", "C"}]
  /\ {Remind, OutboxAge, LastHour, MaxRuns, MaxDeaths} \subseteq Nat

VARIABLES
  hour,     \* the time
  outbox,   \* outbox.jsonl: NoBox, or messages with the time of their queueing
  boxTmp,   \* outbox.jsonl.tmp, shared by all
  into,     \* what the file is by now that each has open for writing: "tmp", "box", "gone", or "none" is open
  alerts,   \* the state file of each alert
  call,     \* watchdog -> its call of the notifier and how far it is
  runs, deaths,
  got,      \* messages delivered
  queued, expired,  \* messages ever queued; those too old to be sent
  crossing, \* those queued while another flushed the outbox, or in it when two were rewriting it
  outage,   \* when the messages of the present outage of each were delivered
  unnoted   \* watchdogs of whose present outage a message was delivered and not noted: they died, or it was taken for failed

notifyVars ==
  <<hour, outbox, boxTmp, into, alerts, call, runs, deaths, got, queued, expired, crossing, outage, unnoted>>

NoAlert == [since |-> -1, last |-> 0, told |-> FALSE, reminders |-> 0]
NoBox == <<[msg |-> <<>>, at |-> -1]>>
Quiet == [op |-> "none", at |-> "idle", todo |-> <<>>, keep |-> <<>>, st |-> NoAlert, msg |-> <<>>]

\* A message: of whom, in which of its runs, what it says.
Message(d, what) == <<d, runs[d], what>>

NotifyInit ==
  /\ hour = 0 /\ outbox = NoBox /\ boxTmp = NoBox /\ into = [d \in Dog |-> "none"]
  /\ alerts = [d \in Dog |-> NoAlert] /\ call = [d \in Dog |-> Quiet]
  /\ runs = [d \in Dog |-> 0] /\ deaths = 0
  /\ got = {} /\ queued = {} /\ expired = {} /\ crossing = {}
  /\ outage = [d \in Dog |-> <<>>] /\ unnoted = {}

History == <<got, queued, expired, crossing, outage, unnoted>>
Moves(d, at) == call' = [call EXCEPT ![d].at = at]

Lines == IF outbox = NoBox THEN <<>> ELSE outbox

\* alert, clear or send, called by a run of the watchdog; each flushes first.
Called(d, op) ==
  /\ call[d].at = "idle" /\ runs[d] < MaxRuns
  /\ runs' = [runs EXCEPT ![d] = @ + 1]
  /\ call' = [call EXCEPT ![d] = [Quiet EXCEPT !.op = op, !.at = IF outbox = NoBox THEN "act" ELSE "flush",
                                               !.todo = Lines]]
  /\ UNCHANGED <<hour, outbox, boxTmp, into, alerts, deaths, History>>

---------------------------------------------------------------------------
(* flush *)

\* Of a sending: what the notifier makes of it, and whether the message got through. An answer may be lost.
Outcome == {o \in [ok : BOOLEAN, through : BOOLEAN] : o.ok => o.through}

Resends(d) ==
  /\ call[d].at = "flush" /\ call[d].todo # <<>>
  /\ LET item == Head(call[d].todo)
         rest == [call EXCEPT ![d].todo = Tail(@)]
     IN  \/ /\ hour - item.at > OutboxAge /\ call' = rest
            /\ expired' = expired \cup {item.msg} /\ UNCHANGED got
         \/ \E o \in Outcome :
              /\ hour - item.at <= OutboxAge
              /\ call' = IF o.ok THEN rest ELSE [rest EXCEPT ![d].keep = Append(@, item)]
              /\ got' = IF o.through THEN got \cup {item.msg} ELSE got
              /\ UNCHANGED expired
  /\ UNCHANGED <<hour, outbox, boxTmp, into, alerts, runs, deaths, queued, crossing, outage, unnoted>>

InBox == {Lines[i].msg : i \in DOMAIN Lines}
Rewriting(d) == call[d].at \in {"write", "replace"}

\* The temporary file is emptied: another's too, and what it wrote.
OpensBox(d) ==
  /\ call[d].at = "flush" /\ call[d].todo = <<>>
  /\ boxTmp' = <<>> /\ into' = [into EXCEPT ![d] = "tmp"] /\ Moves(d, "write")
  /\ crossing' = IF \E e \in Dog \ {d} : Rewriting(e) THEN crossing \cup InBox ELSE crossing
  /\ UNCHANGED <<hour, outbox, alerts, runs, deaths, got, queued, expired, outage, unnoted>>

\* Lines written from the start of a file: over some of those it has, of which one may be cut.
Overwrites(old, keep) ==
  IF keep = <<>> \/ old = <<>> THEN {keep \o old}
  ELSE {keep \o SubSeq(old, k + 1, Len(old)) : k \in 1..Len(old)}

\* Mutant: what could not be sent is not kept.
WriteKeep_Nothing(d) ==
  /\ call[d].at = "write"
  /\ into' = [into EXCEPT ![d] = "none"] /\ Moves(d, "replace")
  /\ UNCHANGED <<hour, outbox, boxTmp, alerts, runs, deaths, History>>

\* What was kept is written when the file is closed: to what the file is by then.
WriteKeep(d) ==
  /\ call[d].at = "write"
  /\ boxTmp' \in IF into[d] = "tmp" THEN Overwrites(boxTmp, call[d].keep) ELSE {boxTmp}
  /\ outbox' \in IF into[d] = "box" THEN Overwrites(Lines, call[d].keep) ELSE {outbox}
  /\ into' = [into EXCEPT ![d] = "none"] /\ Moves(d, "replace")
  /\ UNCHANGED <<hour, alerts, runs, deaths, History>>

Replaced == [tmp |-> "box", box |-> "gone", gone |-> "gone", none |-> "none"]

\* os.replace, whosever the temporary file is; when another has done it already, the run ends with an error.
ReplaceBox(d) ==
  /\ call[d].at = "replace"
  /\ IF boxTmp = NoBox THEN call' = [call EXCEPT ![d] = Quiet] /\ UNCHANGED <<outbox, boxTmp, into>>
     ELSE /\ outbox' = boxTmp /\ boxTmp' = NoBox /\ into' = [e \in Dog |-> Replaced[into[e]]]
          /\ Moves(d, "act")
  /\ UNCHANGED <<hour, alerts, runs, deaths, History>>

---------------------------------------------------------------------------
(* alert *)

Loaded(d) == IF alerts[d] = NoAlert THEN [NoAlert EXCEPT !.since = hour] ELSE alerts[d]

\* A reminder is due.
DueAgain(d, st) == Tier[d] = "A" /\ st.told /\ hour - st.last >= Remind

\* What is noted of a sending; after a failed first message the next call tries again.
SentNote(st, ok) ==
  IF ok THEN [st EXCEPT !.last = hour, !.told = TRUE]
  ELSE [st EXCEPT !.last = IF st.told THEN @ ELSE 0]

Delivered(d, m) ==
  /\ got' = got \cup {m}
  /\ outage' = [outage EXCEPT ![d] = Append(@, hour)]

\* An attempt may be late: taken for failed though the message got through, also before one that is answered.
AlertSends(d) ==
  /\ call[d].op = "alert" /\ call[d].at = "act"
  /\ LET st == Loaded(d)
         again == DueAgain(d, st)
         next == IF again THEN [st EXCEPT !.reminders = @ + 1] ELSE st
     IN  IF Tier[d] = "C"
         THEN /\ call' = [call EXCEPT ![d].at = "save", ![d].st = [st EXCEPT !.told = TRUE]]
              /\ UNCHANGED <<got, outage, unnoted>>
         ELSE IF st.told /\ ~again
         THEN call' = [call EXCEPT ![d].at = "save", ![d].st = st] /\ UNCHANGED <<got, outage, unnoted>>
         ELSE \E ok, late \in BOOLEAN :
                /\ call' = [call EXCEPT ![d].at = "save", ![d].st = SentNote(next, ok)]
                /\ IF ok \/ late THEN Delivered(d, Message(d, "fault")) ELSE UNCHANGED <<got, outage>>
                /\ unnoted' = IF late THEN unnoted \cup {d} ELSE unnoted
  /\ UNCHANGED <<hour, outbox, boxTmp, into, alerts, runs, deaths, queued, expired, crossing>>

Saves(d) ==
  /\ call[d].at = "save"
  /\ alerts' = [alerts EXCEPT ![d] = call[d].st] /\ call' = [call EXCEPT ![d] = Quiet]
  /\ UNCHANGED <<hour, outbox, boxTmp, into, runs, deaths, History>>

---------------------------------------------------------------------------
(* clear and send *)

\* No alert is open, or one without a recovery message.
ClearsQuietly(d) ==
  /\ call[d].op = "clear" /\ call[d].at = "act" /\ (alerts[d] = NoAlert \/ Tier[d] # "A")
  /\ call' = [call EXCEPT ![d] = Quiet]
  /\ alerts' = [alerts EXCEPT ![d] = NoAlert] /\ outage' = [outage EXCEPT ![d] = <<>>] /\ unnoted' = unnoted \ {d}
  /\ UNCHANGED <<hour, outbox, boxTmp, into, runs, deaths, got, queued, expired, crossing>>

\* The recovery message or an event; what fails is queued.
SendsOnce(d) ==
  /\ call[d].at = "act"
  /\ \/ call[d].op = "send"
     \/ call[d].op = "clear" /\ alerts[d] # NoAlert /\ Tier[d] = "A"
  /\ LET m == Message(d, call[d].op) IN
       \E o \in Outcome :
         /\ got' = IF o.through THEN got \cup {m} ELSE got
         /\ IF o.ok THEN Moves(d, IF call[d].op = "clear" THEN "remove" ELSE "done")
            ELSE call' = [call EXCEPT ![d].at = "queue", ![d].msg = m]
  /\ UNCHANGED <<hour, outbox, boxTmp, into, alerts, runs, deaths, queued, expired, crossing, outage, unnoted>>

Flushing(d) == call[d].at = "flush" \/ Rewriting(d)

Queue(d) ==
  /\ call[d].at = "queue"
  /\ outbox' = Append(Lines, [msg |-> call[d].msg, at |-> hour])
  /\ queued' = queued \cup {call[d].msg}
  /\ crossing' = IF \E e \in Dog \ {d} : Flushing(e) THEN crossing \cup {call[d].msg} ELSE crossing
  /\ Moves(d, IF call[d].op = "clear" THEN "remove" ELSE "done")
  /\ UNCHANGED <<hour, boxTmp, into, alerts, runs, deaths, got, expired, outage, unnoted>>

Ends(d) ==
  /\ call[d].at \in {"remove", "done"} /\ call' = [call EXCEPT ![d] = Quiet]
  /\ IF call[d].at = "remove"
     THEN /\ alerts' = [alerts EXCEPT ![d] = NoAlert]
          /\ outage' = [outage EXCEPT ![d] = <<>>] /\ unnoted' = unnoted \ {d}
     ELSE UNCHANGED <<alerts, outage, unnoted>>
  /\ UNCHANGED <<hour, outbox, boxTmp, into, runs, deaths, got, queued, expired, crossing>>

---------------------------------------------------------------------------
\* The run is killed, or the host stops.
Dies(d) ==
  /\ call[d].at # "idle" /\ deaths < MaxDeaths /\ deaths' = deaths + 1
  /\ call' = [call EXCEPT ![d] = Quiet]
  /\ into' = [into EXCEPT ![d] = "none"]
  /\ unnoted' = IF call[d].at \in {"save", "remove"} THEN unnoted \cup {d} ELSE unnoted
  /\ UNCHANGED <<hour, outbox, boxTmp, alerts, runs, got, queued, expired, crossing, outage>>

HourPasses ==
  /\ hour < LastHour /\ hour' = hour + 1
  /\ UNCHANGED <<outbox, boxTmp, into, alerts, call, runs, deaths, History>>

NotifyNext ==
  \/ \E d \in Dog :
       \/ \E op \in {"alert", "clear", "send"} : Called(d, op)
       \/ Resends(d) \/ OpensBox(d) \/ WriteKeep(d) \/ ReplaceBox(d)
       \/ AlertSends(d) \/ Saves(d) \/ ClearsQuietly(d) \/ SendsOnce(d) \/ Queue(d) \/ Ends(d) \/ Dies(d)
  \/ HourPasses

NotifySpec == NotifyInit /\ [][NotifyNext]_notifyVars

---------------------------------------------------------------------------
(* Properties *)

NotifyTypeOK ==
  /\ hour \in 0..LastHour /\ runs \in [Dog -> 0..MaxRuns] /\ deaths \in 0..MaxDeaths
  /\ \A d \in Dog : alerts[d].since \in -1..hour /\ alerts[d].last \in 0..hour /\ alerts[d].reminders <= runs[d]
  /\ InBox \subseteq queued /\ unnoted \subseteq Dog
  /\ \A d \in Dog : call[d].at = "idle" => call[d] = Quiet
  /\ \A d \in Dog : into[d] # "none" => call[d].at = "write"

\* A message that was queued is delivered, waits, or has become too old: also when watchdogs read
\* the outbox together, and whoever dies with it half rewritten. Lost may be only what was queued
\* while another was flushing, and what was in the outbox when one opened the temporary file while
\* another was between opening and replacing it.
QueuedIsKept ==
  \A m \in queued \ crossing : m \in got \/ m \in InBox \/ m \in expired

\* Of one outage, tier A is told at most every Remind, tier B once, tier C never, however many
\* calls failed in between; more only when a message was delivered and not noted: the run died
\* before, or took the sending for failed because the answer was lost.
OutageToldSparingly ==
  \A d \in Dog \ unnoted :
    LET t == outage[d] IN
      CASE Tier[d] = "A" -> \A i \in 1..Len(t) - 1 : t[i + 1] - t[i] >= Remind
        [] Tier[d] = "B" -> Len(t) <= 1
        [] Tier[d] = "C" -> t = <<>>

\* The state file says "delivered" of an outage only when a message of it was, whatever got lost.
ToldIsTrue == \A d \in Dog : Tier[d] # "C" /\ alerts[d].told => outage[d] # <<>>

\* No queued message vanishes, and no outage is told too often or noted as told when it was not.
NotifySafe ==
  /\ NotifyTypeOK
  /\ QueuedIsKept
  /\ OutageToldSparingly
  /\ ToldIsTrue
=============================================================================
