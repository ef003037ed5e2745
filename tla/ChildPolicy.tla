----------------------------- MODULE ChildPolicy ----------------------------
(***************************************************************************)
(* The children's policy on its way from the schedule service to AdGuard.  *)
(* The service (portal/schedules/sched/child_store.py) keeps the devices,  *)
(* their windows and time-boxed exceptions, and publishes a snapshot file  *)
(* at the end of every write. Once a minute, and whenever somebody calls   *)
(* it by hand, the host job (adguard/childpolicy.py) loads the file, or    *)
(* its last good copy, and makes AdGuard's rules of it: it evaluates the   *)
(* windows and the end of each exception by its own clock, so that the     *)
(* service may be down.                                                    *)
(*                                                                         *)
(* The service serves one request after the other, the job's runs queue    *)
(* for a lock file. Time is in minutes. What a device may reach is its     *)
(* line: no rules at all, everything but the gated services, or only what  *)
(* is always on. Domain lists only move names between these and are left   *)
(* out; so are the import and the cutover, which come before all of this.  *)
(***************************************************************************)
EXTENDS Integers

CONSTANTS
  Device,    \* devices that may be children's devices
  Window,    \* sets of minutes in which a device's windows may open the gated services
  EndTime,   \* the last minute (it lasts for ever)
  Absent,    \* a device that is not a child's device; a definition that is not kept
  Broken,    \* a snapshot that cannot be used
  Start,     \* policies the service may start with
  KeepFor,   \* minutes a removed definition is kept (REMOVAL_UNDO_HOURS)
  MaxChange, \* bound on what people do: edits, device changes, runs by hand
  MaxTrouble \* bound on failures, crashes and delays

Time == 0..EndTime
Target == {"gated", "all"}  \* what an exception opens (EXCEPTION_TARGETS)
Row == [win : Window, exc : [Target -> Time]]  \* expiry of each exception; 0: none
Policy == [Device -> Row \cup {Absent}]
Devices(p) == {d \in Device : p[d] # Absent}
Runs == {"timer", "manual"}  \* adguard-policy.timer; child-override
NoException == [t \in Target |-> 0]

ASSUME TimeAssumption == EndTime \in Nat /\ KeepFor \in Nat
ASSUME WindowAssumption == Window \subseteq SUBSET (Time \ {EndTime})
ASSUME PolicyAssumption ==
   /\ Absent \notin Row /\ Broken \notin Policy
   /\ Start \subseteq {p \in Policy : Devices(p) # {}}
ASSUME BoundAssumption == {MaxChange, MaxTrouble} \subseteq Nat

VARIABLES
  clock,
  book,     \* entities, schedules and child_exceptions in the service's database
  kept,     \* table child_removed: the latest removed definition of each device
  up,       \* is the service running?
  behind,   \* publish_error: the last write was not published
  missed,   \* the last write was not published, and nothing will try again
  file,     \* out/child-policy.json
  lastGood, \* the job's last good copy of it
  run,      \* the job's runs
  block,    \* AdGuard's rules: of which snapshot, for which minute
  clients,  \* devices with an entry of their own in AdGuard
  granted,  \* history: <<target, minute>> pairs parents ever opened for a device
  changes,  \* what people did so far
  trouble   \* troubles used up

service == <<book, kept, up, behind, missed>>
job == <<lastGood, run>>
adguard == <<block, clients>>
cpVars == <<clock, service, file, job, adguard, granted, changes, trouble>>

NoRun(now) == [pc |-> "idle", now |-> now, snap |-> Broken]

CPTypeOK ==
  /\ clock \in Time
  /\ book \in Policy /\ kept \in [Device -> [row : Row, at : Time] \cup {Absent}]
  /\ {up, behind, missed} \subseteq BOOLEAN
  /\ file \in Policy \cup {Broken} /\ lastGood \in Policy \cup {Broken}
  /\ run \in [Runs -> [pc : {"idle", "wait", "rules", "clients"}, now : Time,
                       snap : Policy \cup {Broken}]]
  /\ block \in [snap : Policy, at : Time] /\ clients \subseteq Device
  /\ granted \in [Device -> SUBSET (Target \X Time)]
  /\ changes \in Nat /\ trouble \in Nat

---------------------------------------------------------------------------
(* What the rules let a device reach *)

\* The lines of one device: windows evaluated at minute w, exceptions at minute e.
Line(row, w, e) ==
  IF row = Absent THEN "free"
  ELSE IF row.exc["all"] > e THEN "free"
  ELSE IF w \in row.win \/ row.exc["gated"] > e THEN "open"
  ELSE "closed"

LineOf(d) == Line(block.snap[d], block.at, block.at)

\* What parents open for a device by giving it this row.
Opening(row) ==
  {<<"gated", m>> : m \in row.win}
    \cup UNION {{t} \X {m \in Time : m < row.exc[t]} : t \in Target}

Given(p) == [d \in Device |-> IF p[d] = Absent THEN {} ELSE Opening(p[d])]

---------------------------------------------------------------------------
(* The service *)

Trouble == trouble < MaxTrouble /\ trouble' = trouble + 1
Change == changes < MaxChange /\ changes' = changes + 1

\* Exceptions that have ended are not published.
Lasting(row) ==
  [row EXCEPT !.exc = [t \in Target |-> IF row.exc[t] > clock THEN row.exc[t] ELSE 0]]
Snapshot(p) == [d \in Device |-> IF p[d] = Absent THEN Absent ELSE Lasting(p[d])]

\* The end of every write of p, which nothing takes back: all is well; the file cannot be
\* written; the process dies after the commit; or the audit's mirror raises before anything is
\* published, or verify_snapshot refuses the snapshot, as it then may the next ones.
Publish(p) ==
  \/ /\ file' = IF Devices(p) = {} THEN file ELSE Snapshot(p)
     /\ behind' = FALSE /\ missed' = FALSE /\ UNCHANGED <<up, trouble>>
  \/ Trouble /\ behind' = TRUE /\ missed' = FALSE /\ UNCHANGED <<up, file>>
  \/ Trouble /\ up' = FALSE /\ behind' = FALSE /\ UNCHANGED <<missed, file>>
  \/ /\ Trouble \/ (missed /\ UNCHANGED trouble)
     /\ missed' = TRUE /\ behind' \in {behind, FALSE} /\ UNCHANGED <<up, file>>

Store(p) ==
  /\ up
  /\ book' = p
  /\ granted' = [d \in Device |-> granted[d] \cup Given(p)[d]]
  /\ Publish(p)
  /\ UNCHANGED <<clock, job, adguard>>

AddChildException(d, t, until) ==
  /\ book[d] # Absent /\ until > clock
  /\ Store([book EXCEPT ![d].exc[t] = until])
  /\ Change /\ UNCHANGED kept

CancelChildException(d, t) ==
  /\ book[d] # Absent
  /\ book[d].exc[t] > clock
  /\ Store([book EXCEPT ![d].exc[t] = 0])
  /\ Change /\ UNCHANGED kept

PutWindows(d, w) ==
  /\ book[d] # Absent /\ book[d].win # w
  /\ Store([book EXCEPT ![d].win = w])
  /\ Change /\ UNCHANGED kept

\* The background loop marks what ended more than EXCEPTION_GRACE_S (two minutes) ago.
Grace == 2
Ended(row, t) == row.exc[t] # 0 /\ row.exc[t] + Grace < clock

ExpireChildExceptions ==
  /\ \E d \in Devices(book), t \in Target : Ended(book[d], t)
  /\ Store([d \in Device |->
              IF book[d] = Absent THEN Absent
              ELSE [book[d] EXCEPT !.exc =
                      [t \in Target |-> IF Ended(book[d], t) THEN 0 ELSE book[d].exc[t]]]])
  /\ UNCHANGED <<kept, changes>>

AddChildDevice(d, w) ==
  /\ book[d] = Absent
  /\ Store([book EXCEPT ![d] = [win |-> w, exc |-> NoException]])
  /\ Change /\ UNCHANGED kept

\* Mutant: the last device may be removed too.
RemoveChildDevice_Last(d, keep) ==
  /\ book[d] # Absent
  /\ kept' = IF keep THEN [kept EXCEPT ![d] = [row |-> Lasting(book[d]), at |-> clock]]
             ELSE kept
  /\ Store([book EXCEPT ![d] = Absent])

RemoveChildDevice(d, keep) ==
  /\ book[d] # Absent /\ Devices(book) # {d}
  /\ kept' = IF keep THEN [kept EXCEPT ![d] = [row |-> Lasting(book[d]), at |-> clock]]
             ELSE kept
  /\ Store([book EXCEPT ![d] = Absent])

\* child_removed drops what is older than the time of grace before it is looked up.
RestoreChildDevice(d) ==
  /\ kept[d] # Absent
  /\ clock - kept[d].at <= KeepFor /\ book[d] = Absent
  /\ Store([book EXCEPT ![d] = Lasting(kept[d].row)])
  /\ kept' = [kept EXCEPT ![d] = Absent]
  /\ Change

\* The background loop tries again what could not be published; so does any other write of the
\* service, of a timed run say, which publishes everything.
Republish ==
  /\ up /\ (behind \/ missed)
  /\ Publish(book)
  /\ UNCHANGED <<clock, book, kept, job, adguard, granted, changes>>

StopService ==
  /\ up /\ Trouble
  /\ up' = FALSE /\ behind' = FALSE
  /\ UNCHANGED <<clock, book, kept, missed, file, job, adguard, granted, changes>>

\* server.main publishes before it serves.
StartService ==
  /\ ~up /\ up' = TRUE
  /\ \/ file' = Snapshot(book) /\ behind' = FALSE /\ missed' = FALSE /\ UNCHANGED trouble
     \/ Trouble /\ behind' = TRUE /\ missed' = FALSE /\ UNCHANGED file
     \/ (Trouble \/ (missed /\ UNCHANGED trouble)) /\ behind' = FALSE /\ missed' = TRUE /\ UNCHANGED file
  /\ UNCHANGED <<clock, book, kept, job, adguard, granted, changes>>

\* Something else makes the file unreadable.
SpoilFile ==
  /\ Trouble /\ file # Broken /\ file' = Broken
  /\ UNCHANGED <<clock, service, job, adguard, granted, changes>>

---------------------------------------------------------------------------
(* The host job *)

\* verify_snapshot: a policy without a device would lift every restriction.
Usable(s) == s # Broken /\ Devices(s) # {}

StartRun(r) ==
  /\ run[r].pc = "idle"
  /\ IF r = "timer" THEN (run[r].now # clock \/ clock = EndTime) /\ UNCHANGED changes
     ELSE Change
  /\ run' = [run EXCEPT ![r] = [NoRun(clock) EXCEPT !.pc = "wait"]]
  /\ UNCHANGED <<clock, service, file, lastGood, adguard, granted, trouble>>

\* Mutant: the runs do not wait for each other.
LockFree_Always == TRUE

LockFree == \A r \in Runs : run[r].pc \notin {"rules", "clients"}

\* Mutant: without a usable file the run gives up.
LoadSnapshot_LiveOnly(r) ==
  /\ run[r].pc = "wait" /\ LockFree
  /\ IF Usable(file)
     THEN /\ lastGood' = file
          /\ run' = [run EXCEPT ![r].pc = "rules", ![r].snap = file]
     ELSE run' = [run EXCEPT ![r] = NoRun(@.now)] /\ UNCHANGED lastGood
  /\ UNCHANGED <<clock, service, file, adguard, granted, changes, trouble>>

\* The time was read before the lock is awaited, the snapshot is read under it. It does
\* not matter to the run whether the good copy can be written.
LoadSnapshot(r) ==
  /\ run[r].pc = "wait" /\ LockFree
  /\ LET s == IF Usable(file) THEN file ELSE lastGood
     IN  IF Usable(s)
         THEN /\ run' = [run EXCEPT ![r].pc = "rules", ![r].snap = s]
              /\ \/ lastGood' = s /\ UNCHANGED trouble
                 \/ lastGood # s /\ Trouble /\ UNCHANGED lastGood
         ELSE run' = [run EXCEPT ![r] = NoRun(@.now)] /\ UNCHANGED <<lastGood, trouble>>
  /\ UNCHANGED <<clock, service, file, adguard, granted, changes>>

SetRules(r) ==
  /\ run[r].pc = "rules"
  /\ block' = [snap |-> run[r].snap, at |-> run[r].now]
  /\ run' = [run EXCEPT ![r].pc = "clients"]
  /\ UNCHANGED <<clock, service, file, lastGood, clients, granted, changes, trouble>>

EnsureClients(r) ==
  /\ run[r].pc = "clients"
  /\ clients' = clients \cup Devices(run[r].snap)
  /\ run' = [run EXCEPT ![r] = NoRun(@.now)]
  /\ UNCHANGED <<clock, service, file, lastGood, block, granted, changes, trouble>>

\* AdGuard does not answer, or refuses: the run ends where it is, with the entries of
\* some of the devices done.
FailRun(r) ==
  /\ run[r].pc # "idle" /\ Trouble
  /\ run' = [run EXCEPT ![r] = NoRun(@.now)]
  /\ \E done \in SUBSET (IF run[r].pc = "clients" THEN Devices(run[r].snap) ELSE {}) :
        clients' = clients \cup done
  /\ UNCHANGED <<clock, service, file, lastGood, block, granted, changes>>

RunStep(r) == LoadSnapshot(r) \/ SetRules(r) \/ EnsureClients(r)

\* A minute passes. A run takes less than a minute, except when something is slow.
Tick ==
  /\ clock < EndTime
  /\ \/ run["timer"].pc = "idle" /\ run["timer"].now = clock /\ UNCHANGED trouble
     \/ Trouble
  /\ clock' = clock + 1
  /\ UNCHANGED <<service, file, job, adguard, granted, changes>>

---------------------------------------------------------------------------
CPInit ==
  /\ clock = 0
  /\ book \in Start /\ kept = [d \in Device |-> Absent]
  /\ up = TRUE /\ behind = FALSE /\ missed = FALSE
  /\ file = Snapshot(book) /\ lastGood \in {Broken, Snapshot(book)}
  /\ run = [r \in Runs |-> NoRun(0)]
  /\ block = [snap |-> Snapshot(book), at |-> 0] /\ clients = Devices(book)
  /\ granted = Given(book)
  /\ changes = 0 /\ trouble = 0

\* What happens without the portal's device changes.
PolicyNext ==
  \/ \E d \in Device, t \in Target :
        CancelChildException(d, t) \/ \E until \in Time : AddChildException(d, t, until)
  \/ \E d \in Device, w \in Window : PutWindows(d, w)
  \/ ExpireChildExceptions \/ Republish \/ StopService \/ StartService \/ SpoilFile
  \/ \E r \in Runs : StartRun(r) \/ RunStep(r) \/ FailRun(r)
  \/ Tick

\* Somebody deletes the entry of a device in AdGuard.
DeleteClient(d) ==
  /\ clients' = clients \ {d}
  /\ UNCHANGED <<clock, service, file, job, block, granted, changes, trouble>>

\* A call made from elsewhere fails, or its caller dies.
Failure == Trouble /\ UNCHANGED <<clock, service, file, job, adguard, granted, changes>>

CPNext ==
  \/ PolicyNext \/ Failure
  \/ \E d \in Device :
        \/ \E w \in Window : AddChildDevice(d, w)
        \/ \E keep \in BOOLEAN : RemoveChildDevice(d, keep) /\ (Change \/ UNCHANGED changes)
        \/ RestoreChildDevice(d)
        \/ DeleteClient(d)

CPSpec == CPInit /\ [][CPNext]_cpVars

---------------------------------------------------------------------------
(* Every copy of the policy restricts some device: no sequence of removals,  *)
(* failed publications, restarts and unusable files makes the job lift every *)
(* restriction (remove_child_device, _publish_child, verify_snapshot).       *)
NeverUnrestricted ==
  /\ Devices(book) # {} /\ Devices(block.snap) # {}
  /\ \A s \in {file, lastGood} : s # Broken => Devices(s) # {}

(* A device is let through only as far as a parent opened it for the minute  *)
(* the rules were made for: neither a stale file, nor the last good copy, nor *)
(* a restored definition brings back an exception that has ended.            *)
OpenIsGranted ==
  \A d \in Devices(block.snap) :
    /\ LineOf(d) = "free" => <<"all", block.at>> \in granted[d]
    /\ LineOf(d) = "open" => <<"gated", block.at>> \in granted[d]
=============================================================================
