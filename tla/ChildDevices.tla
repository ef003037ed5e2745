---------------------------- MODULE ChildDevices ----------------------------
(***************************************************************************)
(* Adding, removing and restoring a child's device from the portal         *)
(* (portal/gateway/gw/childdevices.py), on top of the children's policy.   *)
(* An added or restored device is verified (its catch-all is on, AdGuard   *)
(* has its entry, the rules are the expected ones, the parity checker      *)
(* agrees) and taken back when any of that fails; a removal waits until    *)
(* the job has released the address, then deletes the entry.               *)
(*                                                                         *)
(* One change at a time (_busy). It awaits between any two steps, so the   *)
(* parents' edits, the job's runs, the clock and crashes interleave with   *)
(* it; a crash of the gateway forgets the change that was running.         *)
(***************************************************************************)
EXTENDS ChildPolicy

CONSTANTS
  Patience  \* minutes that the job is awaited (apply_timeout_s)

ASSUME PatienceAssumption == Patience \in Nat /\ {} \in Window

VARIABLES
  flow,    \* the change that is running
  answer   \* what the last change that ended said

cdVars == <<cpVars, flow, answer>>

Idle == [pc |-> "idle"]
Kinds == {"add", "remove", "restore"}
Flow == [pc : {"job", "verify", "rules", "parity", "undo", "release",
               "leave", "client", "others"},
         kind : Kinds, dev : Device, since : Time, ok : BOOLEAN,
         held : BOOLEAN]  \* history: HasRules when it began

CDTypeOK ==
  /\ CPTypeOK
  /\ flow \in Flow \cup {Idle}
  /\ answer \in {"none", "created", "reverted", "removed", "removal_incomplete", "error"}

At(pc) == flow.pc = pc
Goto(pc) == flow' = [flow EXCEPT !.pc = pc]
GiveUp == Goto("undo")
Finish(result) == flow' = Idle /\ answer' = result

\* Mutant: every poll starts the time of waiting anew.
TimedOut_Never == clock > EndTime

\* _wait gives up when its condition has not held for long enough. In the last
\* minute, which never ends, only a trouble makes it wait that long.
TimedOut == clock >= flow.since + Patience \/ (clock = EndTime /\ trouble > 0)

---------------------------------------------------------------------------
(* Beginning: the service has made the change, or the request has failed *)

\* AdGuard holds rules for the device, or a run is about to write some.
HasRules(d) ==
  block.snap[d] # Absent \/ \E r \in Runs : run[r].pc = "rules" /\ run[r].snap[d] # Absent

Begin(kind, d, pc) ==
  /\ flow = Idle
  /\ \/ /\ up'
        /\ flow' = [pc |-> pc, kind |-> kind, dev |-> d, since |-> clock, ok |-> TRUE,
                    held |-> HasRules(d)]
        /\ UNCHANGED answer
     \/ (~up' \/ missed') /\ Finish("error")

\* With no windows, or with those of another child's device.
Add(d) ==
  /\ \E w \in {{}} \cup {book[k].win : k \in Devices(book)} : AddChildDevice(d, w)
  /\ Begin("add", d, "job")

Remove(d) ==
  /\ RemoveChildDevice(d, TRUE) /\ Change
  /\ Begin("remove", d, "leave")

Restore(d) ==
  /\ RestoreChildDevice(d)
  /\ Begin("restore", d, "job")

---------------------------------------------------------------------------
(* _verify_added *)

JobApplied ==
  /\ At("job") /\ LineOf(flow.dev) # "free"
  /\ Goto("verify")
  /\ UNCHANGED <<cpVars, answer>>

JobLate ==
  /\ At("job") /\ LineOf(flow.dev) = "free" /\ TimedOut
  /\ GiveUp
  /\ UNCHANGED <<cpVars, answer>>

VerifyClient ==
  /\ At("verify")
  /\ IF flow.dev \in clients THEN Goto("rules") ELSE GiveUp
  /\ UNCHANGED <<cpVars, answer>>

\* Parental._policy: the rules are those the model gives for now, or for 75 s ago,
\* with the exceptions that the service calls active now.
InSync ==
  \E at \in {clock - 2, clock - 1, clock} :
    \A d \in Device : LineOf(d) = Line(book[d], at, clock)

VerifyRules ==
  /\ At("rules")
  /\ IF up /\ InSync THEN Goto("parity") ELSE GiveUp
  /\ UNCHANGED <<cpVars, answer>>

\* A call to AdGuard fails: like any surprise it takes the device back.
VerifyFails ==
  /\ At("verify") \/ At("rules")
  /\ Failure /\ GiveUp
  /\ UNCHANGED <<answer>>

\* The parity checker's next pass finds the replica equal.
ParityMatches ==
  /\ At("parity")
  /\ Finish(IF flow.kind = "remove" THEN "removed" ELSE "created")
  /\ UNCHANGED cpVars

\* It finds a difference, or does not run in time.
ParityDiffers ==
  /\ At("parity") /\ Failure
  /\ IF flow.kind = "remove" THEN Finish("removal_incomplete")
     ELSE GiveUp /\ UNCHANGED answer

---------------------------------------------------------------------------
(* _rollback *)

Rollback ==
  /\ At("undo")
  /\ RemoveChildDevice(flow.dev, FALSE) /\ UNCHANGED changes
  /\ \/ up' /\ flow' = [flow EXCEPT !.pc = "release", !.since = clock] /\ UNCHANGED answer
     \/ (~up' \/ missed') /\ Finish("reverted")

RollbackRefused ==
  /\ At("undo")
  /\ ~up \/ book[flow.dev] = Absent \/ Devices(book) = {flow.dev}
  /\ Finish("reverted")
  /\ UNCHANGED cpVars

\* _delete_client is tried whether or not the address was released in time; a refusal is
\* noted, a failure to look for the entry ends the request.
Released ==
  /\ At("release")
  /\ LineOf(flow.dev) = "free" \/ TimedOut
  /\ \/ DeleteClient(flow.dev) /\ Finish("reverted")
     \/ Failure /\ (Finish("reverted") \/ Finish("error"))

---------------------------------------------------------------------------
(* remove *)

Left ==
  /\ At("leave")
  /\ LineOf(flow.dev) = "free" \/ TimedOut
  /\ flow' = [flow EXCEPT !.pc = "client", !.ok = LineOf(flow.dev) = "free"]
  /\ UNCHANGED <<cpVars, answer>>

DropClient ==
  /\ At("client")
  /\ \/ DeleteClient(flow.dev) /\ Goto("others") /\ UNCHANGED answer
     \/ Failure /\ flow' = [flow EXCEPT !.pc = "others", !.ok = FALSE] /\ UNCHANGED answer
     \/ Failure /\ Finish("error")

CheckOthers ==
  /\ At("others")
  /\ IF ~up THEN Finish("error")
     ELSE IF flow.ok /\ InSync THEN Goto("parity") /\ UNCHANGED answer
     ELSE Finish("removal_incomplete")
  /\ UNCHANGED cpVars

CrashGateway ==
  /\ flow # Idle /\ Failure
  /\ Finish("error")

---------------------------------------------------------------------------
FlowStep ==
  \/ JobApplied \/ JobLate \/ VerifyClient \/ VerifyRules \/ VerifyFails
  \/ ParityMatches \/ ParityDiffers \/ Rollback \/ RollbackRefused \/ Released
  \/ Left \/ DropClient \/ CheckOthers

CDInit ==
  /\ CPInit
  /\ flow = Idle /\ answer = "none"

CDNext ==
  \/ PolicyNext /\ UNCHANGED <<flow, answer>>
  \/ \E d \in Device : Add(d) \/ Remove(d) \/ Restore(d)
  \/ FlowStep \/ CrashGateway

\* The timer, the runs it starts, and the gateway's loops. The service may stay down.
Fairness ==
  /\ WF_cdVars(Tick /\ UNCHANGED <<flow, answer>>)
  /\ WF_cdVars(StartRun("timer") /\ UNCHANGED <<flow, answer>>)
  /\ \A r \in Runs : WF_cdVars(RunStep(r) /\ UNCHANGED <<flow, answer>>)
  /\ WF_cdVars(FlowStep)

CDSpec == CDInit /\ [][CDNext]_cdVars /\ Fairness

---------------------------------------------------------------------------
(* "created" is said of a device that the service knows, that is among those  *)
(* AdGuard's rules are made for, and that has its entry - whatever the job,   *)
(* the clock and the parents did since each of these was looked at: a run      *)
(* reads the snapshot under the lock (_verify_added, childpolicy.run). Rules   *)
(* that an unfinished removal had left behind, or that a run from before it    *)
(* was still to write, may be taken for the new ones.                          *)
CreatedIsEnforced ==
  [][flow # Idle /\ flow' = Idle /\ answer' = "created" /\ ~flow.held =>
       /\ book[flow.dev] # Absent
       /\ block.snap[flow.dev] # Absent
       /\ flow.dev \in clients]_cdVars

(* Every opening ends, also when the service never comes back: the job ends   *)
(* windows and exceptions by its own clock, from its last good copy if need be.*)
(* Only a job that never had a good copy leaves the rules as they are.        *)
EndsClosed ==
  <>[](lastGood # Broken => \A d \in Devices(block.snap) : LineOf(d) = "closed")

(* While the service runs and its file is written and readable, AdGuard        *)
(* restricts in the end exactly the devices the service knows. (A file that     *)
(* was spoilt is only written again at the next write, and so is a change whose *)
(* audit could not be mirrored or whose snapshot was refused.)                  *)
ChangesArrive ==
  <>[](up /\ ~behind /\ ~missed /\ file # Broken) => <>[](Devices(block.snap) = Devices(book))

(* Openings end, and changes arrive, by the job's own loop.                    *)
PolicyArrives ==
  /\ EndsClosed
  /\ ChangesArrive

(* In every state the policy restricts somebody, and opens only what was opened. *)
PolicySafe ==
  /\ CDTypeOK
  /\ NeverUnrestricted
  /\ OpenIsGranted

(* Every device change ends, and lets the next one begin.                     *)
EveryDeviceChangeEnds == flow # Idle ~> flow = Idle

=============================================================================
