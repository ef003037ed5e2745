------------------------------ MODULE Applier -------------------------------
(***************************************************************************)
(* portal-apply (portal/schedules/applier/portal_apply.py): the host-side  *)
(* program that puts the published render into Home Assistant's generated/ *)
(* directory, checks it, reloads Home Assistant, verifies what it loaded,  *)
(* and records the verdict in apply-status.json.                           *)
(*                                                                         *)
(* One pass at a time runs (flock), started by the READY path unit or the  *)
(* five-minute timer. It can be cut at any step: a subprocess timeout that *)
(* is not caught, TimeoutStartSec, a reboot. Home Assistant may stop, and  *)
(* start again from whatever is on disk, between any two steps.            *)
(***************************************************************************)
EXTENDS Integers, FiniteSets

CONSTANTS
  File,       \* files of generated/ (one per managed plug)
  Value,      \* contents of a file; a missing file is one of them
  Unset,      \* apply-status.json does not exist yet
  Drift,      \* may somebody change what Home Assistant runs by hand?
  HaMayStop,  \* may Home Assistant be down?
  MayAbort,   \* may a pass be cut?
  MaxPublish, \* bound on the published renders
  MaxTrouble  \* bound on stops, cuts, failed passes and hand changes

ASSUME MarkAssumption == Unset \notin [File -> Value]
ASSUME SwitchAssumption == Drift \in BOOLEAN /\ HaMayStop \in BOOLEAN /\ MayAbort \in BOOLEAN
ASSUME BoundAssumption == MaxPublish \in Nat /\ MaxTrouble \in Nat

VARIABLES
  out,       \* what the service published last: seq, set, and whether it is whole
  published, \* history: every <<seq, set>> that was ever whole in out/
  gen,       \* generated/: the files on disk
  haUp,      \* is Home Assistant running?
  loaded,    \* the set Home Assistant loaded last (also what its recorder says)
  reloadDue, \* a reload was accepted by the webhook and has not run yet
  drifted,   \* history: somebody changed by hand what was loaded
  st,        \* apply-status.json: result, seq, set_hash (the set itself), loaded_ok
  held,      \* the last failure is less than an hour old
  pc,        \* where the running pass is
  job,       \* the render the pass took (seq, set)
  previous,  \* the files the pass found and would put back
  reloadOld, \* must the roll-back reload Home Assistant?
  verified,  \* history: the sets that were verified, and the initial files
  trouble    \* troubles used up

passVars == <<pc, job, previous, reloadOld>>
haVars == <<haUp, loaded, reloadDue, drifted>>
hostVars == <<gen, haVars, st, held, passVars, verified, trouble>>
vars == <<out, published, hostVars>>

Files == [File -> Value]
Steps == {"idle", "write", "reload", "verify", "commit", "undo"}
Results == {"none", "pending", "applied", "failed"}

TypeOK ==
  /\ out \in [seq : Nat, set : Files, whole : BOOLEAN]
  /\ published \subseteq Nat \X Files
  /\ gen \in Files /\ loaded \in Files /\ previous \in Files
  /\ haUp \in BOOLEAN /\ reloadDue \in BOOLEAN /\ drifted \in BOOLEAN /\ held \in BOOLEAN /\ reloadOld \in BOOLEAN
  /\ st \in [result : Results, seq : Nat, set : Files \cup {Unset}, ok : BOOLEAN]
  /\ pc \in Steps
  /\ job \in [seq : Nat, set : Files]
  /\ verified \subseteq Files
  /\ trouble \in Nat

Trouble == trouble < MaxTrouble /\ trouble' = trouble + 1

-----------------------------------------------------------------------------
(* A pass.                                                                 *)

InPlace == gen = out.set /\ st.set = out.set /\ st.result = "applied"

\* Mutant: a render that is still pending is held back as well.
HeldBack_Pending == st.set = out.set /\ st.result # "applied"

\* The same render failed less than an hour ago (failed-held).
HeldBack == st.result = "failed" /\ st.set = out.set /\ held

\* Mutant: the old status stands until the new verdict.
Take_NoPending ==
  /\ pc = "idle" /\ out.whole /\ ~InPlace
  /\ job' = [seq |-> out.seq, set |-> out.set]
  /\ previous' = gen
  /\ pc' = "write"
  /\ UNCHANGED <<out, published, gen, haVars, st, held, reloadOld, verified, trouble>>

\* read_render, read_gen and the first write_status: from here on the status
\* says pending, before the first file is touched.
Take ==
  /\ pc = "idle" /\ out.whole /\ ~InPlace
  /\ job' = [seq |-> out.seq, set |-> out.set]
  /\ previous' = gen
  /\ st' = [result |-> "pending", seq |-> out.seq, set |-> out.set, ok |-> FALSE]
  /\ pc' = "write"
  /\ UNCHANGED <<out, published, gen, haVars, held, reloadOld, verified, trouble>>

Begin == ~HeldBack /\ Take
ForceBegin == HeldBack /\ Take          \* portal_apply.py --force, by hand

\* reverify: nothing to apply; compare what Home Assistant runs with the render.
\* Read through the recorder (API not usable) a long-unchanged item looks gone.
Reverify ==
  /\ pc = "idle" /\ out.whole /\ InPlace
  /\ \/ loaded = out.set /\ st' = [st EXCEPT !.ok = TRUE] /\ UNCHANGED trouble
     \/ loaded # out.set /\ st' = [st EXCEPT !.ok = FALSE] /\ UNCHANGED trouble
     \/ loaded = out.set /\ st' = [st EXCEPT !.ok = FALSE] /\ Trouble
  /\ UNCHANGED <<out, published, gen, haVars, held, passVars, verified>>

\* The pass ends at once: no complete render, or the same one just failed.
NothingToDo ==
  /\ pc = "idle" /\ (~out.whole \/ HeldBack)
  /\ UNCHANGED vars

\* write_gen, a file at a time, each replaced atomically.
WriteFile(f) ==
  /\ pc = "write" /\ gen[f] # job.set[f]
  /\ gen' = [gen EXCEPT ![f] = job.set[f]]
  /\ UNCHANGED <<out, published, haVars, st, held, passVars, verified, trouble>>

\* check_config judges the whole configuration, hand-written files included.
CheckConfig ==
  /\ pc = "write" /\ gen = job.set
  /\ \/ pc' = "reload" /\ UNCHANGED <<reloadOld, trouble>>
     \/ pc' = "undo" /\ reloadOld' = FALSE /\ Trouble
  /\ UNCHANGED <<out, published, gen, haVars, st, held, job, previous, verified>>

\* The webhook answers when the reload is accepted, not when it has run.
Reload ==
  /\ pc = "reload" /\ haUp
  /\ reloadDue' = TRUE /\ pc' = "verify"
  /\ UNCHANGED <<out, published, gen, haUp, loaded, drifted, st, held, job, previous, reloadOld,
                 verified, trouble>>

\* Home Assistant is down; or (a trouble) the webhook's id is unreadable, it answers an error, or it accepts the
\* reload and the answer does not come. Keep the new files, stay pending, let the timer retry.
ReloadNotDone ==
  /\ pc = "reload"
  /\ \/ ~haUp /\ UNCHANGED <<reloadDue, trouble>>
     \/ haUp /\ reloadDue' \in {reloadDue, TRUE} /\ Trouble
  /\ st' = [st EXCEPT !.result = "pending", !.ok = FALSE]
  /\ pc' = "idle"
  /\ UNCHANGED <<out, published, gen, haUp, loaded, drifted, held, job, previous, reloadOld, verified>>

\* Mutant: an accepted reload counts as loaded.
VerifyOk_Accepted ==
  /\ pc = "verify" /\ haUp
  /\ pc' = "commit"
  /\ verified' = verified \cup {job.set}
  /\ UNCHANGED <<out, published, gen, haVars, st, held, job, previous, reloadOld, trouble>>

\* verify_loaded: one of the polls sees exactly the rendered set.
VerifyOk ==
  /\ pc = "verify" /\ loaded = job.set
  /\ pc' = "commit"
  /\ verified' = verified \cup {job.set}
  /\ UNCHANGED <<out, published, gen, haVars, st, held, job, previous, reloadOld, trouble>>

\* The polls time out: Home Assistant is down or its reload did not take; or
\* (a trouble) the reload is slow, or the recorder misjudged what is loaded.
VerifyTimeout ==
  /\ pc = "verify"
  /\ \/ Trouble
     \/ loaded # job.set /\ ~reloadDue /\ UNCHANGED trouble
  /\ pc' = "undo" /\ reloadOld' = TRUE
  /\ UNCHANGED <<out, published, gen, haVars, st, held, job, previous, verified>>

\* git commit and push (either may fail, it changes nothing here), save_good,
\* and the status that the service reads as "armed".
Commit ==
  /\ pc = "commit"
  /\ st' = [result |-> "applied", seq |-> job.seq, set |-> job.set, ok |-> TRUE]
  /\ pc' = "idle"
  /\ UNCHANGED <<out, published, gen, haVars, held, job, previous, reloadOld, verified, trouble>>

\* fail(): write_gen(previous), a file at a time ...
UndoFile(f) ==
  /\ pc = "undo" /\ gen[f] # previous[f]
  /\ gen' = [gen EXCEPT ![f] = previous[f]]
  /\ UNCHANGED <<out, published, haVars, st, held, passVars, verified, trouble>>

\* ... then a reload of the old files if the new ones were loaded, and the
\* status. (The check of the old set only words the alert.)
Failed ==
  /\ pc = "undo" /\ gen = previous
  /\ reloadDue' = (reloadDue \/ (reloadOld /\ haUp))
  /\ st' = [st EXCEPT !.result = "failed", !.ok = FALSE]
  /\ held' = TRUE /\ pc' = "idle"
  /\ UNCHANGED <<out, published, gen, haUp, loaded, drifted, job, previous, reloadOld, verified, trouble>>

\* The pass is cut: check_config or git run into their timeout, systemd's
\* TimeoutStartSec, a reboot of the host.
Abort ==
  /\ MayAbort /\ pc # "idle" /\ Trouble
  /\ pc' = "idle"
  /\ UNCHANGED <<out, published, gen, haVars, st, held, job, previous, reloadOld, verified>>

\* An hour passes.
HoldOver ==
  /\ held /\ held' = FALSE
  /\ UNCHANGED <<out, published, gen, haVars, st, passVars, verified, trouble>>

-----------------------------------------------------------------------------
(* Home Assistant, as far as the applier can tell.                         *)

\* The reload runs: the files as they are now, or an error keeps the old set.
HaReload ==
  /\ haUp /\ reloadDue /\ reloadDue' = FALSE
  /\ \/ loaded' = gen /\ drifted' = FALSE /\ UNCHANGED trouble
     \/ UNCHANGED <<loaded, drifted>> /\ Trouble
  /\ UNCHANGED <<out, published, gen, haUp, st, held, passVars, verified>>

HaStop ==
  /\ HaMayStop /\ haUp /\ Trouble
  /\ haUp' = FALSE /\ reloadDue' = FALSE
  /\ UNCHANGED <<out, published, gen, loaded, drifted, st, held, passVars, verified>>

\* A start loads what is on disk, be it half-written.
HaStart ==
  /\ ~haUp /\ haUp' = TRUE /\ loaded' = gen /\ drifted' = FALSE
  /\ UNCHANGED <<out, published, gen, reloadDue, st, held, passVars, verified, trouble>>

\* Somebody changes the automations Home Assistant runs.
HandChange ==
  /\ Drift /\ haUp /\ Trouble
  /\ \E f \in File, v \in Value : v # loaded[f] /\ loaded' = [loaded EXCEPT ![f] = v]
  /\ drifted' = TRUE
  /\ UNCHANGED <<out, published, gen, haUp, reloadDue, st, held, passVars, verified>>

-----------------------------------------------------------------------------
(* The service, as far as the applier can tell: RunStore has the real one. *)

Publish ==
  /\ out.seq < MaxPublish
  /\ \E set \in Files : out' = [seq |-> out.seq + 1, set |-> set, whole |-> TRUE]
  /\ published' = published \cup {<<out'.seq, out'.set>>}
  /\ UNCHANGED hostVars

\* A publication that stopped half-way (READY, render.json and files disagree).
PublishTorn ==
  /\ out.whole /\ Trouble
  /\ out' = [out EXCEPT !.whole = FALSE]
  /\ UNCHANGED <<published, gen, haVars, st, held, passVars, verified>>

-----------------------------------------------------------------------------
\* Before the first pass: hand-written files that Home Assistant runs.
HostInit ==
  /\ gen \in Files /\ loaded = gen /\ haUp = TRUE /\ reloadDue = FALSE /\ drifted = FALSE
  /\ st = [result |-> "none", seq |-> 0, set |-> Unset, ok |-> FALSE] /\ held = FALSE
  /\ pc = "idle" /\ previous = gen /\ reloadOld = FALSE
  /\ job = [seq |-> 0, set |-> gen]
  /\ verified = {gen} /\ trouble = 0

Init ==
  /\ HostInit
  /\ \E set \in Files : out = [seq |-> 1, set |-> set, whole |-> TRUE]
  /\ published = {<<out.seq, out.set>>}

PassStep ==
  \/ Begin \/ Reverify \/ NothingToDo
  \/ \E f \in File : WriteFile(f)
  \/ CheckConfig \/ Reload \/ ReloadNotDone \/ VerifyOk \/ VerifyTimeout \/ Commit
  \/ \E f \in File : UndoFile(f)
  \/ Failed

HaStep == HaReload \/ HaStop \/ HaStart \/ HandChange

HostStep == PassStep \/ ForceBegin \/ Abort \/ HoldOver \/ HaStep

Next == HostStep \/ Publish \/ PublishTorn

Spec == Init /\ [][Next]_vars

\* The timer starts a pass every five minutes and a pass goes on unless it is
\* cut; a failure gets older; Home Assistant comes back and runs its reloads.
Fairness ==
  /\ WF_vars(PassStep) /\ WF_vars(HoldOver)
  /\ WF_vars(HaStart) /\ WF_vars(HaReload)

FairSpec == Spec /\ Fairness

-----------------------------------------------------------------------------
(* Properties.                                                             *)

Claimed == st.result = "applied" /\ st.ok

\* While the status says applied and loaded_ok, Home Assistant would load exactly
\* the set the status names after a restart, and runs it, hand changes apart: at no
\* step of a later pass, roll-back or restart does the claim outlive what it claims.
ClaimIsTrue == Claimed => gen = st.set /\ (drifted \/ loaded = st.set)

\* The seq of a claim belongs to the set of the claim: that very pair was published.
ClaimWasPublished == Claimed => <<st.seq, st.set>> \in published

\* The claim is one of what was published and is what Home Assistant has.
ApplierSafe ==
  /\ TypeOK
  /\ ClaimIsTrue
  /\ ClaimWasPublished

\* After a failed pass generated/ holds a set that Home Assistant ran before: "the
\* previous files come back" (portal_apply.py), "the applier already rolled HA
\* back to the previous files" (README). True as long as no pass ends without
\* a verdict; a pass that stays pending, or is cut, makes the unverified files
\* the "previous" ones of the next pass.
RollsBackToVerified == pc = "idle" /\ st.result = "failed" => gen \in verified

\* The published render gets a verdict, unless a newer one comes first: it is
\* claimed, or known to have failed, or known not to run.
Verdict ==
  \A n \in 1..MaxPublish :
    out.seq = n /\ out.whole
      ~> \/ out.seq # n \/ ~out.whole
         \/ st.set = out.set /\ st.result \in {"applied", "failed"} /\ pc = "idle"

\* A claim that a hand change made false is taken back, as long as the service's
\* publication is whole (on a torn one a pass ends before it verifies anything).
DriftNoticed ==
  (Claimed /\ loaded # st.set) ~> (~Claimed \/ loaded = st.set \/ ~out.whole)

\* Neither a render without a verdict nor a claim that has become false lasts.
VerdictsCome ==
  /\ Verdict
  /\ DriftNoticed

-----------------------------------------------------------------------------
(* The applier implements EndArming.                                       *)

ClaimMade == IF Claimed THEN <<st.seq, st.set>> ELSE Unset

\* What Home Assistant would load and, hand changes apart, runs.
InForce == IF drifted \/ loaded = gen THEN gen ELSE Unset

Arming == INSTANCE EndArming WITH
  Set <- Files, Mixed <- Unset, None <- Unset, claim <- ClaimMade, inForce <- InForce

ImplementsEndArming == Arming!Spec
=============================================================================
