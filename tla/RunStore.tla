------------------------------ MODULE RunStore ------------------------------
(***************************************************************************)
(* The timed runs of the schedule service (portal/schedules/sched): the    *)
(* table `runs` and the operations start, extend, cancel/withdraw and      *)
(* expire on it, the audit sequence every write advances, and the          *)
(* publication of the rendered Home Assistant configuration in out/.       *)
(*                                                                         *)
(* The service handles its requests on one event loop, so an operation and *)
(* the publication it ends with are one step; what can interrupt them is a *)
(* write that fails and a crash of the process, both modelled in           *)
(* PublishOutcome.                                                         *)
(***************************************************************************)
EXTENDS Integers, FiniteSets

CONSTANTS
  Plug,             \* entities of kind "plug"
  RunId,            \* run ids (a fresh uuid each: an id is used once)
  Minutes,          \* lengths a person may ask for, in minutes
  Window,           \* windows a plug may have today, records [from, to] in ticks
  NoEdge,           \* minutes in which no run may start or end (DST_FORBIDDEN)
  Minute,           \* clock ticks in one minute
  MaxOn,            \* guardrail max_on_minutes, in ticks
  MinGap,           \* guardrail min_gap_minutes, in ticks
  AllowedFrom,      \* guardrail allowed_from, in ticks
  AllowedTo,        \* guardrail allowed_to, in ticks
  Grace,            \* RUN_GRACE_S, in ticks
  MinRemaining,     \* RUN_MIN_REMAINING_S, in ticks
  MaxTime,          \* bound on the clock
  MaxSeq,           \* bound on the audit sequence, sweeps of the loop apart
  MaxFaults         \* bound on failed writes and crashes

ASSUME PlugsAssumption == Plug # {} /\ IsFiniteSet(RunId)
ASSUME TimesAssumption ==
  /\ Minute \in Nat \ {0} /\ MaxTime \in Nat /\ MaxSeq \in Nat /\ MaxFaults \in Nat
  /\ MaxOn \in Nat /\ MinGap \in Nat /\ AllowedFrom \in Nat /\ AllowedTo \in Nat
  /\ Grace \in Nat /\ MinRemaining \in Nat /\ Minutes \subseteq Nat \ {0}
  /\ NoEdge \subseteq Nat
ASSUME WindowAssumption == \A w \in Window : w.from \in Nat /\ w.to \in Nat

VARIABLES
  now,        \* the clock
  status,     \* column runs.status; "none": no such row yet
  entity,     \* column runs.entity_id
  startedAt,  \* column runs.started_at
  endsAt,     \* column runs.ends_at
  endedAt,    \* column runs.ended_at
  revSeq,     \* column runs.rev_seq
  windows,    \* the windows of each plug today (rules less skipped dates)
  managed,    \* column entities.managed
  seq,        \* the last row of the audit
  svc,        \* is the service process up?
  pubError,   \* Store.publish_error is set (shown by /v1/health)
  mirrorFailed, \* history: the last write's append to audit.jsonl failed
  out,        \* out/: the last render.json and READY, and whether they are whole
  published,  \* history: every <<seq, set>> that was ever whole in out/
  faults      \* failures used up

rows == <<status, entity, startedAt, endsAt, endedAt, revSeq>>
pubVars == <<out, published, pubError, mirrorFailed, svc, faults>>
storeVars == <<now, rows, windows, managed, seq, pubVars>>

Status == {"none", "active", "cancelled", "withdrawn", "ended"}
Content == [rendered : BOOLEAN, ends : SUBSET (RunId \X Nat), windows : SUBSET Window]
RenderedSet == [Plug -> Content]
Absent == [rendered |-> FALSE, ends |-> {}, windows |-> {}]

TypeOK ==
  /\ now \in Nat /\ seq \in Nat /\ faults \in Nat
  /\ status \in [RunId -> Status] /\ entity \in [RunId -> Plug]
  /\ startedAt \in [RunId -> Nat] /\ endsAt \in [RunId -> Nat]
  /\ endedAt \in [RunId -> Nat] /\ revSeq \in [RunId -> Nat]
  /\ windows \in [Plug -> SUBSET Window] /\ managed \in [Plug -> BOOLEAN]
  /\ svc \in BOOLEAN /\ pubError \in BOOLEAN /\ mirrorFailed \in BOOLEAN
  /\ out \in [seq : Nat, set : RenderedSet, whole : BOOLEAN]
  /\ published \subseteq Nat \X RenderedSet

-----------------------------------------------------------------------------
(* Times and guardrails.                                                   *)

CeilMinute(t) == ((t + Minute - 1) \div Minute) * Minute
FloorMinute(t) == (t \div Minute) * Minute

\* validate_run without the gap: [first, end) fits the guardrails of plug p.
Fits(p, first, end) ==
  /\ managed[p]
  /\ end - first <= MaxOn
  /\ AllowedFrom <= FloorMinute(first) /\ end <= AllowedTo
  /\ FloorMinute(first) \notin NoEdge /\ end \notin NoEdge
  /\ \A w \in windows[p] : ~(w.from < end /\ first < w.to)

ActiveOn(p) == {x \in RunId : status[x] = "active" /\ entity[x] = p}

\* Active, but past the end: only waiting out its grace in Home Assistant.
Over(p) == {x \in ActiveOn(p) : endsAt[x] <= now}

\* The end that counts for the gap: a cancelled run ended early.
EffectiveEnd(x) ==
  IF status[x] \in {"cancelled", "ended", "withdrawn"} /\ endedAt[x] < endsAt[x]
    THEN endedAt[x] ELSE endsAt[x]

\* Mutant: the run that this very start closes is forgotten.
Counted_ClosedOnly(p) == {x \in RunId : status[x] \in {"cancelled", "ended"} /\ entity[x] = p}

\* Runs that count for the gap; the run closed by this very start is one.
Counted(p) == {x \in RunId : status[x] \in {"cancelled", "ended"} /\ entity[x] = p} \cup Over(p)

-----------------------------------------------------------------------------
(* Rendering and publication.                                              *)

\* What render() puts into the files of plug p. An unmanaged plug has none.
Render(p) ==
  IF managed[p]
    THEN [rendered |-> TRUE, windows |-> windows[p],
          ends |-> {<<x, endsAt[x]>> : x \in ActiveOn(p)}]
    ELSE Absent

Rendered == [p \in Plug |-> Render(p)]

PublishWhole ==
  /\ out' = [seq |-> seq', set |-> Rendered', whole |-> TRUE]
  /\ published' = published \cup {<<seq', Rendered'>>}

\* Interrupted before READY: either no file was touched yet, or the files, the
\* render.json and READY no longer agree and the applier refuses the render.
PublishTorn ==
  /\ out' \in {out, [out EXCEPT !.whole = FALSE]}
  /\ UNCHANGED published

\* Mutant: a failed publication is swallowed without the flag.
Publication_Silent ==
  /\ mirrorFailed' = FALSE
  /\ \/ PublishWhole /\ pubError' = FALSE /\ UNCHANGED <<svc, faults>>
     \/ faults < MaxFaults /\ faults' = faults + 1 /\ PublishTorn /\ UNCHANGED <<svc, pubError>>

\* publish(): a failure inside is caught and flagged, even one after READY (the
\* children's policy is written last); a crash loses the flag with the process.
Publication ==
  /\ mirrorFailed' = FALSE
  /\ \/ PublishWhole /\ pubError' = FALSE /\ UNCHANGED <<svc, faults>>
     \/ /\ faults < MaxFaults /\ faults' = faults + 1
        /\ \/ (PublishTorn \/ PublishWhole) /\ pubError' = TRUE /\ UNCHANGED svc
           \/ PublishTorn /\ svc' = FALSE /\ pubError' = FALSE

\* What follows a commit: the append to audit.jsonl, which may raise, and publish().
PublishOutcome ==
  \/ Publication
  \/ /\ faults < MaxFaults /\ faults' = faults + 1
     /\ mirrorFailed' = TRUE /\ UNCHANGED <<out, published, pubError, svc>>

-----------------------------------------------------------------------------
(* Operations.                                                             *)

\* The rows of start_run: close what is over, then add the run.
AddRun(p, r, end) ==
  LET closed == Over(p)
      seqBefore == IF closed = {} THEN seq ELSE seq + 1   \* OneActive: at most one to close
  IN
  /\ status' = [x \in RunId |-> IF x = r THEN "active"
                                ELSE IF x \in closed THEN "ended" ELSE status[x]]
  /\ endedAt' = [x \in RunId |-> IF x \in closed THEN endsAt[x] ELSE endedAt[x]]
  /\ revSeq' = [x \in RunId |-> IF x = r THEN seqBefore + 1
                                ELSE IF x \in closed THEN seq + 1 ELSE revSeq[x]]
  /\ entity' = [entity EXCEPT ![r] = p]
  /\ startedAt' = [startedAt EXCEPT ![r] = now]
  /\ endsAt' = [endsAt EXCEPT ![r] = end]
  /\ seq' = seqBefore + 1
  /\ UNCHANGED <<now, windows, managed>>
  /\ PublishOutcome

StartRun(p, r, m) ==
  LET end == CeilMinute(now + m * Minute) IN
  /\ svc /\ status[r] = "none" /\ seq + 2 <= MaxSeq
  /\ ActiveOn(p) = Over(p)                       \* else RunConflict
  /\ \A x \in Counted(p) : EffectiveEnd(x) + MinGap <= now
  /\ Fits(p, now, end) /\ AddRun(p, r, end)

\* Mutant: rev_seq stays.
MoveEnd_SameRev(r, end) ==
  /\ endsAt' = [endsAt EXCEPT ![r] = end]
  /\ seq' = seq + 1
  /\ UNCHANGED <<now, status, entity, startedAt, endedAt, revSeq, windows, managed>>
  /\ PublishOutcome

\* The row of extend_run: minutes are added to the end as it stands.
MoveEnd(r, end) ==
  /\ endsAt' = [endsAt EXCEPT ![r] = end]
  /\ revSeq' = [revSeq EXCEPT ![r] = seq + 1]
  /\ seq' = seq + 1
  /\ UNCHANGED <<now, status, entity, startedAt, endedAt, windows, managed>>
  /\ PublishOutcome

\* Mutant: no time needs to be left.
ExtendRun_ToTheLast(r, m) ==
  LET end == CeilMinute(endsAt[r] + m * Minute) IN
  /\ svc /\ status[r] = "active" /\ seq < MaxSeq /\ endsAt[r] > now
  /\ Fits(entity[r], startedAt[r], end) /\ MoveEnd(r, end)

ExtendRun(r, m) ==
  LET end == CeilMinute(endsAt[r] + m * Minute) IN
  /\ svc /\ status[r] = "active" /\ seq < MaxSeq
  /\ endsAt[r] - now >= MinRemaining
  /\ Fits(entity[r], startedAt[r], end) /\ MoveEnd(r, end)

\* The row of cancel_run.
CloseRun(r, how) ==
  /\ status' = [status EXCEPT ![r] = how]
  /\ endedAt' = [endedAt EXCEPT ![r] = now]
  /\ revSeq' = [revSeq EXCEPT ![r] = seq + 1]
  /\ seq' = seq + 1
  /\ UNCHANGED <<now, entity, startedAt, endsAt, windows, managed>>
  /\ PublishOutcome

\* Mutant: a closed run is cancelled again.
CancelRun_Again(r, how) ==
  svc /\ status[r] # "none" /\ endsAt[r] > now /\ seq < MaxSeq /\ CloseRun(r, how)

\* how = "cancelled", or "withdrawn" when the plug was never switched on.
CancelRun(r, how) ==
  svc /\ status[r] = "active" /\ endsAt[r] > now /\ seq < MaxSeq /\ CloseRun(r, how)

\* The sweep of the background loop; an ended row's rev_seq is not read again.
EndRuns(late) ==
  /\ status' = [x \in RunId |-> IF x \in late THEN "ended" ELSE status[x]]
  /\ endedAt' = [x \in RunId |-> IF x \in late THEN endsAt[x] ELSE endedAt[x]]
  /\ seq' = seq + Cardinality(late)
  /\ revSeq' = [x \in RunId |-> IF x \in late THEN seq' ELSE revSeq[x]]
  /\ UNCHANGED <<now, entity, startedAt, endsAt, windows, managed>>

Late == {x \in RunId : status[x] = "active" /\ now > endsAt[x] + Grace}

\* Mutant: the sweep does not publish.
ExpireRuns_Unpublished == svc /\ Late # {} /\ EndRuns(Late) /\ UNCHANGED pubVars

ExpireRuns == svc /\ Late # {} /\ EndRuns(Late) /\ PublishOutcome    \* bounded by the runs, not MaxSeq

\* A schedule edit (or a skipped date) that changes what today's windows are.
PutSchedule(p, ws) ==
  /\ svc /\ ws # windows[p] /\ seq < MaxSeq
  /\ windows' = [windows EXCEPT ![p] = ws]
  /\ seq' = seq + 1
  /\ UNCHANGED <<now, rows, managed>>
  /\ PublishOutcome

\* PATCH managed: the cut-over switch. The code does not look at the runs.
SetManaged(p, on) ==
  /\ svc /\ managed[p] # on /\ seq < MaxSeq
  /\ managed' = [managed EXCEPT ![p] = on]
  /\ seq' = seq + 1
  /\ UNCHANGED <<now, rows, windows>>
  /\ PublishOutcome

\* The background loop notes an applier result in the audit; nothing is published.
RecordApply ==
  /\ svc /\ seq < MaxSeq
  /\ seq' = seq + 1
  /\ UNCHANGED <<now, rows, windows, managed, pubVars>>

\* The background loop retries a failed publication.
Republish ==
  /\ svc /\ pubError
  /\ UNCHANGED <<now, rows, windows, managed, seq>>
  /\ Publication

\* A pass of the background loop that finds nothing to do.
Background ==
  /\ svc /\ ~pubError
  /\ UNCHANGED storeVars

Crash ==
  /\ svc /\ faults < MaxFaults
  /\ svc' = FALSE /\ pubError' = FALSE /\ mirrorFailed' = FALSE /\ faults' = faults + 1
  /\ UNCHANGED <<now, rows, windows, managed, seq, out, published>>

\* Mutant: the start does not publish.
Restart_Unpublished ==
  /\ ~svc /\ svc' = TRUE
  /\ UNCHANGED <<now, rows, windows, managed, seq, out, published, pubError, mirrorFailed,
                 faults>>

\* Start of the process: it publishes what the database holds.
Restart ==
  /\ ~svc /\ svc' = TRUE
  /\ UNCHANGED <<now, rows, windows, managed, seq, mirrorFailed>>
  /\ \/ PublishWhole /\ pubError' = FALSE /\ UNCHANGED faults
     \/ /\ faults < MaxFaults /\ faults' = faults + 1
        /\ PublishTorn \/ PublishWhole
        /\ pubError' = TRUE

Tick ==
  /\ now < MaxTime /\ now' = now + 1
  /\ UNCHANGED <<rows, windows, managed, seq, pubVars>>

-----------------------------------------------------------------------------
\* A database seeded with every plug managed, without windows, and published.
StoreInit ==
  /\ now = 0 /\ seq = 1 /\ faults = 0 /\ svc = TRUE
  /\ pubError = FALSE /\ mirrorFailed = FALSE
  /\ status = [x \in RunId |-> "none"]
  /\ entity \in {[x \in RunId |-> p] : p \in Plug}
  /\ startedAt = [x \in RunId |-> 0] /\ endsAt = [x \in RunId |-> 0]
  /\ endedAt = [x \in RunId |-> 0] /\ revSeq = [x \in RunId |-> 0]
  /\ windows = [p \in Plug |-> {}] /\ managed = [p \in Plug |-> TRUE]
  /\ out = [seq |-> 1, set |-> Rendered, whole |-> TRUE]
  /\ published = {<<1, Rendered>>}

StoreStep ==
  \/ \E p \in Plug, r \in RunId, m \in Minutes : StartRun(p, r, m)
  \/ \E r \in RunId, m \in Minutes : ExtendRun(r, m)
  \/ \E r \in RunId, how \in {"cancelled", "withdrawn"} : CancelRun(r, how)
  \/ ExpireRuns
  \/ \E p \in Plug, ws \in SUBSET Window : PutSchedule(p, ws)
  \/ \E p \in Plug, on \in BOOLEAN : SetManaged(p, on)
  \/ RecordApply \/ Republish \/ Background \/ Crash \/ Restart \/ Tick

StoreSpec == StoreInit /\ [][StoreStep]_storeVars

\* The loop of the service and the supervisor that restarts it keep going, and
\* time passes; people, faults and the applier are free to do nothing.
Fairness ==
  /\ WF_storeVars(Tick) /\ WF_storeVars(Restart)
  /\ WF_storeVars(Republish) /\ WF_storeVars(ExpireRuns)

FairSpec == StoreSpec /\ Fairness

-----------------------------------------------------------------------------
(* Properties.                                                             *)

\* A plug never has two active runs: RunConflict in start_run, together with
\* closing the runs that are over, keeps the table free of a second one.
OneActive ==
  \A x, y \in RunId :
    status[x] = "active" /\ status[y] = "active" /\ entity[x] = entity[y] => x = y

\* The runs of a plug that count (all but the withdrawn ones) never overlap and
\* keep min_gap_minutes between them, whatever was extended, cancelled early,
\* expired or closed by the start of the next run.
GapKept ==
  \A x, y \in RunId :
    /\ status[x] \in {"active", "cancelled", "ended"}
    /\ status[y] \in {"active", "cancelled", "ended"}
    /\ entity[x] = entity[y] /\ x # y
    => \/ EffectiveEnd(x) + MinGap <= startedAt[y]
       \/ EffectiveEnd(y) + MinGap <= startedAt[x]

\* max_on_minutes counts from the real start, through every extension.
LengthBounded ==
  \A x \in RunId : status[x] # "none" => /\ endsAt[x] - startedAt[x] <= MaxOn
                                         /\ EffectiveEnd(x) >= startedAt[x]

\* What extensions, cancels, starts and expiries keep together of a plug's runs.
RunsKept ==
  /\ OneActive
  /\ GapKept
  /\ LengthBounded

\* A publication that is behind the database is visible: either out/ is whole
\* and shows exactly the active runs, or publish_error is set, or the service is
\* down ("failure is health-visible", store.publish). Not so when the append to
\* audit.jsonl raised: the operation ends there, before publish().
StaleIsVisible ==
  svc /\ ~pubError /\ ~mirrorFailed => out.whole /\ out.set = Rendered

\* The soundness of rev_seq, on which run_armed rests: every set that was ever
\* published at or after the last change of an active run and that renders its
\* plug holds its current end, and no end of another run of that plug.
RevCovered ==
  \A r \in RunId, pub \in published :
    status[r] = "active" /\ pub[1] >= revSeq[r] /\ pub[2][entity[r]].rendered
      => pub[2][entity[r]].ends = {<<r, endsAt[r]>>}

\* A closed run is closed for good and its row does not move any more.
ClosedIsFinal ==
  [][\A r \in RunId : status[r] \in {"cancelled", "withdrawn", "ended"} =>
       /\ status'[r] = status[r] /\ endsAt'[r] = endsAt[r]
       /\ endedAt'[r] = endedAt[r]]_storeVars

\* A run whose grace is over leaves the published set in the end, so its
\* end-of-run automation does not pile up in Home Assistant.
LeavesTheRender ==
  \A r \in RunId :
    (status[r] = "active" /\ now > endsAt[r] + Grace)
      ~> mirrorFailed \/ \A p \in Plug : \A end \in out.set[p].ends : end[1] # r

=============================================================================
