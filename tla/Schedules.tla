----------------------------- MODULE Schedules ------------------------------
(***************************************************************************)
(* The editing side of the schedule service (portal/schedules/sched):      *)
(* entities with their rules, guardrails and flags, skipped dates, access  *)
(* tokens, and the append-only audit that every change writes and that     *)
(* undo reads. (Timed runs and the publication are in RunStore.)           *)
(*                                                                         *)
(* The service runs on one event loop and a change is one transaction, but *)
(* a handler with a body first authenticates, then waits for the body:     *)
(* Accept and Serve are two steps, and others act between them.            *)
(*                                                                         *)
(* A day is a few slots long and is the whole week; a rule is a window.    *)
(***************************************************************************)
EXTENDS Integers, FiniteSets, Sequences

CONSTANTS
  EntityId,    \* entities, the first of them seeded
  Seeded,      \* those the seed brings
  TokenId,     \* tokens
  AdminToken,  \* those with the role admin; the others are household tokens
  FirstTokens, \* those that exist at the start
  RuleSets,    \* rule lists that are sent: sets of windows [id, from, to]
  Guards,      \* guardrails that are sent: [max, gap, from, to]
  Horizon,     \* slots in a day
  NoEntity,    \* no such entity
  NoRequest,   \* no request under way
  MaxEvents    \* bound on rows of the audit, results of the applier and crashes together

Slot == 0..Horizon
Window == [id : Nat, from : Slot, to : Slot]
Guard == [max : Nat, gap : Nat, from : Slot, to : Slot]
ValidGuard(g) == g.from < g.to /\ g.max >= 1

\* A row of table entities with its rules and skipped date.
Entity == [rules : RuleSets, version : Nat, guard : Guards, editable : BOOLEAN, skipped : BOOLEAN]

ASSUME SchedulesNumbers == Horizon \in Nat \ {0} /\ MaxEvents \in Nat
ASSUME SchedulesNames ==
  /\ Seeded \subseteq EntityId /\ FirstTokens \subseteq TokenId /\ AdminToken \subseteq TokenId
  /\ NoEntity \notin EntityId \cup Entity
ASSUME SchedulesInputs ==
  /\ RuleSets \subseteq SUBSET Window /\ {} \in RuleSets
  /\ Guards \subseteq Guard /\ \E g \in Guards : ValidGuard(g)

VARIABLES
  entities,  \* tables entities and schedules, and the skipped date of exceptions
  tokens,    \* table tokens
  audit,     \* table audit
  inFlight,  \* the request of each token whose body the service waits for
  views,     \* what each token's client read last: entity, version, rules
  verdict,   \* number of the applier's latest result
  audited,   \* meta.last_apply_audited
  lastKey,   \* last_key of the background loop
  crashes

schedVars == <<entities, tokens, audit, inFlight, views, verdict, audited, lastKey, crashes>>

---------------------------------------------------------------------------
(* Rules and guardrails (model.py) *)

Length(r) == r.to - r.from

\* Per rule: inside one day and the allowed range, no longer than max_on_minutes.
RuleFits(r, g) == r.from < r.to /\ g.from <= r.from /\ r.to <= g.to /\ Length(r) <= g.max

\* The next window of the week in the order of the starts; the last one's next is the
\* first one, a week later.
Before(r, s) ==
  \/ r.from < s.from
  \/ r.from = s.from /\ r.to < s.to
  \/ r.from = s.from /\ r.to = s.to /\ r.id < s.id
Neighbour(r, rules) ==
  LET later == {s \in rules : Before(r, s)}
      pool == IF later = {} THEN rules ELSE later
  IN  CHOOSE s \in pool : \A x \in pool \ {s} : Before(s, x)
NextStart(r, rules) ==
  LET s == Neighbour(r, rules) IN IF Before(r, s) THEN s.from ELSE s.from + Horizon

\* validate_rules: the windows are sorted, only neighbours are compared.
ValidRules(rules, g) ==
  /\ \A r, s \in rules : r.id = s.id => r = s
  /\ \A r \in rules : RuleFits(r, g) /\ NextStart(r, rules) - r.to >= g.gap

\* What the guardrails are for: any two windows keep their distance, round the week.
Apart(r, s, gap) ==
  \/ r.to + gap <= s.from /\ s.to + gap <= r.from + Horizon
  \/ s.to + gap <= r.from /\ r.to + gap <= s.from + Horizon
Respected(rules, g) ==
  /\ \A r \in rules : RuleFits(r, g) /\ Horizon - Length(r) >= g.gap
  /\ \A r, s \in rules : r # s => Apart(r, s, g.gap)

\* day_edges: the switching times of a day; sorted, off comes before on.
DayEdges(rules, skipped) ==
  {<<r.to, "off">> : r \in rules} \cup IF skipped THEN {} ELSE {<<r.from, "on">> : r \in rules}

\* target_state
TargetState(rules, skipped, t) ==
  IF ~skipped /\ \E r \in rules : r.from <= t /\ t < r.to THEN "on" ELSE "off"

\* The state after the edges up to t, for a plug that was in state s before them.
AfterEdges(edges, t, s) ==
  LET past == {e \in edges : e[1] <= t}
      last == CHOOSE e \in past : \A x \in past : x[1] < e[1] \/ (x[1] = e[1] /\ e[2] \in {"on", x[2]})
  IN  IF past = {} THEN s ELSE last[2]

\* next_edge, within the day
NextEdge(edges, t) ==
  LET later == {e \in edges : e[1] > t}
  IN  IF later = {} THEN Horizon ELSE CHOOSE m \in Slot : \E e \in later : e[1] = m /\ \A x \in later : m <= x[1]

---------------------------------------------------------------------------
(* The audit *)

\* One row: what was done by whom to what, and the state before and after.
Row(action, by, e, before, after) ==
  [action |-> action, by |-> by, entity |-> e, before |-> before, after |-> after]

Record(action, by, e, before, after) == audit' = Append(audit, Row(action, by, e, before, after))

\* The rows that changed the rules of e, and the latest of some rows.
RuleChanges(e) == {i \in DOMAIN audit : audit[i].entity = e /\ audit[i].action \in {"update", "undo"}}
Latest(rows) == CHOOSE i \in rows : \A j \in rows : j <= i

Exists(e) == entities[e] # NoEntity
\* The bound.
Open == Len(audit) + verdict + crashes < MaxEvents

---------------------------------------------------------------------------
(* Access *)

IsAdmin(t) == t \in AdminToken

\* authenticate: a token that is not revoked.
Known(t) == tokens[t] = "live"

\* _check_editor
MayEdit(t, e) == IsAdmin(t) \/ entities[e].editable

---------------------------------------------------------------------------
(* Handlers without a body *)

\* schedule_get: rules and version, the ETag.
ReadSchedule(t, e) ==
  /\ Known(t) /\ Exists(e)
  /\ views' = [views EXCEPT ![t] = [entity |-> e, version |-> entities[e].version, rules |-> entities[e].rules]]
  /\ UNCHANGED <<entities, tokens, audit, inFlight, verdict, audited, lastKey, crashes>>

\* Writes rules as a new version, unless they are what is there.
Revised(entity, rules) ==
  [rules |-> rules, version |-> entity.version + 1,
   guard |-> entity.guard, editable |-> entity.editable, skipped |-> entity.skipped]
Store(t, e, rules, action) ==
  /\ rules # entities[e].rules
  /\ entities' = [entities EXCEPT ![e] = Revised(@, rules)]
  /\ Record(action, t, e, entities[e].rules, rules)

\* Mutant: the old version number comes back with the old rules.
Undo_OldVersion(t, e) ==
  /\ Known(t) /\ Exists(e) /\ MayEdit(t, e) /\ Open
  /\ LET last == audit[Latest(RuleChanges(e))]
     IN  /\ RuleChanges(e) # {}
         /\ IsAdmin(t) \/ last.by = t
         /\ ValidRules(last.before, entities[e].guard)
         /\ entities' = [entities EXCEPT ![e].rules = last.before, ![e].version = @ - 1]
         /\ Record("undo", t, e, entities[e].rules, last.before)
  /\ UNCHANGED <<tokens, inFlight, views, verdict, audited, lastKey, crashes>>

\* undo: the latest change of the rules is taken back as a new change; a household
\* token takes back only its own.
Undo(t, e) ==
  /\ Known(t) /\ Exists(e) /\ MayEdit(t, e) /\ Open
  /\ LET last == audit[Latest(RuleChanges(e))]
     IN  /\ RuleChanges(e) # {}
         /\ IsAdmin(t) \/ last.by = t
         /\ ValidRules(last.before, entities[e].guard)
         /\ Store(t, e, last.before, "undo")
  /\ UNCHANGED <<tokens, inFlight, views, verdict, audited, lastKey, crashes>>

\* delete_exception
Unskip(t, e) ==
  /\ Known(t) /\ Exists(e) /\ entities[e].skipped /\ MayEdit(t, e) /\ Open
  /\ entities' = [entities EXCEPT ![e].skipped = FALSE]
  /\ Record("exception_delete", t, e, TRUE, FALSE)
  /\ UNCHANGED <<tokens, inFlight, views, verdict, audited, lastKey, crashes>>

\* token_revoke: the row stays, so the name is never free again.
RevokeToken(t, u) ==
  /\ Known(t) /\ IsAdmin(t) /\ tokens[u] # "none" /\ Open
  /\ tokens' = [tokens EXCEPT ![u] = "revoked"]
  /\ Record("token_revoke", t, NoEntity, u, u)
  /\ UNCHANGED <<entities, inFlight, views, verdict, audited, lastKey, crashes>>

---------------------------------------------------------------------------
(* Handlers with a body: accepted first, served when the body is there *)

Requests ==
  [kind : {"guardrails"}, entity : EntityId, guard : Guards]
    \cup [kind : {"add"}, entity : EntityId, like : EntityId]
    \cup [kind : {"flags"}, entity : EntityId, editable : BOOLEAN]
    \cup [kind : {"skip"}, entity : EntityId]
    \cup [kind : {"token"}, token : TokenId]

NeedsAdmin(kind) == kind \in {"guardrails", "add", "flags", "token"}

Accept(t, r) ==
  /\ Known(t) /\ inFlight[t] = NoRequest
  /\ NeedsAdmin(r.kind) => IsAdmin(t)
  /\ inFlight' = [inFlight EXCEPT ![t] = r]
  /\ UNCHANGED <<entities, tokens, audit, views, verdict, audited, lastKey, crashes>>

\* schedule_put: If-Match with the version the client read (and, for the properties, what
\* it saw).
AcceptPut(t, rules) ==
  /\ views[t] # NoRequest
  /\ Accept(t, [kind |-> "put", entity |-> views[t].entity, version |-> views[t].version, rules |-> rules,
                saw |-> views[t].rules])

\* Mutant: the version is not compared.
Put_AnyVersion(t, r) ==
  /\ r.kind = "put" /\ Exists(r.entity)
  /\ MayEdit(t, r.entity)
  /\ ValidRules(r.rules, entities[r.entity].guard)
  /\ Store(t, r.entity, r.rules, "update")
  /\ UNCHANGED tokens

\* put_schedule
Put(t, r) ==
  /\ r.kind = "put" /\ Exists(r.entity)
  /\ MayEdit(t, r.entity)
  /\ r.version = entities[r.entity].version
  /\ ValidRules(r.rules, entities[r.entity].guard)
  /\ Store(t, r.entity, r.rules, "update")
  /\ UNCHANGED tokens

\* set_guardrails: the rules that are there must fit the new ones.
SetGuardrails(t, r) ==
  /\ r.kind = "guardrails" /\ Exists(r.entity)
  /\ ValidGuard(r.guard) /\ ValidRules(entities[r.entity].rules, r.guard)
  /\ r.guard # entities[r.entity].guard
  /\ entities' = [entities EXCEPT ![r.entity].guard = r.guard]
  /\ Record("guardrails", t, r.entity, entities[r.entity].guard, r.guard)
  /\ UNCHANGED tokens

\* add_plug: guardrails, flags and rules of another entity, not managed yet.
LikeOther(entity) ==
  [rules |-> entity.rules, version |-> 1,
   guard |-> entity.guard, editable |-> entity.editable, skipped |-> FALSE]
AddEntity(t, r) ==
  /\ r.kind = "add" /\ ~Exists(r.entity) /\ Exists(r.like)
  /\ entities' = [entities EXCEPT ![r.entity] = LikeOther(entities[r.like])]
  /\ Record("entity_add", t, r.entity, NoEntity, entities[r.like].rules)
  /\ UNCHANGED tokens

\* patch_entity: the flag household_editable
PatchEntity(t, r) ==
  /\ r.kind = "flags" /\ Exists(r.entity)
  /\ r.editable # entities[r.entity].editable
  /\ entities' = [entities EXCEPT ![r.entity].editable = r.editable]
  /\ Record("entity", t, r.entity, entities[r.entity].editable, r.editable)
  /\ UNCHANGED tokens

\* add_exception: a date to skip
Skip(t, r) ==
  /\ r.kind = "skip" /\ Exists(r.entity) /\ ~entities[r.entity].skipped
  /\ MayEdit(t, r.entity)
  /\ entities' = [entities EXCEPT ![r.entity].skipped = TRUE]
  /\ Record("exception_add", t, r.entity, FALSE, TRUE)
  /\ UNCHANGED tokens

\* create_token: the name must be new.
CreateToken(t, r) ==
  /\ r.kind = "token" /\ tokens[r.token] = "none"
  /\ tokens' = [tokens EXCEPT ![r.token] = "live"]
  /\ Record("token_create", t, NoEntity, r.token, r.token)
  /\ UNCHANGED entities

Change(t, r) ==
  \/ Put(t, r) \/ SetGuardrails(t, r) \/ AddEntity(t, r) \/ PatchEntity(t, r)
  \/ Skip(t, r) \/ CreateToken(t, r)

\* The change happens as a whole or not at all: refused, or the client is gone before its
\* body is complete.
Serve(t) ==
  /\ inFlight[t] # NoRequest
  /\ inFlight' = [inFlight EXCEPT ![t] = NoRequest]
  /\ \/ Open /\ Change(t, inFlight[t])
     \/ UNCHANGED <<entities, tokens, audit>>
  /\ UNCHANGED <<views, verdict, audited, lastKey, crashes>>

---------------------------------------------------------------------------
(* The applier's results *)

Judge ==
  /\ Open /\ verdict' = verdict + 1
  /\ UNCHANGED <<entities, tokens, audit, inFlight, views, audited, lastKey, crashes>>

\* record_apply: the row and the key of the result in one transaction.
RecordApply ==
  /\ audit' = Append(audit, Row("applied", "applier", NoEntity, verdict, verdict))
  /\ audited' = verdict

\* background: a result that is not the last one of this process or of the table is
\* written to the audit.
Background ==
  /\ verdict # lastKey /\ lastKey' = verdict
  /\ IF audited # verdict THEN RecordApply ELSE UNCHANGED <<audit, audited>>
  /\ UNCHANGED <<entities, tokens, inFlight, views, verdict, crashes>>

\* The process dies after the commit of the background's transaction, or anywhere else.
SchedCrash ==
  /\ Open /\ crashes' = crashes + 1
  /\ lastKey' = 0
  /\ inFlight' = [t \in TokenId |-> NoRequest]
  /\ UNCHANGED <<entities, tokens, audit, views, verdict, audited>>

---------------------------------------------------------------------------
SchedInit ==
  /\ entities = [e \in EntityId |->
       IF e \in Seeded THEN [rules |-> {}, version |-> 1, guard |-> CHOOSE g \in Guards : ValidGuard(g),
                             editable |-> TRUE, skipped |-> FALSE]
       ELSE NoEntity]
  /\ tokens = [t \in TokenId |-> IF t \in FirstTokens THEN "live" ELSE "none"]
  /\ audit = <<>>
  /\ inFlight = [t \in TokenId |-> NoRequest] /\ views = [t \in TokenId |-> NoRequest]
  /\ verdict = 0 /\ audited = 0 /\ lastKey = 0 /\ crashes = 0

SchedNext ==
  \/ \E t \in TokenId :
       \/ \E e \in EntityId : ReadSchedule(t, e) \/ Undo(t, e) \/ Unskip(t, e)
       \/ \E u \in TokenId : RevokeToken(t, u)
       \/ \E rules \in RuleSets : AcceptPut(t, rules)
       \/ \E r \in Requests : Accept(t, r)
       \/ Serve(t)
  \/ Judge \/ Background \/ SchedCrash

SchedSpec == SchedInit /\ [][SchedNext]_schedVars

---------------------------------------------------------------------------
SchedTypeOK ==
  /\ \A e \in EntityId : Exists(e) => entities[e] \in Entity
  /\ tokens \in [TokenId -> {"none", "live", "revoked"}]
  /\ DOMAIN audit = 1..Len(audit)
  /\ {verdict, audited, lastKey, crashes} \subseteq Nat

\* Whatever edits, undos and changes of the guardrails came in whatever order, the
\* windows of every entity respect its guardrails, neighbours and all others, round the
\* week: comparing neighbours is enough, and no operation forgets to compare.
RulesRespected == \A e \in EntityId : Exists(e) => Respected(entities[e].rules, entities[e].guard)

\* A version number names one list of rules for ever, also across an undo: who holds the
\* current ETag holds the current rules.
VersionNamesRules ==
  \A t \in TokenId :
    views[t] # NoRequest /\ entities[views[t].entity].version = views[t].version
      => entities[views[t].entity].rules = views[t].rules

\* An update replaces the rules its editor had on the screen, never a change that came
\* between the reading, the request and its body.
OverwritesWhatWasSeen ==
  \A t \in TokenId :
    /\ inFlight[t] # NoRequest /\ inFlight'[t] = NoRequest
    /\ inFlight[t].kind = "put" /\ entities' # entities
    => entities[inFlight[t].entity].rules = inFlight[t].saw

\* The rows that tell of the rules of e.
RuleRows(e) == RuleChanges(e) \cup {i \in DOMAIN audit : audit[i].entity = e /\ audit[i].action = "entity_add"}

\* The audit accounts for what is there: the latest row on the rules of an entity ends
\* with them, and each such row starts where the one before it ended.
AuditExplains ==
  \A e \in EntityId : \A i \in RuleRows(e) :
    \/ /\ \A j \in RuleRows(e) : j <= i
       /\ audit[i].after = entities[e].rules
    \/ \E j \in RuleRows(e) :
         /\ i < j /\ \A k \in RuleRows(e) : k <= i \/ j <= k
         /\ audit[j].before = audit[i].after

\* The edges that Home Assistant gets and the state the service reports are the same
\* schedule; between two edges the state does not change; and on a skipped date the
\* last off edge still ends what was started by hand.
EdgesMatchState ==
  \A e \in EntityId : Exists(e) =>
    LET rules == entities[e].rules
        edges == DayEdges(rules, entities[e].skipped)
    IN  \A t \in 0..Horizon - 1 :
          /\ AfterEdges(edges, t, "off") = TargetState(rules, entities[e].skipped, t)
          /\ \A u \in t..NextEdge(edges, t) - 1 :
               TargetState(rules, entities[e].skipped, u) = TargetState(rules, entities[e].skipped, t)
          /\ (rules # {} /\ \A r \in rules : r.to <= t) => AfterEdges(edges, t, "on") = "off"

\* Each result of the applier has at most one row in the audit, also when the process
\* dies right after writing it.
AppliedOnce ==
  \A i, j \in DOMAIN audit :
    audit[i].action = "applied" /\ audit[j].action = "applied" /\ audit[i].before = audit[j].before => i = j

\* Whatever editors, guardrails, undos and crashes do in whatever order: rules within their
\* guardrails, versions and audit rows that tell the truth, edges that are the schedule.
SchedulesSafe ==
  /\ SchedTypeOK
  /\ RulesRespected
  /\ VersionNamesRules
  /\ AuditExplains
  /\ EdgesMatchState
  /\ AppliedOnce
=============================================================================
