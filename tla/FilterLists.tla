----------------------------- MODULE FilterLists ----------------------------
(***************************************************************************)
(* AdGuard's block lists with a safety net (portal/gateway/gw/             *)
(* filterlists.py): every change is applied on AdGuard, probed, awaited on *)
(* the replica and by the parity checker, and taken back if any of that    *)
(* fails. A change that a restart interrupts is taken back at the start.   *)
(*                                                                         *)
(* A request is a sequence of calls with awaits in between, so requests    *)
(* interleave; only the pipeline itself is exclusive. AdGuard's engine and *)
(* its replica take a change in later than the call returns. AdGuard       *)
(* refreshing a list by itself, and edits by hand, are left out.           *)
(***************************************************************************)
EXTENDS Integers, FiniteSets

CONSTANTS
  Url,        \* block lists
  Label,      \* names of lists
  Need,       \* domains the house depends on (must_resolve)
  Bait,       \* domains that must stay blocked (sentinels)
  Text,       \* what a list may contain: sets of domains
  Absent,     \* a list that is not installed
  Start,      \* the lists the gateway may find, and what their addresses serve
  Kinds,      \* what a request may ask for
  MaxReq,     \* bound on requests; each makes one change
  MaxTroubleF  \* bound on failed calls and crashes

Installed == [name : Label, on : BOOLEAN, text : Text]
Lists == [Url -> Installed \cup {Absent}]
Config == [name : Label, on : BOOLEAN] \cup {Absent}
Req == 1..MaxReq  \* numbered as they arrive

ASSUME TextAssumption == Text \subseteq SUBSET (Need \cup Bait) /\ Need \cap Bait = {}
ASSUME KindsAssumption == Kinds \subseteq {"add", "set", "remove", "refresh", "revert"}
ASSUME StartAssumption ==
   /\ Url # {} /\ Start \subseteq [lists : Lists, offered : [Url -> Text]]
   /\ Absent \notin Installed \cup [name : Label, on : BOOLEAN]
ASSUME FilterBounds == {MaxReq, MaxTroubleF} \subseteq Nat

VARIABLES
  lists,    \* AdGuard's lists on the origin
  engine,   \* the lists that AdGuard's engine answers from
  replica,  \* names and switches on the replica, as the last sync pass left them
  offered,  \* what the lists' addresses serve now
  parity,   \* the checker's state file: written since the baseline? a mismatch in it?
  checker,  \* a pass of the parity checker: not running, or what it found
  up,       \* is the gateway serving?
  busy,     \* FilterLists._busy
  result,   \* column filter_changes.result of each request's row
  kind,     \* column action
  target,   \* column list_id
  snapshot, \* column snapshot, while anything may still read it
  pcF,       \* where each request is
  ops,      \* operations it still has to make on AdGuard
  base,     \* its baseline: needed domains that resolved, and who blocks the bait; history: did
            \* its probe look at an engine that had not taken the lists in?
  spoilt,   \* history: changes that could not be taken back
  troubleF   \* troubles used up

adguard == <<lists, engine, replica>>
world == <<offered, parity, checker>>
gate == <<up, busy>>
rows == <<result, kind, target, snapshot>>
flVars == <<adguard, world, gate, rows, pcF, ops, base, spoilt, troubleF>>

Nothing == [u \in Url |-> Absent]
NoBase == [must |-> {}, bait |-> [d \in Bait |-> {}], old |-> FALSE]
Op == [kind : {"add", "set", "remove", "refresh"}, url : Url, name : Label, on : BOOLEAN]
Places == {"new", "asked", "hold", "baseline", "apply", "probe", "replica", "parity",
           "undo", "restore", "recover", "end"}

FTypeOK ==
  /\ lists \in Lists /\ engine \in Lists /\ replica \in [Url -> Config]
  /\ offered \in [Url -> Text]
  /\ parity \in [fresh : BOOLEAN, bad : BOOLEAN] /\ checker \in {"idle", "match", "differ"}
  /\ up \in BOOLEAN /\ busy \in BOOLEAN
  /\ result \in [Req -> {"none", "running", "applied", "reverted", "failed", "held"}]
  /\ kind \in [Req -> Kinds \cup {"none"}]
  /\ target \in [Req -> Url] /\ snapshot \in [Req -> [Url -> Config]]
  /\ pcF \in [Req -> Places] /\ ops \in [Req -> SUBSET Op]
  /\ base \in [Req -> [must : SUBSET Need, bait : [Bait -> SUBSET Url], old : BOOLEAN]]
  /\ spoilt \subseteq Req /\ troubleF \in Nat

TroubleF == troubleF < MaxTroubleF /\ troubleF' = troubleF + 1
Goto(q, p) == pcF' = [pcF EXCEPT ![q] = p]

-----------------------------------------------------------------------------
(* Lists and operations.                                                   *)

\* A list as snapshots and diff_ops see it.
Setting(l) == IF l = Absent THEN Absent ELSE [name |-> l.name, on |-> l.on]
Settings(at) == [u \in Url |-> Setting(at[u])]

Blockers(at, d) == {u \in Url : at[u] # Absent /\ at[u].on /\ d \in at[u].text}

OpOf(k, u, n, on) == [kind |-> k, url |-> u, name |-> n, on |-> on]

\* Mutant: a list that comes back comes back enabled.
Diff_Enabled(want, us) ==
  {OpOf("add", u, want[u].name, TRUE) : u \in {v \in us : lists[v] = Absent /\ want[v] # Absent}}
  \cup {OpOf("set", u, want[u].name, want[u].on) :
          u \in {v \in us : want[v] # Absent /\ lists[v] # Absent /\ Setting(lists[v]) # want[v]}}
  \cup {OpOf("remove", u, lists[u].name, FALSE) :
          u \in {v \in us : lists[v] # Absent /\ want[v] = Absent}}

\* diff_ops for the lists us: one that comes back is added, and switched off if it was off.
Diff(want, us) ==
  {OpOf("add", u, want[u].name, TRUE) : u \in {v \in us : lists[v] = Absent /\ want[v] # Absent}}
  \cup {OpOf("set", u, want[u].name, want[u].on) :
          u \in {v \in us : want[v] # Absent /\ (IF lists[v] = Absent THEN ~want[v].on
                                                 ELSE Setting(lists[v]) # want[v])}}
  \cup {OpOf("remove", u, lists[u].name, FALSE) :
          u \in {v \in us : lists[v] # Absent /\ want[v] = Absent}}

\* An "add" of a list comes before a "set" of it; different lists in any order.
Ready(os) == {o \in os : \A p \in os : p.kind = "add" /\ p.url = o.url => p = o}

\* AdGuard refuses a second add, and a set or removal of what is not there.
Possible(o) == IF o.kind = "add" THEN lists[o.url] = Absent ELSE lists[o.url] # Absent

\* AdGuard downloads what it adds or refreshes; a refresh is of all enabled lists.
Effect(o) ==
  CASE o.kind = "add" ->
         [lists EXCEPT ![o.url] = [name |-> o.name, on |-> TRUE, text |-> offered[o.url]]]
    [] o.kind = "set" -> [lists EXCEPT ![o.url] = [name |-> o.name, on |-> o.on, text |-> @.text]]
    [] o.kind = "remove" -> [lists EXCEPT ![o.url] = Absent]
    [] o.kind = "refresh" ->
         [u \in Url |-> IF lists[u] # Absent /\ lists[u].on
                          THEN [lists[u] EXCEPT !.text = offered[u]] ELSE lists[u]]

-----------------------------------------------------------------------------
(* A request, up to the pipeline.                                          *)

Arrives(q, k, u) ==
  /\ up /\ pcF[q] = "new" /\ \A r \in Req : r < q => pcF[r] # "new"
  /\ k \in Kinds
  /\ kind' = [kind EXCEPT ![q] = k] /\ target' = [target EXCEPT ![q] = u]

\* What the request reads, checks and decides to do; the answers of several calls.
Ask(q, k, u, os) ==
  /\ Arrives(q, k, u)
  /\ ops' = [ops EXCEPT ![q] = os] /\ Goto(q, "asked")
  /\ UNCHANGED <<adguard, world, gate, result, snapshot, base, spoilt, troubleF>>

AskAdd(q, u, n) == lists[u] = Absent /\ Ask(q, "add", u, {OpOf("add", u, n, TRUE)})

\* rename, enable or disable; a request for both at once is left out.
AskSet(q, u, n, on) ==
  /\ lists[u] # Absent /\ (n = lists[u].name) # (on = lists[u].on)
  /\ Ask(q, "set", u, {OpOf("set", u, n, on)})

AskRemove(q, u) ==
  lists[u] # Absent /\ Ask(q, "remove", u, {OpOf("remove", u, lists[u].name, FALSE)})

AskRefresh(q, u) ==
  lists[u] # Absent /\ Ask(q, "refresh", u, {OpOf("refresh", u, lists[u].name, TRUE)})

\* An applied change of the list (the code: the last one) gives the state to go back to.
AskRevert(q, u) ==
  \E r \in Req :
    /\ result[r] = "applied" /\ target[r] = u /\ kind[r] \in {"add", "set", "remove"}
    /\ Diff(snapshot[r], {u}) # {} /\ Ask(q, "revert", u, Diff(snapshot[r], {u}))

\* A refresh that changes a list by too much and is not confirmed: the row is
\* written as running, with an empty snapshot, and then as held.
HoldBegin(q, u) ==
  /\ Arrives(q, "refresh", u) /\ lists[u] # Absent /\ offered[u] # lists[u].text
  /\ result' = [result EXCEPT ![q] = "running"] /\ Goto(q, "hold")
  /\ UNCHANGED <<adguard, world, gate, snapshot, ops, base, spoilt, troubleF>>

HoldEnd(q) ==
  /\ up /\ pcF[q] = "hold"
  /\ result' = [result EXCEPT ![q] = "held"] /\ Goto(q, "end")
  /\ UNCHANGED <<adguard, world, gate, kind, target, snapshot, ops, base, spoilt, troubleF>>

-----------------------------------------------------------------------------
(* The pipeline.                                                           *)

\* 409 filter_busy, or AdGuard does not answer the first question.
Refuse(q) ==
  /\ up /\ pcF[q] = "asked"
  /\ Goto(q, "end") /\ ops' = [ops EXCEPT ![q] = {}]
  /\ UNCHANGED <<adguard, world, gate, rows, base, spoilt, troubleF>>

ChangeBegins(q) ==
  /\ up /\ pcF[q] = "asked" /\ ~busy
  /\ busy' = TRUE /\ snapshot' = [snapshot EXCEPT ![q] = Settings(lists)]
  /\ result' = [result EXCEPT ![q] = "running"] /\ Goto(q, "baseline")
  /\ UNCHANGED <<adguard, world, up, kind, target, ops, base, spoilt, troubleF>>

\* What already fails, or gets no answer, is no part of the baseline; any other surprise
\* takes the change back.
Baseline(q) ==
  /\ up /\ pcF[q] = "baseline"
  /\ \/ /\ base' = [base EXCEPT ![q] = [must |-> {d \in Need : Blockers(engine, d) = {}},
                                        bait |-> [d \in Bait |-> Blockers(engine, d)], old |-> FALSE]]
        /\ Goto(q, "apply") /\ UNCHANGED troubleF
     \/ TroubleF /\ (Goto(q, "apply") \/ Goto(q, "undo")) /\ UNCHANGED base
  /\ UNCHANGED <<adguard, world, gate, rows, ops, spoilt>>

\* One operation; a call that fails may have been executed all the same.
Apply(q, o) ==
  /\ up /\ pcF[q] = "apply" /\ o \in Ready(ops[q])
  /\ \/ /\ Possible(o) /\ lists' = Effect(o)
        /\ ops' = [ops EXCEPT ![q] = @ \ {o}]
        /\ Goto(q, IF ops[q] = {o} THEN "probe" ELSE "apply") /\ UNCHANGED troubleF
     \/ ~Possible(o) /\ Goto(q, "undo") /\ UNCHANGED <<lists, ops, troubleF>>
     \/ /\ Possible(o) /\ TroubleF /\ Goto(q, "undo") /\ UNCHANGED ops
        /\ lists' \in {lists, Effect(o)}
  /\ UNCHANGED <<engine, replica, world, gate, rows, base, spoilt>>

\* removed_ids: the list that the change switches off or removes.
Removed(q) ==
  {u \in {target[q]} : kind[q] \in {"set", "remove", "revert"} /\ (lists[u] # Absent => ~lists[u].on)}

Healthy(q) ==
  /\ \A d \in base[q].must : Blockers(engine, d) = {}
  /\ \A d \in Bait : base[q].bait[d] \ Removed(q) # {} => Blockers(engine, d) # {}

\* _settle and _probe. A fixed pause, or the wait until witnesses show the change, or until
\* settle_s is over: AdGuard's engine has taken the change in by then, or has not.
Probe(q) ==
  /\ up /\ pcF[q] = "probe"
  /\ \/ /\ Healthy(q) /\ Goto(q, "replica") /\ UNCHANGED troubleF
        /\ base' = [base EXCEPT ![q].old = engine # lists]
     \/ ~Healthy(q) /\ Goto(q, "undo") /\ UNCHANGED <<base, troubleF>>
     \/ Goto(q, "undo") /\ TroubleF /\ UNCHANGED base
  /\ UNCHANGED <<adguard, world, gate, rows, ops, spoilt>>

\* With witnesses, if it found any: domains that tell whether the replica
\* followed. It may be too late, or not answer.
AskReplica(q) ==
  /\ up /\ pcF[q] = "replica"
  /\ \E witnesses \in BOOLEAN :
       \/ /\ witnesses => replica[target[q]] = Setting(lists[target[q]])
          /\ Goto(q, "parity")
       \/ witnesses /\ Goto(q, "undo")
  /\ UNCHANGED <<adguard, world, gate, rows, ops, base, spoilt, troubleF>>

\* The row is closed; no one reads the snapshot of a change that was not applied.
Close(q, r) ==
  /\ result' = [result EXCEPT ![q] = r] /\ Goto(q, "end")
  /\ snapshot' = [snapshot EXCEPT ![q] = IF r = "applied" THEN @ ELSE Nothing]
  /\ ops' = [ops EXCEPT ![q] = {}] /\ base' = [base EXCEPT ![q] = NoBase]
  /\ UNCHANGED <<kind, target>>

\* From here on the state file is older than any change to come.
Release == busy' = FALSE /\ parity' = [parity EXCEPT !.fresh = FALSE]

\* The state file was written after the apply: no mismatch, or one, or too late.
AskParity(q) ==
  /\ up /\ pcF[q] = "parity"
  /\ \/ parity.fresh /\ ~parity.bad /\ Close(q, "applied") /\ Release
     \/ (parity.fresh => parity.bad) /\ Goto(q, "undo") /\ UNCHANGED <<rows, busy, parity, ops, base>>
  /\ UNCHANGED <<adguard, offered, checker, up, spoilt, troubleF>>

\* _restore. Without an answer the change ends as "reverted" all the same.
Undo(q) ==
  /\ up /\ pcF[q] = "undo"
  /\ \/ /\ ops' = [ops EXCEPT ![q] = Diff(snapshot[q], Url)] /\ Goto(q, "restore")
        /\ UNCHANGED <<rows, busy, parity, base, spoilt, troubleF>>
     \/ TroubleF /\ Close(q, "reverted") /\ Release /\ spoilt' = spoilt \cup {q}
  /\ UNCHANGED <<adguard, offered, checker, up>>

RestoreOp(q, o) ==
  /\ up /\ pcF[q] = "restore" /\ o \in Ready(ops[q])
  /\ \/ /\ Possible(o) /\ lists' = Effect(o) /\ ops' = [ops EXCEPT ![q] = @ \ {o}]
        /\ UNCHANGED <<pcF, rows, busy, parity, base, spoilt, troubleF>>
     \/ /\ TroubleF /\ lists' \in {lists} \cup {Effect(p) : p \in {p \in {o} : Possible(p)}}
        /\ Close(q, "reverted") /\ Release /\ spoilt' = spoilt \cup {q}
  /\ UNCHANGED <<engine, replica, offered, checker, up>>

RestoreEnd(q) ==
  /\ up /\ pcF[q] = "restore" /\ ops[q] = {}
  /\ Close(q, "reverted") /\ Release
  /\ UNCHANGED <<adguard, offered, checker, up, spoilt, troubleF>>

-----------------------------------------------------------------------------
(* Crash and recovery.                                                     *)

\* Between the two writes of a held refresh a crash leaves a row that says
\* "running" and has an empty snapshot.
Crash ==
  /\ up /\ TroubleF /\ up' = FALSE /\ Release
  /\ pcF' = [q \in Req |-> IF pcF[q] = "new" THEN "new" ELSE "end"]
  /\ ops' = [q \in Req |-> {}] /\ base' = [q \in Req |-> NoBase]
  /\ spoilt' = spoilt \cup {q \in Req : pcF[q] = "hold"}
  /\ UNCHANGED <<adguard, offered, checker, rows>>

\* Mutant: the row is closed and nothing is restored.
Recover_Mark(q) ==
  /\ ~up /\ result[q] = "running" /\ \A r \in Req : pcF[r] # "recover"
  /\ Close(q, "reverted")
  /\ UNCHANGED <<adguard, world, gate, spoilt, troubleF>>

\* recover(): the rows that still say running, before the gateway serves.
Recover(q) ==
  /\ ~up /\ result[q] = "running" /\ \A r \in Req : pcF[r] # "recover"
  /\ \/ /\ ops' = [ops EXCEPT ![q] = Diff(snapshot[q], Url)] /\ Goto(q, "recover")
        /\ UNCHANGED <<rows, base, spoilt, troubleF>>
     \/ TroubleF /\ Close(q, "failed") /\ spoilt' = spoilt \cup {q}
  /\ UNCHANGED <<adguard, world, gate>>

RecoverOp(q, o) ==
  /\ ~up /\ pcF[q] = "recover" /\ o \in Ready(ops[q])
  /\ \/ /\ Possible(o) /\ lists' = Effect(o) /\ ops' = [ops EXCEPT ![q] = @ \ {o}]
        /\ UNCHANGED <<pcF, rows, base, spoilt, troubleF>>
     \/ /\ TroubleF /\ lists' \in {lists} \cup {Effect(p) : p \in {p \in {o} : Possible(p)}}
        /\ Close(q, "failed") /\ spoilt' = spoilt \cup {q}
  /\ UNCHANGED <<engine, replica, world, gate>>

RecoverEnd(q) ==
  /\ ~up /\ pcF[q] = "recover" /\ ops[q] = {} /\ Close(q, "reverted")
  /\ UNCHANGED <<adguard, world, gate, spoilt, troubleF>>

\* Mutant: the gateway serves before the interrupted changes are taken back.
Serve_AtOnce ==
  /\ ~up /\ up' = TRUE
  /\ UNCHANGED <<adguard, world, busy, rows, pcF, ops, base, spoilt, troubleF>>

Serve ==
  /\ ~up /\ \A q \in Req : result[q] # "running"
  /\ up' = TRUE
  /\ UNCHANGED <<adguard, world, busy, rows, pcF, ops, base, spoilt, troubleF>>

-----------------------------------------------------------------------------
(* AdGuard, its replica, the parity checker and the lists' addresses.      *)

\* Each of their steps is left to the time just before someone may look at what
\* it does; the state file counts once the baseline is taken.
In(places) == \E q \in Req : pcF[q] \in places
Applying == {"apply", "probe", "replica", "parity"}

EngineLoads ==
  /\ In({"baseline", "probe"}) /\ engine # lists /\ engine' = lists
  /\ UNCHANGED <<lists, replica, world, gate, rows, pcF, ops, base, spoilt, troubleF>>

SyncPass ==
  /\ In(Applying) /\ replica # Settings(lists) /\ replica' = Settings(lists)
  /\ UNCHANGED <<lists, engine, world, gate, rows, pcF, ops, base, spoilt, troubleF>>

CheckerStep == UNCHANGED <<adguard, offered, gate, rows, pcF, ops, base, spoilt, troubleF>>

\* compare() reads both instances.
CheckerReads ==
  /\ In(Applying) /\ checker = "idle"
  /\ checker' = IF replica = Settings(lists) THEN "match" ELSE "differ"
  /\ UNCHANGED parity /\ CheckerStep

\* It saves the state file before it returns, with the streaks of the pass before ...
CheckerSavesOld ==
  /\ In({"parity"}) /\ checker # "idle" /\ ~parity.fresh
  /\ parity' = [parity EXCEPT !.fresh = TRUE] /\ UNCHANGED checker /\ CheckerStep

\* ... and main() saves it again with what this pass found.
CheckerSaves ==
  /\ In({"parity"}) /\ checker # "idle" /\ checker' = "idle"
  /\ parity' = [fresh |-> TRUE, bad |-> checker = "differ"] /\ CheckerStep

-----------------------------------------------------------------------------
FlInit ==
  /\ \E s \in Start : lists = s.lists /\ offered = s.offered
  /\ engine = lists /\ replica = Settings(lists)
  /\ parity = [fresh |-> FALSE, bad |-> FALSE] /\ checker = "idle"
  /\ up = TRUE /\ busy = FALSE
  /\ result = [q \in Req |-> "none"] /\ kind = [q \in Req |-> "none"]
  /\ target = [q \in Req |-> CHOOSE u \in Url : TRUE] /\ snapshot = [q \in Req |-> Nothing]
  /\ pcF = [q \in Req |-> "new"] /\ ops = [q \in Req |-> {}] /\ base = [q \in Req |-> NoBase]
  /\ spoilt = {} /\ troubleF = 0

AskStep(q) ==
  \E u \in Url :
    \/ \E n \in Label : AskAdd(q, u, n) \/ (\E on \in BOOLEAN : AskSet(q, u, n, on))
    \/ AskRemove(q, u) \/ AskRefresh(q, u) \/ AskRevert(q, u) \/ HoldBegin(q, u)

PipelineStep(q) ==
  \/ HoldEnd(q) \/ Refuse(q) \/ ChangeBegins(q) \/ Baseline(q)
  \/ \E o \in Op : Apply(q, o) \/ RestoreOp(q, o)
  \/ Probe(q) \/ AskReplica(q) \/ AskParity(q) \/ Undo(q) \/ RestoreEnd(q)

RecoverStep(q) == Recover(q) \/ (\E o \in Op : RecoverOp(q, o)) \/ RecoverEnd(q)

CheckerPass == CheckerReads \/ CheckerSavesOld \/ CheckerSaves

FlNext ==
  \/ \E q \in Req : AskStep(q) \/ PipelineStep(q) \/ RecoverStep(q)
  \/ Crash \/ Serve \/ EngineLoads \/ SyncPass \/ CheckerPass

\* Every wait of a request has its limit; the supervisor restarts the gateway.
FlFairness ==
  /\ \A q \in Req : WF_flVars(PipelineStep(q)) /\ WF_flVars(RecoverStep(q))
  /\ WF_flVars(Serve)

FlSpec == FlInit /\ [][FlNext]_flVars /\ FlFairness

-----------------------------------------------------------------------------
(* Properties.                                                             *)

\* A change that ends as applied blocks no needed domain that resolved before it, whatever
\* else is asked for, fails or is awaited since the probe; unless AdGuard's engine was slower
\* than _settle is patient, so that the probe looked at the old one.
AppliedIsSafe ==
  [][\A q \in Req : result[q] = "running" /\ result'[q] = "applied" /\ ~base[q].old =>
       \A d \in base[q].must : Blockers(lists, d) \cup Blockers(engine, d) = {}]_flVars

\* A change that ends as reverted, its restore having gone through, leaves each
\* list installed, named and switched as it was when the change began, also when
\* the change was a removal, or was interrupted half-way.
RevertedIsRestored ==
  [][\A q \in Req : result[q] = "running" /\ result'[q] = "reverted" /\ q \notin spoilt' =>
       Settings(lists') = snapshot[q]]_flVars

\* The rows are well formed, and what a finished change says of itself is so.
FilterListsSafe ==
  /\ []FTypeOK
  /\ AppliedIsSafe
  /\ RevertedIsRestored

\* A change that began ends, through crashes, failing calls and failing restores.
EveryChangeEnds == \A q \in Req : result[q] = "running" ~> result[q] # "running"

Open == {q \in Req : result[q] = "running"}

\* The lists as the last finished change left them; a held refresh is none.
Settled ==
  LET changing == {q \in Open : pcF[q] # "hold"}
  IN  IF changing = {} THEN Settings(lists) ELSE snapshot[CHOOSE q \in changing : TRUE]

Book == INSTANCE FilterBook WITH
  book <- Settled, applied <- Cardinality({q \in Req : result[q] = "applied"}), spoilt <- spoilt # {}

\* "(ANY failure) revert to the snapshot": a change is applied as a whole to its
\* one list or leaves no trace, also across a crash.
AllOrNothing == Book!Spec

=============================================================================
