------------------------------- MODULE Parental -------------------------------
(***************************************************************************)
(* What parents are shown of the rules of a child's device                 *)
(* (gw/parental.py): a verdict on the rules block in AdGuard, worked out   *)
(* in several awaited calls from the children, the live block and the      *)
(* block the schedule service renders, and kept for a few seconds. Changes *)
(* go to the schedule service and drop the verdict. The job that brings    *)
(* the rules to AdGuard is one step here (see ChildPolicy).                *)
(***************************************************************************)
EXTENDS Integers

CONSTANTS
  Kid,         \* children
  View,        \* requests that show children
  PolicyTtl,   \* POLICY_TTL_S in beats
  Slack,       \* the 75 s for which the block of before counts
  LastBeat,    \* bound on the time
  MaxEdits,    \* bound on changes of windows and exceptions
  MaxAsks,     \* bound on what each request asks
  MaxBreaks    \* bound on edits by hand and on calls that fail

ASSUME ParentalNumbers == {PolicyTtl, Slack, LastBeat, MaxEdits, MaxAsks, MaxBreaks} \subseteq Nat /\ PolicyTtl > 0

VARIABLES
  beat, edits, breaks,
  wins,        \* child -> number of changes of its windows and lists
  excs,        \* child -> number of changes of its exceptions; odd: one is active
  phase, phaseAt, \* edges of windows that passed; when the last did
  live,        \* child -> its lines in AdGuard
  unconfirmed, \* children with a change that the gateway has not answered yet
  confirmed,   \* child -> the change of its windows that was answered last
  policyVerdict,     \* the cached verdict
  view,        \* request -> what it has read and what it shows
  rightSince   \* child -> since when its lines are right (or -1)

kidVars == <<beat, edits, breaks, wins, excs, phase, phaseAt, live, unconfirmed, confirmed, policyVerdict, view, rightSince>>

InEffect(x) == IF x % 2 = 1 THEN x ELSE 0
Lines(c, p, exceptions) == <<wins[c], p, InEffect(exceptions[c])>>
Right(c) == live[c] = Lines(c, phase, excs)

NoVerdict == [at |-> -1 - PolicyTtl, live |-> <<>>]
NoBlock == [c \in Kid |-> <<0, 0, 0>>]
NoneActive == [c \in Kid |-> 0]
NoView == [at |-> "idle", asked |-> 0]

KidInit ==
  /\ beat = 0 /\ edits = 0 /\ breaks = 0 /\ wins = [c \in Kid |-> 0] /\ excs = [c \in Kid |-> 0]
  /\ phase = 0 /\ phaseAt = -Slack /\ live = [c \in Kid |-> <<0, 0, 0>>]
  /\ unconfirmed = {} /\ confirmed = [c \in Kid |-> 0]
  /\ policyVerdict = NoVerdict /\ view = [v \in View |-> NoView] /\ rightSince = [c \in Kid |-> 0]

---------------------------------------------------------------------------
(* The house: time, the job, a hand in AdGuard *)

BeatPasses ==
  /\ beat < LastBeat /\ beat' = beat + 1
  /\ UNCHANGED <<edits, breaks, wins, excs, phase, phaseAt, live, unconfirmed, confirmed, policyVerdict, view>>

EdgePasses ==
  /\ phase < 1 /\ phase' = phase + 1 /\ phaseAt' = beat
  /\ UNCHANGED <<beat, edits, breaks, wins, excs, live, unconfirmed, confirmed, policyVerdict, view>>

JobApplies ==
  /\ live' = [c \in Kid |-> Lines(c, phase, excs)]
  /\ UNCHANGED <<beat, edits, breaks, wins, excs, phase, phaseAt, unconfirmed, confirmed, policyVerdict, view>>

HandEdits(c) ==
  /\ breaks < MaxBreaks /\ breaks' = breaks + 1 /\ live' = [live EXCEPT ![c] = <<-1, 0, 0>>]
  /\ UNCHANGED <<beat, edits, wins, excs, phase, phaseAt, unconfirmed, confirmed, policyVerdict, view>>

---------------------------------------------------------------------------
(* Changes: the schedule service has changed, the gateway has still to drop the verdict and answer *)

ChildChange(c) ==
  /\ edits < MaxEdits /\ edits' = edits + 1 /\ c \notin unconfirmed /\ unconfirmed' = unconfirmed \cup {c}
  /\ UNCHANGED <<beat, breaks, phase, phaseAt, live, confirmed, policyVerdict, view>>

\* windows_put, windows_undo
WindowsChange(c) == ChildChange(c) /\ wins' = [wins EXCEPT ![c] = @ + 1] /\ UNCHANGED excs

\* domain_add, domain_remove, domain_undo: the lists are part of the lines too
DomainsChange(c) == ChildChange(c) /\ wins' = [wins EXCEPT ![c] = @ + 1] /\ UNCHANGED excs

\* exception_grant, exception_cancel
ExceptionChange(c) == ChildChange(c) /\ excs' = [excs EXCEPT ![c] = @ + 1] /\ UNCHANGED wins

Working(v) == view[v].at \in {"read", "render", "before"}

\* Mutant: the verdict stays after a change.
Confirms_Keeps(c) ==
  /\ c \in unconfirmed /\ unconfirmed' = unconfirmed \ {c} /\ confirmed' = [confirmed EXCEPT ![c] = wins[c]]
  /\ view' = [v \in View |-> IF Working(v) THEN [view[v] EXCEPT !.crossed = TRUE] ELSE view[v]]
  /\ UNCHANGED <<beat, edits, breaks, wins, excs, phase, phaseAt, live, policyVerdict>>

\* The verdict is dropped and the change answered.
Confirms(c) ==
  /\ c \in unconfirmed /\ unconfirmed' = unconfirmed \ {c} /\ confirmed' = [confirmed EXCEPT ![c] = wins[c]]
  /\ policyVerdict' = NoVerdict
  /\ view' = [v \in View |-> IF Working(v) THEN [view[v] EXCEPT !.crossed = TRUE] ELSE view[v]]
  /\ UNCHANGED <<beat, edits, breaks, wins, excs, phase, phaseAt, live>>

\* The answer of the service is lost: the parent is told so, the verdict stays.
AnswerLost(c) ==
  /\ c \in unconfirmed /\ breaks < MaxBreaks /\ breaks' = breaks + 1 /\ unconfirmed' = unconfirmed \ {c}
  /\ UNCHANGED <<beat, edits, wins, excs, phase, phaseAt, live, confirmed, policyVerdict, view>>

---------------------------------------------------------------------------
(* children, child, health *)

Fresh == beat - policyVerdict.at < PolicyTtl

\* What a request shows of the children it asked for; the rest is history for the properties.
Shows(q, d) ==
  [q EXCEPT !.at = "done", !.live = d.live, !.excs = NoneActive,
            !.ok = IF d.known THEN {c \in q.kids : c \in d.ok} ELSE {},
            !.of = d, !.now = 0, !.earlier = 0, !.block = NoBlock,
            !.right = {c \in q.kids : rightSince[c] \in 0..d.from - 1}]

\* The children asked for are read, with their exceptions; then the cached verdict, if any, is used.
PageAsks(v, K) ==
  /\ view[v].at \in {"idle", "done"} /\ view[v].asked < MaxAsks
  /\ LET q == [at |-> "read", asked |-> view[v].asked + 1, kids |-> K, excs |-> excs, from |-> beat, live |-> live,
               after |-> confirmed, crossed |-> FALSE, ok |-> {}, right |-> {}, of |-> NoVerdict,
               now |-> phase, earlier |-> phase, block |-> NoBlock]
     IN  view' = [view EXCEPT ![v] = IF Fresh THEN Shows(q, policyVerdict) ELSE q]
  /\ UNCHANGED <<beat, edits, breaks, wins, excs, phase, phaseAt, live, unconfirmed, confirmed, policyVerdict>>

\* GET /filtering/status, and what counts as now and as 75 s before.
ReadsLive(v) ==
  /\ view[v].at = "read"
  /\ view' = [view EXCEPT ![v].at = "render", ![v].live = live, ![v].now = phase,
                          ![v].earlier = IF beat - phaseAt < Slack THEN phase - 1 ELSE phase]
  /\ UNCHANGED <<beat, edits, breaks, wins, excs, phase, phaseAt, live, unconfirmed, confirmed, policyVerdict>>

\* A block as the service renders it, with the exceptions of the children that were asked for.
Overrides(q) == [c \in Kid |-> IF c \in q.kids THEN q.excs[c] ELSE 0]
Rendered(q, p) == [c \in Kid |-> Lines(c, p, Overrides(q))]

\* The block of now arrives.
RendersNow(v) ==
  /\ view[v].at = "render"
  /\ view' = [view EXCEPT ![v].at = "before", ![v].block = Rendered(view[v], view[v].now)]
  /\ UNCHANGED <<beat, edits, breaks, wins, excs, phase, phaseAt, live, unconfirmed, confirmed, policyVerdict>>

\* The blocks of now and of 75 s before.
RenderedBlocks(q) == {q.block, Rendered(q, q.earlier)}

Judged(q) ==
  [at |-> beat, from |-> q.from, known |-> TRUE, kids |-> q.kids, crossed |-> q.crossed, live |-> q.live,
   sync |-> q.live \in RenderedBlocks(q),
   ok |-> {c \in q.kids : \E b \in RenderedBlocks(q) : b[c] = q.live[c]}]

Unknown(q) ==
  [at |-> beat, from |-> q.from, known |-> FALSE, kids |-> q.kids, crossed |-> q.crossed, live |-> q.live, sync |-> FALSE, ok |-> {}]

Concludes(v, d) ==
  /\ policyVerdict' = d /\ view' = [view EXCEPT ![v] = Shows(view[v], d)]
  /\ UNCHANGED <<beat, edits, wins, excs, phase, phaseAt, live, unconfirmed, confirmed>>

\* The block of before arrives.
Renders(v) == view[v].at = "before" /\ Concludes(v, Judged(view[v])) /\ UNCHANGED breaks

\* AdGuard or the service does not answer: no verdict, and that is kept too.
Fails(v) == Working(v) /\ breaks < MaxBreaks /\ breaks' = breaks + 1 /\ Concludes(v, Unknown(view[v]))

KidStep ==
  \/ BeatPasses \/ EdgePasses \/ JobApplies
  \/ \E c \in Kid : HandEdits(c) \/ Confirms(c) \/ AnswerLost(c) \/ WindowsChange(c) \/ DomainsChange(c) \/ ExceptionChange(c)
  \/ \E v \in View : ReadsLive(v) \/ RendersNow(v) \/ Renders(v) \/ Fails(v) \/ \E K \in {Kid} \cup {{c} : c \in Kid} : PageAsks(v, K)

KidNext ==
  /\ KidStep
  /\ rightSince' = [c \in Kid |-> IF ~Right(c)' THEN -1 ELSE IF rightSince[c] # -1 THEN rightSince[c] ELSE beat']

KidSpec == KidInit /\ [][KidNext]_kidVars

---------------------------------------------------------------------------
(* Properties *)

KidTypeOK ==
  /\ beat \in 0..LastBeat /\ edits \in 0..MaxEdits /\ breaks \in 0..MaxBreaks
  /\ \A c \in Kid : wins[c] + excs[c] <= edits /\ confirmed[c] <= wins[c] /\ rightSince[c] \in -1..beat
  /\ unconfirmed \subseteq Kid /\ policyVerdict.at <= beat
  /\ \A v \in View : view[v].at = "done" => view[v].ok \subseteq view[v].kids \cap view[v].of.ok /\ beat >= view[v].of.at

Shown(v) == view[v].at = "done"

\* The page tells a parent that a change is in force when the child's rules are shown as right
\* after it (parental.js confirmKid): the lines they were judged by hold every change of the windows
\* that was answered before the page asked, unless the verdict was being worked out meanwhile.
ConfirmedIsInForce ==
  \A v \in View : Shown(v) =>
    \A c \in view[v].ok : view[v].of.live[c][1] >= view[v].after[c] \/ view[v].of.crossed

\* policy_ok: "the rules block in AdGuard for this device is the one the model says it should be"
\* (openapi.yaml): a child whose lines were right all the while is shown as such, when the verdict was
\* worked out for it; and when it was for all, and all were right, the block as a whole is in sync.
RightIsShownOfTheSame ==
  \A v \in View : Shown(v) /\ view[v].of.known =>
    /\ view[v].right \cap view[v].of.kids \subseteq view[v].ok
    /\ view[v].right = Kid /\ view[v].of.kids = Kid => view[v].of.sync

\* What is shown is no older than the cache allows.
ShownIsRecent == \A v \in View : view[v]' # view[v] /\ Shown(v)' => beat - view[v]'.of.at < PolicyTtl

\* What the page shows of a child is true of the rules that it was judged by.
ParentalSafe ==
  /\ KidTypeOK
  /\ ConfirmedIsInForce
  /\ RightIsShownOfTheSame
=============================================================================
