------------------------------ MODULE Requests ------------------------------
(***************************************************************************)
(* How the gateway passes a change on (portal/gateway/gw/api.py with       *)
(* sched.py): the idempotency keys, the calls to the schedule service that *)
(* keeps what is changed, the audit row afterwards. A client sends a       *)
(* request again, with the same key and the same If-Match, when no answer  *)
(* came; while a handler waits for the service, others run.                *)
(***************************************************************************)
EXTENDS Integers, FiniteSets

CONSTANTS
  Wish,        \* changes that people want
  Repeated,    \* those that the client sends a second time
  MaxRestarts  \* bound on restarts of the gateway

\* put: has an If-Match. undo, grant: have none. add: nor an audit row when it fails.
Kinds == {"put", "undo", "add"}
Conditional(kind) == kind = "put"
AuditsFailure(kind) == kind # "add"
NeedsKey(kind) == kind = "add"

ASSUME RequestsNumbers == Repeated \subseteq Wish /\ MaxRestarts \in Nat

VARIABLES
  intent,      \* what each is, once a client sends it: kind, whether it has a key, the ETag it read
  stage,     \* of each attempt
  reply,    \* what an answered attempt was told: a version of the schedule, or 0 for an error
  stored,    \* table idem: the answer stored under the key of each
  current,   \* of the schedule in the service
  applied,   \* the versions each made there
  trail,     \* rows about each in the audit of the gateway
  rivals,   \* those of which two attempts were between lookup and answer at once
  lost,      \* those that an answer of the service was lost for, or a restart hit
  restarts

reqVars == <<intent, stage, reply, stored, current, applied, trail, rivals, lost, restarts>>

Attempt == (Wish \X {1}) \cup (Repeated \X {2})
Stages == {"unsent", "admitted", "calling", "served", "refused", "orphan", "answered", "gone"}
Sent(w) == DOMAIN intent[w] # {}

ReqInit ==
  /\ intent = [w \in Wish |-> <<>>] /\ stage = [a \in Attempt |-> "unsent"]
  /\ reply = [a \in Attempt |-> 0] /\ stored = [w \in Wish |-> 0] /\ current = 1
  /\ applied = [w \in Wish |-> {}] /\ trail = [w \in Wish |-> {}]
  /\ rivals = {} /\ lost = {} /\ restarts = 0

\* authenticate, _sched_entity, _can_edit, the body: the request is admitted.
Admitted(a, kind, keyed) ==
  LET w == a[1] IN
  /\ stage[a] = "unsent"
  /\ a[2] = 2 => stage[<<w, 1>>] # "unsent"
  /\ NeedsKey(kind) => keyed
  /\ IF Sent(w) THEN intent[w].kind = kind /\ intent[w].keyed = keyed /\ UNCHANGED intent
     ELSE intent' = [intent EXCEPT ![w] = [kind |-> kind, keyed |-> keyed, etag |-> current]]
  /\ stage' = [stage EXCEPT ![a] = "admitted"]
  /\ UNCHANGED <<reply, stored, current, applied, trail, rivals, lost, restarts>>

\* idem: the first result again, or the handler.
Lookup(a) ==
  LET w == a[1] IN
  /\ stage[a] = "admitted"
  /\ IF intent[w].keyed /\ stored[w] # 0
     THEN /\ stage' = [stage EXCEPT ![a] = "answered"] /\ reply' = [reply EXCEPT ![a] = stored[w]]
          /\ UNCHANGED rivals
     ELSE /\ stage' = [stage EXCEPT ![a] = "calling"] /\ UNCHANGED reply
          /\ rivals' = IF \E b \in Attempt : b[1] = w /\ b # a /\ stage[b] \in {"calling", "served", "refused"}
                        THEN rivals \cup {w} ELSE rivals
  /\ UNCHANGED <<intent, stored, current, applied, trail, lost, restarts>>

\* Mutant: the gateway does not pass the If-Match on.
Refused_Never(w) == FALSE

\* The service compares the If-Match with the version.
Refused(w) == Conditional(intent[w].kind) /\ intent[w].etag # current

\* The service: also what it got from a gateway that is gone.
ServiceActs(a) ==
  LET w == a[1] IN
  /\ stage[a] \in {"calling", "orphan"}
  /\ IF Refused(w)
     THEN stage' = [stage EXCEPT ![a] = IF @ = "orphan" THEN "gone" ELSE "refused"] /\ UNCHANGED <<current, applied>>
     ELSE /\ stage' = [stage EXCEPT ![a] = IF @ = "orphan" THEN "gone" ELSE "served"]
          /\ current' = current + 1 /\ applied' = [applied EXCEPT ![w] = @ \cup {current + 1}]
  /\ reply' = [reply EXCEPT ![a] = IF stage'[a] = "served" THEN current' ELSE 0]
  /\ UNCHANGED <<intent, stored, trail, rivals, lost, restarts>>

\* INSERT OR IGNORE
Keep(w, v) == IF stored[w] = 0 THEN [stored EXCEPT ![w] = v] ELSE stored

\* The audit row of a handler's end.
Traced(w, ok) ==
  [trail EXCEPT ![w] = IF ok THEN @ \cup {"ok"} ELSE IF AuditsFailure(intent[w].kind) THEN @ \cup {"failed"} ELSE @]

\* The answer of the service arrives: audited, stored under the key, passed on.
Passed(a) ==
  LET w == a[1] IN
  /\ stage[a] \in {"served", "refused"}
  /\ stage' = [stage EXCEPT ![a] = "answered"]
  /\ trail' = Traced(w, stage[a] = "served")
  /\ stored' = IF stage[a] = "served" /\ intent[w].keyed THEN Keep(w, reply[a]) ELSE stored
  /\ UNCHANGED <<intent, reply, current, applied, rivals, lost, restarts>>

\* It does not arrive, or too late: 502, which is not stored. The call may still be served.
Unanswered(a) ==
  LET w == a[1] IN
  /\ stage[a] \in {"calling", "served", "refused"}
  /\ stage' = [stage EXCEPT ![a] = IF @ = "calling" THEN "orphan" ELSE "answered"]
  /\ reply' = [reply EXCEPT ![a] = 0] /\ trail' = Traced(w, FALSE)
  /\ lost' = lost \cup {w}
  /\ UNCHANGED <<intent, stored, current, applied, rivals, restarts>>

\* The gateway restarts: its handlers are gone, their calls may still be served.
GatewayRestart ==
  LET hit == {a \in Attempt : stage[a] \in {"admitted", "calling", "served", "refused"}} IN
  /\ restarts < MaxRestarts /\ restarts' = restarts + 1
  /\ stage' = [a \in Attempt |-> IF a \in hit THEN (IF stage[a] = "calling" THEN "orphan" ELSE "gone") ELSE stage[a]]
  /\ reply' = [a \in Attempt |-> IF a \in hit THEN 0 ELSE reply[a]]
  /\ lost' = lost \cup {a[1] : a \in hit}
  /\ UNCHANGED <<intent, stored, current, applied, trail, rivals>>

ReqNext ==
  \/ \E a \in Attempt :
       \/ \E kind \in Kinds, keyed \in BOOLEAN : Admitted(a, kind, keyed)
       \/ Lookup(a) \/ ServiceActs(a) \/ Passed(a) \/ Unanswered(a)
  \/ GatewayRestart

ReqSpec == ReqInit /\ [][ReqNext]_reqVars

---------------------------------------------------------------------------
(* Properties *)

ReqTypeOK ==
  /\ stage \in [Attempt -> Stages] /\ rivals \subseteq Wish /\ lost \subseteq Wish
  /\ \A w \in Wish : Sent(w) => intent[w] \in [kind : Kinds, keyed : BOOLEAN, etag : 1..current]
  /\ reply \in [Attempt -> 0..current] /\ stored \in [Wish -> 0..current]
  /\ \A w \in Wish : stored[w] \in {0} \cup applied[w]
  /\ applied \in [Wish -> SUBSET (2..current)] /\ trail \in [Wish -> SUBSET {"ok", "failed"}]

\* A new rule list is applied once, whatever happens to the calls and the answers, with a key
\* or without: the If-Match that the client sends again no longer fits.
PutOnce == \A w \in Wish : Sent(w) /\ Conditional(intent[w].kind) => Cardinality(applied[w]) <= 1

\* "a repeat with the same Idempotency-Key returns the first result" (idem): for the changes
\* without an If-Match this holds of repeats after an answer; two attempts at once both run
\* the handler, and after a lost answer the second runs it again.
KeyedOnce ==
  \A w \in Wish \ (rivals \cup lost) : Sent(w) /\ intent[w].keyed =>
    /\ Cardinality(applied[w]) <= 1
    /\ \A a, b \in Attempt : a[1] = w /\ b[1] = w /\ reply[a] # 0 /\ reply[b] # 0 => reply[a] = reply[b]

\* What was changed in the service through the gateway is in the audit of the gateway when the
\* client has its answer, at least as a failure (of "add", only when the answer came).
ChangesLeaveTrace ==
  \A a \in Attempt :
    stage[a] = "answered" /\ applied[a[1]] # {} /\ (AuditsFailure(intent[a[1]].kind) \/ a[1] \notin lost)
      => trail[a[1]] # {}

\* A request that is repeated, or loses its answer, changes the service once and leaves its trace.
RequestsSafe ==
  /\ ReqTypeOK
  /\ PutOnce
  /\ KeyedOnce
  /\ ChangesLeaveTrace
=============================================================================
