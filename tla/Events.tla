------------------------------- MODULE Events -------------------------------
(***************************************************************************)
(* The event streams of the gateway (portal/gateway/gw/hub.py and          *)
(* api.App.events): a ring of recent events that a client resumes from     *)
(* with Last-Event-ID, one bounded queue per open stream, streams that are *)
(* closed by a kick or by the recheck of their credential.                 *)
(*                                                                         *)
(* Everything happens on one event loop: a publication goes to all queues  *)
(* in one step, subscribing and reading the ring are one step.             *)
(***************************************************************************)
EXTENDS Integers, Sequences, FiniteSets

CONSTANTS
  Client,      \* clients, each with the credential it signed in with
  Phone,       \* those with a device token; the others have a web session
  QueueLimit,  \* Queue(maxsize=...)
  Keep,        \* events the ring is sure to hold: those of SSE_RESUME_S
  MaxEventNo   \* bound on events

ASSUME EventsNumbers == Phone \subseteq Client /\ {QueueLimit, Keep, MaxEventNo} \subseteq Nat \ {0}

VARIABLES
  evSeq,    \* Hub.seq; the ring holds the last Keep events
  queue,    \* the queue of each client's stream: event numbers, 0 the mark that closes it
  replay,   \* what the generator of a new stream read from the ring and sends first
  open,     \* clients with a stream
  valid,    \* the latest event when the credential was withdrawn, NoEvent as long as it is good
  due,      \* streams whose next_check has passed
  last,     \* the last event each client got (its Last-Event-ID); 0: none yet
  gap,      \* clients that got an event without the one before
  offline,  \* clients without a stream for longer than the ring holds
  overfull, \* a publication met a full queue
  late      \* clients that got an event published after the withdrawal

evVars == <<evSeq, queue, replay, open, valid, due, last, gap, offline, overfull, late>>

NoEvent == -1

Full(q) == Len(q) >= QueueLimit

EvInit ==
  /\ evSeq = 0 /\ queue = [c \in Client |-> <<>>] /\ replay = [c \in Client |-> <<>>]
  /\ open = {} /\ valid = [c \in Client |-> NoEvent] /\ due = {} /\ last = [c \in Client |-> 0]
  /\ gap = {} /\ offline = {} /\ overfull = FALSE /\ late = {}

Good(c) == valid[c] = NoEvent

\* Hub.since: what the ring still has after the given event.
Since(n) == LET first == IF n >= evSeq - Keep THEN n + 1 ELSE evSeq - Keep + 1
            IN  [i \in 1..(evSeq + 1 - first) |-> first + i - 1]

\* Mutant: the ring is read before the queue is there, and an event comes in between.
Subscribe_ReplayFirst(c) ==
  /\ c \notin open /\ Good(c) /\ evSeq < MaxEventNo
  /\ evSeq' = evSeq + 1
  /\ open' = open \cup {c} /\ queue' = [queue EXCEPT ![c] = <<>>]
  /\ replay' = [replay EXCEPT ![c] = IF last[c] = 0 THEN <<>> ELSE Since(last[c])]
  /\ due' = due \ {c}
  /\ offline' = IF last[c] # 0 /\ last[c] < evSeq - Keep THEN offline \cup {c} ELSE offline
  /\ UNCHANGED <<valid, last, gap, overfull, late>>

\* events: subscribe, then read the ring.
Subscribe(c) ==
  /\ c \notin open /\ Good(c)
  /\ open' = open \cup {c} /\ queue' = [queue EXCEPT ![c] = <<>>]
  /\ replay' = [replay EXCEPT ![c] = IF last[c] = 0 THEN <<>> ELSE Since(last[c])]
  /\ due' = due \ {c}
  /\ offline' = IF last[c] # 0 /\ last[c] < evSeq - Keep THEN offline \cup {c} ELSE offline
  /\ UNCHANGED <<evSeq, valid, last, gap, overfull, late>>

\* publish: the ring, then every queue in the order of subscription. A full one makes
\* put_nowait(None) fail as well, inside the handler: the streams after it get nothing.
HubPublish ==
  /\ evSeq < MaxEventNo /\ evSeq' = evSeq + 1
  /\ \E order \in [1..Cardinality(open) -> open] :
       /\ \A i, j \in DOMAIN order : order[i] = order[j] => i = j
       /\ LET blocked == {i \in DOMAIN order : Full(queue[order[i]])}
              served == {order[i] : i \in {k \in DOMAIN order : \A b \in blocked : k < b}}
          IN  /\ queue' = [c \in Client |-> IF c \in served THEN Append(queue[c], evSeq') ELSE queue[c]]
              /\ overfull' = (overfull \/ blocked # {})
  /\ UNCHANGED <<replay, open, valid, due, last, gap, offline, late>>

Closed(c) ==
  /\ open' = open \ {c} /\ queue' = [queue EXCEPT ![c] = <<>>] /\ replay' = [replay EXCEPT ![c] = <<>>]
  /\ due' = due \ {c}

\* The stream sends event n, and afterwards looks at the credential when that is due.
Sends(c, n) ==
  /\ last' = [last EXCEPT ![c] = n]
  /\ gap' = IF last[c] # 0 /\ n # last[c] + 1 THEN gap \cup {c} ELSE gap
  /\ late' = IF ~Good(c) /\ n > valid[c] THEN late \cup {c} ELSE late
  /\ UNCHANGED <<evSeq, valid, offline, overfull>>

Replays(c) ==
  /\ c \in open /\ replay[c] # <<>>
  /\ Sends(c, Head(replay[c]))
  /\ replay' = [replay EXCEPT ![c] = Tail(@)] /\ UNCHANGED <<queue, open, due>>

\* Mutant: the check is made only with an event.
Heartbeat_Blind(c) ==
  /\ c \in open /\ replay[c] = <<>> /\ queue[c] = <<>>
  /\ due' = due \ {c} /\ UNCHANGED <<queue, open, replay>>
  /\ UNCHANGED <<evSeq, valid, last, gap, offline, overfull, late>>

\* A due check closes the stream of a bad credential.
Recheck(c) ==
  IF c \in due /\ ~Good(c) THEN open' = open \ {c} /\ due' = due \ {c} /\ replay' = [replay EXCEPT ![c] = <<>>]
  ELSE due' = due \ {c} /\ UNCHANGED <<open, replay>>

Delivers(c) ==
  /\ c \in open /\ replay[c] = <<>> /\ queue[c] # <<>>
  /\ IF Head(queue[c]) = 0 THEN Closed(c) /\ UNCHANGED <<evSeq, valid, last, gap, offline, overfull, late>>
     ELSE /\ Sends(c, Head(queue[c])) /\ Recheck(c)
          /\ queue' = [queue EXCEPT ![c] = IF c \in open' THEN Tail(@) ELSE <<>>]

\* No event for SSE_HEARTBEAT_S, longer than the interval of the checks.
Heartbeat(c) ==
  /\ c \in open /\ replay[c] = <<>> /\ queue[c] = <<>>
  /\ IF Good(c) THEN due' = due \ {c} /\ UNCHANGED <<queue, open, replay>> ELSE Closed(c)
  /\ UNCHANGED <<evSeq, valid, last, gap, offline, overfull, late>>

\* Eight seconds have passed since the last check.
CheckDue(c) ==
  /\ c \in open \ due /\ due' = due \cup {c}
  /\ UNCHANGED <<evSeq, queue, replay, open, valid, last, gap, offline, overfull, late>>

\* The connection breaks.
Disconnect(c) ==
  /\ c \in open /\ Closed(c)
  /\ UNCHANGED <<evSeq, valid, last, gap, offline, overfull, late>>

\* Hub.kick, for phones only: the mark goes behind what is queued; not into a full queue.
Kicked(c) == IF c \in open \cap Phone /\ ~Full(queue[c]) THEN [queue EXCEPT ![c] = Append(@, 0)] ELSE queue

\* A phone is revoked or signs out, a web session ends.
RevokeToken(c) ==
  /\ Good(c) /\ valid' = [valid EXCEPT ![c] = evSeq] /\ queue' = Kicked(c)
  /\ overfull' = (overfull \/ (c \in open \cap Phone /\ Full(queue[c])))
  /\ UNCHANGED <<evSeq, replay, open, due, last, gap, offline, late>>

EvNext ==
  \/ HubPublish
  \/ \E c \in Client : Subscribe(c) \/ Replays(c) \/ Delivers(c) \/ Heartbeat(c) \/ CheckDue(c)
                         \/ Disconnect(c) \/ RevokeToken(c)

EvSpec == EvInit /\ [][EvNext]_evVars

\* A stream whose client reads goes on; time passes.
EvFairness ==
  \A c \in Client :
    WF_evVars(Replays(c)) /\ WF_evVars(Delivers(c)) /\ WF_evVars(Heartbeat(c)) /\ WF_evVars(CheckDue(c))

EvFairSpec == EvSpec /\ EvFairness

---------------------------------------------------------------------------
(* Properties *)

EvTypeOK ==
  /\ evSeq \in 0..MaxEventNo /\ open \subseteq Client /\ due \subseteq open
  /\ \A c \in Client : Len(queue[c]) <= QueueLimit /\ last[c] \in 0..evSeq
  /\ \A c \in Client \ open : queue[c] = <<>> /\ replay[c] = <<>>

\* A client that comes back in time misses no event and gets none twice, whatever is
\* published while it connects; unless a queue was full (see EveryEventArrives).
ResumesWithoutGap == overfull \/ gap \subseteq offline

\* hub.py: "a stuck consumer is dropped, it reconnects and resumes": it misses nothing then,
\* nor do the others.
EveryEventArrives == gap \subseteq offline

\* What is published after a phone's revocation does not reach it.
RevokedHearsNothing == overfull \/ late \cap Phone = {}

\* A stream whose token is no longer good ends, also when the kick found no room.
RevokedStreamEnds == \A c \in Client : (~Good(c) /\ c \in open) ~> c \notin open

\* A stream that resumes misses nothing, and a revoked one hears nothing, wherever the kick and the
\* subscription fall between the publications.
EventsSafe ==
  /\ EvTypeOK
  /\ ResumesWithoutGap
  /\ RevokedHearsNothing
=============================================================================
