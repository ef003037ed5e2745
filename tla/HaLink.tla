------------------------------- MODULE HaLink -------------------------------
(***************************************************************************)
(* The gateway's link to Home Assistant (portal/gateway/gw/ha.py): a cache *)
(* of states that one WebSocket subscription feeds, a polling loop for the *)
(* times without it, and single reads by requests that wait for a state.   *)
(*                                                                         *)
(* Every read over REST is awaited: between Home Assistant's answer and    *)
(* its place in the cache, events may be applied and the link may change.  *)
(* The state of an entity is the number of its changes, which shows what   *)
(* is older; the code has no such number.                                  *)
(***************************************************************************)
EXTENDS Integers, Sequences

CONSTANTS
  Watched,      \* the entities of the scope, in the order of a pass: a sequence
  MaxChanges,   \* bound on the changes in Home Assistant
  MaxOutages    \* bound on restarts of Home Assistant and lost connections

Entities == {Watched[i] : i \in DOMAIN Watched}

ASSUME HaLinkNumbers ==
  Watched \in Seq(Entities) /\ Len(Watched) > 0 /\ {MaxChanges, MaxOutages} \subseteq Nat

VARIABLES
  world,     \* entity -> state in Home Assistant
  haServes,  \* Home Assistant answers
  socket,    \* "none", "sub" (subscribed, not confirmed), "filling" (its REST pass), "live"
  broken,    \* the connection is gone; recv() has not said so yet
  feed,      \* events in the socket, in order: <<entity, state>>
  cache,     \* entity -> state as the gateway knows it; Nothing: never seen
  link,      \* HA.link
  pass,      \* reader -> the REST pass it is in
  regressed, \* entities whose newer state an older answer has replaced
  overtaken,   \* a polling pass was under way when the socket came up
  outages

hlVars == <<world, haServes, socket, broken, feed, cache, link, pass, regressed, overtaken, outages>>

Nothing == -1
Failed == -2
Pending == -3

\* Who reads over REST: the socket's loop, the polling loop, a request in wait_state.
Reader == {"ws", "poll", "wait"}

\* A pass: the entities still to read, the answer to the first, whether any read worked, failures in a row.
PassOver(todo) == [todo |-> todo, answer |-> Pending, ok |-> FALSE, failed |-> 0]
Done == PassOver(<<>>)

Changes == world[Watched[1]] + (IF Len(Watched) > 1 THEN world[Watched[2]] ELSE 0)

HlInit ==
  /\ world = [e \in Entities |-> 0] /\ haServes = TRUE
  /\ socket = "none" /\ broken = FALSE /\ feed = <<>>
  /\ cache = [e \in Entities |-> Nothing] /\ link = "down"
  /\ pass = [r \in Reader |-> Done] /\ regressed = {} /\ overtaken = FALSE /\ outages = 0

SocketUp == socket = "live"   \* _ws_up

---------------------------------------------------------------------------
(* Home Assistant *)

StateChanges(e) ==
  /\ haServes /\ Changes < MaxChanges
  /\ world' = [world EXCEPT ![e] = @ + 1]
  /\ feed' = IF socket # "none" /\ ~broken THEN Append(feed, <<e, world'[e]>>) ELSE feed
  /\ UNCHANGED <<haServes, socket, broken, cache, link, pass, regressed, overtaken, outages>>

HaGoes ==
  /\ haServes /\ outages < MaxOutages
  /\ haServes' = FALSE /\ broken' = (socket # "none") /\ outages' = outages + 1
  /\ UNCHANGED <<world, socket, feed, cache, link, pass, regressed, overtaken>>

HaComes ==
  /\ ~haServes /\ haServes' = TRUE
  /\ UNCHANGED <<world, socket, broken, feed, cache, link, pass, regressed, overtaken, outages>>

\* The connection is lost, or the scope has changed and the loop reconnects.
ConnectionLost ==
  /\ socket # "none" /\ ~broken /\ outages < MaxOutages
  /\ broken' = TRUE /\ outages' = outages + 1
  /\ UNCHANGED <<world, haServes, socket, feed, cache, link, pass, regressed, overtaken>>

---------------------------------------------------------------------------
(* Reads over REST *)

\* Home Assistant answers the read under way, or does not.
RestAnswers(r) ==
  /\ pass[r].todo # <<>> /\ pass[r].answer = Pending
  /\ pass' = [pass EXCEPT ![r].answer = IF haServes THEN world[Head(pass[r].todo)] ELSE Failed]
  /\ UNCHANGED <<world, haServes, socket, broken, feed, cache, link, regressed, overtaken, outages>>

\* _set: whatever arrives last is the state.
Cached(e, s) ==
  /\ cache' = [cache EXCEPT ![e] = s]
  /\ regressed' = {f \in (IF s < cache[e] THEN regressed \cup {e} ELSE regressed) : cache'[f] # world[f]}

\* refresh and refresh_all: the answer is taken; two failures in a row end the pass.
RestTaken(r) ==
  /\ pass[r].todo # <<>> /\ pass[r].answer # Pending
  /\ LET p == pass[r] IN
       IF p.answer = Failed
       THEN /\ pass' = [pass EXCEPT ![r] = [todo |-> IF p.failed = 1 THEN <<>> ELSE Tail(p.todo),
                                             answer |-> Pending, ok |-> p.ok, failed |-> p.failed + 1]]
            /\ UNCHANGED <<cache, regressed>>
       ELSE /\ pass' = [pass EXCEPT ![r] = [todo |-> Tail(p.todo), answer |-> Pending, ok |-> TRUE, failed |-> 0]]
            /\ Cached(Head(p.todo), p.answer)
  /\ UNCHANGED <<world, haServes, socket, broken, feed, link, overtaken, outages>>

\* wait_state reads its entity, whether the socket is up or not.
WaitReads(e) ==
  /\ pass["wait"].todo = <<>> /\ pass' = [pass EXCEPT !["wait"] = PassOver(<<e>>)]
  /\ UNCHANGED <<world, haServes, socket, broken, feed, cache, link, regressed, overtaken, outages>>

---------------------------------------------------------------------------
(* The socket's loop *)

\* Connects, signs in, subscribes: the first event holds all states, the others follow.
Connect ==
  /\ socket = "none" /\ haServes /\ socket' = "sub" /\ broken' = FALSE
  /\ feed' = [i \in DOMAIN Watched |-> <<Watched[i], world[Watched[i]]>>]
  /\ UNCHANGED <<world, haServes, cache, link, pass, regressed, overtaken, outages>>

\* The confirmation of the subscription arrives: a REST pass, with the events waiting in the socket.
Confirmed ==
  /\ socket = "sub" /\ ~broken /\ socket' = "filling"
  /\ pass' = [pass EXCEPT !["ws"] = PassOver(Watched)]
  /\ UNCHANGED <<world, haServes, broken, feed, cache, link, regressed, overtaken, outages>>

\* Mutant: what the socket holds is thrown away, the pass being newer than the first event.
Filled_Drops ==
  /\ socket = "filling" /\ pass["ws"].todo = <<>>
  /\ socket' = "live" /\ link' = "ws" /\ feed' = <<>>
  /\ overtaken' = (pass["poll"] # Done)
  /\ UNCHANGED <<world, haServes, broken, cache, pass, regressed, outages>>

\* The pass is over, however it went.
Filled ==
  /\ socket = "filling" /\ pass["ws"].todo = <<>>
  /\ socket' = "live" /\ link' = "ws"
  /\ overtaken' = (pass["poll"] # Done)
  /\ UNCHANGED <<world, haServes, broken, feed, cache, pass, regressed, outages>>

EventApplied ==
  /\ SocketUp /\ feed # <<>> /\ feed' = Tail(feed)
  /\ Cached(Head(feed)[1], Head(feed)[2])
  /\ UNCHANGED <<world, haServes, socket, broken, link, pass, overtaken, outages>>

\* recv() raises, at the latest when the ping has no answer.
SocketBreaks ==
  /\ broken /\ socket \in {"sub", "live"} /\ socket' = "none" /\ broken' = FALSE /\ feed' = <<>>
  /\ link' = IF link = "ws" THEN "poll" ELSE link
  /\ UNCHANGED <<world, haServes, cache, pass, regressed, overtaken, outages>>

---------------------------------------------------------------------------
(* The polling loop *)

PollStarts ==
  /\ pass["poll"] = Done /\ ~SocketUp
  /\ pass' = [pass EXCEPT !["poll"] = PassOver(Watched)]
  /\ UNCHANGED <<world, haServes, socket, broken, feed, cache, link, regressed, overtaken, outages>>

\* The pass sets the link, without a look at what has become of the socket.
PollEnds ==
  /\ pass["poll"] # Done /\ pass["poll"].todo = <<>>
  /\ link' = IF pass["poll"].ok THEN "poll" ELSE "down"
  /\ pass' = [pass EXCEPT !["poll"] = Done]
  /\ UNCHANGED <<world, haServes, socket, broken, feed, cache, regressed, overtaken, outages>>

HlNext ==
  \/ \E e \in Entities : StateChanges(e) \/ WaitReads(e)
  \/ HaGoes \/ HaComes \/ ConnectionLost
  \/ \E r \in Reader : RestAnswers(r) \/ RestTaken(r)
  \/ Connect \/ Confirmed \/ Filled \/ EventApplied \/ SocketBreaks
  \/ PollStarts \/ PollEnds

HlSpec == HlInit /\ [][HlNext]_hlVars

---------------------------------------------------------------------------
(* Properties *)

HlTypeOK ==
  /\ socket \in {"none", "sub", "filling", "live"} /\ link \in {"ws", "poll", "down"}
  /\ \A e \in Entities : cache[e] \in {Nothing} \cup 0..world[e]
  /\ \A r \in Reader : pass[r].answer \in {Pending, Failed} \cup Nat /\ pass[r].failed \in 0..2
  /\ broken => socket # "none"

\* With the socket up, every event applied and no read under way, the gateway shows the state
\* of Home Assistant: nothing is lost between the subscription, the first pass and the diffs,
\* unless the answer of an overtaken read has replaced what an event had brought.
LiveIsCurrent ==
  SocketUp /\ ~broken /\ feed = <<>> => \A e \in Entities \ regressed : cache[e] = world[e]

\* Only a polling pass that was still under way when the socket came up makes the link of a
\* working socket something else than "ws".
LiveIsWs == SocketUp /\ ~overtaken => link = "ws"

\* The cache of a live link is the state of Home Assistant, whatever crossed while it came up.
HaLinkSafe ==
  /\ HlTypeOK
  /\ LiveIsCurrent
  /\ LiveIsWs
=============================================================================
