--------------------------- MODULE Gateway_proofs ---------------------------
(***************************************************************************)
(* Proofs about the gateway's own state: its link to Home Assistant, the   *)
(* sign-in, people and phones, and the service's schedules, for any        *)
(* entities, people, plans and bounds. Each has its inductive              *)
(* invariant; MCPortal, of which one of them moves, inherits it.           *)
(***************************************************************************)
EXTENDS Portal_proofs, SequenceTheorems, WellFoundedInduction, TLAPS

-----------------------------------------------------------------------------
(* HaLink: the cache of Home Assistant's states.                           *)

ReadPass == [todo : Seq(Entities), answer : {Pending, Failed} \cup Nat, ok : BOOLEAN, failed : 0..2]

HlTypes ==
  /\ world \in [Entities -> Nat] /\ cache \in [Entities -> {Nothing} \cup Nat]
  /\ feed \in Seq(Entities \X Nat) /\ pass \in [Reader -> ReadPass]
  /\ socket \in {"none", "sub", "filling", "live"} /\ link \in {"ws", "poll", "down"}
  /\ broken \in BOOLEAN /\ haServes \in BOOLEAN /\ overtaken \in BOOLEAN
  /\ regressed \subseteq Entities /\ (broken => socket # "none")

\* Two failures end a pass.
FailuresEnd == \A r \in Reader : pass[r].todo # <<>> => pass[r].failed # 2

\* What the gateway knows, is told or has read is a state that Home Assistant had.
NothingFromTheFuture ==
  /\ \A e \in Entities : cache[e] <= world[e]
  /\ \A i \in 1..Len(feed) : feed[i][2] <= world[feed[i][1]]
  /\ \A r \in Reader : pass[r].todo # <<>> =>
       pass[r].answer <= world[Head(pass[r].todo)]

\* An entity is in the feed.
Told(e) == \E i \in 1..Len(feed) : feed[i][1] = e

\* A subscription that holds is complete: the last event of an entity brings its state, and an entity
\* without one has it in the cache already, unless an older answer went over it.
LastEventBrings ==
  \A i \in 1..Len(feed) :
    (\A j \in 1..Len(feed) : j > i => feed[j][1] # feed[i][1]) => feed[i][2] = world[feed[i][1]]
QuietIsKnown == \A e \in Entities : Told(e) \/ e \in regressed \/ cache[e] = world[e]
SubscriptionIsComplete == socket # "none" /\ ~broken => LastEventBrings /\ QuietIsKnown

\* Nothing but a polling pass that the socket overtook sets the link while the socket is up.
NoPassOvertaken == SocketUp /\ ~overtaken => link = "ws" /\ pass["poll"] = Done

HlInv == HlTypes /\ FailuresEnd /\ NothingFromTheFuture /\ SubscriptionIsComplete /\ NoPassOvertaken

LEMMA HlStarts == HlInit => HlInv
<1> SUFFICES ASSUME HlInit PROVE HlInv
  OBVIOUS
<1> USE DEF HlInit, Nothing, Pending, Failed, Done, PassOver, Reader
<1>1. HlTypes
  <2>1. <<>> \in Seq(Entities) /\ <<>> \in Seq(Entities \X Nat)
    OBVIOUS
  <2>2. pass \in [Reader -> ReadPass]
    BY <2>1 DEF ReadPass
  <2> QED
    BY <2>1, <2>2 DEF HlTypes
<1>2. NothingFromTheFuture /\ FailuresEnd
  BY DEF NothingFromTheFuture, FailuresEnd
<1>3. SubscriptionIsComplete /\ NoPassOvertaken
  BY DEF SubscriptionIsComplete, NoPassOvertaken, SocketUp
<1> QED
  BY <1>1, <1>2, <1>3 DEF HlInv

LEMMA HlTypesStay == HlTypes /\ FailuresEnd /\ [HlNext]_hlVars => HlTypes' /\ FailuresEnd'
<1> SUFFICES ASSUME HlTypes, FailuresEnd, [HlNext]_hlVars PROVE HlTypes' /\ FailuresEnd'
  OBVIOUS
<1> USE HaLinkNumbers DEF HlTypes, FailuresEnd, Nothing, Pending, Failed, Reader
<1>1. ASSUME NEW e \in Entities, StateChanges(e) PROVE HlTypes' /\ FailuresEnd'
  <2>1. <<e, world[e] + 1>> \in Entities \X Nat /\ world' = [world EXCEPT ![e] = @ + 1]
    BY <1>1 DEF StateChanges
  <2>2. feed' \in Seq(Entities \X Nat)
    BY <1>1, <2>1, AppendProperties DEF StateChanges
  <2> QED
    BY <1>1, <2>1, <2>2 DEF StateChanges
<1>2. ASSUME HaGoes PROVE HlTypes' /\ FailuresEnd'
  <2>1. broken' \in BOOLEAN /\ (broken' => socket # "none")
    BY <1>2, Zenon DEF HaGoes
  <2>2. haServes' \in BOOLEAN /\ UNCHANGED <<world, socket, feed, cache, link, pass, regressed, overtaken>>
    BY <1>2, Zenon DEF HaGoes
  <2> QED
    BY <2>1, <2>2, Zenon
<1>3. ASSUME HaComes \/ ConnectionLost PROVE HlTypes' /\ FailuresEnd'
  <2>1. CASE HaComes
    BY <2>1, Zenon DEF HaComes
  <2>2. CASE ConnectionLost
    BY <2>2, Zenon DEF ConnectionLost
  <2> QED
    BY <1>3, <2>1, <2>2
<1>4. ASSUME NEW r \in Reader, NEW p \in ReadPass, pass' = [pass EXCEPT ![r] = p], p.todo # <<>> => p.failed # 2
      PROVE  pass' \in [Reader -> ReadPass] /\ FailuresEnd'
  BY <1>4 DEF ReadPass
<1>5. \A r \in Reader : pass[r].todo # <<>> =>
        Head(pass[r].todo) \in Entities /\ Tail(pass[r].todo) \in Seq(Entities)
  BY HeadTailProperties DEF ReadPass
<1>6. ASSUME NEW r \in Reader, RestAnswers(r) PROVE HlTypes' /\ FailuresEnd'
  <2> DEFINE p == [pass[r] EXCEPT !.answer = IF haServes THEN world[Head(pass[r].todo)] ELSE Failed]
  <2>1. Head(pass[r].todo) \in Entities
    BY <1>5, <1>6 DEF RestAnswers
  <2>2. p \in ReadPass /\ p.todo = pass[r].todo /\ p.failed = pass[r].failed
    BY <2>1 DEF ReadPass
  <2>3. pass' = [pass EXCEPT ![r] = p]
    BY <1>6 DEF RestAnswers
  <2> HIDE DEF p
  <2>4. pass' \in [Reader -> ReadPass] /\ FailuresEnd'
    BY <1>4, <2>2, <2>3
  <2> QED
    BY <1>6, <2>4 DEF RestAnswers
<1>7. ASSUME NEW e \in Entities, NEW s \in Nat, Cached(e, s)
      PROVE  cache' \in [Entities -> {Nothing} \cup Nat] /\ regressed' \subseteq Entities
  BY <1>7 DEF Cached
<1>8. ASSUME NEW r \in Reader, RestTaken(r) PROVE HlTypes' /\ FailuresEnd'
  <2>1. Head(pass[r].todo) \in Entities /\ Tail(pass[r].todo) \in Seq(Entities)
    BY <1>5, <1>8 DEF RestTaken
  <2>2. pass[r] \in ReadPass /\ pass[r].failed # 2
    BY <1>8 DEF RestTaken
  <2>3. CASE pass[r].answer = Failed
    <3> DEFINE left == IF pass[r].failed = 1 THEN <<>> ELSE Tail(pass[r].todo)
               p == [todo |-> left, answer |-> Pending, ok |-> pass[r].ok, failed |-> pass[r].failed + 1]
    <3>1. p \in ReadPass /\ (p.todo # <<>> => p.failed # 2)
      <4>1. left \in Seq(Entities) /\ (left # <<>> => pass[r].failed # 1)
        BY <2>1
      <4>2. pass[r].failed \in 0..1 /\ pass[r].ok \in BOOLEAN
        BY <2>2 DEF ReadPass
      <4> HIDE DEF left
      <4> QED
        BY <4>1, <4>2 DEF ReadPass
    <3>2. pass' = [pass EXCEPT ![r] = p] /\ UNCHANGED <<cache, regressed>>
      BY <1>8, <2>3 DEF RestTaken
    <3> HIDE DEF p
    <3>3. pass' \in [Reader -> ReadPass] /\ FailuresEnd'
      BY <1>4, <3>1, <3>2
    <3> QED
      BY <1>8, <3>2, <3>3 DEF RestTaken
  <2>4. CASE pass[r].answer # Failed
    <3> DEFINE p == [todo |-> Tail(pass[r].todo), answer |-> Pending, ok |-> TRUE, failed |-> 0]
    <3>1. p \in ReadPass /\ p.failed # 2
      BY <2>1 DEF ReadPass
    <3>2. pass' = [pass EXCEPT ![r] = p] /\ Cached(Head(pass[r].todo), pass[r].answer) /\ pass[r].answer \in Nat
      BY <1>8, <2>2, <2>4 DEF RestTaken, ReadPass
    <3> HIDE DEF p
    <3>3. pass' \in [Reader -> ReadPass] /\ FailuresEnd'
      BY <1>4, <3>1, <3>2
    <3>4. cache' \in [Entities -> {Nothing} \cup Nat] /\ regressed' \subseteq Entities
      BY <1>7, <2>1, <3>2
    <3> QED
      BY <1>8, <3>3, <3>4 DEF RestTaken
  <2> QED
    BY <2>3, <2>4
<1>9. \A s \in Seq(Entities) : PassOver(s) \in ReadPass /\ PassOver(s).failed # 2
  BY DEF PassOver, ReadPass
<1>10. Watched \in Seq(Entities) /\ Done \in ReadPass /\ Done.failed # 2 /\ \A e \in Entities : <<e>> \in Seq(Entities)
  <2>1. Watched \in Seq(Entities) /\ <<>> \in Seq(Entities)
    OBVIOUS
  <2>2. \A e \in Entities : <<e>> \in Seq(Entities)
    OBVIOUS
  <2> QED
    BY <1>9, <2>1, <2>2 DEF Done
<1>11. ASSUME NEW e \in Entities, WaitReads(e) PROVE HlTypes' /\ FailuresEnd'
  BY <1>4, <1>9, <1>10, <1>11 DEF WaitReads
<1>12. ASSUME Connect PROVE HlTypes' /\ FailuresEnd'
  <2>1. \A i \in DOMAIN Watched : <<Watched[i], world[Watched[i]]>> \in Entities \X Nat
    BY DEF Entities
  <2>2. DOMAIN Watched = 1..Len(Watched) /\ Len(Watched) \in Nat
    BY LenProperties
  <2>3. feed' \in Seq(Entities \X Nat)
    BY <1>12, <2>1, <2>2 DEF Connect
  <2> QED
    BY <1>12, <2>3 DEF Connect
<1>13. ASSUME Confirmed \/ PollStarts PROVE HlTypes' /\ FailuresEnd'
  BY <1>4, <1>9, <1>10, <1>13 DEF Confirmed, PollStarts
<1>14. ASSUME PollEnds PROVE HlTypes' /\ FailuresEnd'
  BY <1>4, <1>10, <1>14 DEF PollEnds
<1>15. ASSUME Filled PROVE HlTypes' /\ FailuresEnd'
  <2>1. overtaken' \in BOOLEAN
    BY <1>15, Zenon DEF Filled
  <2> QED
    BY <1>15, <2>1 DEF Filled
<1>16. ASSUME EventApplied PROVE HlTypes' /\ FailuresEnd'
  <2>1. Head(feed) \in Entities \X Nat /\ Tail(feed) \in Seq(Entities \X Nat)
    BY <1>16, HeadTailProperties DEF EventApplied
  <2> QED
    BY <1>7, <1>16, <2>1 DEF EventApplied
<1>17. ASSUME SocketBreaks PROVE HlTypes' /\ FailuresEnd'
  <2>1. <<>> \in Seq(Entities \X Nat)
    OBVIOUS
  <2> QED
    BY <1>17, <2>1 DEF SocketBreaks
<1>18. CASE UNCHANGED hlVars
  BY <1>18 DEF hlVars
<1> QED
  BY <1>1, <1>2, <1>3, <1>6, <1>8, <1>11, <1>12, <1>13, <1>14, <1>15, <1>16, <1>17, <1>18 DEF HlNext

\* What is put into the cache is known there, or noted as older than what it replaced.
LEMMA CachedIsKnown ==
  ASSUME HlTypes, NothingFromTheFuture, NEW e \in Entities, NEW s \in Nat, s <= world[e], world' = world, Cached(e, s)
  PROVE  /\ \A f \in Entities : cache'[f] <= world'[f]
         /\ \A f \in Entities : f \in regressed \/ cache[f] = world[f] => f \in regressed' \/ cache'[f] = world'[f]
         /\ s = world[e] => cache'[e] = world'[e]
<1>1. /\ cache' = [cache EXCEPT ![e] = s]
      /\ regressed' = {f \in (IF s < cache[e] THEN regressed \cup {e} ELSE regressed) : cache'[f] # world[f]}
  BY DEF Cached
<1>2. /\ cache'[e] = s /\ \A f \in Entities : f # e => cache'[f] = cache[f]
      /\ world[e] \in Nat /\ cache[e] \in Int
  BY <1>1 DEF HlTypes, Nothing
<1>3. \A f \in Entities : f \in regressed \/ cache[f] = world[f] => f \in regressed' \/ cache'[f] = world'[f]
  <2> TAKE f \in Entities
  <2>1. CASE f # e
    BY <1>1, <1>2, <2>1
  <2>2. CASE f = e /\ f \in regressed
    BY <1>1, <1>2, <2>2
  <2>3. CASE f = e /\ cache[e] = world[e]
    <3>1. s < cache[e] \/ s = world[e]
      BY <1>2, <2>3
    <3> QED
      BY <1>1, <1>2, <2>3, <3>1
  <2> QED
    BY <2>1, <2>2, <2>3
<1> QED
  BY <1>2, <1>3 DEF NothingFromTheFuture

LEMMA FutureStays ==
  HlTypes /\ FailuresEnd /\ NothingFromTheFuture /\ [HlNext]_hlVars => NothingFromTheFuture'
<1> SUFFICES ASSUME HlTypes, FailuresEnd, NothingFromTheFuture, [HlNext]_hlVars PROVE NothingFromTheFuture'
  OBVIOUS
<1> USE DEF HlTypes, Nothing, Pending, Failed
<1> DEFINE CacheOk == \A e \in Entities : cache[e] <= world[e]
           FeedOk == \A i \in 1..Len(feed) : feed[i][2] <= world[feed[i][1]]
           PassOk == \A r \in Reader : pass[r].todo # <<>> => pass[r].answer <= world[Head(pass[r].todo)]
<1>0. CacheOk /\ FeedOk /\ PassOk
  BY DEF NothingFromTheFuture
<1>00. \A i \in 1..Len(feed) : feed[i] \in Entities \X Nat
  BY ElementOfSeq
<1>01. \A r \in Reader : pass[r].todo # <<>> =>
         Head(pass[r].todo) \in Entities /\ Tail(pass[r].todo) \in Seq(Entities) /\ pass[r].answer \in Int
  <2> TAKE r \in Reader
  <2>0. pass[r] \in ReadPass
    OBVIOUS
  <2>1. pass[r].todo \in Seq(Entities)
    BY <2>0 DEF ReadPass
  <2>2. pass[r].answer \in {Pending, Failed} \cup Nat
    BY <2>0 DEF ReadPass
  <2>3. pass[r].answer \in Int
    BY <2>2
  <2> QED
    BY <2>1, <2>3, HeadTailProperties
<1>1. ASSUME UNCHANGED <<world, cache, feed, pass>> PROVE NothingFromTheFuture'
  BY <1>0, <1>1 DEF NothingFromTheFuture
<1>2. ASSUME NEW e \in Entities, StateChanges(e) PROVE NothingFromTheFuture'
  <2>1. /\ \A f \in Entities : world[f] <= world'[f] /\ world'[f] \in Nat /\ world[f] \in Nat
        /\ world'[e] = world[e] + 1 /\ UNCHANGED <<cache, pass>>
    BY <1>2 DEF StateChanges
  <2>2. \/ feed' = feed
        \/ feed' = Append(feed, <<e, world'[e]>>)
    BY <1>2 DEF StateChanges
  <2>3. FeedOk'
    <3>1. \A i \in 1..Len(feed) : feed[i][2] <= world'[feed[i][1]]
      BY <1>0, <1>00, <2>1
    <3>2. CASE feed' = feed
      BY <3>1, <3>2
    <3>3. CASE feed' = Append(feed, <<e, world'[e]>>)
      <4>1. /\ Len(feed') = Len(feed) + 1 /\ feed'[Len(feed) + 1] = <<e, world'[e]>> /\ Len(feed) \in Nat
            /\ \A i \in 1..Len(feed) : feed'[i] = feed[i]
        BY <2>1, <3>3, AppendProperties, LenProperties
      <4>2. \A i \in 1..Len(feed') : i \in 1..Len(feed) \/ i = Len(feed) + 1
        BY <4>1
      <4> QED
        BY <2>1, <3>1, <4>1, <4>2
    <3> QED
      BY <2>2, <3>2, <3>3
  <2>4. CacheOk' /\ PassOk'
    BY <1>0, <1>01, <2>1
  <2> QED
    BY <2>3, <2>4 DEF NothingFromTheFuture
<1>4. ASSUME NEW r \in Reader, RestAnswers(r) PROVE NothingFromTheFuture'
  <2>1. \A q \in Reader : pass'[q].todo = pass[q].todo /\ (q # r => pass'[q].answer = pass[q].answer)
    BY <1>4 DEF RestAnswers, ReadPass
  <2>2. pass'[r].answer = IF haServes THEN world[Head(pass[r].todo)] ELSE Failed
    BY <1>4 DEF RestAnswers, ReadPass
  <2>3. UNCHANGED <<world, cache, feed>>
    BY <1>4 DEF RestAnswers
  <2>4. pass[r].todo # <<>> => world[Head(pass[r].todo)] \in Nat /\ pass'[r].answer <= world[Head(pass[r].todo)]
    BY <1>01, <2>2
  <2>5. PassOk'
    BY <1>0, <2>1, <2>3, <2>4
  <2> QED
    BY <1>0, <2>3, <2>5 DEF NothingFromTheFuture
<1>5. ASSUME NEW r \in Reader, RestTaken(r) PROVE NothingFromTheFuture'
  <2> DEFINE p == pass[r]
             q == pass'[r]
  <2>1. p.todo # <<>> /\ p.answer # Pending /\ UNCHANGED <<world, feed>>
    BY <1>5 DEF RestTaken
  <2>2. q.answer = Pending /\ q.todo \in Seq(Entities) /\ (\A o \in Reader : o # r => pass'[o] = pass[o])
    <3>1. Tail(p.todo) \in Seq(Entities) /\ <<>> \in Seq(Entities)
      BY <1>01, <2>1
    <3> DEFINE a == [todo |-> IF p.failed = 1 THEN <<>> ELSE Tail(p.todo),
                     answer |-> Pending, ok |-> p.ok, failed |-> p.failed + 1]
               b == [todo |-> Tail(p.todo), answer |-> Pending, ok |-> TRUE, failed |-> 0]
    <3>2. PICK c \in {a, b} : pass' = [pass EXCEPT ![r] = c]
      BY <1>5 DEF RestTaken
    <3>3. c.answer = Pending /\ c.todo \in {<<>>, Tail(p.todo)}
      BY <3>2
    <3>4. c.todo \in Seq(Entities)
      BY <3>1, <3>3
    <3> HIDE DEF a, b
    <3> QED
      BY <3>2, <3>3, <3>4
  <2>3. q.todo # <<>> => q.answer <= world'[Head(q.todo)]
    <3>1. q.todo # <<>> => world[Head(q.todo)] \in Nat
      BY <2>2, HeadTailProperties
    <3> QED
      BY <2>1, <2>2, <3>1
  <2>4. PassOk'
    BY <1>0, <2>1, <2>2, <2>3
  <2>5. CacheOk'
    <3>1. CASE p.answer = Failed
      BY <1>0, <1>5, <3>1, <2>1 DEF RestTaken
    <3>2. CASE p.answer # Failed
      <4>1. Cached(Head(p.todo), p.answer) /\ p.answer \in Nat /\ Head(p.todo) \in Entities
        BY <1>01, <1>5, <2>1, <3>2 DEF RestTaken, ReadPass
      <4> QED
        BY <1>0, <2>1, <4>1, CachedIsKnown
    <3> QED
      BY <3>1, <3>2
  <2> QED
    BY <1>0, <2>1, <2>4, <2>5 DEF NothingFromTheFuture
<1>6. ASSUME NEW r \in Reader, NEW s \in Seq(Entities), pass' = [pass EXCEPT ![r] = PassOver(s)],
             UNCHANGED <<world, cache, feed>>
      PROVE  NothingFromTheFuture'
  <2>1. PassOver(s).answer = Pending /\ PassOver(s).todo = s /\ (s # <<>> => world[Head(s)] \in Nat)
    BY HeadTailProperties DEF PassOver
  <2>2. pass'[r] = PassOver(s) /\ \A q \in Reader : q # r => pass'[q] = pass[q]
    BY <1>6
  <2>3. PassOk'
    BY <1>0, <1>6, <2>1, <2>2
  <2> QED
    BY <1>0, <1>6, <2>3 DEF NothingFromTheFuture
<1>7. <<>> \in Seq(Entities) /\ Watched \in Seq(Entities) /\ \A e \in Entities : <<e>> \in Seq(Entities)
  <2>1. Watched \in Seq(Entities) /\ <<>> \in Seq(Entities)
    BY HaLinkNumbers
  <2>2. \A e \in Entities : <<e>> \in Seq(Entities)
    OBVIOUS
  <2> QED
    BY <2>1, <2>2
<1>8. ASSUME NEW e \in Entities, WaitReads(e) PROVE NothingFromTheFuture'
  <2>1. "wait" \in Reader
    BY DEF Reader
  <2> QED
    BY <1>6, <1>7, <1>8, <2>1 DEF WaitReads
<1>9. ASSUME Confirmed \/ PollStarts \/ PollEnds PROVE NothingFromTheFuture'
  <2>1. "ws" \in Reader /\ "poll" \in Reader
    BY DEF Reader
  <2> QED
    BY <1>6, <1>7, <1>9, <2>1 DEF Confirmed, PollStarts, PollEnds, Done
<1>10. ASSUME Connect PROVE NothingFromTheFuture'
  <2>1. /\ feed' = [i \in DOMAIN Watched |-> <<Watched[i], world[Watched[i]]>>]
        /\ UNCHANGED <<world, cache, pass>>
    BY <1>10 DEF Connect
  <2>2. DOMAIN Watched = 1..Len(Watched) /\ Len(Watched) \in Nat /\ \A i \in 1..Len(Watched) : Watched[i] \in Entities
    BY HaLinkNumbers, LenProperties, ElementOfSeq
  <2>3. Len(feed') = Len(Watched)
    BY <2>1, <2>2
  <2>4. FeedOk'
    BY <2>1, <2>2, <2>3
  <2> QED
    BY <1>0, <2>1, <2>4 DEF NothingFromTheFuture
<1>11. ASSUME EventApplied PROVE NothingFromTheFuture'
  <2>1. /\ feed # <<>> /\ feed' = Tail(feed) /\ Cached(Head(feed)[1], Head(feed)[2])
        /\ UNCHANGED <<world, pass>>
    BY <1>11 DEF EventApplied
  <2>2. /\ Len(feed') = Len(feed) - 1 /\ \A i \in 1..Len(feed') : feed'[i] = feed[i + 1]
        /\ Len(feed) \in Nat \ {0} /\ Head(feed) = feed[1]
    BY <2>1, HeadTailProperties, EmptySeq
  <2>3. FeedOk'
    <3> SUFFICES ASSUME NEW i \in 1..Len(feed') PROVE feed'[i][2] <= world'[feed'[i][1]]
      OBVIOUS
    <3>1. i + 1 \in 1..Len(feed) /\ feed'[i] = feed[i + 1]
      BY <2>2
    <3> QED
      BY <1>0, <2>1, <3>1
  <2>4. Head(feed)[1] \in Entities /\ Head(feed)[2] \in Nat /\ Head(feed)[2] <= world[Head(feed)[1]]
    BY <1>0, <1>00, <2>2
  <2>5. CacheOk'
    BY <2>1, <2>4, CachedIsKnown
  <2> QED
    BY <1>0, <2>1, <2>3, <2>5 DEF NothingFromTheFuture
<1>12. ASSUME SocketBreaks PROVE NothingFromTheFuture'
  BY <1>0, <1>12, EmptySeq DEF SocketBreaks, NothingFromTheFuture
<1>13. HaGoes \/ HaComes \/ ConnectionLost \/ Filled \/ UNCHANGED hlVars => UNCHANGED <<world, cache, feed, pass>>
  BY DEF HaGoes, HaComes, ConnectionLost, Filled, hlVars
<1> QED
  BY <1>1, <1>2, <1>4, <1>5, <1>8, <1>9, <1>10, <1>11, <1>12, <1>13 DEF HlNext

LEMMA SubscriptionStays ==
  HlTypes /\ NothingFromTheFuture /\ SubscriptionIsComplete /\ [HlNext]_hlVars => SubscriptionIsComplete'
<1> SUFFICES ASSUME HlTypes, NothingFromTheFuture, SubscriptionIsComplete, [HlNext]_hlVars, (socket # "none" /\ ~broken)'
             PROVE  (LastEventBrings /\ QuietIsKnown)'
  BY DEF SubscriptionIsComplete
<1> DEFINE Holds == socket # "none" /\ ~broken
<1>0. Holds => LastEventBrings /\ QuietIsKnown
  BY DEF SubscriptionIsComplete
<1>01. Len(feed) \in Nat /\ \A i \in 1..Len(feed) : feed[i] \in Entities \X Nat
  BY ElementOfSeq, LenProperties DEF HlTypes
<1>1. ASSUME UNCHANGED <<world, cache, feed, regressed>>, Holds PROVE (LastEventBrings /\ QuietIsKnown)'
  BY <1>0, <1>1, Zenon DEF LastEventBrings, QuietIsKnown, Told
<1>2. ASSUME NEW e \in Entities, StateChanges(e) PROVE (LastEventBrings /\ QuietIsKnown)'
  <2>1. /\ world' = [world EXCEPT ![e] = @ + 1] /\ UNCHANGED <<socket, broken, cache, regressed>>
        /\ feed' = Append(feed, <<e, world'[e]>>)
    BY <1>2 DEF StateChanges
  <2>2. LastEventBrings /\ QuietIsKnown
    BY <1>0, <2>1
  <2>3. \A f \in Entities : f # e => world'[f] = world[f]
    BY <2>1 DEF HlTypes
  <2>4. /\ Len(feed') = Len(feed) + 1 /\ feed'[Len(feed) + 1] = <<e, world'[e]>>
        /\ \A i \in 1..Len(feed) : feed'[i] = feed[i]
    <3>1. world'[e] = world[e] + 1 /\ world[e] \in Nat
      BY <2>1 DEF HlTypes
    <3>2. <<e, world'[e]>> \in Entities \X Nat
      BY <3>1
    <3> QED
      BY <2>1, <3>2, AppendProperties DEF HlTypes
  <2>5. LastEventBrings'
    <3> SUFFICES ASSUME NEW i \in 1..Len(feed'), \A j \in 1..Len(feed') : j > i => feed'[j][1] # feed'[i][1]
                 PROVE  feed'[i][2] = world'[feed'[i][1]]
      BY DEF LastEventBrings
    <3>1. CASE i = Len(feed) + 1
      BY <2>4, <3>1
    <3>2. CASE i \in 1..Len(feed)
      <4>1. feed[i][1] # e
        BY <1>01, <2>4, <3>2
      <4>2. \A j \in 1..Len(feed) : j > i => feed[j][1] # feed[i][1]
        BY <1>01, <2>4, <3>2
      <4>3. feed[i][2] = world[feed[i][1]]
        BY <2>2, <3>2, <4>2 DEF LastEventBrings
      <4> QED
        BY <1>01, <2>3, <2>4, <3>2, <4>1, <4>3
    <3> QED
      BY <1>01, <2>4, <3>1, <3>2
  <2>6. \A f \in Entities : Told(f) \/ f = e => Told(f)'
    BY <1>01, <2>4 DEF Told
  <2> QED
    BY <2>1, <2>2, <2>3, <2>5, <2>6 DEF QuietIsKnown
<1>3. ASSUME NEW r \in Reader, RestTaken(r) PROVE (LastEventBrings /\ QuietIsKnown)'
  <2>1. pass[r].todo # <<>> /\ pass[r].answer # Pending /\ UNCHANGED <<world, feed, socket, broken>>
    BY <1>3 DEF RestTaken
  <2>2. LastEventBrings /\ QuietIsKnown
    BY <1>0, <2>1
  <2>3. LastEventBrings'
    BY <2>1, <2>2, Zenon DEF LastEventBrings
  <2>4. CASE UNCHANGED <<cache, regressed>>
    BY <2>1, <2>2, <2>3, <2>4, Zenon DEF QuietIsKnown, Told
  <2>5. CASE pass[r].answer # Failed /\ Cached(Head(pass[r].todo), pass[r].answer)
    <3>1. pass[r].todo \in Seq(Entities) /\ pass[r].answer \in {Pending, Failed} \cup Nat
      BY DEF HlTypes, ReadPass
    <3>2. Head(pass[r].todo) \in Entities /\ pass[r].answer \in Nat /\ pass[r].answer <= world[Head(pass[r].todo)]
      BY <2>1, <2>5, <3>1, HeadTailProperties DEF NothingFromTheFuture
    <3>3. \A f \in Entities : f \in regressed \/ cache[f] = world[f] => f \in regressed' \/ cache'[f] = world'[f]
      BY <2>1, <2>5, <3>2, CachedIsKnown
    <3>4. \A f \in Entities : Told(f)' <=> Told(f)
      BY <2>1 DEF Told
    <3> QED
      BY <2>2, <2>3, <3>3, <3>4 DEF QuietIsKnown
  <2> QED
    BY <1>3, <2>4, <2>5 DEF RestTaken
<1>4. ASSUME Connect PROVE (LastEventBrings /\ QuietIsKnown)'
  <2>1. feed' = [i \in DOMAIN Watched |-> <<Watched[i], world[Watched[i]]>>] /\ UNCHANGED <<world, cache>>
    BY <1>4 DEF Connect
  <2>2. DOMAIN Watched = 1..Len(Watched) /\ Len(Watched) \in Nat /\ Entities = {Watched[i] : i \in 1..Len(Watched)}
    BY HaLinkNumbers, LenProperties DEF Entities
  <2>3. Len(feed') = Len(Watched) /\ \A i \in 1..Len(Watched) : feed'[i] = <<Watched[i], world'[Watched[i]]>>
    BY <2>1, <2>2
  <2>4. LastEventBrings'
    BY <2>3 DEF LastEventBrings
  <2>5. \A f \in Entities : Told(f)'
    BY <2>2, <2>3 DEF Told
  <2> QED
    BY <2>4, <2>5 DEF QuietIsKnown
<1>5. ASSUME EventApplied PROVE (LastEventBrings /\ QuietIsKnown)'
  <2>1. /\ feed # <<>> /\ feed' = Tail(feed) /\ Cached(Head(feed)[1], Head(feed)[2])
        /\ UNCHANGED <<world, socket, broken>>
    BY <1>5 DEF EventApplied
  <2>2. /\ Len(feed') = Len(feed) - 1 /\ \A i \in 1..Len(feed') : feed'[i] = feed[i + 1]
        /\ Len(feed) \in Nat \ {0} /\ Head(feed) = feed[1]
    BY <2>1, HeadTailProperties, EmptySeq DEF HlTypes
  <2>3. LastEventBrings /\ QuietIsKnown
    BY <1>0, <2>1
  <2>4. LastEventBrings'
    <3> SUFFICES ASSUME NEW i \in 1..Len(feed'), \A j \in 1..Len(feed') : j > i => feed'[j][1] # feed'[i][1]
                 PROVE  feed'[i][2] = world'[feed'[i][1]]
      BY DEF LastEventBrings
    <3>1. i + 1 \in 1..Len(feed) /\ feed'[i] = feed[i + 1]
      BY <2>2
    <3>2. \A j \in 1..Len(feed) : j > i + 1 => feed[j][1] # feed[i + 1][1]
      <4> TAKE j \in 1..Len(feed)
      <4> HAVE j > i + 1
      <4>1. j - 1 \in 1..Len(feed') /\ j - 1 > i /\ (j - 1) + 1 = j
        BY <2>2
      <4>2. feed'[j - 1] = feed[j]
        BY <2>2, <4>1
      <4> QED
        BY <3>1, <4>1, <4>2
    <3> QED
      BY <2>1, <2>3, <3>1, <3>2 DEF LastEventBrings
  <2> DEFINE e == feed[1][1]
             s == feed[1][2]
  <2>5. e \in Entities /\ s \in Nat /\ s <= world[e] /\ Cached(e, s)
    BY <1>01, <2>1, <2>2 DEF NothingFromTheFuture
  <2> HIDE DEF e, s
  <2>6. /\ \A f \in Entities : f \in regressed \/ cache[f] = world[f] => f \in regressed' \/ cache'[f] = world'[f]
        /\ s = world[e] => cache'[e] = world'[e]
    BY <2>1, <2>5, CachedIsKnown
  <2>7. \A f \in Entities : Told(f) /\ ~Told(f)' => f = e /\ s = world[e]
    <3> SUFFICES ASSUME NEW f \in Entities, Told(f), ~Told(f)' PROVE f = e /\ s = world[e]
      OBVIOUS
    <3>1. \A i \in 1..Len(feed) : i > 1 => feed[i][1] # f
      <4> SUFFICES ASSUME NEW i \in 1..Len(feed), i > 1, feed[i][1] = f PROVE FALSE
        OBVIOUS
      <4>1. i - 1 \in 1..Len(feed') /\ (i - 1) + 1 = i
        BY <2>2
      <4>2. feed'[i - 1] = feed[i]
        BY <2>2, <4>1
      <4> QED
        BY <4>1, <4>2 DEF Told
    <3>2. PICK i \in 1..Len(feed) : feed[i][1] = f
      BY DEF Told
    <3>3. i = 1
      BY <1>01, <3>1, <3>2
    <3>4. 1 \in 1..Len(feed) /\ feed[1][1] = f
      BY <2>2, <3>2, <3>3
    <3>5. feed[1][2] = world[feed[1][1]]
      BY <2>3, <3>1, <3>4 DEF LastEventBrings
    <3> QED
      BY <3>4, <3>5 DEF e, s
  <2> QED
    BY <2>3, <2>4, <2>6, <2>7 DEF QuietIsKnown
<1>6. HaGoes => ~Holds'
  BY DEF HaGoes
<1>7. ConnectionLost => ~Holds'
  BY DEF ConnectionLost
<1>8. SocketBreaks => ~Holds'
  BY DEF SocketBreaks
<1>9. ASSUME HaComes \/ Confirmed \/ Filled PROVE (LastEventBrings /\ QuietIsKnown)'
  <2>1. UNCHANGED <<world, cache, feed, regressed>>
    BY <1>9 DEF HaComes, Confirmed, Filled
  <2>2. Holds
    BY <1>9 DEF HaComes, Confirmed, Filled
  <2> QED
    BY <1>1, <2>1, <2>2
<1>10. ASSUME PollStarts \/ PollEnds \/ UNCHANGED hlVars PROVE (LastEventBrings /\ QuietIsKnown)'
  <2>1. UNCHANGED <<world, cache, feed, regressed>>
    BY <1>10 DEF PollStarts, PollEnds, hlVars
  <2>2. Holds
    BY <1>10 DEF PollStarts, PollEnds, hlVars
  <2> QED
    BY <1>1, <2>1, <2>2
<1>11. ASSUME NEW r \in Reader, RestAnswers(r) PROVE (LastEventBrings /\ QuietIsKnown)'
  <2>1. UNCHANGED <<world, cache, feed, regressed>> /\ Holds
    BY <1>11 DEF RestAnswers
  <2> QED
    BY <1>1, <2>1
<1>12. ASSUME NEW e \in Entities, WaitReads(e) PROVE (LastEventBrings /\ QuietIsKnown)'
  <2>1. UNCHANGED <<world, cache, feed, regressed>> /\ Holds
    BY <1>12 DEF WaitReads
  <2> QED
    BY <1>1, <2>1
<1> QED
  BY <1>2, <1>3, <1>4, <1>5, <1>6, <1>7, <1>8, <1>9, <1>10, <1>11, <1>12 DEF HlNext

LEMMA OvertakenStays == HlTypes /\ NoPassOvertaken /\ [HlNext]_hlVars => NoPassOvertaken'
<1> SUFFICES ASSUME HlTypes, NoPassOvertaken, [HlNext]_hlVars PROVE NoPassOvertaken'
  OBVIOUS
<1> DEFINE On == SocketUp /\ ~overtaken
<1>0. On => link = "ws" /\ pass["poll"] = Done
  BY DEF NoPassOvertaken
<1>1. ASSUME On' => On /\ link' = link /\ pass'["poll"] = pass["poll"] PROVE NoPassOvertaken'
  BY <1>0, <1>1 DEF NoPassOvertaken
<1>2. Done.todo = <<>>
  BY DEF Done, PassOver
<1>3. ASSUME NEW r \in Reader, RestAnswers(r) \/ RestTaken(r) PROVE NoPassOvertaken'
  <2>1. pass[r].todo # <<>> /\ UNCHANGED <<socket, overtaken, link>>
    BY <1>3 DEF RestAnswers, RestTaken
  <2>2. On => r # "poll"
    BY <1>0, <1>2, <2>1
  <2>3. r # "poll" => pass'["poll"] = pass["poll"]
    BY <1>3 DEF RestAnswers, RestTaken, HlTypes, Reader
  <2> QED
    BY <1>1, <2>1, <2>2, <2>3 DEF SocketUp
<1>4. ASSUME NEW e \in Entities, StateChanges(e) \/ WaitReads(e) PROVE NoPassOvertaken'
  <2>1. UNCHANGED <<socket, overtaken, link>> /\ pass'["poll"] = pass["poll"]
    BY <1>4 DEF StateChanges, WaitReads, HlTypes, Reader
  <2> QED
    BY <1>1, <2>1 DEF SocketUp
<1>5. ASSUME Filled PROVE NoPassOvertaken'
  BY <1>5 DEF Filled, NoPassOvertaken
<1>6. ASSUME Connect \/ Confirmed \/ SocketBreaks PROVE NoPassOvertaken'
  BY <1>6 DEF Connect, Confirmed, SocketBreaks, NoPassOvertaken, SocketUp
<1>7. ASSUME PollStarts \/ PollEnds PROVE NoPassOvertaken'
  BY <1>0, <1>7 DEF PollStarts, PollEnds, NoPassOvertaken, SocketUp
<1>8. ASSUME HaGoes \/ HaComes \/ ConnectionLost \/ EventApplied \/ UNCHANGED hlVars PROVE NoPassOvertaken'
  BY <1>0, <1>8, Zenon DEF HaGoes, HaComes, ConnectionLost, EventApplied, hlVars, NoPassOvertaken, SocketUp
<1> QED
  BY <1>3, <1>4, <1>5, <1>6, <1>7, <1>8 DEF HlNext

LEMMA HlInvStays == HlInv /\ [HlNext]_hlVars => HlInv'
  BY HlTypesStay, FutureStays, SubscriptionStays, OvertakenStays DEF HlInv

LEMMA HlInvIsSafe == HlInv => HaLinkSafe
<1> SUFFICES ASSUME HlInv PROVE HaLinkSafe
  OBVIOUS
<1>1. HlTypeOK
  <2>1. \A e \in Entities : cache[e] \in {Nothing} \cup 0..world[e]
    <3> TAKE e \in Entities
    <3>1. cache[e] \in {Nothing} \cup Nat /\ world[e] \in Nat /\ cache[e] <= world[e]
      BY DEF HlInv, HlTypes, NothingFromTheFuture
    <3> QED
      BY <3>1 DEF Nothing
  <2>2. \A r \in Reader : pass[r].answer \in {Pending, Failed} \cup Nat /\ pass[r].failed \in 0..2
    BY DEF HlInv, HlTypes, ReadPass
  <2> QED
    BY <2>1, <2>2 DEF HlInv, HlTypes, HlTypeOK
<1>2. LiveIsCurrent
  BY EmptySeq DEF HlInv, HlTypes, SubscriptionIsComplete, QuietIsKnown, Told, LiveIsCurrent, SocketUp
<1>3. LiveIsWs
  BY DEF HlInv, NoPassOvertaken, LiveIsWs
<1> QED
  BY <1>1, <1>2, <1>3 DEF HaLinkSafe

\* With the socket up, every event applied and no read under way the cache is Home Assistant's state,
\* whatever events, passes, single reads and outages crossed while the link came up, but for an entity
\* whose newer state an older answer replaced; and only an overtaken polling pass makes the link of a
\* working socket something else than "ws" (gw/ha.py).
THEOREM CacheIsCurrent == PortalSpec => []HaLinkHold
<1> DEFINE Inv == part = "haLink" => HlInv
<1>1. PortalInit => Inv
  BY PartStarts, HlStarts
<1>2. Inv /\ [PortalNext]_portalVars => Inv'
  BY PartMoves, HlInvStays
<1>3. Inv => HaLinkHold
  BY HlInvIsSafe DEF HaLinkHold
<1> QED
  BY <1>1, <1>2, <1>3, PTL DEF PortalSpec

-----------------------------------------------------------------------------
(* SignIn: setup links, codes and passwords.                               *)

\* The latest link can still be completed.
Unused == setupLink # <<>> /\ ~setupLink.used

\* The seed that an unused link has, or will get, is nobody's yet; and of the seed in force no code was
\* accepted that is later than the last one recorded.
SeedIsFresh ==
  Unused => /\ setupLink.seed \in {0, made} /\ (cred # <<>> => cred.seed # made)
            /\ \A c \in accepted : c[1] # made
LastIsLatest == cred # <<>> => \A c \in accepted : c[1] = cred.seed => c[2] <= cred.last

\* Every setup used up a link.
LinksAreUsedUp == setups \in Nat /\ setups <= made /\ (Unused => setups < made)

SignInv == SignTypeOK /\ SeedIsFresh /\ LastIsLatest /\ LinksAreUsedUp /\ TotpOnce

LEMMA StepsOfCodes == Step(LastSecond) \in Nat /\ 0 \in Codes \ {NoCode} /\ Codes \ {NoCode} = 0..Step(LastSecond)
<1>1. \A a \in Nat, b \in Nat \ {0} : a \div b \in Nat
  OBVIOUS
<1>2. Step(LastSecond) \in Nat
  BY <1>1, SignInNumbers DEF Step
<1> QED
  BY <1>2 DEF Codes, NoCode

LEMMA SignStarts == SignInit => SignInv
<1> SUFFICES ASSUME SignInit PROVE SignInv
  OBVIOUS
<1>1. SignTypeOK
  <2>1. 1 \in 0..LastSecond /\ 0 \in 0..MaxLinks /\ 0 \in 0..MaxTries
    BY SignInNumbers
  <2>2. setupLink = <<>> /\ cred = <<>> /\ accepted = {} /\ isAdmin \in BOOLEAN
    BY Zenon DEF SignInit
  <2> QED
    BY <2>1, <2>2 DEF SignInit, SignTypeOK
<1>2. SeedIsFresh /\ LastIsLatest /\ TotpOnce /\ LinksAreUsedUp
  BY DEF SignInit, SeedIsFresh, LastIsLatest, LinksAreUsedUp, TotpOnce, Unused
<1> QED
  BY <1>1, <1>2 DEF SignInv

\* The types, of the links, of the password, and of the rest.
SetupLinkOk == setupLink # <<>> => setupLink \in [ends : 0..LastSecond + LinkTtl, used : BOOLEAN, seed : 0..made]
CredOk == cred # <<>> => cred \in [seed : 0..made, last : 0..Step(LastSecond)]
CountsOk == clockS \in 0..LastSecond /\ isAdmin \in BOOLEAN /\ made \in 0..MaxLinks /\ tries \in 0..MaxTries
CodesOk == accepted \subseteq ((1..made) \X Codes)

LEMMA SignTypesSplit == SignTypeOK <=> SetupLinkOk /\ CredOk /\ CountsOk /\ CodesOk
  BY StepsOfCodes DEF SignTypeOK, SetupLinkOk, CredOk, CountsOk, CodesOk

LEMMA SignTypesJoin == (SetupLinkOk /\ CredOk /\ CountsOk /\ CodesOk)' => SignTypeOK'
  BY StepsOfCodes DEF SignTypeOK, SetupLinkOk, CredOk, CountsOk, CodesOk

LEMMA SetupCompleteStays == ASSUME SignInv, NEW k \in Codes, SetupComplete(k) PROVE SignInv'
<1>1. /\ Unused /\ setupLink.seed # 0 /\ setupLink' = [setupLink EXCEPT !.used = TRUE, !.seed = 0]
      /\ setups' = setups + 1 /\ UNCHANGED <<clockS, isAdmin, made, tries>>
  BY DEF SetupComplete, LinkLive, Unused
<1>2. \/ cred' = [seed |-> 0, last |-> 0] /\ UNCHANGED <<accepted, twice>>
      \/ k # NoCode /\ cred' = [seed |-> setupLink.seed, last |-> k] /\ AcceptStep(setupLink.seed, k)
  BY DEF SetupComplete, Verified
<1>3. SetupLinkOk /\ CredOk /\ CountsOk /\ CodesOk /\ setupLink.seed \in 1..made
  <2>1. SetupLinkOk /\ CredOk /\ CountsOk /\ CodesOk
    BY SignTypesSplit DEF SignInv
  <2> QED
    BY <1>1, <2>1 DEF SetupLinkOk, CountsOk, Unused
<1>4. setupLink.seed = made /\ \A c \in accepted : c[1] # setupLink.seed
  BY <1>1 DEF SignInv, SeedIsFresh
<1>5. setupLink'.used = TRUE /\ SetupLinkOk'
  <2> DEFINE l == [setupLink EXCEPT !.used = TRUE]
  <2>1. setupLink \in [ends : 0..LastSecond + LinkTtl, used : BOOLEAN, seed : 0..made]
    BY <1>1, <1>3 DEF SetupLinkOk, Unused
  <2>2. l \in [ends : 0..LastSecond + LinkTtl, used : BOOLEAN, seed : 0..made] /\ l.used = TRUE
    BY <2>1
  <2>3. setupLink' = [l EXCEPT !.seed = 0]
    BY <1>1
  <2> HIDE DEF l
  <2>4. 0 \in 0..made /\ made' = made
    BY <1>1, <1>3 DEF CountsOk
  <2> QED
    BY <2>2, <2>3, <2>4 DEF SetupLinkOk
<1>6. k # NoCode => k \in 0..Step(LastSecond)
  BY StepsOfCodes
<1>7. CredOk' /\ CountsOk' /\ CodesOk'
  <2>1. CountsOk'
    BY <1>1, <1>3 DEF CountsOk
  <2>2. CredOk'
    BY <1>1, <1>2, <1>3, <1>6, StepsOfCodes, 0 \in 0..Step(LastSecond) DEF CredOk, CountsOk
  <2>3. CodesOk'
    BY <1>1, <1>2, <1>3 DEF CodesOk, AcceptStep
  <2> QED
    BY <2>1, <2>2, <2>3
<1>8. ~Unused' /\ TotpOnce'
  <2>1. <<setupLink.seed, k>> \notin accepted
    BY <1>4
  <2>2. ~twice
    BY DEF SignInv, TotpOnce
  <2>3. ~twice'
    BY <1>2, <2>1, <2>2, Zenon DEF AcceptStep
  <2> QED
    BY <1>5, <2>3 DEF Unused, TotpOnce
<1>9. LastIsLatest'
  <2> SUFFICES ASSUME NEW c \in accepted', c[1] = cred'.seed PROVE c[2] <= cred'.last
    BY DEF LastIsLatest
  <2>1. c[1] # 0
    BY <1>7 DEF CodesOk
  <2> QED
    BY <1>2, <1>4, <1>6, <2>1, StepsOfCodes DEF AcceptStep
<1>10. LinksAreUsedUp'
  <2>1. setups \in Nat /\ setups < made /\ made \in Nat
    BY <1>1, <1>3 DEF SignInv, LinksAreUsedUp, CountsOk
  <2> QED
    BY <1>1, <1>8, <2>1 DEF LinksAreUsedUp
<1> QED
  BY <1>5, <1>7, <1>8, <1>9, <1>10, SignTypesJoin DEF SignInv, SeedIsFresh

LEMMA CheckLoginStays ==
  ASSUME SignInv, NEW k \in Codes, NEW right \in BOOLEAN, CheckLogin(right, k) PROVE SignInv'
<1>1. tries' \in 0..MaxTries /\ UNCHANGED <<clockS, isAdmin, setupLink, made, setups>>
  BY SignInNumbers DEF CheckLogin, SignInv, SignTypeOK
<1>2. SetupLinkOk /\ CredOk /\ CountsOk /\ CodesOk
  BY SignTypesSplit DEF SignInv
<1>3. SetupLinkOk' /\ CountsOk'
  BY <1>1, <1>2 DEF SetupLinkOk, CountsOk
<1>4. CASE UNCHANGED <<cred, accepted, twice>>
  <2>1. CredOk' /\ CodesOk'
    BY <1>1, <1>2, <1>4 DEF CredOk, CodesOk
  <2> QED
    BY <1>1, <1>3, <1>4, <2>1, SignTypesJoin DEF SignInv, SeedIsFresh, LastIsLatest, LinksAreUsedUp, TotpOnce, Unused
<1>5. CASE /\ cred # <<>> /\ cred.seed # 0 /\ Verified(k, cred.last)
           /\ cred' = [cred EXCEPT !.last = k] /\ AcceptStep(cred.seed, k)
  <2>1. k \in 0..Step(LastSecond) /\ k > cred.last
    BY <1>5, StepsOfCodes DEF Verified
  <2>2. cred \in [seed : 0..made, last : 0..Step(LastSecond)] /\ cred.seed \in 1..made
    BY <1>2, <1>5 DEF CredOk, CountsOk
  <2>3. cred' \in [seed : 0..made, last : 0..Step(LastSecond)] /\ cred'.seed = cred.seed /\ cred'.last = k
    BY <1>5, <2>1, <2>2
  <2>4. CredOk'
    BY <1>1, <2>3 DEF CredOk
  <2>5. CodesOk'
    BY <1>1, <1>2, <1>5, <2>2 DEF CodesOk, AcceptStep
  <2>6. \A c \in accepted : c[1] = cred.seed => c[2] <= cred.last /\ c[2] \in Int
    BY <1>2, <1>5, StepsOfCodes DEF SignInv, LastIsLatest, CodesOk, Codes, NoCode
  <2>7. TotpOnce'
    <3>1. <<cred.seed, k>> \notin accepted
      BY <2>1, <2>2, <2>6
    <3>2. ~twice
      BY DEF SignInv, TotpOnce
    <3> QED
      BY <1>5, <3>1, <3>2, Zenon DEF TotpOnce, AcceptStep
  <2>8. LastIsLatest'
    BY <1>5, <2>1, <2>2, <2>3, <2>6 DEF LastIsLatest, AcceptStep
  <2>9. SeedIsFresh'
    BY <1>1, <1>5, <2>3 DEF SignInv, SeedIsFresh, Unused, AcceptStep
  <2> QED
    BY <1>1, <1>3, <2>4, <2>5, <2>7, <2>8, <2>9, SignTypesJoin DEF SignInv, LinksAreUsedUp, Unused
<1> QED
  BY <1>4, <1>5 DEF CheckLogin

LEMMA SignInvStays == SignInv /\ [SignNext]_signVars => SignInv'
<1> SUFFICES ASSUME SignInv, [SignNext]_signVars PROVE SignInv'
  OBVIOUS
<1>0. SetupLinkOk /\ CredOk /\ CountsOk /\ CodesOk
  BY SignTypesSplit DEF SignInv
<1> USE SignInNumbers DEF SetupLinkOk, CredOk, CountsOk, CodesOk
<1>1. CASE NewLink
  <2>1. made \in Nat /\ made' = made + 1 /\ made' \in 0..MaxLinks
    BY <1>0, <1>1 DEF NewLink
  <2>2. /\ setupLink' = [ends |-> clockS + LinkTtl, used |-> FALSE, seed |-> 0]
        /\ UNCHANGED <<clockS, isAdmin, cred, tries, accepted, twice, setups>>
    BY <1>1 DEF NewLink
  <2>3. SetupLinkOk'
    BY <1>0, <2>1, <2>2
  <2>4. CredOk' /\ (cred' # <<>> => cred'.seed # made')
    BY <1>0, <2>1, <2>2
  <2>5. CodesOk' /\ (\A c \in accepted' : c[1] # made')
    BY <1>0, <2>1, <2>2
  <2>6. CountsOk'
    BY <1>0, <2>1, <2>2
  <2>7. SeedIsFresh'
    BY <2>2, <2>4, <2>5 DEF SeedIsFresh, Unused
  <2>8. LastIsLatest' /\ TotpOnce' /\ LinksAreUsedUp'
    BY <2>1, <2>2 DEF SignInv, LastIsLatest, TotpOnce, LinksAreUsedUp
  <2> QED
    BY <2>3, <2>4, <2>5, <2>6, <2>7, <2>8, SignTypesJoin DEF SignInv
<1>2. CASE SetupBegin
  <2>1. /\ Unused /\ setupLink' = [setupLink EXCEPT !.seed = made]
        /\ UNCHANGED <<clockS, isAdmin, made, cred, tries, accepted, twice, setups>>
    BY <1>2 DEF SetupBegin, LinkLive, Unused
  <2>2. setupLink \in [ends : 0..LastSecond + LinkTtl, used : BOOLEAN, seed : 0..made] /\ made \in Nat
    BY <1>0, <2>1 DEF Unused
  <2>3. /\ setupLink' \in [ends : 0..LastSecond + LinkTtl, used : BOOLEAN, seed : 0..made]
        /\ setupLink'.used = setupLink.used /\ setupLink'.seed = made
    BY <2>1, <2>2
  <2>4. SetupLinkOk' /\ CredOk' /\ CountsOk' /\ CodesOk'
    BY <1>0, <2>1, <2>3
  <2>5. SeedIsFresh'
    BY <2>1, <2>3 DEF SignInv, SeedIsFresh
  <2>6. LastIsLatest' /\ TotpOnce' /\ LinksAreUsedUp'
    BY <2>1 DEF SignInv, LastIsLatest, TotpOnce, LinksAreUsedUp
  <2> QED
    BY <2>4, <2>5, <2>6, SignTypesJoin DEF SignInv
<1>3. CASE Reset
  <2>1. SetupLinkOk' /\ CredOk' /\ CountsOk' /\ CodesOk'
    BY <1>0, <1>3 DEF Reset
  <2> QED
    BY <1>3, <2>1, SignTypesJoin DEF Reset, SignInv, SeedIsFresh, LastIsLatest, TotpOnce, LinksAreUsedUp, Unused
<1>4. ASSUME UNCHANGED <<setupLink, made, cred, accepted, twice, setups>>, CountsOk' PROVE SignInv'
  <2>1. SetupLinkOk' /\ CredOk' /\ CodesOk'
    BY <1>0, <1>4
  <2> QED
    BY <1>4, <2>1, SignTypesJoin DEF SignInv, SeedIsFresh, LastIsLatest, TotpOnce, LinksAreUsedUp, Unused
<1>5. CASE RoleChanged
  <2>1. isAdmin' \in BOOLEAN
    BY <1>5, Zenon DEF RoleChanged
  <2>2. CountsOk'
    BY <1>0, <1>5, <2>1 DEF RoleChanged
  <2> QED
    BY <1>4, <1>5, <2>2 DEF RoleChanged
<1>6. CASE OtherFails \/ SignTick
  <2>1. CountsOk'
    <3>1. \/ tries < MaxTries /\ tries' = tries + 1 /\ UNCHANGED <<clockS, isAdmin, made>>
          \/ clockS < LastSecond /\ clockS' = clockS + 1 /\ UNCHANGED <<tries, isAdmin, made>>
      BY <1>6, Zenon DEF OtherFails, SignTick
    <3> QED
      BY <1>0, <3>1
  <2> QED
    BY <1>4, <1>6, <2>1 DEF OtherFails, SignTick
<1>7. CASE UNCHANGED signVars
  BY <1>0, <1>4, <1>7 DEF signVars
<1> QED
  BY <1>1, <1>2, <1>3, <1>5, <1>6, <1>7, SetupCompleteStays, CheckLoginStays DEF SignNext

\* A code of the authenticator is accepted once, also the one that completed the setup, and a link sets
\* credentials once, in every order of setups, resets, role changes and sign-ins (gw/people.py).
THEOREM CodesAndLinksWorkOnce == PortalSpec => [](part = "signIn" => SignTypeOK /\ TotpOnce /\ LinkOnce)
<1> DEFINE Inv == part = "signIn" => SignInv
<1>1. PortalInit => Inv
  BY PartStarts, SignStarts
<1>2. Inv /\ [PortalNext]_portalVars => Inv'
  BY PartMoves, SignInvStays
<1>3. Inv => (part = "signIn" => SignTypeOK /\ TotpOnce /\ LinkOnce)
  BY DEF SignInv, LinksAreUsedUp, LinkOnce
<1> QED
  BY <1>1, <1>2, <1>3, PTL DEF PortalSpec

-----------------------------------------------------------------------------
(* SignIn: the failed attempts. The k-th failure of the account in the     *)
(* window has rank k; past the free ones the waits double from rank to     *)
(* rank, and the ranks fall together when the oldest failures leave.       *)

\* Rows in the order of their ids, which is the order of their times.
RowsInOrder(rows) ==
  /\ IsFiniteSet(rows) /\ \A x \in rows : x.id \in Nat /\ x.at \in Int
  /\ \A x, y \in rows : (x.id = y.id => x = y) /\ (x.id <= y.id => x.at <= y.at)

Upto(rows, x) == {y \in rows : y.id <= x.id}
Rank(rows, x) == Cardinality(Upto(rows, x))

LEMMA SubsetsInOrder == ASSUME NEW S, RowsInOrder(S), NEW T \in SUBSET S PROVE RowsInOrder(T) /\ Cardinality(T) <= Cardinality(S)
  BY FS_Subset DEF RowsInOrder

LEMMA RankRange == ASSUME NEW S, RowsInOrder(S), NEW x \in S PROVE Rank(S, x) \in 1..Cardinality(S)
<1>1. IsFiniteSet(S) /\ Upto(S, x) \in SUBSET S /\ x \in Upto(S, x)
  BY DEF RowsInOrder, Upto
<1>2. IsFiniteSet(Upto(S, x)) /\ Cardinality(Upto(S, x)) <= Cardinality(S)
  BY <1>1, FS_Subset
<1>3. Cardinality(Upto(S, x)) \in Nat /\ Cardinality(S) \in Nat /\ Cardinality(Upto(S, x)) # 0
  BY <1>1, <1>2, FS_CardinalityType, FS_EmptySet
<1> QED
  BY <1>2, <1>3 DEF Rank

LEMMA RanksAreInOrder ==
  ASSUME NEW S, RowsInOrder(S), NEW x \in S, NEW y \in S, x.id < y.id PROVE Rank(S, x) < Rank(S, y)
<1>1. /\ x.id \in Nat /\ y.id \in Nat /\ IsFiniteSet(S) /\ Upto(S, y) \in SUBSET S
      /\ \A z \in S : z.id \in Nat
  BY DEF RowsInOrder, Upto
<1>2. Upto(S, x) \in SUBSET Upto(S, y) /\ y \in Upto(S, y) /\ y \notin Upto(S, x)
  BY <1>1 DEF Upto
<1>3. IsFiniteSet(Upto(S, y))
  BY <1>1, FS_Subset
<1>4. Rank(S, x) <= Rank(S, y) /\ Rank(S, x) # Rank(S, y)
  BY <1>2, <1>3, FS_Subset DEF Rank
<1> QED
  BY <1>4, RankRange

\* Every rank is somebody's.
LEMMA RanksAreTaken ==
  ASSUME NEW S, RowsInOrder(S), NEW k \in 1..Cardinality(S) PROVE \E x \in S : Rank(S, x) = k
<1> DEFINE n == Cardinality(S)
           f == [x \in S |-> Rank(S, x)]
<1>1. n \in Nat /\ IsFiniteSet(S)
  BY FS_CardinalityType DEF RowsInOrder
<1>2. IsFiniteSet(1..n) /\ Cardinality(1..n) = n
  BY <1>1, FS_Interval
<1>3. f \in [S -> 1..n]
  BY RankRange
<1>4. ASSUME NEW x \in S, NEW y \in S, f[x] = f[y] PROVE x = y
  <2>1. Rank(S, x) = Rank(S, y) /\ Rank(S, x) \in Nat
    BY <1>4, RankRange
  <2>2. x.id \in Nat /\ y.id \in Nat /\ ~(x.id < y.id) /\ ~(y.id < x.id)
    BY <2>1, RanksAreInOrder DEF RowsInOrder
  <2> QED
    BY <2>2 DEF RowsInOrder
<1>5. f \in Injection(S, 1..n)
  BY <1>3, <1>4 DEF Injection, IsInjective
<1>6. f \in Surjection(S, 1..n)
  <2> HIDE DEF f, n
  <2> QED
    BY <1>1, <1>2, <1>5, FS_Injection DEF n
<1> QED
  BY <1>6 DEF Surjection

\* A row with a higher id is the last.
LEMMA LastRank ==
  ASSUME NEW S, RowsInOrder(S), NEW z, z.id \in Nat, \A x \in S : x.id < z.id
  PROVE  /\ \A x \in S : Rank(S \cup {z}, x) = Rank(S, x)
         /\ Rank(S \cup {z}, z) = Cardinality(S) + 1
<1>1. \A x \in S : x.id \in Nat
  BY DEF RowsInOrder
<1>2. ASSUME NEW x \in S PROVE Upto(S \cup {z}, x) = Upto(S, x)
  BY <1>1 DEF Upto
<1>3. Upto(S \cup {z}, z) = S \cup {z} /\ z \notin S
  BY <1>1 DEF Upto
<1>4. Cardinality(S \cup {z}) = Cardinality(S) + 1
  BY <1>3, FS_AddElement DEF RowsInOrder
<1> QED
  BY <1>2, <1>3, <1>4 DEF Rank

\* When the oldest rows go, the ranks of the others fall by as many.
LEMMA RanksFall ==
  ASSUME NEW S, RowsInOrder(S), NEW c \in Int
  PROVE  LET T == {x \in S : x.at > c}
             d == Cardinality(S \ T)
         IN  d \in Nat /\ \A x \in T : Rank(S, x) = Rank(T, x) + d
<1> DEFINE T == {x \in S : x.at > c}
           d == Cardinality(S \ T)
<1>1. IsFiniteSet(S \ T) /\ d \in Nat
  BY FS_Difference, FS_CardinalityType DEF RowsInOrder
<1>2. ASSUME NEW x \in T PROVE Rank(S, x) = Rank(T, x) + d
  <2>1. \A y \in S : y.id \in Nat /\ y.at \in Int /\ (x.id <= y.id => x.at <= y.at)
    BY DEF RowsInOrder
  <2>2. \A y \in S \ T : y.id <= x.id
    BY <2>1
  <2>3. Upto(S, x) = Upto(T, x) \cup (S \ T) /\ Upto(T, x) \cap (S \ T) = {}
    BY <2>1, <2>2 DEF Upto
  <2>4. Upto(T, x) \in SUBSET S /\ IsFiniteSet(S)
    BY DEF RowsInOrder, Upto
  <2>5. IsFiniteSet(Upto(T, x)) /\ Cardinality(Upto(T, x)) \in Nat
    BY <2>4, FS_Subset, FS_CardinalityType
  <2>6. Cardinality(Upto(S, x)) = Cardinality(Upto(T, x)) + d - Cardinality({})
    <3> HIDE DEF T
    <3> QED
      BY <1>1, <2>3, <2>5, FS_Union
  <2> QED
    BY <1>1, <2>5, <2>6, FS_EmptySet DEF Rank
<1> QED
  BY <1>1, <1>2

LEMMA PowersGrow ==
  ASSUME NEW i \in 0..IpLimit, NEW j \in 0..IpLimit, i <= j, NEW d \in Nat, j + d <= IpLimit
  PROVE  2 ^ j - 2 ^ i <= 2 ^ (j + d) - 2 ^ (i + d) /\ 2 ^ i \in Nat /\ 2 ^ j \in Nat
<1>0. IpLimit \in Nat
  BY SignInNumbers
<1> DEFINE a == 2 ^ i
           b == 2 ^ (j - i)
           q == 2 ^ d
           aj == 2 ^ j
           ajd == 2 ^ (j + d)
           aid == 2 ^ (i + d)
<1>1. d \in 0..IpLimit /\ j - i \in 0..IpLimit /\ i + (j - i) = j
  BY <1>0
<1>2. a \in Nat \ {0} /\ b \in Nat \ {0} /\ q \in Nat \ {0}
  BY <1>1, PowersOfTwo
<1>3. 2 ^ (i + (j - i)) = a * b
  BY <1>1, PowersOfTwo
<1>4. aj = a * b /\ ajd = aj * q /\ aid = a * q
  BY <1>1, <1>3, PowersOfTwo
<1> HIDE DEF a, b, q, aj, ajd, aid
<1>5. a * b \in Nat /\ a <= a * b
  BY <1>2
<1>6. \A m \in Nat, n \in Nat, r \in Nat \ {0} : n <= m => m - n <= m * r - n * r
  <2> TAKE m \in Nat, n \in Nat, r \in Nat \ {0}
  <2> HAVE n <= m
  <2>1. m * r - n * r = (m - n) * r /\ m - n \in Nat
    OBVIOUS
  <2>2. \A g \in Nat : g <= g * r
    OBVIOUS
  <2> QED
    BY <2>1, <2>2
<1>7. aj - a <= ajd - aid
  BY <1>2, <1>4, <1>5, <1>6
<1> QED
  BY <1>2, <1>4, <1>5, <1>7 DEF a, aj, ajd, aid

\* The wait after the k-th failure.
Wait(k) == 2 ^ (k - FreeFails)

\* Past the free ones, each failure waited twice as long as the one before it: between two of them lies
\* at least the difference of the powers.
WaitsDouble(rows) ==
  \A x, y \in rows : FreeFails < Rank(rows, x) /\ x.id <= y.id =>
    Wait(Rank(rows, y)) - Wait(Rank(rows, x)) <= y.at - x.at

LEMMA WaitsStayDouble ==
  ASSUME NEW S, RowsInOrder(S), Cardinality(S) <= IpLimit, WaitsDouble(S), NEW c \in Int
  PROVE  WaitsDouble({x \in S : x.at > c})
<1> DEFINE T == {x \in S : x.at > c}
           d == Cardinality(S \ T)
<1> SUFFICES ASSUME NEW x \in T, NEW y \in T, FreeFails < Rank(T, x), x.id <= y.id
             PROVE  Wait(Rank(T, y)) - Wait(Rank(T, x)) <= y.at - x.at
  BY DEF WaitsDouble
<1>1. d \in Nat /\ Rank(S, x) = Rank(T, x) + d /\ Rank(S, y) = Rank(T, y) + d
  BY RanksFall
<1>2. RowsInOrder(T) /\ x \in S /\ y \in S
  BY SubsetsInOrder
<1> HIDE DEF T, d
<1> DEFINE i == Rank(T, x) - FreeFails
           j == Rank(T, y) - FreeFails
<1>3. FreeFails \in Nat /\ IpLimit \in Nat /\ Cardinality(S) \in Nat
  BY SignInNumbers, FS_CardinalityType DEF RowsInOrder
<1>4. /\ Rank(T, x) \in Nat /\ Rank(T, y) \in Nat /\ Rank(S, y) <= IpLimit
  BY <1>2, <1>3, RankRange
<1>5. Rank(T, x) <= Rank(T, y)
  <2>1. x.id \in Nat /\ y.id \in Nat /\ (x.id = y.id => x = y)
    BY <1>2 DEF RowsInOrder
  <2> QED
    BY <1>2, <1>4, <2>1, RanksAreInOrder
<1>6. i \in 0..IpLimit /\ j \in 0..IpLimit /\ i <= j /\ j + d <= IpLimit
  BY <1>1, <1>3, <1>4, <1>5
<1>7. Wait(Rank(T, y)) - Wait(Rank(T, x)) <= Wait(Rank(T, y) + d) - Wait(Rank(T, x) + d)
  <2>1. 2 ^ j - 2 ^ i <= 2 ^ (j + d) - 2 ^ (i + d)
    BY <1>1, <1>6, PowersGrow
  <2>2. (Rank(T, y) + d) - FreeFails = j + d /\ (Rank(T, x) + d) - FreeFails = i + d
    BY <1>1, <1>3, <1>4
  <2> QED
    BY <2>1, <2>2 DEF Wait
<1>8. /\ Wait(Rank(T, y)) \in Nat /\ Wait(Rank(T, x)) \in Nat
      /\ Wait(Rank(T, y) + d) \in Nat /\ Wait(Rank(T, x) + d) \in Nat
  <2>1. \A k \in Nat : FreeFails <= k /\ k <= IpLimit => Wait(k) \in Nat
    BY <1>3, PowersOfTwo DEF Wait
  <2> QED
    BY <1>1, <1>3, <1>4, <1>6, <2>1
<1>9. Wait(Rank(T, y) + d) - Wait(Rank(T, x) + d) <= y.at - x.at
  <2>1. FreeFails < Rank(S, x)
    BY <1>1, <1>3, <1>4
  <2> QED
    BY <1>1, <1>2, <2>1 DEF WaitsDouble
<1>10. y.at \in Int /\ x.at \in Int
  BY <1>2 DEF RowsInOrder
<1> QED
  BY <1>7, <1>8, <1>9, <1>10

LEMMA WaitIsPower == ASSUME NEW k, NEW e, k - FreeFails = e PROVE Wait(k) = 2 ^ e
  BY DEF Wait

LEMMA WaitsAreNaturals ==
  ASSUME NEW k \in Nat, FreeFails <= k, k < IpLimit PROVE Wait(k) \in Nat /\ Wait(k + 1) = 2 * Wait(k)
<1>1. FreeFails \in Nat /\ IpLimit \in Nat
  BY SignInNumbers
<1>2. k - FreeFails \in 0..IpLimit /\ 1 \in 0..IpLimit /\ k + 1 - FreeFails = (k - FreeFails) + 1
  BY <1>1
<1> DEFINE p == 2 ^ (k - FreeFails)
<1>3. p \in Nat /\ 2 ^ ((k - FreeFails) + 1) = p * 2
  BY <1>2, PowersOfTwo
<1>4. Wait(k) = p
  BY WaitIsPower
<1>5. Wait(k + 1) = p * 2
  BY <1>1, <1>2, <1>3, WaitIsPower
<1> HIDE DEF p
<1>6. p * 2 = 2 * p
  BY <1>3
<1>7. Wait(k) \in Nat
  BY <1>3, <1>4
<1>8. Wait(k + 1) = 2 * Wait(k)
  BY <1>4, <1>5, <1>6
<1> QED
  BY <1>7, <1>8

\* A failure that was let through waited for all the ones before it.
LEMMA NextWaitIsDouble ==
  ASSUME NEW S, RowsInOrder(S), Cardinality(S) < IpLimit, WaitsDouble(S),
         NEW z, z.id \in Nat, z.at \in Int, \A x \in S : x.id < z.id,
         Cardinality(S) > FreeFails => \A x \in S : x.at + Wait(Cardinality(S)) <= z.at
  PROVE  WaitsDouble(S \cup {z})
<1> DEFINE T == S \cup {z}
           n == Cardinality(S)
<1>0. FreeFails \in Nat /\ IpLimit \in Nat /\ n \in Nat
  BY SignInNumbers, FS_CardinalityType DEF RowsInOrder
<1> SUFFICES ASSUME NEW x \in T, NEW y \in T, FreeFails < Rank(T, x), x.id <= y.id
             PROVE  Wait(Rank(T, y)) - Wait(Rank(T, x)) <= y.at - x.at
  BY DEF WaitsDouble
<1>1. Rank(T, z) = n + 1 /\ \A s \in S : Rank(T, s) = Rank(S, s)
  BY LastRank
<1>2. \A s \in S : s.id \in Nat /\ s.at \in Int
  BY DEF RowsInOrder
<1>3. \A s \in S : Rank(S, s) \in 1..n
  BY RankRange
<1>4. CASE x \in S /\ y \in S
  BY <1>1, <1>4 DEF WaitsDouble
<1>5. CASE x = z
  <2>1. y = z
    BY <1>2, <1>5
  <2>2. FreeFails <= n /\ Wait(n + 1) \in Nat
    BY <1>0, <1>1, <1>5, WaitsAreNaturals
  <2> QED
    BY <1>1, <1>5, <2>1, <2>2
<1>6. CASE x \in S /\ y = z
  <2>1. Rank(T, x) = Rank(S, x) /\ Rank(S, x) \in 1..n /\ n > FreeFails /\ n \in 1..n
    <3>1. Rank(T, x) = Rank(S, x) /\ Rank(S, x) \in 1..n
      BY <1>1, <1>3, <1>6
    <3> QED
      BY <1>0, <3>1
  <2>2. PICK t \in S : Rank(S, t) = n
    BY <2>1, RanksAreTaken
  <2>3. x.id <= t.id
    BY <1>2, <1>6, <2>1, <2>2, RanksAreInOrder
  <2>4. Wait(n) - Wait(Rank(S, x)) <= t.at - x.at
    BY <1>6, <2>1, <2>2, <2>3 DEF WaitsDouble
  <2>5. t.at + Wait(n) <= z.at
    BY <2>1, <2>2
  <2>6. Wait(n + 1) = 2 * Wait(n) /\ Wait(n) \in Nat /\ Wait(Rank(S, x)) \in Nat
    BY <1>0, <1>1, <2>1, WaitsAreNaturals
  <2>7. x.at \in Int /\ t.at \in Int
    BY <1>2, <1>6
  <2>8. Wait(n + 1) - Wait(Rank(S, x)) <= z.at - x.at
    BY <2>4, <2>5, <2>6, <2>7
  <2> QED
    BY <1>1, <1>6, <2>1, <2>8
<1> QED
  BY <1>4, <1>5, <1>6

LEMMA GuessesAreFew ==
  ASSUME NEW S, RowsInOrder(S), Cardinality(S) <= IpLimit, WaitsDouble(S), Cardinality(S) > FreeFails,
         \A x \in S : clockS - FailWindow < x.at /\ x.at <= clockS, clockS \in Int
  PROVE  2 ^ (Cardinality(S) - FreeFails) < FailWindow + 2
<1> DEFINE n == Cardinality(S)
<1>0. FreeFails \in Nat /\ FailWindow \in Nat /\ IpLimit \in Nat /\ n \in Nat
  BY SignInNumbers, FS_CardinalityType DEF RowsInOrder
<1>1. n \in 1..n /\ FreeFails + 1 \in 1..n
  BY <1>0
<1>2. PICK x \in S : Rank(S, x) = FreeFails + 1
  BY <1>1, RanksAreTaken
<1>3. PICK y \in S : Rank(S, y) = n
  BY <1>1, RanksAreTaken
<1>4. x.id \in Nat /\ y.id \in Nat /\ x.at \in Int /\ y.at \in Int
  BY DEF RowsInOrder
<1>5. x.id <= y.id
  BY <1>0, <1>1, <1>2, <1>3, <1>4, RanksAreInOrder
<1>6. Wait(n) - Wait(FreeFails + 1) <= y.at - x.at
  BY <1>0, <1>2, <1>3, <1>5 DEF WaitsDouble
<1>7. Wait(FreeFails + 1) = 2
  <2>1. PICK o \in Nat : o = 1
    OBVIOUS
  <2>2. Wait(FreeFails + o) = 2 ^ o
    BY <1>0, WaitIsPower
  <2>3. 2 ^ o = 2
    BY <2>1, PowersOfTwo, Zenon
  <2> QED
    BY <2>1, <2>2, <2>3
<1>8. Wait(n) \in Nat
  BY <1>0, n - FreeFails \in 0..IpLimit, PowersOfTwo DEF Wait
<1>9. Wait(n) < FailWindow + 2
  BY <1>0, <1>4, <1>6, <1>7, <1>8
<1> QED
  BY <1>9 DEF Wait

\* What is kept of the failures: only those of the window, in order, within the address's limit, and with
\* the account's waits between them.
FailsInv ==
  /\ RowsInOrder(failRows) /\ Cardinality(failRows) <= IpLimit
  /\ \A x \in failRows : x.id <= tries /\ clockS - FailWindow < x.at /\ x.at <= clockS
  /\ WaitsDouble(Mine(failRows))

LEMMA FailsAreRecent == ASSUME FailsInv PROVE RecentFails(failRows) = failRows
  BY DEF FailsInv, RecentFails

LEMMA MineInOrder ==
  ASSUME FailsInv PROVE RowsInOrder(Mine(failRows)) /\ Cardinality(Mine(failRows)) <= Cardinality(failRows)
                        /\ Cardinality(Mine(failRows)) \in Nat /\ Cardinality(failRows) \in Nat
<1>1. Mine(failRows) \in SUBSET failRows
  BY DEF Mine
<1>2. RowsInOrder(Mine(failRows)) /\ Cardinality(Mine(failRows)) <= Cardinality(failRows)
  BY <1>1, SubsetsInOrder DEF FailsInv
<1> QED
  BY <1>2, FS_CardinalityType DEF FailsInv, RowsInOrder

LEMMA FailsBounded == ASSUME FailsInv, clockS \in Nat PROVE GuessesBounded
<1>1. Cardinality(Mine(failRows)) > FreeFails => 2 ^ (Cardinality(Mine(failRows)) - FreeFails) < FailWindow + 2
  <2>1. Mine(failRows) \subseteq failRows /\ IpLimit \in Nat
    BY SignInNumbers DEF Mine
  <2> QED
    BY <2>1, MineInOrder, GuessesAreFew DEF FailsInv
<1> QED
  BY <1>1, FailsAreRecent DEF GuessesBounded, FailsInv

LEMMA FailsStart == SignInit => FailsInv
<1> SUFFICES ASSUME SignInit PROVE FailsInv
  OBVIOUS
<1>1. failRows = {} /\ Mine(failRows) = {}
  BY DEF SignInit, Mine
<1> QED
  BY <1>1, FS_EmptySet, SignInNumbers DEF FailsInv, RowsInOrder, WaitsDouble

\* One more failed attempt, of the account or of another.
LEMMA FailureStays ==
  ASSUME FailsInv, clockS \in Nat, tries \in Nat, NEW m \in BOOLEAN, failRows' = WithFailure(m), tries' = tries + 1,
         UNCHANGED clockS, Cardinality(RecentFails(failRows)) < IpLimit, m => ~Throttled
  PROVE  FailsInv'
<1> DEFINE z == [id |-> tries + 1, at |-> clockS, mine |-> m]
<1>1. failRows' = failRows \cup {z} /\ Cardinality(failRows) < IpLimit
  BY FailsAreRecent DEF WithFailure
<1>2. z.id = tries + 1 /\ z.at = clockS /\ z.mine = m /\ FailWindow \in Nat /\ FailWindow > 0
  BY SignInNumbers
<1> HIDE DEF z
<1>3. IsFiniteSet(failRows) /\ \A x \in failRows : x.id <= tries /\ x.at <= clockS /\ x.id \in Nat /\ x.at \in Int
  BY DEF FailsInv, RowsInOrder
<1>4. IsFiniteSet(failRows') /\ Cardinality(failRows') <= IpLimit
  <2>1. Cardinality(failRows) \in Nat /\ IpLimit \in Nat
    BY <1>3, FS_CardinalityType, SignInNumbers
  <2>2. IsFiniteSet(failRows \cup {z}) /\ Cardinality(failRows \cup {z}) <= Cardinality(failRows) + 1
    BY <1>3, <2>1, FS_AddElement
  <2>3. Cardinality(failRows \cup {z}) \in Nat
    BY <2>2, FS_CardinalityType
  <2> QED
    BY <1>1, <2>1, <2>2, <2>3
<1>5. \A x \in failRows' : x.id \in Nat /\ x.at \in Int /\ x.id <= tries' /\ clockS' - FailWindow < x.at /\ x.at <= clockS'
  BY <1>1, <1>2, <1>3 DEF FailsInv
<1>6. RowsInOrder(failRows')
  BY <1>1, <1>2, <1>3, <1>4, <1>5 DEF FailsInv, RowsInOrder
<1>7. WaitsDouble(Mine(failRows'))
  <2>1. CASE m
    <3>1. Mine(failRows') = Mine(failRows) \cup {z}
      BY <1>1, <1>2, <2>1 DEF Mine
    <3>2. \A x \in Mine(failRows) : x \in failRows /\ x.id < z.id
      BY <1>2, <1>3 DEF Mine
    <3> DEFINE n == Cardinality(Mine(failRows))
    <3>3. n > FreeFails => \A x \in Mine(failRows) : ~(clockS < x.at + 2 ^ (n - FreeFails))
      BY <2>1, FailsAreRecent DEF Throttled
    <3>4. n > FreeFails => Wait(n) \in Nat
      BY <1>1, MineInOrder, WaitsAreNaturals, SignInNumbers
    <3>5. n > FreeFails => \A x \in Mine(failRows) : ~(clockS < x.at + Wait(n))
      BY <3>3 DEF Wait
    <3>6. n > FreeFails => \A x \in Mine(failRows) : x.at + Wait(n) <= z.at
      BY <1>2, <1>3, <3>2, <3>4, <3>5
    <3>7. n < IpLimit /\ z.id \in Nat /\ z.at \in Int
      BY <1>1, <1>2, MineInOrder, SignInNumbers
    <3> HIDE DEF n
    <3> QED
      BY <3>1, <3>2, <3>6, <3>7, MineInOrder, NextWaitIsDouble DEF n, FailsInv
  <2>2. CASE ~m
    <3>1. Mine(failRows') = Mine(failRows)
      BY <1>1, <1>2, <2>2 DEF Mine
    <3> QED
      BY <3>1 DEF FailsInv
  <2> QED
    BY <2>1, <2>2
<1> QED
  BY <1>4, <1>5, <1>6, <1>7 DEF FailsInv, Mine

\* A second passes, and the window with it.
LEMMA FailsAge == ASSUME FailsInv, clockS \in Nat, SignTick PROVE FailsInv'
<1> DEFINE c == clockS' - FailWindow
<1>1. clockS' = clockS + 1 /\ failRows' = {x \in failRows : x.at > c} /\ tries' = tries
  BY DEF SignTick
<1>2. FailWindow \in Nat /\ c \in Int
  BY <1>1, SignInNumbers
<1>3. RowsInOrder(failRows') /\ Cardinality(failRows') <= Cardinality(failRows) /\ Cardinality(failRows) <= IpLimit
      /\ Cardinality(failRows') \in Nat /\ Cardinality(failRows) \in Nat /\ IpLimit \in Nat
  <2>1. failRows' \in SUBSET failRows /\ RowsInOrder(failRows)
    BY <1>1 DEF FailsInv
  <2>2. RowsInOrder(failRows') /\ Cardinality(failRows') <= Cardinality(failRows)
    BY <2>1, SubsetsInOrder
  <2> QED
    BY <2>1, <2>2, FS_CardinalityType, SignInNumbers DEF FailsInv, RowsInOrder
<1>4. Mine(failRows') = {x \in Mine(failRows) : x.at > c}
  BY <1>1 DEF Mine
<1>5. WaitsDouble(Mine(failRows'))
  <2>1. Cardinality(Mine(failRows)) <= IpLimit
    BY <1>3, MineInOrder
  <2> HIDE DEF c
  <2> QED
    BY <1>2, <1>4, <2>1, MineInOrder, WaitsStayDouble DEF FailsInv
<1>6. \A x \in failRows' : x.id <= tries' /\ c < x.at /\ x.at <= clockS'
  BY <1>1, <1>2 DEF FailsInv, RowsInOrder
<1> QED
  BY <1>3, <1>5, <1>6 DEF FailsInv, Mine

LEMMA FailsStay ==
  ASSUME FailsInv, clockS \in Nat, tries \in Nat, [SignNext]_signVars PROVE FailsInv'
<1>1. CASE UNCHANGED <<clockS, tries, failRows>>
  BY <1>1 DEF FailsInv, Mine
<1>2. CASE SignTick
  BY <1>2, FailsAge
<1>3. CASE OtherFails
  <2>1. failRows' = WithFailure(FALSE) /\ tries' = tries + 1 /\ UNCHANGED clockS /\ Cardinality(RecentFails(failRows)) < IpLimit
    BY <1>3 DEF OtherFails
  <2> QED
    BY <2>1, FailureStays
<1>4. ASSUME NEW k \in Codes, NEW right \in BOOLEAN, CheckLogin(right, k) PROVE FailsInv'
  <2>1. ~Throttled /\ tries' = tries + 1 /\ UNCHANGED clockS
        /\ (failRows' = RecentFails(failRows) \/ failRows' = WithFailure(TRUE))
    BY <1>4, Zenon DEF CheckLogin
  <2>2. Cardinality(RecentFails(failRows)) < IpLimit
    BY <2>1, FailsAreRecent, MineInOrder, SignInNumbers DEF Throttled
  <2>3. CASE failRows' = RecentFails(failRows)
    <3>1. failRows' = failRows
      BY <2>3, FailsAreRecent
    <3>2. \A x \in failRows : x.id <= tries + 1
      BY DEF FailsInv, RowsInOrder
    <3> QED
      BY <2>1, <3>1, <3>2 DEF FailsInv, Mine
  <2>4. CASE failRows' = WithFailure(TRUE)
    BY <2>1, <2>2, <2>4, FailureStays
  <2> QED
    BY <2>1, <2>3, <2>4
<1>5. ASSUME NEW k \in Codes, SetupComplete(k) PROVE FailsInv'
  BY <1>1, <1>5, Zenon DEF SetupComplete
<1>6. ASSUME NewLink \/ SetupBegin \/ Reset \/ RoleChanged \/ UNCHANGED signVars PROVE FailsInv'
  BY <1>1, <1>6, Zenon DEF NewLink, SetupBegin, Reset, RoleChanged, signVars
<1> QED
  BY <1>2, <1>3, <1>4, <1>5, <1>6 DEF SignNext

\* "First three wrong passwords cost nothing, then the delay doubles" (ACCOUNT_FREE_FAILS), and an address has
\* its limit: whatever setups, resets and sign-ins come in whatever order, codes and links work once and
\* the guesses at an account in one window stay logarithmically few (_throttle of gw/people.py).
THEOREM SignInStaysSafe == PortalSpec => []SignInHold
<1> DEFINE Inv == part = "signIn" => SignInv /\ FailsInv
<1>1. SignInv => clockS \in Nat /\ tries \in Nat
  BY SignInNumbers DEF SignInv, SignTypeOK
<1>2. PortalInit => Inv
  BY PartStarts, SignStarts, FailsStart
<1>3. Inv /\ [PortalNext]_portalVars => Inv'
  BY <1>1, PartMoves, SignInvStays, FailsStay
<1>4. Inv => SignInHold
  BY <1>1, FailsBounded DEF SignInHold, SignInSafe, SignInv, LinksAreUsedUp, LinkOnce
<1> QED
  BY <1>2, <1>3, <1>4, PTL DEF PortalSpec

-----------------------------------------------------------------------------
(* Access: people, phones, sessions and codes.                             *)

PersonRow == [role : Roles, active : BOOLEAN, web : BOOLEAN]
PhoneRow == [owner : Person, expires : 0..LastTick + Sliding, revoked : BOOLEAN, from : Nat, crossed : BOOLEAN]
SessionRow == [owner : Person, phone : Nat, last : 0..LastTick, ends : 0..LastTick + AbsTtl, kept : BOOLEAN, crossed : BOOLEAN]
CodeRow == [owner : Person, expires : 0..LastTick + EnrolTtl, used : BOOLEAN]
Tables == [people : [Person -> PersonRow \cup {NoPerson}], phones : Seq(PhoneRow), sessions : Seq(SessionRow), codes : Seq(CodeRow)]

\* The phones and codes that rows refer to are there, and a session is of the owner of its phone.
Linked(d) ==
  /\ \A f \in PhoneId(d) : d.phones[f].from \in 0..Len(d.codes)
  /\ \A i \in SessionId(d) : d.sessions[i].phone \in 0..Len(d.phones)
  /\ \A i \in SessionId(d) : d.sessions[i].phone # 0 => d.sessions[i].owner = d.phones[d.sessions[i].phone].owner

AccessTypes ==
  /\ clockA \in 0..LastTick /\ overlapped \in BOOLEAN
  /\ sent \subseteq SessionId(db) /\ brink \subseteq PhoneId(db)
  /\ ctlJob # <<>> => ctlJob \in Person \X PersonRow /\ IsPerson(db, ctlJob[1])

\* What still works is of somebody active, a web session of one who may use the web, unless the
\* sign-in crossed the patch that shut him out; what is left of an app session has no phone.
MayWeb(d, p) == Active(d, p) /\ d.people[p].web
Rightful(d) ==
  /\ \A f \in PhoneId(d) : ~d.phones[f].revoked /\ ~d.phones[f].crossed => Active(d, d.phones[f].owner)
  /\ \A i \in SessionId(d) : d.sessions[i].kept /\ d.sessions[i].phone = 0 /\ ~d.sessions[i].crossed =>
       MayWeb(d, d.sessions[i].owner)
  /\ \A i \in SessionId(d) : d.sessions[i].kept /\ d.sessions[i].phone # 0 =>
       Active(d, d.sessions[i].owner) \/ d.phones[d.sessions[i].phone].revoked

CodesOnce(d) ==
  /\ \A f \in PhoneId(d) : d.phones[f].from # 0 => d.codes[d.phones[f].from].used
  /\ \A f, g \in PhoneId(d) : d.phones[f].from # 0 /\ d.phones[f].from = d.phones[g].from => f = g
  /\ \A c, e \in CodeId(d) : c # e /\ d.codes[c].owner = d.codes[e].owner => d.codes[c].used \/ d.codes[e].used

\* What gwctl or the gateway is about to write was checked against the people who are still there.
HasAdmin(d) == \E p \in Person : Active(d, p) /\ d.people[p].role = "admin"
PatchChecked == GatewayPatches => ~LastAdmin(db, task.who, task.row)
AdminKept ==
  overlapped \/ (HasAdmin(db) /\ (ctlJob # <<>> => ~LastAdmin(db, ctlJob[1], ctlJob[2])) /\ PatchChecked)

\* A handler that has checked: what it found still holds, or gwctl shut the person out since.
Tasks == [does : {"login", "appLogin", "enrol", "session", "patch"}, who : Person, of : Nat,
          row : PersonRow \cup {NoPerson}, crossed : BOOLEAN]
TaskInv ==
  task # <<>> =>
    /\ task \in Tasks
    /\ task.does = "login" /\ ~task.crossed => MayWeb(db, task.who)
    /\ task.does \in {"appLogin", "enrol"} /\ ~task.crossed => Active(db, task.who)
    /\ task.does = "enrol" => task.of \in CodeId(db)
    /\ task.does = "session" => /\ task.of \in PhoneId(db) /\ db.phones[task.of].owner = task.who
                                /\ Active(db, task.who) \/ db.phones[task.of].revoked
    /\ task.does = "patch" => task.row \in PersonRow /\ IsPerson(db, task.who)


-----------------------------------------------------------------------------
(* The changes one by one: what makes less of the tables, and what adds.   *)

Limited(d, B) ==
  /\ \A p \in Person : Cardinality(Counted(d, {p}) \ B) <= MaxPerPerson
  /\ Cardinality(Counted(d, Person) \ B) <= MaxTotal

SoundTables(d, B) == d \in Tables /\ Linked(d) /\ Rightful(d) /\ CodesOnce(d) /\ Limited(d, B)

\* The same people, no row more, and nothing works that did not; but a phone of B may slide.
Fewer(d, e, B) ==
  /\ e \in Tables /\ e.people = d.people
  /\ PhoneId(e) = PhoneId(d) /\ SessionId(e) = SessionId(d) /\ CodeId(e) = CodeId(d)
  /\ \A f \in PhoneId(d) :
       /\ e.phones[f].owner = d.phones[f].owner /\ e.phones[f].from = d.phones[f].from
       /\ e.phones[f].crossed = d.phones[f].crossed
       /\ d.phones[f].revoked => e.phones[f].revoked
       /\ e.phones[f].expires > clockA /\ f \notin B => d.phones[f].expires > clockA
  /\ \A i \in SessionId(d) :
       /\ e.sessions[i].owner = d.sessions[i].owner /\ e.sessions[i].phone = d.sessions[i].phone
       /\ e.sessions[i].crossed = d.sessions[i].crossed
       /\ e.sessions[i].kept => d.sessions[i].kept
  /\ \A c \in CodeId(d) :
       e.codes[c].owner = d.codes[c].owner /\ (d.codes[c].used => e.codes[c].used)

\* No phone, no session and no code is forgotten, or changes hands; what is revoked stays so.
Grown(d, e) ==
  /\ PhoneId(d) \subseteq PhoneId(e) /\ SessionId(d) \subseteq SessionId(e) /\ CodeId(d) \subseteq CodeId(e)
  /\ \A f \in PhoneId(d) : e.phones[f].owner = d.phones[f].owner /\ (d.phones[f].revoked => e.phones[f].revoked)

AccessInv == AccessTypes /\ SoundTables(db, brink) /\ AdminKept /\ TaskInv

LEMMA AccessNats ==
  /\ MaxPerPerson \in Nat /\ MaxTotal \in Nat /\ Sliding \in Nat /\ Idle \in Nat /\ AbsTtl \in Nat /\ EnrolTtl \in Nat
  /\ LastTick \in Nat /\ MaxSent \in Nat /\ MaxDeeds \in Nat
  /\ FirstAdmin \in Person /\ NoPerson \notin PersonRow
  BY Zenon, AccessNumbers DEF PersonRow

\* A sequence is a function on 1..n, and the other way round.
LEMMA TableIs ==
  ASSUME NEW S, NEW s \in Seq(S)
  PROVE  Len(s) \in Nat /\ DOMAIN s = 1..Len(s) /\ s \in [1..Len(s) -> S]
  OBVIOUS

LEMMA IsTable ==
  ASSUME NEW S, NEW n \in Nat, NEW s \in [1..n -> S]
  PROVE  s \in Seq(S) /\ Len(s) = n /\ DOMAIN s = 1..n
  OBVIOUS

LEMMA OneRowMore ==
  ASSUME NEW S, NEW s \in Seq(S), NEW x \in S
  PROVE  LET t == Append(s, x) IN
         /\ t \in Seq(S) /\ Len(s) \in Nat /\ Len(t) = Len(s) + 1 /\ DOMAIN s = 1..Len(s) /\ DOMAIN t = 1..(Len(s) + 1)
         /\ t[Len(s) + 1] = x /\ \A i \in DOMAIN s : t[i] = s[i]
  OBVIOUS

LEMMA OneRowChanged ==
  ASSUME NEW S, NEW s \in Seq(S), NEW i \in DOMAIN s, NEW x \in S
  PROVE  LET t == [s EXCEPT ![i] = x] IN
         /\ t \in Seq(S) /\ DOMAIN t = DOMAIN s /\ Len(t) = Len(s) /\ t[i] = x
         /\ \A j \in DOMAIN s \ {i} : t[j] = s[j]
<1> DEFINE t == [s EXCEPT ![i] = x]
<1>1. Len(s) \in Nat /\ DOMAIN s = 1..Len(s) /\ s \in [1..Len(s) -> S]
  BY TableIs
<1>2. t \in [1..Len(s) -> S] /\ t[i] = x /\ \A j \in DOMAIN s \ {i} : t[j] = s[j]
  BY <1>1
<1> HIDE DEF t
<1> QED
  BY <1>1, <1>2, IsTable DEF t

LEMMA RowsChanged ==
  ASSUME NEW S, NEW s \in Seq(S), NEW t, t = [i \in DOMAIN s |-> t[i]], \A i \in DOMAIN s : t[i] \in S
  PROVE  t \in Seq(S) /\ DOMAIN t = DOMAIN s /\ Len(t) = Len(s)
<1>1. Len(s) \in Nat /\ DOMAIN s = 1..Len(s)
  BY TableIs
<1>2. t \in [1..Len(s) -> S]
  BY <1>1
<1> QED
  BY <1>1, <1>2, IsTable

LEMMA TablesAre ==
  ASSUME NEW d \in Tables
  PROVE  /\ d.people \in [Person -> PersonRow \cup {NoPerson}] /\ d.phones \in Seq(PhoneRow)
         /\ d.sessions \in Seq(SessionRow) /\ d.codes \in Seq(CodeRow)
         /\ Len(d.phones) \in Nat /\ Len(d.sessions) \in Nat /\ Len(d.codes) \in Nat
         /\ PhoneId(d) = 1..Len(d.phones) /\ SessionId(d) = 1..Len(d.sessions) /\ CodeId(d) = 1..Len(d.codes)
         /\ \A f \in PhoneId(d) : d.phones[f] \in PhoneRow
         /\ \A i \in SessionId(d) : d.sessions[i] \in SessionRow
         /\ \A c \in CodeId(d) : d.codes[c] \in CodeRow
<1>1. /\ d.people \in [Person -> PersonRow \cup {NoPerson}] /\ d.phones \in Seq(PhoneRow)
      /\ d.sessions \in Seq(SessionRow) /\ d.codes \in Seq(CodeRow)
  BY DEF Tables
<1> QED
  BY <1>1, TableIs DEF PhoneId, SessionId, CodeId

LEMMA TableSet ==
  ASSUME NEW d \in Tables
  PROVE  /\ \A x \in [Person -> PersonRow \cup {NoPerson}] : LET e == [d EXCEPT !.people = x] IN
              e \in Tables /\ e.people = x /\ e.phones = d.phones /\ e.sessions = d.sessions /\ e.codes = d.codes
         /\ \A x \in Seq(PhoneRow) : LET e == [d EXCEPT !.phones = x] IN
              e \in Tables /\ e.people = d.people /\ e.phones = x /\ e.sessions = d.sessions /\ e.codes = d.codes
         /\ \A x \in Seq(SessionRow) : LET e == [d EXCEPT !.sessions = x] IN
              e \in Tables /\ e.people = d.people /\ e.phones = d.phones /\ e.sessions = x /\ e.codes = d.codes
         /\ \A x \in Seq(CodeRow) : LET e == [d EXCEPT !.codes = x] IN
              e \in Tables /\ e.people = d.people /\ e.phones = d.phones /\ e.sessions = d.sessions /\ e.codes = x
<1>1. ASSUME NEW x \in [Person -> PersonRow \cup {NoPerson}]
      PROVE  LET e == [d EXCEPT !.people = x] IN
             e \in Tables /\ e.people = x /\ e.phones = d.phones /\ e.sessions = d.sessions /\ e.codes = d.codes
  BY DEF Tables
<1>2. ASSUME NEW x \in Seq(PhoneRow)
      PROVE  LET e == [d EXCEPT !.phones = x] IN
             e \in Tables /\ e.people = d.people /\ e.phones = x /\ e.sessions = d.sessions /\ e.codes = d.codes
  BY DEF Tables
<1>3. ASSUME NEW x \in Seq(SessionRow)
      PROVE  LET e == [d EXCEPT !.sessions = x] IN
             e \in Tables /\ e.people = d.people /\ e.phones = d.phones /\ e.sessions = x /\ e.codes = d.codes
  BY DEF Tables
<1>4. ASSUME NEW x \in Seq(CodeRow)
      PROVE  LET e == [d EXCEPT !.codes = x] IN
             e \in Tables /\ e.people = d.people /\ e.phones = d.phones /\ e.sessions = d.sessions /\ e.codes = x
  BY DEF Tables
<1> QED
  BY <1>1, <1>2, <1>3, <1>4

LEMMA CountedFinite ==
  ASSUME NEW d \in Tables, NEW P, NEW B
  PROVE  IsFiniteSet(Counted(d, P)) /\ IsFiniteSet(Counted(d, P) \ B) /\ Counted(d, P) \subseteq PhoneId(d)
         /\ Cardinality(Counted(d, P)) \in Nat /\ Cardinality(Counted(d, P) \ B) \in Nat
         /\ Cardinality(Counted(d, P) \ B) <= Cardinality(Counted(d, P))
<1>1. IsFiniteSet(PhoneId(d))
  BY TablesAre, FS_Interval
<1>2. Counted(d, P) \in SUBSET PhoneId(d)
  BY Zenon DEF Counted
<1>3. IsFiniteSet(Counted(d, P))
  BY <1>1, <1>2, FS_Subset
<1>4. Counted(d, P) \ B \in SUBSET Counted(d, P)
  OBVIOUS
<1> QED
  BY <1>2, <1>3, <1>4, FS_Subset, FS_CardinalityType

\* Fewer phones are counted, or one more.
LEMMA NoMoreCounted ==
  ASSUME NEW S, NEW T, NEW n \in Nat, IsFiniteSet(S), Cardinality(S) <= n, T \subseteq S
  PROVE  Cardinality(T) <= n
  BY FS_Subset, FS_CardinalityType

LEMMA OneMoreCounted ==
  ASSUME NEW S, NEW T, NEW x, NEW n \in Nat, IsFiniteSet(S), Cardinality(S) < n, T \subseteq S \cup {x}
  PROVE  Cardinality(T) <= n
<1>1. IsFiniteSet(S \cup {x}) /\ Cardinality(S \cup {x}) <= Cardinality(S) + 1
  <2>1. Cardinality(S) \in Nat
    BY FS_CardinalityType
  <2>2. IsFiniteSet(S \cup {x}) /\ Cardinality(S \cup {x}) = IF x \in S THEN Cardinality(S) ELSE Cardinality(S) + 1
    BY FS_AddElement, Zenon
  <2> QED
    BY <2>1, <2>2
<1>2. T \in SUBSET (S \cup {x})
  OBVIOUS
<1> QED
  BY <1>1, <1>2, FS_Subset, FS_CardinalityType

LEMMA FewerIsTransitive ==
  ASSUME NEW c, NEW d, NEW e, NEW B, Fewer(c, d, B), Fewer(d, e, B)
  PROVE  Fewer(c, e, B)
  BY DEF Fewer

LEMMA FewerLimited ==
  ASSUME NEW d \in Tables, NEW e, NEW B, NEW C, Limited(d, B), Fewer(d, e, C), B \subseteq C
  PROVE  Limited(e, C)
<1>1. ASSUME NEW P PROVE Counted(e, P) \ C \subseteq Counted(d, P) \ B
  BY DEF Fewer, Counted
<1> QED
  BY <1>1, CountedFinite, NoMoreCounted, AccessNats DEF Limited

LEMMA FewerLinked ==
  ASSUME NEW d \in Tables, NEW e, NEW B, Linked(d), Fewer(d, e, B)
  PROVE  Linked(e)
<1>1. Len(e.phones) = Len(d.phones) /\ Len(e.codes) = Len(d.codes)
  <2>1. PhoneId(e) = PhoneId(d) /\ CodeId(e) = CodeId(d) /\ e \in Tables
    BY DEF Fewer
  <2> QED
    BY <2>1, TablesAre
<1>2. \A i \in SessionId(d) : d.sessions[i].phone # 0 => d.sessions[i].phone \in PhoneId(d)
  BY TablesAre DEF Linked
<1> QED
  BY <1>1, <1>2 DEF Linked, Fewer

LEMMA FewerOnce ==
  ASSUME NEW d \in Tables, NEW e, NEW B, Linked(d), CodesOnce(d), Fewer(d, e, B)
  PROVE  CodesOnce(e)
<1>1. \A f \in PhoneId(d) : d.phones[f].from # 0 => d.phones[f].from \in CodeId(d)
  BY TablesAre DEF Linked
<1>2. \A f \in PhoneId(e) : e.phones[f].from # 0 => e.codes[e.phones[f].from].used
  BY <1>1, Zenon DEF CodesOnce, Fewer
<1>3. \A f, g \in PhoneId(e) : e.phones[f].from # 0 /\ e.phones[f].from = e.phones[g].from => f = g
  BY Zenon DEF CodesOnce, Fewer
<1>4. \A c, g \in CodeId(e) : c # g /\ e.codes[c].owner = e.codes[g].owner => e.codes[c].used \/ e.codes[g].used
  BY Zenon DEF CodesOnce, Fewer
<1> QED
  BY <1>2, <1>3, <1>4, Zenon DEF CodesOnce

LEMMA FewerIsSound ==
  ASSUME NEW d, NEW e, NEW B, NEW C, SoundTables(d, B), Fewer(d, e, C), B \subseteq C
  PROVE  SoundTables(e, C)
<1>1. d \in Tables /\ e \in Tables /\ Linked(d) /\ Rightful(d) /\ CodesOnce(d) /\ Limited(d, B)
  BY DEF SoundTables, Fewer
<1>2. Rightful(e)
  <2>1. \A i \in SessionId(d) : d.sessions[i].phone # 0 => d.sessions[i].phone \in PhoneId(d)
    BY <1>1, TablesAre DEF Linked
  <2>2. \A p : (Active(d, p) => Active(e, p)) /\ (MayWeb(d, p) => MayWeb(e, p))
    BY Zenon DEF Fewer, MayWeb, Active, IsPerson
  <2>3. \A f \in PhoneId(e) : ~e.phones[f].revoked /\ ~e.phones[f].crossed => Active(e, e.phones[f].owner)
    BY <1>1, <2>2, Zenon DEF Rightful, Fewer
  <2>4. \A i \in SessionId(e) : e.sessions[i].kept /\ e.sessions[i].phone = 0 /\ ~e.sessions[i].crossed =>
          MayWeb(e, e.sessions[i].owner)
    BY <1>1, <2>2, Zenon DEF Rightful, Fewer
  <2>5. \A i \in SessionId(e) : e.sessions[i].kept /\ e.sessions[i].phone # 0 =>
          Active(e, e.sessions[i].owner) \/ e.phones[e.sessions[i].phone].revoked
    BY <1>1, <2>1, <2>2, Zenon DEF Rightful, Fewer
  <2> QED
    BY <2>3, <2>4, <2>5, Zenon DEF Rightful
<1> QED
  BY <1>1, <1>2, FewerLinked, FewerOnce, FewerLimited DEF SoundTables

LEMMA SessionsFewer ==
  ASSUME NEW d \in Tables, NEW B, NEW x \in Seq(SessionRow), DOMAIN x = SessionId(d),
         \A i \in SessionId(d) : /\ x[i].owner = d.sessions[i].owner /\ x[i].phone = d.sessions[i].phone
                                 /\ x[i].crossed = d.sessions[i].crossed
                                 /\ x[i].kept => d.sessions[i].kept
  PROVE  Fewer(d, [d EXCEPT !.sessions = x], B)
<1> DEFINE e == [d EXCEPT !.sessions = x]
<1>1. e \in Tables /\ e.people = d.people /\ e.phones = d.phones /\ e.sessions = x /\ e.codes = d.codes
  BY TableSet
<1> HIDE DEF e
<1>2. Fewer(d, e, B)
  BY <1>1 DEF Fewer, PhoneId, SessionId, CodeId
<1> QED
  BY <1>2 DEF e

LEMMA PhonesFewer ==
  ASSUME NEW d \in Tables, NEW B, NEW x \in Seq(PhoneRow), DOMAIN x = PhoneId(d),
         \A f \in PhoneId(d) :
           /\ x[f].owner = d.phones[f].owner /\ x[f].from = d.phones[f].from
           /\ x[f].crossed = d.phones[f].crossed
           /\ d.phones[f].revoked => x[f].revoked
           /\ x[f].expires > clockA /\ f \notin B => d.phones[f].expires > clockA
  PROVE  Fewer(d, [d EXCEPT !.phones = x], B)
<1> DEFINE e == [d EXCEPT !.phones = x]
<1>1. e \in Tables /\ e.people = d.people /\ e.phones = x /\ e.sessions = d.sessions /\ e.codes = d.codes
  BY TableSet
<1> HIDE DEF e
<1>2. Fewer(d, e, B)
  BY <1>1 DEF Fewer, PhoneId, SessionId, CodeId
<1> QED
  BY <1>2 DEF e

LEMMA CodesFewer ==
  ASSUME NEW d \in Tables, NEW B, NEW x \in Seq(CodeRow), DOMAIN x = CodeId(d),
         \A c \in CodeId(d) : x[c].owner = d.codes[c].owner /\ (d.codes[c].used => x[c].used)
  PROVE  Fewer(d, [d EXCEPT !.codes = x], B)
<1> DEFINE e == [d EXCEPT !.codes = x]
<1>1. e \in Tables /\ e.people = d.people /\ e.phones = d.phones /\ e.sessions = d.sessions /\ e.codes = x
  BY TableSet
<1> HIDE DEF e
<1>2. Fewer(d, e, B)
  BY <1>1 DEF Fewer, PhoneId, SessionId, CodeId
<1> QED
  BY <1>2 DEF e

LEMMA DropFewer ==
  ASSUME NEW d \in Tables, NEW S, NEW B
  PROVE  /\ Fewer(d, Drop(d, S), B) /\ Drop(d, S).phones = d.phones
         /\ \A i \in SessionId(d) : Drop(d, S).sessions[i].kept => i \notin S
<1> DEFINE x == [i \in DOMAIN d.sessions |-> IF i \in S THEN [d.sessions[i] EXCEPT !.kept = FALSE] ELSE d.sessions[i]]
<1>1. Drop(d, S) = [d EXCEPT !.sessions = x] /\ d.sessions \in Seq(SessionRow)
  BY TablesAre DEF Drop, SessionId
<1>2. \A i \in SessionId(d) : d.sessions[i] \in SessionRow
  BY TablesAre
<1>3. ASSUME NEW i \in SessionId(d)
      PROVE  /\ x[i] \in SessionRow /\ x[i].owner = d.sessions[i].owner /\ x[i].phone = d.sessions[i].phone
             /\ (x[i].kept => d.sessions[i].kept /\ i \notin S) /\ x[i].crossed = d.sessions[i].crossed
  <2>1. CASE i \in S
    <3>1. x[i] = [d.sessions[i] EXCEPT !.kept = FALSE]
      BY <2>1 DEF SessionId
    <3> HIDE DEF x
    <3> QED
      BY <1>2, <3>1 DEF SessionRow
  <2>2. CASE i \notin S
    BY <1>2, <2>2 DEF SessionId
  <2> QED
    BY <2>1, <2>2
<1>4. x \in Seq(SessionRow) /\ DOMAIN x = SessionId(d)
  <2>1. x = [i \in DOMAIN d.sessions |-> x[i]]
    OBVIOUS
  <2> HIDE DEF x
  <2> QED
    BY <1>1, <1>3, <2>1, RowsChanged DEF SessionId
<1> HIDE DEF x
<1>5. [d EXCEPT !.sessions = x].sessions = x /\ [d EXCEPT !.sessions = x].phones = d.phones
  BY <1>4, TableSet
<1> QED
  BY <1>1, <1>3, <1>4, <1>5, SessionsFewer

LEMMA EndFewer ==
  ASSUME NEW d \in Tables, NEW i \in SessionId(d), NEW B
  PROVE  Fewer(d, [d EXCEPT !.sessions[i].kept = FALSE], B)
<1>1. d.sessions \in Seq(SessionRow) /\ d.sessions[i] \in SessionRow
  BY TablesAre
<1> DEFINE r == [d.sessions[i] EXCEPT !.kept = FALSE]
           x == [d.sessions EXCEPT ![i] = r]
<1>2. r \in SessionRow /\ r.owner = d.sessions[i].owner /\ r.phone = d.sessions[i].phone /\ r.kept = FALSE
      /\ r.crossed = d.sessions[i].crossed
  BY <1>1 DEF SessionRow
<1>3. [d EXCEPT !.sessions[i].kept = FALSE] = [d EXCEPT !.sessions = x]
  OBVIOUS
<1> HIDE DEF r
<1>4. x \in Seq(SessionRow) /\ DOMAIN x = SessionId(d) /\ x[i] = r /\ \A j \in SessionId(d) \ {i} : x[j] = d.sessions[j]
  BY <1>1, <1>2, OneRowChanged DEF SessionId
<1> HIDE DEF x
<1>5. \A j \in SessionId(d) : /\ x[j].owner = d.sessions[j].owner /\ x[j].phone = d.sessions[j].phone
                              /\ x[j].kept => d.sessions[j].kept
                              /\ x[j].crossed = d.sessions[j].crossed
  BY <1>2, <1>4
<1> QED
  BY <1>3, <1>4, <1>5, SessionsFewer

LEMMA UseSessionFewer ==
  ASSUME NEW d \in Tables, NEW i \in SessionId(d), NEW B, clockA \in 0..LastTick
  PROVE  Fewer(d, UseSession(d, i), B) /\ UseSession(d, i).phones = d.phones
<1>1. d.sessions \in Seq(SessionRow) /\ d.sessions[i] \in SessionRow
  BY TablesAre
<1> DEFINE r == [d.sessions[i] EXCEPT !.last = clockA]
           x == [d.sessions EXCEPT ![i] = r]
<1>2. r \in SessionRow /\ r.owner = d.sessions[i].owner /\ r.phone = d.sessions[i].phone /\ r.kept = d.sessions[i].kept
      /\ r.crossed = d.sessions[i].crossed
  BY <1>1 DEF SessionRow
<1>3. UseSession(d, i) = [d EXCEPT !.sessions = x]
  BY DEF UseSession
<1> HIDE DEF r
<1>4. x \in Seq(SessionRow) /\ DOMAIN x = SessionId(d) /\ x[i] = r /\ \A j \in SessionId(d) \ {i} : x[j] = d.sessions[j]
  BY <1>1, <1>2, OneRowChanged DEF SessionId
<1> HIDE DEF x
<1>5. \A j \in SessionId(d) : /\ x[j].owner = d.sessions[j].owner /\ x[j].phone = d.sessions[j].phone
                              /\ x[j].kept => d.sessions[j].kept
                              /\ x[j].crossed = d.sessions[j].crossed
  BY <1>2, <1>4
<1> QED
  BY <1>3, <1>4, <1>5, SessionsFewer, TableSet

LEMMA UsePhoneFewer ==
  ASSUME NEW d \in Tables, NEW f \in PhoneId(d), NEW B, clockA \in 0..LastTick,
         f \in B \/ d.phones[f].expires > clockA
  PROVE  /\ Fewer(d, UsePhone(d, f), B) /\ UsePhone(d, f).phones[f].expires = clockA + Sliding
         /\ UsePhone(d, f).sessions = d.sessions
<1>1. d.phones \in Seq(PhoneRow) /\ d.phones[f] \in PhoneRow
  BY TablesAre
<1> DEFINE r == [d.phones[f] EXCEPT !.expires = clockA + Sliding]
           x == [d.phones EXCEPT ![f] = r]
<1>2. r \in PhoneRow /\ r.owner = d.phones[f].owner /\ r.from = d.phones[f].from /\ r.revoked = d.phones[f].revoked
      /\ r.crossed = d.phones[f].crossed
      /\ r.expires = clockA + Sliding
  <2>1. clockA + Sliding \in 0..(LastTick + Sliding)
    BY AccessNats
  <2> QED
    BY <1>1, <2>1 DEF PhoneRow
<1>3. UsePhone(d, f) = [d EXCEPT !.phones = x]
  BY DEF UsePhone
<1> HIDE DEF r
<1>4. x \in Seq(PhoneRow) /\ DOMAIN x = PhoneId(d) /\ x[f] = r /\ \A g \in PhoneId(d) \ {f} : x[g] = d.phones[g]
  BY <1>1, <1>2, OneRowChanged DEF PhoneId
<1> HIDE DEF x
<1>5. \A g \in PhoneId(d) :
        /\ x[g].owner = d.phones[g].owner /\ x[g].from = d.phones[g].from /\ x[g].crossed = d.phones[g].crossed
        /\ d.phones[g].revoked => x[g].revoked
        /\ x[g].expires > clockA /\ g \notin B => d.phones[g].expires > clockA
  BY <1>2, <1>4
<1> QED
  BY <1>2, <1>3, <1>4, <1>5, PhonesFewer, TableSet

LEMMA PhoneRevokedFewer ==
  ASSUME NEW d \in Tables, NEW f \in PhoneId(d), NEW B
  PROVE  Fewer(d, PhoneRevoked(d, f), B)
<1>1. d.phones \in Seq(PhoneRow) /\ d.phones[f] \in PhoneRow
  BY TablesAre
<1> DEFINE r == [d.phones[f] EXCEPT !.revoked = TRUE]
           x == [d.phones EXCEPT ![f] = r]
           e == [d EXCEPT !.phones = x]
<1>2. r \in PhoneRow /\ r.owner = d.phones[f].owner /\ r.from = d.phones[f].from /\ r.revoked /\ r.expires = d.phones[f].expires
      /\ r.crossed = d.phones[f].crossed
  BY <1>1 DEF PhoneRow
<1>3. [d EXCEPT !.phones[f].revoked = TRUE] = e
  OBVIOUS
<1> HIDE DEF r
<1>4. x \in Seq(PhoneRow) /\ DOMAIN x = PhoneId(d) /\ x[f] = r /\ \A g \in PhoneId(d) \ {f} : x[g] = d.phones[g]
  BY <1>1, <1>2, OneRowChanged DEF PhoneId
<1> HIDE DEF x
<1>5. \A g \in PhoneId(d) :
        /\ x[g].owner = d.phones[g].owner /\ x[g].from = d.phones[g].from /\ x[g].crossed = d.phones[g].crossed
        /\ d.phones[g].revoked => x[g].revoked
        /\ x[g].expires > clockA /\ g \notin B => d.phones[g].expires > clockA
  BY <1>2, <1>4
<1>6. Fewer(d, e, B) /\ e \in Tables
  BY <1>4, <1>5, PhonesFewer DEF Fewer
<1>7. Fewer(e, Drop(e, SessionsBy(d, f)), B)
  BY <1>6, DropFewer
<1>8. PhoneRevoked(d, f) = Drop(e, SessionsBy(d, f))
  BY <1>3 DEF PhoneRevoked
<1> HIDE DEF e
<1> QED
  BY <1>6, <1>7, <1>8, FewerIsTransitive

LEMMA SessionAddedIsSound ==
  ASSUME NEW d, NEW B, NEW s \in SessionRow, SoundTables(d, B), s.phone \in 0..Len(d.phones),
         s.phone = 0 /\ ~s.crossed => MayWeb(d, s.owner),
         s.phone # 0 => /\ s.owner = d.phones[s.phone].owner
                        /\ Active(d, s.owner) \/ d.phones[s.phone].revoked
  PROVE  LET e == [d EXCEPT !.sessions = Append(@, s)] IN SoundTables(e, B) /\ Grown(d, e) /\ e.people = d.people
<1> DEFINE x == Append(d.sessions, s)
           e == [d EXCEPT !.sessions = x]
           n == Len(d.sessions) + 1
<1>1. d \in Tables /\ Linked(d) /\ Rightful(d) /\ CodesOnce(d) /\ Limited(d, B) /\ d.sessions \in Seq(SessionRow)
  BY TablesAre DEF SoundTables
<1>2. x \in Seq(SessionRow) /\ SessionId(d) = 1..Len(d.sessions) /\ DOMAIN x = 1..n /\ x[n] = s /\ Len(d.sessions) \in Nat
      /\ \A i \in SessionId(d) : x[i] = d.sessions[i]
  BY <1>1, OneRowMore DEF SessionId
<1> HIDE DEF x
<1>3. e \in Tables /\ e.people = d.people /\ e.phones = d.phones /\ e.sessions = x /\ e.codes = d.codes
  BY <1>1, <1>2, TableSet
<1> HIDE DEF e
<1>4. SessionId(e) = SessionId(d) \cup {n}
  BY <1>2, <1>3 DEF SessionId
<1> HIDE DEF n
<1>5. Linked(e)
  BY <1>1, <1>2, <1>3, <1>4 DEF Linked, PhoneId
<1>6. Rightful(e)
  <2>1. \A p : (Active(d, p) => Active(e, p)) /\ (MayWeb(d, p) => MayWeb(e, p))
    BY <1>3, Zenon DEF MayWeb, Active, IsPerson
  <2> QED
    BY <1>1, <1>2, <1>3, <1>4, <2>1 DEF Rightful, PhoneId
<1>7. CodesOnce(e)
  BY <1>1, <1>3, Zenon DEF CodesOnce, PhoneId, CodeId
<1>8. Limited(e, B)
  BY <1>1, <1>3, Zenon DEF Limited, Counted, PhoneId
<1>9. SoundTables(e, B) /\ Grown(d, e) /\ e.people = d.people
  BY <1>3, <1>4, <1>5, <1>6, <1>7, <1>8 DEF SoundTables, Grown, PhoneId, SessionId, CodeId
<1> QED
  BY <1>9 DEF e, x

LEMMA PhoneAddedIsSound ==
  ASSUME NEW d, NEW B, NEW r \in PhoneRow, SoundTables(d, B), ~r.crossed => Active(d, r.owner), RoomFor(d, r.owner),
         \/ r.from = 0
         \/ r.from \in CodeId(d) /\ d.codes[r.from].used /\ \A f \in PhoneId(d) : d.phones[f].from # r.from
  PROVE  LET e == [d EXCEPT !.phones = Append(@, r)] IN SoundTables(e, B) /\ Grown(d, e) /\ e.people = d.people
<1> DEFINE x == Append(d.phones, r)
           e == [d EXCEPT !.phones = x]
           n == Len(d.phones) + 1
<1>1. d \in Tables /\ Linked(d) /\ Rightful(d) /\ CodesOnce(d) /\ Limited(d, B) /\ d.phones \in Seq(PhoneRow)
  BY TablesAre DEF SoundTables
<1>2. x \in Seq(PhoneRow) /\ PhoneId(d) = 1..Len(d.phones) /\ Len(x) = n /\ DOMAIN x = 1..n /\ x[n] = r
      /\ Len(d.phones) \in Nat /\ \A i \in PhoneId(d) : x[i] = d.phones[i]
  BY <1>1, OneRowMore DEF PhoneId
<1> HIDE DEF x
<1>3. e \in Tables /\ e.people = d.people /\ e.phones = x /\ e.sessions = d.sessions /\ e.codes = d.codes
  BY <1>1, <1>2, TableSet
<1> HIDE DEF e
<1>4. PhoneId(e) = PhoneId(d) \cup {n} /\ n \notin PhoneId(d)
  BY <1>2, <1>3 DEF PhoneId
<1>5. Linked(e)
  <2>1. CodeId(d) = 1..Len(d.codes) /\ Len(d.codes) \in Nat
    BY <1>1, TablesAre
  <2>2. r.from \in 0..Len(d.codes)
    BY <2>1
  <2>3. \A i \in SessionId(e) : e.sessions[i].phone \in 0..Len(e.phones)
    BY <1>1, <1>2, <1>3 DEF Linked, SessionId
  <2>4. \A f \in PhoneId(e) : e.phones[f].from \in 0..Len(e.codes)
    <3> HIDE DEF n
    <3> QED
      BY <1>1, <1>2, <1>3, <1>4, <2>2 DEF Linked
  <2>5. \A i \in SessionId(e) : e.sessions[i].phone # 0 => e.sessions[i].owner = e.phones[e.sessions[i].phone].owner
    BY <1>1, <1>2, <1>3 DEF Linked, SessionId
  <2> QED
    BY <2>3, <2>4, <2>5 DEF Linked
<1> HIDE DEF n
<1>6. Rightful(e)
  <2>1. \A p : (Active(d, p) => Active(e, p)) /\ (MayWeb(d, p) => MayWeb(e, p))
    BY <1>3, Zenon DEF MayWeb, Active, IsPerson
  <2>2. \A i \in SessionId(d) : d.sessions[i].phone # 0 => d.sessions[i].phone \in PhoneId(d)
    BY <1>1, TablesAre DEF Linked
  <2> QED
    BY <1>1, <1>2, <1>3, <1>4, <2>1, <2>2 DEF Rightful, SessionId
<1>7. CodesOnce(e)
  <2>1. \A f \in PhoneId(e) : e.phones[f].from # 0 => e.codes[e.phones[f].from].used
    BY <1>1, <1>2, <1>3, <1>4 DEF CodesOnce
  <2>2. \A f, g \in PhoneId(e) : e.phones[f].from # 0 /\ e.phones[f].from = e.phones[g].from => f = g
    BY <1>1, <1>2, <1>3, <1>4 DEF CodesOnce
  <2>3. \A c, g \in CodeId(e) : c # g /\ e.codes[c].owner = e.codes[g].owner => e.codes[c].used \/ e.codes[g].used
    BY <1>1, <1>3, Zenon DEF CodesOnce, CodeId
  <2> QED
    BY <2>1, <2>2, <2>3, Zenon DEF CodesOnce
<1>8. Limited(e, B)
  <2>1. ASSUME NEW P
        PROVE  /\ Counted(e, P) \ B \subseteq (Counted(d, P) \ B) \cup {n}
               /\ (r.owner \notin P => Counted(e, P) \ B \subseteq Counted(d, P) \ B)
    BY <1>2, <1>3, <1>4 DEF Counted
  <2>2. Cardinality(Counted(d, {r.owner})) < MaxPerPerson /\ Cardinality(Counted(d, Person)) < MaxTotal
    BY DEF RoomFor
  <2>3. ASSUME NEW p \in Person PROVE Cardinality(Counted(e, {p}) \ B) <= MaxPerPerson
    <3>1. CASE p = r.owner
      <4> DEFINE S == Counted(d, {p}) \ B
                 T == Counted(e, {p}) \ B
      <4>1. IsFiniteSet(S) /\ Cardinality(S) \in Nat /\ Cardinality(S) <= Cardinality(Counted(d, {p}))
            /\ Cardinality(Counted(d, {p})) \in Nat
        BY <1>1, CountedFinite
      <4>2. Cardinality(Counted(d, {p})) < MaxPerPerson
        BY <2>2, <3>1
      <4>3. T \subseteq S \cup {n}
        BY <2>1
      <4> HIDE DEF S, T
      <4>4. Cardinality(S) < MaxPerPerson
        BY <4>1, <4>2, AccessNats
      <4>5. Cardinality(T) <= MaxPerPerson
        BY <4>1, <4>3, <4>4, OneMoreCounted, AccessNats
      <4> QED
        BY <4>5 DEF T
    <3>2. CASE p # r.owner
      <4>1. Cardinality(Counted(d, {p}) \ B) <= MaxPerPerson /\ Counted(e, {p}) \ B \subseteq Counted(d, {p}) \ B
        BY <1>1, <2>1, <3>2 DEF Limited
      <4> QED
        BY <1>1, <4>1, CountedFinite, NoMoreCounted, AccessNats
    <3> QED
      BY <3>1, <3>2
  <2>4. Cardinality(Counted(e, Person) \ B) <= MaxTotal
    <3> DEFINE S == Counted(d, Person) \ B
               T == Counted(e, Person) \ B
    <3>1. IsFiniteSet(S) /\ Cardinality(S) \in Nat /\ Cardinality(S) <= Cardinality(Counted(d, Person))
          /\ Cardinality(Counted(d, Person)) \in Nat
      BY <1>1, CountedFinite
    <3>2. T \subseteq S \cup {n}
      BY <2>1
    <3> HIDE DEF S, T
    <3>3. Cardinality(S) < MaxTotal
      BY <2>2, <3>1, AccessNats
    <3>4. Cardinality(T) <= MaxTotal
      BY <3>1, <3>2, <3>3, OneMoreCounted, AccessNats
    <3> QED
      BY <3>4 DEF T
  <2> QED
    BY <2>3, <2>4 DEF Limited
<1>9. Grown(d, e)
  BY <1>2, <1>3, <1>4 DEF Grown, SessionId, CodeId
<1>10. SoundTables(e, B) /\ Grown(d, e) /\ e.people = d.people
  BY <1>3, <1>5, <1>6, <1>7, <1>8, <1>9 DEF SoundTables
<1> QED
  BY <1>10 DEF e, x

LEMMA CodeMadeIsSound ==
  ASSUME NEW d, NEW B, NEW p \in Person, SoundTables(d, B), clockA \in 0..LastTick
  PROVE  SoundTables(CodeMade(d, p), B) /\ Grown(d, CodeMade(d, p)) /\ CodeMade(d, p).people = d.people
<1> DEFINE y == [c \in DOMAIN d.codes |-> IF d.codes[c].owner = p THEN [d.codes[c] EXCEPT !.used = TRUE] ELSE d.codes[c]]
           new == [owner |-> p, expires |-> clockA + EnrolTtl, used |-> FALSE]
           x == Append(y, new)
           e == [d EXCEPT !.codes = x]
           n == Len(d.codes) + 1
<1>1. d \in Tables /\ Linked(d) /\ Rightful(d) /\ CodesOnce(d) /\ Limited(d, B) /\ d.codes \in Seq(CodeRow)
  BY TablesAre DEF SoundTables
<1>2. \A c \in CodeId(d) : d.codes[c] \in CodeRow
  BY <1>1, TablesAre
<1>3. ASSUME NEW c \in CodeId(d)
      PROVE  /\ y[c] \in CodeRow /\ y[c].owner = d.codes[c].owner /\ (d.codes[c].used => y[c].used)
             /\ (y[c].owner = p => y[c].used)
  <2>1. CASE d.codes[c].owner = p
    <3>1. y[c] = [d.codes[c] EXCEPT !.used = TRUE]
      BY <2>1 DEF CodeId
    <3> HIDE DEF y
    <3> QED
      BY <1>2, <3>1 DEF CodeRow
  <2>2. CASE d.codes[c].owner # p
    <3>1. y[c] = d.codes[c]
      BY <2>2 DEF CodeId
    <3> QED
      BY <1>2, <2>2, <3>1
  <2> QED
    BY <2>1, <2>2
<1>4. y \in Seq(CodeRow) /\ DOMAIN y = CodeId(d) /\ Len(y) = Len(d.codes)
  <2>1. y = [c \in DOMAIN d.codes |-> y[c]]
    OBVIOUS
  <2> HIDE DEF y
  <2> QED
    BY <1>1, <1>3, <2>1, RowsChanged DEF CodeId
<1>5. new \in CodeRow /\ new.owner = p
  BY AccessNats DEF CodeRow
<1>6. CodeMade(d, p) = e
  BY DEF CodeMade
<1> HIDE DEF y, new
<1>7. x \in Seq(CodeRow) /\ CodeId(d) = 1..Len(d.codes) /\ Len(x) = n /\ DOMAIN x = 1..n /\ x[n] = new
      /\ Len(d.codes) \in Nat /\ \A i \in CodeId(d) : x[i] = y[i]
  BY <1>1, <1>4, <1>5, OneRowMore DEF CodeId
<1> HIDE DEF x
<1>8. e \in Tables /\ e.people = d.people /\ e.phones = d.phones /\ e.sessions = d.sessions /\ e.codes = x
  BY <1>1, <1>7, TableSet
<1> HIDE DEF e
<1>9. CodeId(e) = CodeId(d) \cup {n} /\ n \notin CodeId(d)
  BY <1>7, <1>8 DEF CodeId
<1>10. Linked(e)
  BY <1>1, <1>7, <1>8 DEF Linked, PhoneId, SessionId
<1> HIDE DEF n
<1>11. Rightful(e)
  BY <1>1, <1>8, Zenon DEF Rightful, SessionId, PhoneId, MayWeb, Active, IsPerson
<1>12. CodesOnce(e)
  <2>1. \A f \in PhoneId(d) : d.phones[f].from # 0 => d.phones[f].from \in CodeId(d)
    BY <1>1, TablesAre DEF Linked
  <2>2. \A f \in PhoneId(e) : e.phones[f].from # 0 => e.codes[e.phones[f].from].used
    BY <1>1, <1>3, <1>7, <1>8, <2>1 DEF CodesOnce, PhoneId
  <2>3. \A f, g \in PhoneId(e) : e.phones[f].from # 0 /\ e.phones[f].from = e.phones[g].from => f = g
    BY <1>1, <1>8, Zenon DEF CodesOnce, PhoneId
  <2>4. \A c \in CodeId(d) : e.codes[c].owner = d.codes[c].owner /\ (d.codes[c].used => e.codes[c].used)
                             /\ (e.codes[c].owner = p => e.codes[c].used)
    BY <1>3, <1>7, <1>8
  <2>5. e.codes[n].owner = p
    BY <1>5, <1>7, <1>8
  <2>6. \A c, g \in CodeId(e) : c # g /\ e.codes[c].owner = e.codes[g].owner => e.codes[c].used \/ e.codes[g].used
    BY <1>1, <1>9, <2>4, <2>5 DEF CodesOnce
  <2> QED
    BY <2>2, <2>3, <2>6, Zenon DEF CodesOnce
<1>13. Limited(e, B)
  BY <1>1, <1>8, Zenon DEF Limited, Counted, PhoneId
<1>14. SoundTables(e, B) /\ Grown(d, e)
  BY <1>8, <1>9, <1>10, <1>11, <1>12, <1>13 DEF SoundTables, Grown, PhoneId, SessionId
<1> QED
  BY <1>6, <1>8, <1>14

\* A row of somebody: the other tables are as they were.
LEMMA PersonWritten ==
  ASSUME NEW d \in Tables, NEW p \in Person, NEW row \in PersonRow
  PROVE  LET e == [d EXCEPT !.people[p] = row] IN
         /\ e \in Tables /\ e.people \in [Person -> PersonRow \cup {NoPerson}] /\ e.people[p] = row
         /\ \A q \in Person \ {p} : e.people[q] = d.people[q]
         /\ e.phones = d.phones /\ e.sessions = d.sessions /\ e.codes = d.codes
<1> DEFINE x == [d.people EXCEPT ![p] = row]
<1>1. d.people \in [Person -> PersonRow \cup {NoPerson}]
  BY TablesAre
<1>2. x \in [Person -> PersonRow \cup {NoPerson}] /\ x[p] = row /\ \A q \in Person \ {p} : x[q] = d.people[q]
  BY <1>1
<1>3. [d EXCEPT !.people[p] = row] = [d EXCEPT !.people = x]
  OBVIOUS
<1> DEFINE e == [d EXCEPT !.people = x]
<1> HIDE DEF x
<1>4. e \in Tables /\ e.people = x /\ e.phones = d.phones /\ e.sessions = d.sessions /\ e.codes = d.codes
  BY <1>2, TableSet
<1> HIDE DEF e
<1>5. [d EXCEPT !.people[p] = row] = e
  BY <1>3 DEF e
<1> QED
  BY <1>2, <1>4, <1>5

\* Nothing works of somebody who was not there.
LEMMA AddedIsSound ==
  ASSUME NEW d, NEW B, NEW p \in Person, NEW role \in Roles, SoundTables(d, B), ~IsPerson(d, p)
  PROVE  /\ SoundTables(Added(d, p, role), B) /\ Grown(d, Added(d, p, role)) /\ IsPerson(Added(d, p, role), p)
         /\ \A q \in Person \ {p} : Added(d, p, role).people[q] = d.people[q]
<1> DEFINE row == [role |-> role, active |-> TRUE, web |-> role = "admin"]
           e == [d EXCEPT !.people[p] = row]
<1>1. d \in Tables /\ Linked(d) /\ Rightful(d) /\ CodesOnce(d) /\ Limited(d, B)
  BY DEF SoundTables
<1>2. row \in PersonRow /\ Added(d, p, role) = e
  BY DEF PersonRow, Added
<1> HIDE DEF row
<1>3. /\ e \in Tables /\ e.people[p] = row /\ \A q \in Person \ {p} : e.people[q] = d.people[q]
      /\ e.phones = d.phones /\ e.sessions = d.sessions /\ e.codes = d.codes
  BY <1>1, <1>2, PersonWritten
<1> HIDE DEF e
<1>4. Rightful(e)
  <2>1. \A f \in PhoneId(d) : d.phones[f].owner \in Person
    BY <1>1, TablesAre DEF PhoneRow
  <2>2. \A i \in SessionId(d) : d.sessions[i].owner \in Person
    BY <1>1, TablesAre DEF SessionRow
  <2>3. \A q \in Person : (Active(d, q) => Active(e, q)) /\ (MayWeb(d, q) => MayWeb(e, q))
    BY <1>3, Zenon DEF MayWeb, Active, IsPerson
  <2> QED
    BY <1>1, <1>3, <2>1, <2>2, <2>3, Zenon DEF Rightful, PhoneId, SessionId
<1>5. Linked(e)
  BY <1>1, <1>3 DEF Linked, PhoneId, SessionId
<1>6. CodesOnce(e)
  BY <1>1, <1>3, Zenon DEF CodesOnce, PhoneId, CodeId
<1>7. Limited(e, B)
  BY <1>1, <1>3, Zenon DEF Limited, Counted, PhoneId
<1>8. IsPerson(e, p)
  BY <1>2, <1>3, AccessNats DEF IsPerson
<1> QED
  BY <1>2, <1>3, <1>4, <1>5, <1>6, <1>7, <1>8 DEF SoundTables, Grown, PhoneId, SessionId, CodeId

\* A patch takes away what its row no longer allows.
LEMMA WrittenIsSound ==
  ASSUME NEW d, NEW B, NEW p \in Person, NEW row \in PersonRow, SoundTables(d, B), IsPerson(d, p)
  PROVE  /\ SoundTables(Written(d, p, row), B) /\ Grown(d, Written(d, p, row)) /\ Written(d, p, row).people[p] = row
         /\ \A q \in Person \ {p} : Written(d, p, row).people[q] = d.people[q]
         /\ ~row.active => \A f \in PhoneId(d) : d.phones[f].owner = p => Written(d, p, row).phones[f].revoked
<1> DEFINE a == [d EXCEPT !.people[p] = row]
           S == IF ~row.active THEN SessionsOf(d, p)
                ELSE IF ~row.web THEN SessionsOf(d, p) \cap SessionsBy(d, 0) ELSE {}
           e == Drop(a, S)
           x == [f \in DOMAIN e.phones |-> IF e.phones[f].owner = p THEN [e.phones[f] EXCEPT !.revoked = TRUE] ELSE e.phones[f]]
           w == IF row.active THEN e ELSE [e EXCEPT !.phones = x]
<1>1. d \in Tables /\ Linked(d) /\ Rightful(d) /\ CodesOnce(d) /\ Limited(d, B)
  BY DEF SoundTables
<1>2. w = Written(d, p, row)
  BY DEF Written
<1>3. /\ a \in Tables /\ a.people[p] = row /\ \A q \in Person \ {p} : a.people[q] = d.people[q]
      /\ a.phones = d.phones /\ a.sessions = d.sessions /\ a.codes = d.codes
  BY <1>1, PersonWritten
<1>4. \A i \in SessionId(d) : i \notin S => (d.sessions[i].owner = p => row.active /\ (d.sessions[i].phone = 0 => row.web))
  BY DEF SessionsOf, SessionsBy
<1> HIDE DEF a, S
<1>5. /\ Fewer(a, e, B) /\ e.phones = d.phones
      /\ \A i \in SessionId(d) : e.sessions[i].kept => i \notin S
  BY <1>3, DropFewer DEF SessionId
<1>6. e \in Tables
  BY <1>5 DEF Fewer
<1> HIDE DEF e
<1>7. \A f \in PhoneId(e) : e.phones[f] \in PhoneRow
  BY <1>6, TablesAre
<1>8. ASSUME NEW f \in PhoneId(e)
      PROVE  /\ x[f] \in PhoneRow /\ x[f].owner = e.phones[f].owner /\ x[f].from = e.phones[f].from
             /\ x[f].expires = e.phones[f].expires /\ (e.phones[f].revoked => x[f].revoked)
             /\ x[f].crossed = e.phones[f].crossed
             /\ (e.phones[f].owner = p => x[f].revoked)
  <2>1. CASE e.phones[f].owner = p
    <3>1. x[f] = [e.phones[f] EXCEPT !.revoked = TRUE]
      BY <2>1 DEF PhoneId
    <3> HIDE DEF x
    <3> QED
      BY <1>7, <3>1 DEF PhoneRow
  <2>2. CASE e.phones[f].owner # p
    <3>1. x[f] = e.phones[f]
      BY <2>2 DEF PhoneId
    <3> QED
      BY <1>7, <2>2, <3>1
  <2> QED
    BY <2>1, <2>2
<1>9. x \in Seq(PhoneRow) /\ DOMAIN x = PhoneId(e)
  <2>1. x = [f \in DOMAIN e.phones |-> x[f]]
    OBVIOUS
  <2>2. e.phones \in Seq(PhoneRow)
    BY <1>6, TablesAre
  <2> HIDE DEF x
  <2> QED
    BY <1>8, <2>1, <2>2, RowsChanged DEF PhoneId
<1> HIDE DEF x
<1>10. /\ Fewer(e, [e EXCEPT !.phones = x], B)
       /\ [e EXCEPT !.phones = x].phones = x /\ [e EXCEPT !.phones = x].sessions = e.sessions
  BY <1>6, <1>8, <1>9, PhonesFewer, TableSet
<1>11. Fewer(a, w, B) /\ w.sessions = e.sessions /\ (~row.active => w.phones = x) /\ (row.active => w.phones = d.phones)
  <2>1. CASE row.active
    <3>1. w = e
      BY <2>1
    <3> QED
      BY <1>5, <2>1, <3>1
  <2>2. CASE ~row.active
    <3>1. w = [e EXCEPT !.phones = x]
      BY <2>2
    <3> HIDE DEF w
    <3>2. Fewer(a, w, B)
      BY <1>5, <1>10, <3>1, FewerIsTransitive
    <3> QED
      BY <1>10, <2>2, <3>1, <3>2
  <2> QED
    BY <2>1, <2>2
<1> HIDE DEF w
<1>12. \A f \in PhoneId(d) : ~w.phones[f].revoked => ~d.phones[f].revoked /\ (d.phones[f].owner = p => row.active)
  <2>1. PhoneId(e) = PhoneId(d)
    BY <1>5 DEF PhoneId
  <2> QED
    BY <1>5, <1>8, <1>11, <2>1
<1>13. \A i \in SessionId(d) : w.sessions[i].kept =>
         d.sessions[i].kept /\ (d.sessions[i].owner = p => row.active /\ (d.sessions[i].phone = 0 => row.web))
  <2>1. \A i \in SessionId(d) : e.sessions[i].kept => d.sessions[i].kept
    BY <1>3, <1>5 DEF Fewer, SessionId
  <2> QED
    BY <1>4, <1>5, <1>11, <2>1
<1>14. /\ PhoneId(w) = PhoneId(d) /\ SessionId(w) = SessionId(d) /\ w.people = a.people /\ w \in Tables
       /\ \A f \in PhoneId(d) : /\ w.phones[f].owner = d.phones[f].owner /\ w.phones[f].crossed = d.phones[f].crossed
                                /\ d.phones[f].revoked => w.phones[f].revoked
       /\ \A i \in SessionId(d) : /\ w.sessions[i].owner = d.sessions[i].owner /\ w.sessions[i].phone = d.sessions[i].phone
                                  /\ w.sessions[i].crossed = d.sessions[i].crossed
       /\ CodeId(w) = CodeId(d)
  BY <1>3, <1>11 DEF Fewer, PhoneId, SessionId, CodeId
<1>15. Rightful(w)
  <2>1. row # NoPerson
    BY AccessNats
  <2>2. \A q \in Person : Active(d, q) /\ (q = p => row.active) => Active(w, q)
    BY <1>3, <1>14, <2>1 DEF Active, IsPerson
  <2>3. \A q \in Person : w.people[q].web \/ (q = p /\ ~row.web) \/ ~d.people[q].web
    BY <1>3, <1>14
  <2>4. \A f \in PhoneId(d) : d.phones[f].owner \in Person
    BY <1>1, TablesAre DEF PhoneRow
  <2>5. \A i \in SessionId(d) : d.sessions[i].owner \in Person
    BY <1>1, TablesAre DEF SessionRow
  <2>6. ASSUME NEW f \in PhoneId(w), ~w.phones[f].revoked, ~w.phones[f].crossed PROVE Active(w, w.phones[f].owner)
    BY <1>1, <1>12, <1>14, <2>2, <2>4, <2>6, Zenon DEF Rightful
  <2>7. ASSUME NEW i \in SessionId(w), w.sessions[i].kept, w.sessions[i].phone = 0, ~w.sessions[i].crossed
        PROVE  MayWeb(w, w.sessions[i].owner)
    BY <1>1, <1>13, <1>14, <2>2, <2>3, <2>5, <2>7, Zenon DEF Rightful, MayWeb
  <2>8. ASSUME NEW i \in SessionId(w), w.sessions[i].kept, w.sessions[i].phone # 0
        PROVE  Active(w, w.sessions[i].owner) \/ w.phones[w.sessions[i].phone].revoked
    <3>1. d.sessions[i].phone \in PhoneId(d)
      BY <1>1, <1>14, <2>8, TablesAre DEF Linked
    <3> QED
      BY <1>1, <1>13, <1>14, <2>2, <2>5, <2>8, <3>1, Zenon DEF Rightful
  <2> QED
    BY <2>6, <2>7, <2>8 DEF Rightful
<1>16. Linked(a) /\ CodesOnce(a) /\ Limited(a, B)
  <2>1. Linked(a)
    BY <1>1, <1>3 DEF Linked, PhoneId, SessionId
  <2>2. CodesOnce(a)
    BY <1>1, <1>3, Zenon DEF CodesOnce, PhoneId, CodeId
  <2>3. Limited(a, B)
    BY <1>1, <1>3, Zenon DEF Limited, Counted, PhoneId
  <2> QED
    BY <2>1, <2>2, <2>3
<1>17. Linked(w) /\ CodesOnce(w) /\ Limited(w, B)
  BY <1>3, <1>11, <1>16, FewerLinked, FewerOnce, FewerLimited
<1>18. SoundTables(w, B) /\ Grown(d, w)
  BY <1>14, <1>15, <1>17 DEF SoundTables, Grown
<1>19. ~row.active => \A f \in PhoneId(d) : d.phones[f].owner = p => w.phones[f].revoked
  BY <1>12
<1> QED
  BY <1>2, <1>3, <1>14, <1>18, <1>19

LEMMA FewerGrows ==
  ASSUME NEW d, NEW e, NEW B, Fewer(d, e, B)
  PROVE  Grown(d, e) /\ e.people = d.people
  BY DEF Fewer, Grown

LEMMA GrownIsTransitive ==
  ASSUME NEW c, NEW d, NEW e, Grown(c, d), Grown(d, e)
  PROVE  Grown(c, e)
  BY DEF Grown

LEMMA AccessStarts == AccessInit => AccessInv
<1> SUFFICES ASSUME AccessInit PROVE AccessInv
  OBVIOUS
<1>1. /\ db.people = [p \in Person |-> IF p = FirstAdmin THEN [role |-> "admin", active |-> TRUE, web |-> TRUE] ELSE NoPerson]
      /\ db.phones = <<>> /\ db.sessions = <<>> /\ db.codes = <<>>
      /\ db = [people |-> db.people, phones |-> db.phones, sessions |-> db.sessions, codes |-> db.codes]
  BY DEF AccessInit
<1>2. db \in Tables
  <2>1. [role |-> "admin", active |-> TRUE, web |-> TRUE] \in PersonRow
    BY DEF PersonRow, Roles
  <2>2. db.people \in [Person -> PersonRow \cup {NoPerson}]
    BY <1>1, <2>1
  <2>3. <<>> \in Seq(PhoneRow) /\ <<>> \in Seq(SessionRow) /\ <<>> \in Seq(CodeRow)
    OBVIOUS
  <2> QED
    BY <1>1, <2>2, <2>3 DEF Tables
<1>3. PhoneId(db) = {} /\ SessionId(db) = {} /\ CodeId(db) = {}
  BY <1>1 DEF PhoneId, SessionId, CodeId
<1>4. Linked(db) /\ Rightful(db) /\ CodesOnce(db)
  BY <1>3 DEF Linked, Rightful, CodesOnce
<1>5. Limited(db, brink)
  <2>1. \A P : Counted(db, P) \ brink = {}
    BY <1>3 DEF Counted
  <2>2. Cardinality({}) = 0
    BY FS_EmptySet
  <2> QED
    BY <2>1, <2>2, AccessNats DEF Limited
<1>6. AccessTypes
  <2>1. clockA = 0 /\ sent = {} /\ ctlJob = <<>> /\ overlapped = FALSE /\ brink = {}
    BY Zenon DEF AccessInit
  <2>2. clockA \in 0..LastTick
    BY <2>1, AccessNats
  <2> QED
    BY <2>1, <2>2, Zenon DEF AccessTypes
<1>7. AdminKept
  <2>1. IsPerson(db, FirstAdmin) /\ Active(db, FirstAdmin) /\ db.people[FirstAdmin].role = "admin"
    <3>1. FirstAdmin \in Person /\ NoPerson \notin PersonRow /\ [role |-> "admin", active |-> TRUE, web |-> TRUE] \in PersonRow
      BY AccessNats DEF PersonRow, Roles
    <3>2. db.people[FirstAdmin] = [role |-> "admin", active |-> TRUE, web |-> TRUE]
      BY <1>1, <3>1
    <3>3. IsPerson(db, FirstAdmin)
      BY <3>1, <3>2 DEF IsPerson
    <3> QED
      BY <3>2, <3>3 DEF Active
  <2>2. ctlJob = <<>> /\ task = <<>>
    BY DEF AccessInit
  <2> QED
    BY <2>1, <2>2, AccessNats DEF AdminKept, HasAdmin, PatchChecked, GatewayPatches
<1>8. TaskInv
  BY DEF AccessInit, TaskInv
<1> QED
  BY <1>2, <1>4, <1>5, <1>6, <1>7, <1>8 DEF AccessInv, SoundTables

\* The time stands: what holds of the new tables holds then.
LEMMA SoundThen ==
  ASSUME clockA' = clockA, SoundTables(db', brink')
  PROVE  SoundTables(db, brink)'
<1>1. Limited(db, brink)'
  BY DEF SoundTables, Limited, Counted, PhoneId
<1> QED
  BY <1>1 DEF SoundTables, Tables, Linked, Rightful, MayWeb, CodesOnce, PhoneId, SessionId, CodeId, Active, IsPerson,
              PersonRow, PhoneRow, SessionRow, CodeRow, Roles

\* What a handler has found stands while rows are added and the people it knows stay.
LEMMA TaskGrows ==
  ASSUME AccessInv, task' = task, Grown(db, db'),
         \A q \in Person : IsPerson(db, q) => db'.people[q] = db.people[q]
  PROVE  TaskInv'
<1> SUFFICES ASSUME task # <<>> PROVE TaskInv'
  BY DEF TaskInv
<1>1. TaskInv /\ task \in Tasks /\ task.who \in Person
  BY DEF AccessInv, TaskInv, Tasks
<1>2. \A q \in Person : (Active(db, q) => Active(db', q)) /\ (MayWeb(db, q) => MayWeb(db', q)) /\ (IsPerson(db, q) => IsPerson(db', q))
  BY Zenon DEF MayWeb, Active, IsPerson
<1>3. PhoneId(db) \subseteq PhoneId(db') /\ CodeId(db) \subseteq CodeId(db')
      /\ \A f \in PhoneId(db) : db'.phones[f].owner = db.phones[f].owner /\ (db.phones[f].revoked => db'.phones[f].revoked)
  BY DEF Grown
<1>4. \A f \in PhoneId(db) : f \in PhoneId(db')
  BY <1>3
<1>5. /\ task.does = "login" /\ ~task.crossed => MayWeb(db', task.who)
      /\ task.does \in {"appLogin", "enrol"} /\ ~task.crossed => Active(db', task.who)
      /\ task.does = "enrol" => task.of \in CodeId(db')
      /\ task.does = "session" => /\ task.of \in PhoneId(db') /\ db'.phones[task.of].owner = task.who
                                  /\ Active(db', task.who) \/ db'.phones[task.of].revoked
      /\ task.does = "patch" => task.row \in PersonRow /\ IsPerson(db', task.who)
  BY <1>1, <1>2, <1>3, <1>4 DEF TaskInv
<1> QED
  BY <1>1, <1>5, Zenon DEF TaskInv, Tasks, MayWeb, Active, IsPerson, PhoneId, CodeId, PersonRow, Roles

\* A step that leaves the people as they are.
LEMMA PeopleStay ==
  ASSUME AccessInv, UNCHANGED <<clockA, ctlJob, overlapped>>,
         SoundTables(db', brink'), Grown(db, db'), db'.people = db.people,
         sent' \subseteq SessionId(db'), brink' \subseteq PhoneId(db'), TaskInv', overlapped \/ PatchChecked'
  PROVE  AccessInv'
<1>1. AccessTypes'
  BY Zenon DEF AccessInv, AccessTypes, IsPerson, PhoneId, SessionId, PersonRow, Roles
<1>2. AdminKept'
  BY Zenon DEF AccessInv, AdminKept, HasAdmin, Active, IsPerson, LastAdmin
<1> QED
  BY <1>1, <1>2, SoundThen DEF AccessInv

LEMMA PatchStands ==
  ASSUME AccessInv, task' = task, db'.people = db.people
  PROVE  overlapped \/ PatchChecked'
  BY Zenon DEF AccessInv, AdminKept, PatchChecked, GatewayPatches, LastAdmin, Active, IsPerson

LEMMA PeopleStayAlone ==
  ASSUME AccessInv, NEW d, CtlDoes(d), Alone, SoundTables(d, brink), Grown(db, d), d.people = db.people
  PROVE  AccessInv'
<1>1. db' = d /\ UNCHANGED <<clockA, sent, ctlJob, brink, task>>
      /\ overlapped' = (overlapped \/ ((ctlJob # <<>> \/ GatewayPatches) /\ d.people # db.people))
  BY Zenon DEF CtlDoes, Alone
<1>2. sent' \subseteq SessionId(db') /\ brink' \subseteq PhoneId(db')
  BY <1>1 DEF AccessInv, AccessTypes, Grown
<1>3. overlapped' = overlapped
  BY <1>1, Zenon DEF AccessInv, AccessTypes
<1>4. TaskInv' /\ (overlapped \/ PatchChecked')
  BY <1>1, TaskGrows, PatchStands
<1> QED
  BY <1>1, <1>2, <1>3, <1>4, PeopleStay

\* The last step of a handler, if it leaves the people as they are.
LEMMA FinishStays ==
  ASSUME AccessInv, NEW d, Finishes(d), SoundTables(d, brink), Grown(db, d), d.people = db.people
  PROVE  AccessInv'
<1>1. db' = d /\ task' = <<>> /\ UNCHANGED <<clockA, sent, ctlJob, brink>>
      /\ overlapped' = (overlapped \/ (ctlJob # <<>> /\ d.people # db.people))
  BY Zenon DEF Finishes
<1>2. sent' \subseteq SessionId(db') /\ brink' \subseteq PhoneId(db')
  BY <1>1 DEF AccessInv, AccessTypes, Grown
<1>3. overlapped' = overlapped
  BY <1>1, Zenon DEF AccessInv, AccessTypes
<1>4. TaskInv' /\ PatchChecked'
  BY <1>1 DEF TaskInv, PatchChecked, GatewayPatches
<1> QED
  BY <1>1, <1>2, <1>3, <1>4, PeopleStay

\* The first step of a handler.
LEMMA CheckStays ==
  ASSUME AccessInv, NEW does \in {"login", "appLogin", "enrol", "patch"}, NEW p \in Person, NEW of \in Nat,
         NEW row \in PersonRow \cup {NoPerson}, Checked(does, p, of, row), UNCHANGED <<db, brink>>, sent' \subseteq sent,
         does = "login" => MayWeb(db, p), does \in {"appLogin", "enrol"} => Active(db, p),
         does = "enrol" => of \in CodeId(db),
         does = "patch" => row \in PersonRow /\ IsPerson(db, p) /\ ~LastAdmin(db, p, row)
  PROVE  AccessInv'
<1>1. /\ task' = [does |-> does, who |-> p, of |-> of, row |-> row, crossed |-> FALSE]
      /\ UNCHANGED <<clockA, ctlJob, overlapped>>
  BY DEF Checked
<1>2. /\ task'.does = does /\ task'.who = p /\ task'.of = of /\ task'.row = row /\ task' # <<>>
      /\ task' \in [does : {"login", "appLogin", "enrol", "session", "patch"}, who : Person, of : Nat,
                     row : PersonRow \cup {NoPerson}, crossed : BOOLEAN]
  BY <1>1
<1>3. TaskInv'
  <2>1. task' \in Tasks'
    BY <1>2, Zenon DEF Tasks, PersonRow, Roles
  <2>2. does # "session"
    OBVIOUS
  <2>3. /\ task'.does = "login" => MayWeb(db', task'.who)
        /\ task'.does \in {"appLogin", "enrol"} => Active(db', task'.who)
        /\ task'.does = "enrol" => task'.of \in CodeId(db')
        /\ task'.does = "patch" => task'.row \in PersonRow' /\ IsPerson(db', task'.who)
    BY <1>2, Zenon DEF PersonRow, Roles
  <2> QED
    BY <1>2, <2>1, <2>2, <2>3, Zenon DEF TaskInv, MayWeb, Active, IsPerson, CodeId
<1>4. PatchChecked'
  BY <1>2, Zenon DEF PatchChecked, GatewayPatches, LastAdmin, Active, IsPerson
<1>5. sent' \subseteq SessionId(db') /\ brink' \subseteq PhoneId(db') /\ SoundTables(db', brink') /\ Grown(db, db')
  BY DEF AccessInv, AccessTypes, Grown
<1> QED
  BY <1>1, <1>3, <1>4, <1>5, PeopleStay

\* Somebody is written, or is new: there is an admin still.
LEMMA AdminStays ==
  ASSUME NEW d, NEW e, NEW p \in Person, NEW row \in PersonRow, HasAdmin(d), IsPerson(d, p), ~LastAdmin(d, p, row),
         d.people[p] \in PersonRow,
         e.people[p] = row, \A q \in Person \ {p} : e.people[q] = d.people[q]
  PROVE  HasAdmin(e)
<1>1. \A q \in Person \ {p} : Active(d, q) /\ d.people[q].role = "admin" => Active(e, q) /\ e.people[q].role = "admin"
  BY DEF Active, IsPerson
<1>2. ASSUME row.role = "admin", row.active PROVE Active(e, p) /\ e.people[p].role = "admin"
  BY <1>2, AccessNats DEF Active, IsPerson
<1>3. CASE d.people[p].role = "admin" /\ d.people[p].active
  <2>1. (row.role = "admin" /\ row.active) \/ \E q \in Person \ {p} : Active(d, q) /\ d.people[q].role = "admin"
    BY <1>3, Zenon DEF LastAdmin
  <2> QED
    BY <1>1, <1>2, <2>1, Zenon DEF HasAdmin
<1>4. CASE ~(d.people[p].role = "admin" /\ d.people[p].active)
  <2>1. PICK q \in Person : Active(d, q) /\ d.people[q].role = "admin"
    BY Zenon DEF HasAdmin
  <2>2. q # p
    BY <1>4, <2>1, Zenon DEF Active
  <2> QED
    BY <1>1, <2>1, <2>2, Zenon DEF HasAdmin
<1> QED
  BY <1>3, <1>4

\* A step that changes the people: a patch that it crosses is marked.
LEMMA PeopleChange ==
  ASSUME AccessInv, NEW d, db' = d, NEW B \in BOOLEAN, overlapped' = (overlapped \/ (B /\ d.people # db.people)),
         ctlJob' # <<>> => B /\ ctlJob' = ctlJob,
         GatewayPatches' => B /\ GatewayPatches /\ task'.who = task.who /\ task'.row = task.row,
         UNCHANGED <<clockA, brink>>, sent' \subseteq sent,
         SoundTables(d, brink), Grown(db, d), overlapped \/ (HasAdmin(db) => HasAdmin(d)),
         \A q \in Person : IsPerson(db, q) => IsPerson(d, q), TaskInv'
  PROVE  AccessInv'
<1>1. overlapped' \in BOOLEAN /\ (overlapped => overlapped')
  BY Zenon
<1>2. AccessTypes'
  <2>1. sent' \subseteq SessionId(db') /\ brink' \subseteq PhoneId(db')
    BY DEF AccessInv, AccessTypes, Grown
  <2>2. ctlJob' # <<>> => ctlJob' \in Person \X PersonRow /\ IsPerson(db', ctlJob'[1])
    BY DEF AccessInv, AccessTypes
  <2> QED
    BY <1>1, <2>1, <2>2, Zenon DEF AccessInv, AccessTypes, IsPerson, PhoneId, SessionId, PersonRow, Roles
<1>3. AdminKept'
  <2>1. CASE overlapped'
    BY <2>1, Zenon DEF AdminKept
  <2>2. CASE ~overlapped'
    <3>1. ~overlapped /\ (B => d.people = db.people)
      BY <2>2, Zenon
    <3>2. HasAdmin(db')
      BY <3>1, Zenon DEF AccessInv, AdminKept
    <3>3. ctlJob' # <<>> => ~LastAdmin(db', ctlJob'[1], ctlJob'[2])
      BY <3>1, Zenon DEF AccessInv, AdminKept, LastAdmin, Active, IsPerson
    <3>4. GatewayPatches' => ~LastAdmin(db', task'.who, task'.row)
      BY <3>1, Zenon DEF AccessInv, AdminKept, PatchChecked, LastAdmin, Active, IsPerson
    <3> QED
      BY <3>2, <3>3, <3>4, Zenon DEF AdminKept, PatchChecked, GatewayPatches, HasAdmin, LastAdmin, Active, IsPerson
  <2> QED
    BY <2>1, <2>2
<1>4. SoundTables(db', brink')
  OBVIOUS
<1> QED
  BY <1>2, <1>3, <1>4, SoundThen DEF AccessInv

LEMMA RowsAre ==
  ASSUME AccessInv
  PROVE  /\ db \in Tables /\ clockA \in 0..LastTick /\ SoundTables(db, brink)
         /\ \A f \in PhoneId(db) : db.phones[f] \in PhoneRow
         /\ \A i \in SessionId(db) : db.sessions[i] \in SessionRow
         /\ \A c \in CodeId(db) : db.codes[c] \in CodeRow
         /\ \A p \in Person : IsPerson(db, p) => db.people[p] \in PersonRow
<1>1. db \in Tables
  BY DEF AccessInv, SoundTables
<1>2. \A p \in Person : IsPerson(db, p) => db.people[p] \in PersonRow
  BY <1>1, TablesAre DEF IsPerson
<1> QED
  BY <1>1, <1>2, TablesAre DEF AccessInv, AccessTypes

\* A handler at work: what it has checked, and what gwctl may have done to it since.
LEMMA TaskIs ==
  ASSUME AccessInv, task # <<>>
  PROVE  /\ task \in Tasks /\ task.who \in Person /\ task.of \in Nat /\ task.crossed \in BOOLEAN
         /\ task.does = "login" /\ ~task.crossed => MayWeb(db, task.who)
         /\ task.does \in {"appLogin", "enrol"} /\ ~task.crossed => Active(db, task.who)
         /\ task.does = "enrol" => task.of \in CodeId(db)
         /\ task.does = "session" => /\ task.of \in PhoneId(db) /\ db.phones[task.of].owner = task.who
                                     /\ Active(db, task.who) \/ db.phones[task.of].revoked
         /\ task.does = "patch" => task.row \in PersonRow /\ IsPerson(db, task.who)
  BY DEF AccessInv, TaskInv, Tasks

\* Sign-in, enrolment and credentials.
LEMMA LoginStays ==
  ASSUME AccessInv, NEW p \in Person, WebLogin(p) \/ AppLogin(p)
  PROVE  AccessInv'
<1>1. MayWeb(db, p) /\ Active(db, p) /\ UNCHANGED <<db, sent, brink>>
      /\ (Checked("login", p, 0, NoPerson) \/ Checked("appLogin", p, 0, NoPerson))
  BY Zenon DEF WebLogin, AppLogin, MayWeb
<1>2. 0 \in Nat /\ NoPerson \in PersonRow \cup {NoPerson} /\ sent' \subseteq sent
  BY <1>1
<1> QED
  BY <1>1, <1>2, CheckStays

LEMMA SignedInStays == ASSUME AccessInv, SignedIn PROVE AccessInv'
<1> DEFINE s == NewSession(task.who, 0, clockA + AbsTtl)
<1>1. task # <<>> /\ task.does = "login" /\ Finishes([db EXCEPT !.sessions = Append(@, s)])
  BY DEF SignedIn
<1>2. task.who \in Person /\ task.crossed \in BOOLEAN /\ (~task.crossed => MayWeb(db, task.who))
  BY <1>1, TaskIs
<1>3. s \in SessionRow /\ s.owner = task.who /\ s.phone = 0 /\ s.crossed = task.crossed
  BY <1>2, RowsAre, AccessNats DEF SessionRow, NewSession
<1>4. 0 \in 0..Len(db.phones)
  BY RowsAre, TablesAre
<1> HIDE DEF s
<1>5. LET e == [db EXCEPT !.sessions = Append(@, s)] IN SoundTables(e, brink) /\ Grown(db, e) /\ e.people = db.people
  BY <1>2, <1>3, <1>4, RowsAre, SessionAddedIsSound
<1> QED
  BY <1>1, <1>5, FinishStays

LEMMA AppSignedInStays == ASSUME AccessInv, AppSignedIn PROVE AccessInv'
<1> DEFINE r == NewPhone(task.who, 0)
           d == IF RoomFor(db, task.who) THEN [db EXCEPT !.phones = Append(@, r)] ELSE db
<1>1. task # <<>> /\ task.does = "appLogin" /\ Finishes(d)
  BY DEF AppSignedIn
<1>2. task.who \in Person /\ task.crossed \in BOOLEAN /\ (~task.crossed => Active(db, task.who))
  BY <1>1, TaskIs
<1>3. r \in PhoneRow /\ r.owner = task.who /\ r.from = 0 /\ r.crossed = task.crossed
  BY <1>2, RowsAre, AccessNats DEF PhoneRow, NewPhone
<1> HIDE DEF r
<1>4. SoundTables(d, brink) /\ Grown(db, d) /\ d.people = db.people
  <2>1. CASE RoomFor(db, task.who)
    <3>1. d = [db EXCEPT !.phones = Append(@, r)]
      BY <2>1
    <3> HIDE DEF d
    <3> QED
      BY <1>2, <1>3, <2>1, <3>1, RowsAre, PhoneAddedIsSound
  <2>2. CASE ~RoomFor(db, task.who)
    BY <2>2, RowsAre DEF Grown
  <2> QED
    BY <2>1, <2>2
<1> HIDE DEF d
<1> QED
  BY <1>1, <1>4, FinishStays

LEMMA EnrolStays == ASSUME AccessInv, NEW c \in CodeId(db), Enrol(c) PROVE AccessInv'
<1>1. Active(db, db.codes[c].owner) /\ Checked("enrol", db.codes[c].owner, c, NoPerson) /\ UNCHANGED <<db, sent, brink>>
  BY DEF Enrol
<1>2. db \in Tables /\ db.codes[c].owner \in Person
  BY RowsAre DEF CodeRow
<1>3. c \in Nat /\ NoPerson \in PersonRow \cup {NoPerson} /\ sent' \subseteq sent
  BY <1>1, <1>2, TablesAre
<1> QED
  BY <1>1, <1>2, <1>3, CheckStays

LEMMA EnrolledStays == ASSUME AccessInv, Enrolled PROVE AccessInv'
<1> DEFINE p == task.who
           c == task.of
           r == NewPhone(p, c)
           k == [db.codes[c] EXCEPT !.used = TRUE]
           x == [db.codes EXCEPT ![c] = k]
           d == [db EXCEPT !.codes = x]
           e == [d EXCEPT !.phones = Append(@, r)]
           w == IF RoomFor(db, p) /\ ~db.codes[c].used
                THEN [db EXCEPT !.phones = Append(@, r), !.codes[c].used = TRUE] ELSE db
<1>1. task # <<>> /\ task.does = "enrol" /\ Finishes(w)
  BY DEF Enrolled
<1>2. p \in Person /\ task.crossed \in BOOLEAN /\ (~task.crossed => Active(db, p)) /\ c \in CodeId(db) /\ c \in Nat
  BY <1>1, TaskIs
<1>3. db \in Tables /\ db.codes[c] \in CodeRow /\ clockA \in 0..LastTick
  BY <1>2, RowsAre
<1>4. r \in PhoneRow /\ r.owner = p /\ r.from = c /\ r.crossed = task.crossed
  BY <1>2, <1>3, AccessNats DEF PhoneRow, NewPhone
<1>5. k \in CodeRow /\ k.owner = db.codes[c].owner /\ k.used
  BY <1>3 DEF CodeRow
<1>6. [db EXCEPT !.phones = Append(@, r), !.codes[c].used = TRUE] = e
  BY <1>3 DEF Tables
<1>7. CASE ~(RoomFor(db, p) /\ ~db.codes[c].used)
  <2>1. w = db
    BY <1>7
  <2> HIDE DEF w
  <2> QED
    BY <1>1, <2>1, RowsAre, FinishStays DEF Grown
<1>8. CASE RoomFor(db, p) /\ ~db.codes[c].used
  <2>1. w = e
    BY <1>6, <1>8
  <2> HIDE DEF k, r, w
  <2>2. x \in Seq(CodeRow) /\ DOMAIN x = CodeId(db) /\ x[c] = k /\ \A j \in CodeId(db) \ {c} : x[j] = db.codes[j]
    BY <1>2, <1>3, <1>5, TablesAre, OneRowChanged DEF CodeId
  <2>3. d.codes = x /\ d.phones = db.phones
    BY <1>3, <2>2, TableSet
  <2>4. \A j \in CodeId(db) : x[j].owner = db.codes[j].owner /\ (db.codes[j].used => x[j].used)
    BY <1>5, <2>2
  <2> HIDE DEF x
  <2>5. Fewer(db, d, brink)
    BY <1>3, <2>2, <2>4, CodesFewer
  <2> HIDE DEF d
  <2>6. SoundTables(d, brink) /\ Grown(db, d) /\ d.people = db.people /\ PhoneId(d) = PhoneId(db)
    BY <2>5, RowsAre, FewerIsSound, FewerGrows DEF Fewer
  <2>7. (Active(db, p) => Active(d, p)) /\ RoomFor(d, p)
    BY <1>8, <2>3, <2>6, Zenon DEF Active, IsPerson, RoomFor, Counted, PhoneId
  <2>8. c \in CodeId(d) /\ d.codes[c].used
    BY <1>2, <1>5, <2>2, <2>3 DEF CodeId
  <2>9. \A f \in PhoneId(d) : d.phones[f].from # c
    <3>1. CodesOnce(db) /\ c # 0
      BY <1>2, <1>3, RowsAre, TablesAre DEF SoundTables
    <3> QED
      BY <1>8, <2>3, <2>6, <3>1, Zenon DEF CodesOnce
  <2>10. SoundTables(e, brink) /\ Grown(d, e) /\ e.people = d.people
    <3>1. (~r.crossed => Active(d, r.owner)) /\ RoomFor(d, r.owner)
      BY <1>2, <1>4, <2>7
    <3>2. r.from \in CodeId(d) /\ d.codes[r.from].used /\ \A f \in PhoneId(d) : d.phones[f].from # r.from
      BY <1>4, <2>8, <2>9
    <3>3. r \in PhoneRow
      BY <1>4
    <3> HIDE DEF c, p
    <3> QED
      BY <2>6, <3>1, <3>2, <3>3, PhoneAddedIsSound
  <2> HIDE DEF e
  <2> QED
    BY <1>1, <2>1, <2>6, <2>10, GrownIsTransitive, FinishStays
<1> QED
  BY <1>7, <1>8

LEMMA FewerStays ==
  ASSUME AccessInv, NEW d, CtlDoes(d), Alone, Fewer(db, d, brink)
  PROVE  AccessInv'
  BY RowsAre, FewerIsSound, FewerGrows, PeopleStayAlone

LEMMA CredentialsStay == ASSUME AccessInv, NEW p \in Person, CredentialsChanged(p) PROVE AccessInv'
<1>1. CtlDoes(Drop(db, SessionsOf(db, p))) /\ Alone
  BY DEF CredentialsChanged, Does
<1> QED
  BY <1>1, RowsAre, DropFewer, FewerStays

\* A phone at work.
LEMMA ByPhoneStays ==
  ASSUME AccessInv, NEW f \in PhoneId(db), NEW d, ByPhone(f, d),
         \A B : SoundTables(UsePhone(db, f), B) => SoundTables(d, B),
         Grown(UsePhone(db, f), d), d.people = db.people
  PROVE  AccessInv'
<1>1. /\ PhoneGood(db, f) /\ Does(d) /\ UNCHANGED <<clockA, sent, ctlJob>>
      /\ brink' = IF db.phones[f].expires = clockA THEN brink \cup {f} ELSE brink
  BY DEF ByPhone, Slides
<1>2. brink \subseteq brink' /\ (f \in brink' \/ db.phones[f].expires > clockA) /\ brink' \subseteq brink \cup {f}
  <2>1. db.phones[f].expires \in Int /\ clockA \in Int /\ db.phones[f].expires >= clockA
    BY <1>1, RowsAre, AccessNats DEF PhoneGood, PhoneRow
  <2> QED
    BY <1>1, <2>1
<1>3. Fewer(db, UsePhone(db, f), brink')
  BY <1>2, RowsAre, UsePhoneFewer
<1>4. SoundTables(UsePhone(db, f), brink') /\ Grown(db, UsePhone(db, f))
  BY <1>2, <1>3, RowsAre, FewerIsSound, FewerGrows
<1>5. SoundTables(d, brink') /\ Grown(db, d)
  BY <1>4, GrownIsTransitive
<1>6. db' = d /\ task' = task /\ overlapped' = overlapped
  BY <1>1, Zenon DEF Does, CtlDoes, AccessInv, AccessTypes
<1>7. sent' \subseteq SessionId(db') /\ brink' \subseteq PhoneId(db')
  BY <1>1, <1>2, <1>5, <1>6 DEF AccessInv, AccessTypes, Grown
<1>8. TaskInv' /\ (overlapped \/ PatchChecked')
  BY <1>5, <1>6, TaskGrows, PatchStands
<1> QED
  BY <1>1, <1>5, <1>6, <1>7, <1>8, PeopleStay

LEMMA PhoneUsed ==
  ASSUME AccessInv, NEW f \in PhoneId(db)
  PROVE  /\ UsePhone(db, f) \in Tables /\ UsePhone(db, f).people = db.people
         /\ PhoneId(UsePhone(db, f)) = PhoneId(db) /\ UsePhone(db, f).phones[f].owner = db.phones[f].owner
         /\ UsePhone(db, f).phones[f].expires = clockA + Sliding
<1>1. f \in {f} \/ db.phones[f].expires > clockA
  OBVIOUS
<1>2. Fewer(db, UsePhone(db, f), {f}) /\ UsePhone(db, f).phones[f].expires = clockA + Sliding
  BY <1>1, RowsAre, UsePhoneFewer
<1> QED
  BY <1>2 DEF Fewer

LEMMA DeviceRequestStays == ASSUME AccessInv, NEW f \in PhoneId(db), DeviceRequest(f) PROVE AccessInv'
<1>1. ByPhone(f, UsePhone(db, f)) /\ Grown(UsePhone(db, f), UsePhone(db, f))
  BY DEF DeviceRequest, Grown
<1> QED
  BY <1>1, PhoneUsed, ByPhoneStays

LEMMA AppLogoutStays == ASSUME AccessInv, NEW f \in PhoneId(db), AppLogout(f) PROVE AccessInv'
<1> DEFINE u == UsePhone(db, f)
           d == PhoneRevoked(u, f)
<1>1. ByPhone(f, d)
  BY DEF AppLogout
<1>2. u \in Tables /\ f \in PhoneId(u) /\ u.people = db.people
  BY PhoneUsed
<1>3. \A B : Fewer(u, d, B)
  BY <1>2, PhoneRevokedFewer
<1>4. Grown(u, d) /\ d.people = db.people
  BY <1>2, <1>3, FewerGrows
<1>5. \A B : SoundTables(u, B) => SoundTables(d, B)
  BY <1>3, FewerIsSound
<1> HIDE DEF d
<1> QED
  BY <1>1, <1>4, <1>5, ByPhoneStays

LEMMA AppSessionStays == ASSUME AccessInv, NEW f \in PhoneId(db), AppSession(f) PROVE AccessInv'
<1> DEFINE p == db.phones[f].owner
<1>1. /\ PhoneGood(db, f) /\ db' = UsePhone(db, f) /\ Checked("session", p, f, NoPerson) /\ sent' = sent
      /\ brink' = IF db.phones[f].expires = clockA THEN brink \cup {f} ELSE brink
  BY DEF AppSession, Slides
<1>2. brink \subseteq brink' /\ (f \in brink' \/ db.phones[f].expires > clockA) /\ brink' \subseteq brink \cup {f}
  <2>1. db.phones[f].expires \in Int /\ clockA \in Int /\ db.phones[f].expires >= clockA
    BY <1>1, RowsAre, AccessNats DEF PhoneGood, PhoneRow
  <2> QED
    BY <1>1, <2>1
<1>3. Fewer(db, db', brink')
  BY <1>1, <1>2, RowsAre, UsePhoneFewer
<1>4. SoundTables(db', brink') /\ Grown(db, db') /\ db'.people = db.people
  BY <1>2, <1>3, RowsAre, FewerIsSound, FewerGrows
<1>5. /\ task' = [does |-> "session", who |-> p, of |-> f, row |-> NoPerson, crossed |-> FALSE]
      /\ UNCHANGED <<clockA, ctlJob, overlapped>>
  BY <1>1 DEF Checked
<1>6. p \in Person /\ f \in Nat /\ Active(db, p)
  BY <1>1, RowsAre, TablesAre DEF PhoneGood, PhoneRow
<1>7. /\ task'.does = "session" /\ task'.who = p /\ task'.of = f /\ task' # <<>>
      /\ task' \in [does : {"login", "appLogin", "enrol", "session", "patch"}, who : Person, of : Nat,
                     row : PersonRow \cup {NoPerson}, crossed : BOOLEAN]
  <2> HIDE DEF p
  <2> QED
    BY <1>5, <1>6
<1>8. TaskInv' /\ PatchChecked'
  <2>1. task' \in Tasks'
    BY <1>7, Zenon DEF Tasks, PersonRow, Roles
  <2>2. f \in PhoneId(db') /\ db'.phones[f].owner = p /\ Active(db', p)
    BY <1>4, <1>6 DEF Grown, Active, IsPerson
  <2>3. task'.does \notin {"login", "appLogin", "enrol", "patch"}
    BY <1>7
  <2>4. PatchChecked'
    BY <2>3 DEF PatchChecked, GatewayPatches
  <2>5. /\ task'.does = "login" /\ ~task'.crossed => MayWeb(db', task'.who)
        /\ task'.does \in {"appLogin", "enrol"} /\ ~task'.crossed => Active(db', task'.who)
        /\ task'.does = "enrol" => task'.of \in CodeId(db')
        /\ task'.of \in PhoneId(db') /\ db'.phones[task'.of].owner = task'.who /\ Active(db', task'.who)
        /\ task'.does = "patch" => task'.row \in PersonRow' /\ IsPerson(db', task'.who)
    BY <1>7, <2>2, <2>3
  <2> QED
    BY <2>1, <2>4, <2>5, Zenon DEF TaskInv, MayWeb, Active, IsPerson, PhoneId, CodeId
<1>9. sent' \subseteq SessionId(db') /\ brink' \subseteq PhoneId(db')
  BY <1>1, <1>2, <1>4 DEF AccessInv, AccessTypes, Grown
<1> QED
  BY <1>4, <1>5, <1>8, <1>9, PeopleStay

LEMMA AppSessionOpenStays == ASSUME AccessInv, AppSessionOpen PROVE AccessInv'
<1> DEFINE f == task.of
           S == {i \in SessionsBy(db, f) : db.sessions[i].ends < clockA \/ db.sessions[i].last < clockA - Idle}
           tidy == Drop(db, S)
           ends == IF clockA + AbsTtl < db.phones[f].expires THEN clockA + AbsTtl ELSE db.phones[f].expires
           s == NewSession(task.who, f, ends)
           d == [tidy EXCEPT !.sessions = Append(@, s)]
<1>1. task # <<>> /\ task.does = "session" /\ Finishes(d)
  BY DEF AppSessionOpen
<1>2. /\ task.who \in Person /\ task.crossed \in BOOLEAN /\ f \in PhoneId(db) /\ db.phones[f].owner = task.who
      /\ Active(db, task.who) \/ db.phones[f].revoked
  BY <1>1, TaskIs
<1>3. clockA \in 0..LastTick /\ f \in 1..Len(db.phones) /\ Len(db.phones) \in Nat /\ db.phones[f] \in PhoneRow /\ db \in Tables
  BY <1>2, RowsAre, TablesAre
<1>4. s \in SessionRow /\ s.owner = task.who /\ s.phone = f
  <2>1. ends \in 0..(LastTick + AbsTtl)
    BY <1>3, AccessNats DEF PhoneRow
  <2> HIDE DEF ends
  <2> QED
    BY <1>2, <1>3, <2>1 DEF SessionRow, NewSession
<1> HIDE DEF s, S
<1>5. Fewer(db, tidy, brink) /\ tidy.phones = db.phones
  BY <1>3, DropFewer
<1>6. Grown(db, tidy) /\ tidy.people = db.people /\ SoundTables(tidy, brink)
  BY <1>5, RowsAre, FewerGrows, FewerIsSound
<1> HIDE DEF tidy
<1>7. /\ s.phone \in 0..Len(tidy.phones) /\ s.phone # 0 /\ s.owner = tidy.phones[s.phone].owner
      /\ Active(tidy, s.owner) \/ tidy.phones[s.phone].revoked
  <2>1. Active(db, task.who) => Active(tidy, task.who)
    BY <1>6 DEF Active, IsPerson
  <2> QED
    BY <1>2, <1>3, <1>4, <1>5, <2>1
<1>8. SoundTables(d, brink) /\ Grown(tidy, d) /\ d.people = tidy.people
  BY <1>4, <1>6, <1>7, SessionAddedIsSound
<1> HIDE DEF d
<1> QED
  BY <1>1, <1>6, <1>8, GrownIsTransitive, FinishStays

\* A session at work.
LEMMA SessionUsed ==
  ASSUME AccessInv, NEW i \in SessionId(db)
  PROVE  /\ Fewer(db, UseSession(db, i), brink) /\ UseSession(db, i) \in Tables
         /\ SoundTables(UseSession(db, i), brink) /\ Grown(db, UseSession(db, i))
         /\ UseSession(db, i).people = db.people /\ PhoneId(UseSession(db, i)) = PhoneId(db)
         /\ SessionId(UseSession(db, i)) = SessionId(db)
<1>1. Fewer(db, UseSession(db, i), brink)
  BY RowsAre, UseSessionFewer
<1> QED
  BY <1>1, RowsAre, FewerIsSound, FewerGrows DEF Fewer

LEMMA SessionRequestStays == ASSUME AccessInv, NEW i \in SessionId(db), SessionRequest(i) PROVE AccessInv'
<1> DEFINE d == IF SessionGood(db, i) THEN UseSession(db, i) ELSE [db EXCEPT !.sessions[i].kept = FALSE]
<1>1. CtlDoes(d) /\ Alone
  BY DEF SessionRequest, Does
<1>2. Fewer(db, d, brink)
  BY RowsAre, SessionUsed, EndFewer
<1> HIDE DEF d
<1> QED
  BY <1>1, <1>2, FewerStays

LEMMA LogoutStays == ASSUME AccessInv, NEW i \in SessionId(db), Logout(i) PROVE AccessInv'
<1>1. CtlDoes([db EXCEPT !.sessions[i].kept = FALSE]) /\ Alone
  BY DEF Logout, Does
<1> QED
  BY <1>1, RowsAre, EndFewer, FewerStays

LEMMA RevokeStays == ASSUME AccessInv, NEW i \in SessionId(db), NEW f \in PhoneId(db), Revoke(i, f) PROVE AccessInv'
<1> DEFINE u == UseSession(db, i)
<1>1. CtlDoes(PhoneRevoked(u, f)) /\ Alone
  BY DEF Revoke, Does
<1>2. Fewer(u, PhoneRevoked(u, f), brink)
  BY SessionUsed, PhoneRevokedFewer
<1>3. Fewer(db, PhoneRevoked(u, f), brink)
  BY <1>2, SessionUsed, FewerIsTransitive
<1> QED
  BY <1>1, <1>3, FewerStays

LEMMA EnrolCodeStays == ASSUME AccessInv, NEW i \in SessionId(db), NEW p \in Person, EnrolCode(i, p) PROVE AccessInv'
<1> DEFINE d == CodeMade(UseSession(db, i), p)
<1>1. CtlDoes(d) /\ Alone
  BY DEF EnrolCode, Does
<1>2. SoundTables(d, brink) /\ Grown(UseSession(db, i), d) /\ d.people = db.people
  BY SessionUsed, RowsAre, CodeMadeIsSound
<1>3. Grown(db, d)
  BY <1>2, SessionUsed, GrownIsTransitive
<1> HIDE DEF d
<1> QED
  BY <1>1, <1>2, <1>3, PeopleStayAlone

LEMMA AdmitStays == ASSUME AccessInv, NEW i \in SessionId(db), Admit(i) PROVE AccessInv'
<1>1. sent' = sent \cup {i} /\ db' = UseSession(db, i) /\ UNCHANGED <<clockA, ctlJob, overlapped, task, brink>>
  BY DEF Admit
<1>2. db'.people = db.people /\ SoundTables(db', brink') /\ Grown(db, db')
  BY <1>1, SessionUsed
<1>3. TaskInv' /\ (overlapped \/ PatchChecked')
  BY <1>1, <1>2, TaskGrows, PatchStands
<1>4. sent' \subseteq SessionId(db') /\ brink' \subseteq PhoneId(db')
  BY <1>1, <1>2 DEF AccessInv, AccessTypes, Grown
<1> QED
  BY <1>1, <1>2, <1>3, <1>4, PeopleStay

\* The people change.
LEMMA AddedStays ==
  ASSUME AccessInv, NEW p \in Person, NEW role \in Roles, ~IsPerson(db, p), CtlDoes(Added(db, p, role)),
         UNCHANGED <<clockA, ctlJob, brink>>, sent' \subseteq sent
  PROVE  AccessInv'
<1> DEFINE d == Added(db, p, role)
<1>1. /\ SoundTables(d, brink) /\ Grown(db, d) /\ IsPerson(d, p)
      /\ \A q \in Person \ {p} : d.people[q] = db.people[q]
  BY RowsAre, AddedIsSound
<1> HIDE DEF d
<1>2. \A q \in Person : IsPerson(db, q) => IsPerson(d, q) /\ d.people[q] = db.people[q]
  BY <1>1 DEF IsPerson
<1>3. HasAdmin(db) => HasAdmin(d)
  BY <1>2, Zenon DEF HasAdmin, Active
<1>4. /\ db' = d /\ task' = task
      /\ overlapped' = (overlapped \/ ((ctlJob # <<>> \/ GatewayPatches) /\ d.people # db.people))
  BY DEF d, CtlDoes
<1>5. TaskInv'
  BY <1>1, <1>2, <1>4, TaskGrows
<1>6. (GatewayPatches' => GatewayPatches) /\ (ctlJob # <<>> \/ GatewayPatches) \in BOOLEAN
  BY <1>4 DEF GatewayPatches
<1> QED
  BY <1>1, <1>2, <1>3, <1>4, <1>5, <1>6, PeopleChange

LEMMA PatchedIsRow ==
  ASSUME NEW row \in PersonRow, NEW ch \in Patches
  PROVE  Patched(row, ch) \in PersonRow
<1>1. CASE ch \in {[field |-> "role", value |-> r] : r \in Roles}
  <2>1. PICK r \in Roles : ch = [field |-> "role", value |-> r]
    BY <1>1
  <2>2. Patched(row, ch) = [row EXCEPT !.role = r]
    BY <2>1 DEF Patched
  <2> QED
    BY <2>2 DEF PersonRow
<1>2. CASE ch \in {[field |-> f, value |-> v] : f \in {"active", "web"}, v \in BOOLEAN}
  <2>1. PICK f \in {"active", "web"}, v \in BOOLEAN : ch = [field |-> f, value |-> v]
    BY <1>2
  <2>2. CASE f = "active"
    <3>1. Patched(row, ch) = [row EXCEPT !.active = v]
      BY <2>1, <2>2 DEF Patched
    <3> QED
      BY <3>1 DEF PersonRow
  <2>3. CASE f = "web"
    <3>1. Patched(row, ch) = [row EXCEPT !.web = v]
      BY <2>1, <2>3 DEF Patched
    <3> QED
      BY <3>1 DEF PersonRow
  <2> QED
    BY <2>2, <2>3
<1> QED
  BY <1>1, <1>2 DEF Patches

LEMMA WrittenKeeps ==
  ASSUME AccessInv, NEW p \in Person, NEW row \in PersonRow, IsPerson(db, p)
  PROVE  LET d == Written(db, p, row) IN
         /\ SoundTables(d, brink) /\ Grown(db, d)
         /\ \A q \in Person : IsPerson(db, q) => IsPerson(d, q)
         /\ HasAdmin(db) /\ ~LastAdmin(db, p, row) => HasAdmin(d)
         /\ d.people[p] = row /\ \A q \in Person \ {p} : d.people[q] = db.people[q]
         /\ ~row.active => \A f \in PhoneId(db) : db.phones[f].owner = p => d.phones[f].revoked
<1> DEFINE d == Written(db, p, row)
<1>1. /\ SoundTables(d, brink) /\ Grown(db, d) /\ d.people[p] = row
      /\ \A q \in Person \ {p} : d.people[q] = db.people[q]
      /\ ~row.active => \A f \in PhoneId(db) : db.phones[f].owner = p => d.phones[f].revoked
  BY RowsAre, WrittenIsSound
<1> HIDE DEF d
<1>2. \A q \in Person : IsPerson(db, q) => IsPerson(d, q)
  BY <1>1, AccessNats DEF IsPerson
<1>3. HasAdmin(db) /\ ~LastAdmin(db, p, row) => HasAdmin(d)
  BY <1>1, RowsAre, AdminStays
<1>4. SoundTables(d, brink) /\ Grown(db, d) /\ (\A q \in Person : IsPerson(db, q) => IsPerson(d, q))
      /\ (HasAdmin(db) /\ ~LastAdmin(db, p, row) => HasAdmin(d))
      /\ d.people[p] = row /\ (\A q \in Person \ {p} : d.people[q] = db.people[q])
      /\ (~row.active => \A f \in PhoneId(db) : db.phones[f].owner = p => d.phones[f].revoked)
  BY <1>1, <1>2, <1>3
<1> QED
  BY <1>4 DEF d

LEMMA PatchStays == ASSUME AccessInv, NEW i \in sent, NEW p \in Person, NEW ch \in Patches, Patch(i, p, ch) PROVE AccessInv'
<1> DEFINE row == Patched(db.people[p], ch)
<1>1. /\ IsPerson(db, p) /\ ~LastAdmin(db, p, row) /\ Checked("patch", p, 0, row)
      /\ sent' = sent \ {i} /\ UNCHANGED <<db, brink>>
  BY DEF Patch
<1>2. row \in PersonRow /\ 0 \in Nat /\ sent' \subseteq sent
  BY <1>1, RowsAre, PatchedIsRow
<1> HIDE DEF row
<1> QED
  BY <1>1, <1>2, CheckStays

LEMMA PatchWrittenStays == ASSUME AccessInv, PatchWritten PROVE AccessInv'
<1> DEFINE p == task.who
           row == task.row
           d == Written(db, p, row)
<1>1. GatewayPatches /\ Finishes(d)
  BY DEF PatchWritten
<1>2. p \in Person /\ row \in PersonRow /\ IsPerson(db, p)
  BY <1>1, TaskIs DEF GatewayPatches
<1>3. overlapped \/ ~LastAdmin(db, p, row)
  BY <1>1, Zenon DEF AccessInv, AdminKept, PatchChecked
<1> HIDE DEF p, row
<1>4. /\ SoundTables(d, brink) /\ Grown(db, d)
      /\ \A q \in Person : IsPerson(db, q) => IsPerson(d, q)
      /\ HasAdmin(db) /\ ~LastAdmin(db, p, row) => HasAdmin(d)
  BY <1>2, WrittenKeeps
<1> HIDE DEF d
<1>5. /\ db' = d /\ task' = <<>> /\ UNCHANGED <<clockA, sent, ctlJob, brink>>
      /\ overlapped' = (overlapped \/ (ctlJob # <<>> /\ d.people # db.people))
  BY <1>1 DEF Finishes
<1>6. TaskInv' /\ ~GatewayPatches'
  BY <1>5 DEF TaskInv, GatewayPatches
<1>7. overlapped \/ (HasAdmin(db) => HasAdmin(d))
  BY <1>3, <1>4
<1>8. (ctlJob # <<>>) \in BOOLEAN /\ (ctlJob' # <<>> => ctlJob # <<>> /\ ctlJob' = ctlJob) /\ sent' \subseteq sent
  BY <1>5
<1> QED
  BY <1>4, <1>5, <1>6, <1>7, <1>8, PeopleChange

\* gwctl.
LEMMA CtlReadStays == ASSUME AccessInv, NEW p \in Person, NEW ch \in Patches, CtlRead(p, ch) PROVE AccessInv'
<1> DEFINE row == Patched(db.people[p], ch)
<1>1. /\ IsPerson(db, p) /\ ~LastAdmin(db, p, row) /\ ctlJob = <<>> /\ ctlJob' = <<p, row>>
      /\ UNCHANGED <<db, clockA, sent, overlapped, task, brink>>
  BY DEF CtlRead
<1>2. row \in PersonRow
  BY <1>1, RowsAre, PatchedIsRow
<1> HIDE DEF row
<1>3. AccessTypes'
  BY <1>1, <1>2, Zenon DEF AccessInv, AccessTypes, IsPerson, PhoneId, SessionId, PersonRow, Roles
<1>4. AdminKept'
  BY <1>1, Zenon DEF AccessInv, AdminKept, PatchChecked, GatewayPatches, HasAdmin, LastAdmin, Active, IsPerson
<1>5. SoundTables(db', brink')
  BY <1>1, RowsAre
<1>6. TaskInv'
  BY <1>1, TaskGrows DEF Grown
<1> QED
  BY <1>1, <1>3, <1>4, <1>5, <1>6, SoundThen DEF AccessInv

LEMMA CtlWriteStays == ASSUME AccessInv, CtlWrite PROVE AccessInv'
<1> DEFINE p == ctlJob[1]
           row == ctlJob[2]
           d == Written(db, p, row)
<1>1. /\ ctlJob # <<>> /\ db' = d /\ ctlJob' = <<>> /\ UNCHANGED <<clockA, sent, brink>>
      /\ overlapped' = (overlapped \/ (GatewayPatches /\ d.people # db.people))
      /\ task' = IF task # <<>> /\ task.who = p /\ ~(row.active /\ row.web) THEN [task EXCEPT !.crossed = TRUE] ELSE task
  BY DEF CtlWrite
<1>2. p \in Person /\ row \in PersonRow /\ IsPerson(db, p)
  BY <1>1 DEF AccessInv, AccessTypes
<1>3. overlapped \/ ~LastAdmin(db, p, row)
  BY <1>1, Zenon DEF AccessInv, AdminKept
<1> HIDE DEF p, row
<1>4. /\ SoundTables(d, brink) /\ Grown(db, d)
      /\ \A q \in Person : IsPerson(db, q) => IsPerson(d, q)
      /\ HasAdmin(db) /\ ~LastAdmin(db, p, row) => HasAdmin(d)
      /\ d.people[p] = row /\ \A q \in Person \ {p} : d.people[q] = db.people[q]
      /\ ~row.active => \A f \in PhoneId(db) : db.phones[f].owner = p => d.phones[f].revoked
  BY <1>2, WrittenKeeps
<1> HIDE DEF d
<1>5. task # <<>> =>
        /\ task' \in Tasks /\ task' # <<>> /\ task'.does = task.does /\ task'.who = task.who /\ task'.of = task.of /\ task'.row = task.row
        /\ task.crossed => task'.crossed
        /\ task.who = p /\ ~(row.active /\ row.web) => task'.crossed
  <2> SUFFICES ASSUME task # <<>>
      PROVE  /\ task' \in Tasks /\ task' # <<>> /\ task'.does = task.does /\ task'.who = task.who /\ task'.of = task.of /\ task'.row = task.row
             /\ task.crossed => task'.crossed
             /\ task.who = p /\ ~(row.active /\ row.web) => task'.crossed
    OBVIOUS
  <2>1. task \in Tasks
    BY TaskIs
  <2>2. CASE task.who = p /\ ~(row.active /\ row.web)
    <3>1. task' = [task EXCEPT !.crossed = TRUE]
      BY <1>1, <2>2
    <3>2. task' = [does |-> task.does, who |-> task.who, of |-> task.of, row |-> task.row, crossed |-> TRUE]
      BY <2>1, <3>1 DEF Tasks
    <3>3. task' \in Tasks
      BY <2>1, <3>2 DEF Tasks
    <3> QED
      BY <3>2, <3>3
  <2>3. CASE ~(task.who = p /\ ~(row.active /\ row.web))
    <3>1. task' = task
      BY <1>1, <2>3
    <3> QED
      BY <2>1, <2>3, <3>1
  <2> QED
    BY <2>2, <2>3
<1>6. task = <<>> => task' = <<>>
  BY <1>1
<1>7. TaskInv'
  <2> SUFFICES ASSUME task # <<>> PROVE TaskInv'
    BY <1>6 DEF TaskInv
  <2>1. /\ task.who \in Person
        /\ task.does = "login" /\ ~task.crossed => MayWeb(db, task.who)
        /\ task.does \in {"appLogin", "enrol"} /\ ~task.crossed => Active(db, task.who)
        /\ task.does = "enrol" => task.of \in CodeId(db)
        /\ task.does = "session" => /\ task.of \in PhoneId(db) /\ db.phones[task.of].owner = task.who
                                    /\ Active(db, task.who) \/ db.phones[task.of].revoked
        /\ task.does = "patch" => task.row \in PersonRow /\ IsPerson(db, task.who)
    BY TaskIs
  <2>2. row # NoPerson
    BY <1>2, AccessNats
  <2>3. \A q \in Person : (q # p \/ row.active) => (Active(db, q) => Active(d, q))
    BY <1>4, <2>2, Zenon DEF Active, IsPerson
  <2>4. \A q \in Person : (q # p \/ (row.active /\ row.web)) => (MayWeb(db, q) => MayWeb(d, q))
    BY <1>4, <2>2, Zenon DEF MayWeb, Active, IsPerson
  <2>5. /\ PhoneId(db) \subseteq PhoneId(d) /\ CodeId(db) \subseteq CodeId(d)
        /\ \A f \in PhoneId(db) : f \in PhoneId(d) /\ d.phones[f].owner = db.phones[f].owner
                                  /\ (db.phones[f].revoked => d.phones[f].revoked)
    BY <1>4 DEF Grown
  <2>6. task' \in Tasks' /\ task'.who = task.who /\ task'.of = task.of /\ task'.row = task.row /\ task'.does = task.does
    BY <1>5, Zenon DEF Tasks, PersonRow, Roles
  <2>7. task.does = "login" /\ ~task'.crossed => MayWeb(d, task.who)
    BY <1>5, <2>1, <2>4, Zenon
  <2>8. task.does \in {"appLogin", "enrol"} /\ ~task'.crossed => Active(d, task.who)
    BY <1>5, <2>1, <2>3, Zenon
  <2>9. task.does = "enrol" => task.of \in CodeId(d)
    BY <2>1, <2>5
  <2>10. task.does = "session" => /\ task.of \in PhoneId(d) /\ d.phones[task.of].owner = task.who
                                  /\ Active(d, task.who) \/ d.phones[task.of].revoked
    BY <1>4, <2>1, <2>3, <2>5, Zenon
  <2>11. task.does = "patch" => task.row \in PersonRow /\ IsPerson(d, task.who)
    BY <1>4, <2>1, Zenon
  <2> QED
    BY <1>1, <2>6, <2>7, <2>8, <2>9, <2>10, <2>11, Zenon DEF TaskInv, MayWeb, Active, IsPerson, PhoneId, CodeId, PersonRow, Roles
<1>8. GatewayPatches' => GatewayPatches /\ task'.who = task.who /\ task'.row = task.row
  BY <1>5, <1>6, Zenon DEF GatewayPatches
<1>9. GatewayPatches \in BOOLEAN /\ sent' \subseteq sent /\ (overlapped \/ (HasAdmin(db) => HasAdmin(d)))
  BY <1>1, <1>3, <1>4 DEF GatewayPatches
<1> QED
  BY <1>1, <1>4, <1>7, <1>8, <1>9, PeopleChange

LEMMA CtlCodeStays == ASSUME AccessInv, NEW p \in Person, CtlCode(p) PROVE AccessInv'
<1>1. CtlDoes(CodeMade(db, p)) /\ Alone
  BY DEF CtlCode, Does
<1>2. SoundTables(CodeMade(db, p), brink) /\ Grown(db, CodeMade(db, p)) /\ CodeMade(db, p).people = db.people
  BY RowsAre, CodeMadeIsSound
<1> QED
  BY <1>1, <1>2, PeopleStayAlone

LEMMA CtlRevokeStays == ASSUME AccessInv, NEW f \in PhoneId(db), CtlRevoke(f) PROVE AccessInv'
<1>1. CtlDoes(PhoneRevoked(db, f)) /\ Alone
  BY DEF CtlRevoke, Does
<1> QED
  BY <1>1, RowsAre, PhoneRevokedFewer, FewerStays

\* With the time, fewer phones count.
LEMMA TickStays == ASSUME AccessInv, AccessTick PROVE AccessInv'
<1>1. clockA < LastTick /\ clockA' = clockA + 1 /\ UNCHANGED <<db, sent, ctlJob, overlapped, task, brink>>
  BY DEF AccessTick
<1>2. clockA \in Nat /\ clockA' \in 0..LastTick /\ db \in Tables
  BY <1>1, RowsAre, AccessNats
<1>3. Limited(db, brink)'
  <2>1. ASSUME NEW P PROVE Counted(db, P)' \ brink' \subseteq Counted(db, P) \ brink
    <3>1. \A f \in PhoneId(db) : db.phones[f].expires \in Int
      BY RowsAre, AccessNats DEF PhoneRow
    <3> QED
      BY <1>1, <1>2, <3>1 DEF Counted, PhoneId
  <2>2. Limited(db, brink)
    BY RowsAre DEF SoundTables
  <2>3. ASSUME NEW p \in Person PROVE Cardinality(Counted(db, {p})' \ brink') <= MaxPerPerson
    BY <1>2, <2>1, <2>2, CountedFinite, NoMoreCounted, AccessNats DEF Limited
  <2>4. Cardinality(Counted(db, Person)' \ brink') <= MaxTotal
    BY <1>2, <2>1, <2>2, CountedFinite, NoMoreCounted, AccessNats DEF Limited
  <2> QED
    BY <2>3, <2>4 DEF Limited
<1>4. SoundTables(db, brink)'
  BY <1>1, <1>3, RowsAre DEF SoundTables, Tables, Linked, Rightful, MayWeb, CodesOnce, PhoneId, SessionId, CodeId, Active, IsPerson,
              PersonRow, PhoneRow, SessionRow, CodeRow, Roles
<1>5. AccessTypes'
  BY <1>1, <1>2, Zenon DEF AccessInv, AccessTypes, IsPerson, PhoneId, SessionId, PersonRow, Roles
<1>6. AdminKept'
  BY <1>1, Zenon DEF AccessInv, AdminKept, PatchChecked, GatewayPatches, HasAdmin, LastAdmin, Active, IsPerson
<1>7. TaskInv'
  BY <1>1, TaskGrows DEF Grown
<1> QED
  BY <1>4, <1>5, <1>6, <1>7 DEF AccessInv

LEMMA AccessInvStays == AccessInv /\ [AccessNext]_accessVars => AccessInv'
<1> SUFFICES ASSUME AccessInv, [AccessNext]_accessVars PROVE AccessInv'
  OBVIOUS
<1>1. ASSUME NEW p \in Person, WebLogin(p) \/ AppLogin(p) \/ CredentialsChanged(p) \/ CtlCode(p) PROVE AccessInv'
  BY <1>1, LoginStays, CredentialsStay, CtlCodeStays
<1>2. ASSUME NEW p \in Person, NEW role \in Roles, CtlCreate(p, role) \/ \E i \in sent : Create(i, p, role) PROVE AccessInv'
  <2>1. /\ ~IsPerson(db, p) /\ CtlDoes(Added(db, p, role)) /\ UNCHANGED <<clockA, ctlJob, brink>> /\ sent' \subseteq sent
    <3>1. CASE CtlCreate(p, role)
      BY <3>1 DEF CtlCreate, Alone
    <3>2. ASSUME NEW i \in sent, Create(i, p, role)
          PROVE  ~IsPerson(db, p) /\ CtlDoes(Added(db, p, role)) /\ UNCHANGED <<clockA, ctlJob, brink>> /\ sent' \subseteq sent
      BY <3>2 DEF Create, Does
    <3> QED
      BY <1>2, <3>1, <3>2
  <2> QED
    BY <2>1, AddedStays
<1>3. ASSUME NEW p \in Person, NEW ch \in Patches, CtlRead(p, ch) \/ \E i \in sent : Patch(i, p, ch) PROVE AccessInv'
  BY <1>3, CtlReadStays, PatchStays
<1>4. ASSUME NEW c \in CodeId(db), Enrol(c) PROVE AccessInv'
  BY <1>4, EnrolStays
<1>5. ASSUME NEW f \in PhoneId(db), DeviceRequest(f) \/ AppSession(f) \/ AppLogout(f) \/ CtlRevoke(f) PROVE AccessInv'
  BY <1>5, DeviceRequestStays, AppSessionStays, AppLogoutStays, CtlRevokeStays
<1>6. ASSUME NEW i \in SessionId(db), SessionRequest(i) \/ Logout(i) \/ Admit(i) PROVE AccessInv'
  BY <1>6, SessionRequestStays, LogoutStays, AdmitStays
<1>7. ASSUME NEW i \in SessionId(db), NEW f \in PhoneId(db), Revoke(i, f) PROVE AccessInv'
  BY <1>7, RevokeStays
<1>8. ASSUME NEW i \in SessionId(db), NEW p \in Person, EnrolCode(i, p) PROVE AccessInv'
  BY <1>8, EnrolCodeStays
<1>9. CASE UNCHANGED accessVars
  <2>1. UNCHANGED <<db, clockA, sent, ctlJob, overlapped, task, brink>>
    BY <1>9 DEF accessVars
  <2>2. SoundTables(db', brink')
    BY <2>1, RowsAre
  <2>3. AccessTypes'
    BY <2>1, Zenon DEF AccessInv, AccessTypes, IsPerson, PhoneId, SessionId, PersonRow, Roles
  <2>4. AdminKept'
    BY <2>1, Zenon DEF AccessInv, AdminKept, PatchChecked, GatewayPatches, HasAdmin, LastAdmin, Active, IsPerson
  <2>5. TaskInv'
    BY <2>1, TaskGrows DEF Grown
  <2> QED
    BY <2>1, <2>2, <2>3, <2>4, <2>5, SoundThen DEF AccessInv
<1> QED
  BY <1>1, <1>2, <1>3, <1>4, <1>5, <1>6, <1>7, <1>8, <1>9, SignedInStays, AppSignedInStays, EnrolledStays, AppSessionOpenStays,
     PatchWrittenStays, CtlWriteStays, TickStays, Zenon DEF AccessNext

LEMMA AccessIsSafe == AccessInv => AccessSafe
<1> SUFFICES ASSUME AccessInv PROVE AccessSafe
  OBVIOUS
<1>1. db \in Tables /\ Linked(db) /\ Rightful(db) /\ CodesOnce(db) /\ Limited(db, brink) /\ AccessTypes /\ AdminKept
  BY DEF AccessInv, SoundTables
<1>2. AccessTypeOK
  <2>1. \A f \in PhoneId(db) : db.phones[f] \in
          [owner : Person, expires : 0..LastTick + Sliding, revoked : BOOLEAN, from : 0..Len(db.codes),
           crossed : BOOLEAN]
    BY <1>1, RowsAre DEF Linked, PhoneRow
  <2>2. \A i \in SessionId(db) : db.sessions[i] \in
          [owner : Person, phone : 0..Len(db.phones), last : 0..LastTick, ends : 0..LastTick + AbsTtl,
           kept : BOOLEAN, crossed : BOOLEAN]
    BY <1>1, RowsAre DEF Linked, SessionRow
  <2> QED
    BY <1>1, <2>1, <2>2, RowsAre, Zenon DEF AccessTypeOK, AccessTypes, PersonRow, CodeRow
<1>3. AdminLeft
  BY <1>1, Zenon DEF AdminLeft, AdminKept, HasAdmin
<1>4. StreamsMayTrust
  BY <1>1, Zenon DEF StreamsMayTrust, StreamGood, SessionGood, Timely, Rightful, MayWeb
<1>5. InactiveHoldsNothing
  BY <1>1, Zenon DEF InactiveHoldsNothing, Rightful, MayWeb, Active
<1>6. CodesAreSingle
  BY <1>1, Zenon DEF CodesAreSingle, CodesOnce
<1>7. DeviceLimits
  BY <1>1, Zenon DEF DeviceLimits, Limited
<1> QED
  BY <1>2, <1>3, <1>4, <1>5, <1>6, <1>7 DEF AccessSafe

\* Who may use the gateway, in every order of sign-ins, enrolments, patches and revocations, with gwctl on the
\* same database: somebody can manage the system, a person who was deactivated holds nothing, a code makes one
\* phone, a stream is never trusted longer than a request, and the limits of phones hold (gw/people.py).
THEOREM AccessStaysRightful == PortalSpec => []AccessHold
<1> DEFINE Inv == part = "access" => AccessInv
<1>1. PortalInit => Inv
  BY PartStarts, AccessStarts
<1>2. Inv /\ [PortalNext]_portalVars => Inv'
  BY PartMoves, AccessInvStays
<1>3. Inv => AccessHold
  BY AccessIsSafe DEF AccessHold
<1> QED
  BY <1>1, <1>2, <1>3, PTL DEF PortalSpec

-----------------------------------------------------------------------------
(* The rules of a schedule: comparing neighbours is enough.                *)

\* What a set of numbers has, without induction: a least one.
LEMMA NatLeast == ASSUME NEW S \in SUBSET Nat, S # {} PROVE \E m \in S : \A n \in S : m <= n
<1> DEFINE R == {ss \in Nat \X Nat : ss[1] < ss[2]}
<1>1. R = OpToRel(<, Nat)
  BY Zenon DEF OpToRel
<1>2. IsWellFoundedOn(R, Nat)
  BY <1>1, NatLessThanWellFounded, Zenon
<1> HIDE DEF R
<1>3. PICK m \in S : \A n \in S : <<n, m>> \notin R
  BY <1>2, WFMin, Zenon
<1>4. \A n \in S : n < m => <<n, m>> \in R
  BY DEF R
<1>5. \A n \in S : ~(n < m)
  BY <1>3, <1>4, Zenon
<1> QED
  BY <1>5

LEMMA SlotGreatest == ASSUME NEW S \in SUBSET Slot, S # {} PROVE \E m \in S : \A n \in S : n <= m
<1> DEFINE T == {k \in Nat : Horizon - k \in S}
<1>1. T \in SUBSET Nat /\ T # {}
  <2>1. PICK n \in S : TRUE
    OBVIOUS
  <2>2. Horizon - n \in Nat /\ Horizon - (Horizon - n) = n
    BY SchedulesNumbers DEF Slot
  <2> QED
    BY <2>1, <2>2
<1>2. PICK k \in T : \A n \in T : k <= n
  BY <1>1, NatLeast
<1>3. \A n \in S : Horizon - n \in T /\ n \in Int
  BY SchedulesNumbers DEF Slot
<1>4. Horizon - k \in S /\ k \in Nat
  BY <1>2
<1>5. \A n \in S : n <= Horizon - k
  BY <1>2, <1>3, <1>4, SchedulesNumbers
<1> QED
  BY <1>4, <1>5

\* Windows with ids of their own have an earliest one.
LEMMA EarliestExists ==
  ASSUME NEW pool \in SUBSET Window, pool # {}, \A r, s \in pool : r.id = s.id => r = s
  PROVE  \E s \in pool : \A x \in pool \ {s} : Before(s, x)
<1>1. \A r \in pool : r.id \in Nat /\ r.from \in Nat /\ r.to \in Nat
  BY SchedulesNumbers DEF Window, Slot
<1>2. PICK a \in pool : \A x \in pool : a.from <= x.from
  <2> DEFINE T == {n \in Nat : \E x \in pool : x.from = n}
  <2>1. T \in SUBSET Nat /\ T # {} /\ \A x \in pool : x.from \in T
    BY <1>1
  <2>2. PICK m \in T : \A n \in T : m <= n
    BY <2>1, NatLeast
  <2> QED
    BY <2>1, <2>2
<1>3. PICK b \in pool : b.from = a.from /\ \A x \in pool : x.from = a.from => b.to <= x.to
  <2> DEFINE P == {x \in pool : x.from = a.from}
  <2> DEFINE T == {n \in Nat : \E x \in P : x.to = n}
  <2>1. T \in SUBSET Nat /\ T # {} /\ \A x \in P : x.to \in T
    BY <1>1
  <2>2. PICK m \in T : \A n \in T : m <= n
    BY <2>1, NatLeast
  <2> QED
    BY <2>1, <2>2
<1>4. PICK c \in pool : /\ c.from = a.from /\ c.to = b.to
                        /\ \A x \in pool : x.from = a.from /\ x.to = b.to => c.id <= x.id
  <2> DEFINE P == {x \in pool : x.from = a.from /\ x.to = b.to}
  <2> DEFINE T == {n \in Nat : \E x \in P : x.id = n}
  <2>1. T \in SUBSET Nat /\ T # {} /\ \A x \in P : x.id \in T
    BY <1>1, <1>3
  <2>2. PICK m \in T : \A n \in T : m <= n
    BY <2>1, NatLeast
  <2> QED
    BY <2>1, <2>2
<1> QED
  BY <1>1, <1>2, <1>3, <1>4 DEF Before

\* The next start of a window is at most that of every later one, and of the last window at most every
\* start of the next week.
LEMMA NextIsNext ==
  ASSUME NEW rules \in SUBSET Window, \A r, s \in rules : r.id = s.id => r = s, NEW r \in rules
  PROVE  /\ NextStart(r, rules) \in Int
         /\ \A x \in rules : Before(r, x) => NextStart(r, rules) <= x.from
         /\ (\A x \in rules : ~Before(r, x)) => \A x \in rules : NextStart(r, rules) <= x.from + Horizon
<1>1. \A x \in rules : x.id \in Nat /\ x.from \in Nat /\ x.to \in Nat
  BY SchedulesNumbers DEF Window, Slot
<1> DEFINE later == {s \in rules : Before(r, s)}
           pool == IF later = {} THEN rules ELSE later
           s == Neighbour(r, rules)
<1>2. s \in pool /\ \A x \in pool \ {s} : Before(s, x)
  <2>1. \E y \in pool : \A x \in pool \ {y} : Before(y, x)
    BY EarliestExists
  <2>2. s = CHOOSE y \in pool : \A x \in pool \ {y} : Before(y, x)
    BY Zenon DEF Neighbour
  <2> HIDE DEF pool, s
  <2> QED
    BY <2>1, <2>2, Zenon
<1>3. NextStart(r, rules) = IF Before(r, s) THEN s.from ELSE s.from + Horizon
  BY DEF NextStart
<1>4. s \in rules /\ (later # {} => Before(r, s))
  BY <1>2
<1>5. \A x \in pool : s.from <= x.from
  <2> HIDE DEF s
  <2>1. \A x \in pool : x \in rules
    OBVIOUS
  <2> HIDE DEF pool
  <2> QED
    BY <1>1, <1>2, <1>4, <2>1 DEF Before
<1> HIDE DEF s
<1>6. NextStart(r, rules) \in Int
  BY <1>1, <1>3, <1>4, SchedulesNumbers
<1>7. \A x \in rules : Before(r, x) => NextStart(r, rules) <= x.from
  BY <1>3, <1>4, <1>5
<1>8. (\A x \in rules : ~Before(r, x)) => \A x \in rules : NextStart(r, rules) <= x.from + Horizon
  <2> SUFFICES ASSUME \A x \in rules : ~Before(r, x), NEW x \in rules PROVE NextStart(r, rules) <= x.from + Horizon
    OBVIOUS
  <2>1. x \in pool
    OBVIOUS
  <2>2. ~Before(r, s) /\ s.from <= x.from
    BY <1>4, <1>5, <2>1
  <2> HIDE DEF pool
  <2> QED
    BY <1>1, <1>3, <1>4, <2>2, SchedulesNumbers
<1> QED
  BY <1>6, <1>7, <1>8

\* Comparing neighbours is enough: all windows keep their distance, round the week.
LEMMA ValidIsRespected ==
  ASSUME NEW rules \in SUBSET Window, NEW g \in Guard, ValidRules(rules, g)
  PROVE  Respected(rules, g)
<1>1. \A x \in rules : x.id \in Nat /\ x.from \in Slot /\ x.to \in Slot /\ x.from < x.to
  BY DEF Window, ValidRules, RuleFits
<1>2. \A x, y \in rules : x.id = y.id => x = y
  BY DEF ValidRules
<1>3. g.gap \in Nat /\ Horizon \in Nat
  BY SchedulesNumbers DEF Guard
<1>4. \A x, y \in rules : x # y => Before(x, y) \/ Before(y, x)
  BY <1>1, <1>2, SchedulesNumbers DEF Before, Slot
<1>5. \A x, y \in rules : Before(x, y) => x.to + g.gap <= y.from
  <2> SUFFICES ASSUME NEW x \in rules, NEW y \in rules, Before(x, y) PROVE x.to + g.gap <= y.from
    OBVIOUS
  <2>1. NextStart(x, rules) \in Int /\ NextStart(x, rules) <= y.from
    BY <1>2, NextIsNext
  <2>2. NextStart(x, rules) - x.to >= g.gap
    BY DEF ValidRules
  <2> QED
    BY <1>1, <1>3, <2>1, <2>2 DEF Slot
<1>6. \A x, y \in rules : x.to + g.gap <= y.from + Horizon
  <2> SUFFICES ASSUME NEW x \in rules, NEW y \in rules PROVE x.to + g.gap <= y.from + Horizon
    OBVIOUS
  <2>1. PICK l \in rules : \A z \in rules : z.from <= l.from
    <3>1. {z.from : z \in rules} \in SUBSET Slot /\ {z.from : z \in rules} # {}
      BY <1>1
    <3> QED
      BY <3>1, SlotGreatest
  <2>2. \A z \in rules : ~Before(l, z)
    BY <1>1, <1>3, <1>5, <2>1 DEF Slot
  <2>3. NextStart(l, rules) \in Int /\ NextStart(l, rules) <= y.from + Horizon
    BY <1>2, <2>2, NextIsNext
  <2>4. NextStart(l, rules) - l.to >= g.gap
    BY DEF ValidRules
  <2>5. l.to + g.gap <= y.from + Horizon
    BY <1>1, <1>3, <2>3, <2>4 DEF Slot
  <2>6. x.to <= l.to
    <3>1. x # l => x.to + g.gap <= l.from
      BY <1>4, <1>5, <2>2
    <3> QED
      BY <1>1, <1>3, <3>1 DEF Slot
  <2> QED
    BY <1>1, <1>3, <2>5, <2>6 DEF Slot
<1>7. \A x \in rules : RuleFits(x, g) /\ Horizon - Length(x) >= g.gap
  BY <1>1, <1>3, <1>6 DEF ValidRules, Length, Slot
<1>8. \A x, y \in rules : x # y => Apart(x, y, g.gap)
  BY <1>4, <1>5, <1>6 DEF Apart
<1> QED
  BY <1>7, <1>8 DEF Respected

-----------------------------------------------------------------------------
(* The edges of a day.                                                     *)

Edges == Slot \X {"on", "off"}

\* e is the last of some edges: off comes before on.
LastOf(e, past) == \A x \in past : x[1] < e[1] \/ (x[1] = e[1] /\ e[2] \in {"on", x[2]})

LEMMA LastExists == ASSUME NEW past \in SUBSET Edges, past # {} PROVE \E e \in past : LastOf(e, past)
<1>1. \A x \in past : x[1] \in Slot /\ x[2] \in {"on", "off"} /\ x = <<x[1], x[2]>>
  BY DEF Edges
<1>2. PICK a \in past : \A x \in past : x[1] <= a[1]
  <2> DEFINE T == {n \in Slot : \E x \in past : x[1] = n}
  <2>1. T \in SUBSET Slot /\ T # {} /\ \A x \in past : x[1] \in T
    BY <1>1
  <2>2. PICK m \in T : \A n \in T : n <= m
    BY <2>1, SlotGreatest
  <2> QED
    BY <2>1, <2>2
<1>3. \A x \in past : x[1] < a[1] \/ x[1] = a[1]
  BY <1>1, <1>2, SchedulesNumbers DEF Slot
<1>4. CASE \E x \in past : x[1] = a[1] /\ x[2] = "on"
  BY <1>3, <1>4 DEF LastOf
<1>5. CASE ~\E x \in past : x[1] = a[1] /\ x[2] = "on"
  BY <1>1, <1>3, <1>5 DEF LastOf
<1> QED
  BY <1>4, <1>5

LEMMA AfterEdgesIsLast ==
  ASSUME NEW edges \in SUBSET Edges, NEW t \in Slot, NEW s
  PROVE  \/ (\A e \in edges : e[1] > t) /\ AfterEdges(edges, t, s) = s
         \/ \E e \in edges : /\ e[1] <= t /\ AfterEdges(edges, t, s) = e[2]
                             /\ \A x \in edges : x[1] <= t =>
                                  x[1] < e[1] \/ (x[1] = e[1] /\ e[2] \in {"on", x[2]})
<1> DEFINE past == {e \in edges : e[1] <= t}
           last == CHOOSE e \in past : LastOf(e, past)
<1>1. AfterEdges(edges, t, s) = IF past = {} THEN s ELSE last[2]
  BY Zenon DEF AfterEdges, LastOf
<1>2. \A e \in edges : e[1] \in Slot
  BY DEF Edges
<1>3. CASE past = {}
  <2>1. \A e \in edges : e[1] > t
    BY <1>2, <1>3, SchedulesNumbers DEF Slot
  <2> QED
    BY <1>1, <1>3, <2>1
<1>4. CASE past # {}
  <2>1. past \in SUBSET Edges
    OBVIOUS
  <2>2. \E e \in past : LastOf(e, past)
    BY <1>4, <2>1, LastExists
  <2>3. last \in past /\ LastOf(last, past)
    BY <2>2, Zenon
  <2>4. AfterEdges(edges, t, s) = last[2]
    BY <1>1, <1>4
  <2> HIDE DEF last
  <2> QED
    BY <2>3, <2>4 DEF LastOf
<1> QED
  BY <1>3, <1>4

LEMMA NextEdgeIsNext ==
  ASSUME NEW edges \in SUBSET Edges, NEW t \in Slot
  PROVE  NextEdge(edges, t) \in Slot /\ \A x \in edges : x[1] > t => NextEdge(edges, t) <= x[1]
<1> DEFINE later == {e \in edges : e[1] > t}
           Next(m) == \E e \in later : e[1] = m /\ \A x \in later : m <= x[1]
           next == CHOOSE m \in Slot : Next(m)
<1>1. NextEdge(edges, t) = IF later = {} THEN Horizon ELSE next
  BY Zenon DEF NextEdge
<1>2. CASE later = {}
  BY <1>1, <1>2, SchedulesNumbers DEF Slot
<1>3. CASE later # {}
  <2>1. \A e \in later : e[1] \in Slot /\ e[1] \in Nat
    BY SchedulesNumbers DEF Edges, Slot
  <2> DEFINE T == {n \in Nat : \E x \in later : x[1] = n}
  <2>2. T \in SUBSET Nat /\ T # {} /\ \A x \in later : x[1] \in T
    BY <1>3, <2>1
  <2>3. PICK m \in T : \A n \in T : m <= n
    BY <2>2, NatLeast
  <2>4. m \in Slot /\ Next(m)
    BY <2>1, <2>2, <2>3
  <2>5. next \in Slot /\ Next(next)
    BY <2>4, Zenon
  <2>6. NextEdge(edges, t) = next
    BY <1>1, <1>3
  <2> HIDE DEF next
  <2> QED
    BY <2>5, <2>6
<1> QED
  BY <1>2, <1>3

\* The switching times of rules that do not overlap are the schedule that the service reports.
LEMMA EdgesAreTheSchedule ==
  ASSUME NEW rules \in SUBSET Window, NEW g \in Guard, Respected(rules, g),
         NEW skipped \in BOOLEAN, NEW t \in 0..Horizon - 1
  PROVE  LET edges == DayEdges(rules, skipped)
         IN  /\ AfterEdges(edges, t, "off") = TargetState(rules, skipped, t)
             /\ \A u \in t..NextEdge(edges, t) - 1 :
                  TargetState(rules, skipped, u) = TargetState(rules, skipped, t)
             /\ (rules # {} /\ \A r \in rules : r.to <= t) => AfterEdges(edges, t, "on") = "off"
<1> DEFINE edges == DayEdges(rules, skipped)
<1>1. \A r \in rules : r.from \in Nat /\ r.to \in Nat /\ r.from \in Slot /\ r.to \in Slot /\ r.from < r.to
  BY SchedulesNumbers DEF Window, Slot, Respected, RuleFits
<1>2. \A r, s \in rules : r = s \/ r.to <= s.from \/ s.to <= r.from
  <2> SUFFICES ASSUME NEW r \in rules, NEW s \in rules, r # s PROVE r.to <= s.from \/ s.to <= r.from
    OBVIOUS
  <2>1. Apart(r, s, g.gap) /\ g.gap \in Nat
    BY DEF Respected, Guard
  <2> QED
    BY <1>1, <2>1 DEF Apart
<1>3. t \in Nat /\ t \in Slot
  BY SchedulesNumbers DEF Slot
<1>4. \A r \in rules : <<r.to, "off">> \in edges /\ (~skipped => <<r.from, "on">> \in edges)
  BY DEF DayEdges
<1>5. \A e \in edges : \E r \in rules : e = <<r.to, "off">> \/ (~skipped /\ e = <<r.from, "on">>)
  BY DEF DayEdges
<1>6. edges \in SUBSET Edges
  BY <1>1, <1>5 DEF Edges
<1> HIDE DEF edges
<1>7. AfterEdges(edges, t, "off") = TargetState(rules, skipped, t)
  <2>1. CASE (\A e \in edges : e[1] > t) /\ AfterEdges(edges, t, "off") = "off"
    <3>1. \A r \in rules : ~skipped => r.from > t
      BY <1>4, <2>1
    <3> QED
      BY <1>1, <1>3, <2>1, <3>1 DEF TargetState
  <2>2. ASSUME NEW e \in edges, e[1] <= t, AfterEdges(edges, t, "off") = e[2],
               \A x \in edges : x[1] <= t => x[1] < e[1] \/ (x[1] = e[1] /\ e[2] \in {"on", x[2]})
        PROVE  AfterEdges(edges, t, "off") = TargetState(rules, skipped, t)
    <3>1. PICK r \in rules : e = <<r.to, "off">> \/ (~skipped /\ e = <<r.from, "on">>)
      BY <1>5
    <3>2. CASE ~skipped /\ e = <<r.from, "on">>
      <4>1. r.from <= t
        BY <2>2, <3>2
      <4>2. ~(r.to <= t)
        <5>1. <<r.to, "off">> \in edges
          BY <1>4
        <5> QED
          BY <1>1, <2>2, <3>2, <5>1
      <4> QED
        BY <1>1, <1>3, <2>2, <3>2, <4>1, <4>2 DEF TargetState
    <3>3. CASE e = <<r.to, "off">>
      <4> SUFFICES ASSUME ~skipped, NEW s \in rules, s.from <= t, t < s.to PROVE FALSE
        BY <2>2, <3>3 DEF TargetState
      <4>1. <<s.from, "on">> \in edges
        BY <1>4
      <4>2. s.from < r.to
        BY <2>2, <3>3, <4>1
      <4>3. r.to <= t
        BY <2>2, <3>3
      <4> QED
        BY <1>1, <1>2, <1>3, <4>2, <4>3
    <3> QED
      BY <3>1, <3>2, <3>3
  <2> QED
    BY <1>3, <1>6, <2>1, <2>2, AfterEdgesIsLast
<1>8. ASSUME NEW u \in t..NextEdge(edges, t) - 1
      PROVE  TargetState(rules, skipped, u) = TargetState(rules, skipped, t)
  <2>1. NextEdge(edges, t) \in Nat /\ \A x \in edges : x[1] > t => NextEdge(edges, t) <= x[1]
    BY <1>3, <1>6, NextEdgeIsNext, SchedulesNumbers DEF Slot
  <2>2. u \in Nat /\ t <= u /\ u < NextEdge(edges, t)
    BY <1>3, <2>1
  <2>3. ASSUME NEW r \in rules, r.to > t PROVE u < r.to
    <3>1. <<r.to, "off">> \in edges /\ <<r.to, "off">>[1] = r.to
      BY <1>4
    <3>2. NextEdge(edges, t) <= r.to
      BY <2>1, <2>3, <3>1, Zenon
    <3> QED
      BY <1>1, <2>1, <2>2, <3>2
  <2>4. ASSUME ~skipped, NEW r \in rules, r.from > t PROVE u < r.from
    <3>1. <<r.from, "on">> \in edges /\ <<r.from, "on">>[1] = r.from
      BY <1>4, <2>4
    <3>2. NextEdge(edges, t) <= r.from
      BY <2>1, <2>4, <3>1, Zenon
    <3> QED
      BY <1>1, <2>1, <2>2, <3>2
  <2>5. ~skipped => \A r \in rules : (r.from <= t /\ t < r.to) <=> (r.from <= u /\ u < r.to)
    BY <1>1, <1>3, <2>2, <2>3, <2>4
  <2> QED
    BY <2>5 DEF TargetState
<1>9. ASSUME rules # {}, \A r \in rules : r.to <= t PROVE AfterEdges(edges, t, "on") = "off"
  <2>1. PICK r \in rules : TRUE
    BY <1>9
  <2>2. ~(\A e \in edges : e[1] > t)
    <3>1. <<r.to, "off">> \in edges /\ r.to <= t
      BY <1>4, <1>9
    <3> QED
      BY <1>1, <1>3, <3>1
  <2>3. PICK e \in edges : /\ e[1] <= t /\ AfterEdges(edges, t, "on") = e[2]
                           /\ \A x \in edges : x[1] <= t =>
                                x[1] < e[1] \/ (x[1] = e[1] /\ e[2] \in {"on", x[2]})
    BY <1>3, <1>6, <2>2, AfterEdgesIsLast
  <2>4. PICK s \in rules : e = <<s.to, "off">> \/ (~skipped /\ e = <<s.from, "on">>)
    BY <1>5
  <2>5. <<s.to, "off">> \in edges /\ s.to <= t
    BY <1>4, <1>9
  <2>6. e # <<s.from, "on">>
    BY <1>1, <2>3, <2>5
  <2> QED
    BY <2>3, <2>4, <2>6
<1> QED
  BY <1>7, <1>8, <1>9 DEF edges

-----------------------------------------------------------------------------
(* Schedules: rules, versions, the audit.                                  *)

AuditValue == BOOLEAN \cup RuleSets \cup Guards \cup TokenId \cup Nat \cup {NoEntity}
OfRules == {"update", "undo", "entity_add"}
OtherActions == {"exception_add", "exception_delete", "guardrails", "entity", "token_create", "token_revoke", "applied"}
ScheduleRow ==
  [action : OfRules \cup OtherActions, by : TokenId \cup {"applier"}, entity : EntityId \cup {NoEntity},
   before : AuditValue, after : AuditValue]
PutRequest == [kind : {"put"}, entity : EntityId, version : Nat, rules : RuleSets, saw : RuleSets]
ScheduleView == [entity : EntityId, version : Nat, rules : RuleSets]

SchedTypes ==
  /\ entities \in [EntityId -> Entity \cup {NoEntity}]
  /\ tokens \in [TokenId -> {"none", "live", "revoked"}]
  /\ audit \in Seq(ScheduleRow)
  /\ inFlight \in [TokenId -> {NoRequest} \cup Requests \cup PutRequest]
  /\ views \in [TokenId -> {NoRequest} \cup ScheduleView]
  /\ verdict \in Nat /\ audited \in Nat /\ lastKey \in Nat /\ crashes \in Nat

\* The service's own check holds of what is stored.
RulesValid == \A e \in EntityId : Exists(e) => ValidRules(entities[e].rules, entities[e].guard)

\* Who saw a version saw its rules, and no version is from the future.
Sees(e, version, rules) ==
  Exists(e) /\ version <= entities[e].version /\ (version = entities[e].version => entities[e].rules = rules)
ViewsSeeThePast == \A t \in TokenId : views[t] # NoRequest => Sees(views[t].entity, views[t].version, views[t].rules)
PutsSeeThePast ==
  \A t \in TokenId : inFlight[t] # NoRequest /\ inFlight[t].kind = "put"
    => Sees(inFlight[t].entity, inFlight[t].version, inFlight[t].saw)

\* The rows on rules are rows of an entity that is there, and those that an undo reads hold rules.
RowsOfRules ==
  \A i \in 1..Len(audit) :
    /\ audit[i].action \in OfRules => audit[i].entity \in EntityId /\ Exists(audit[i].entity)
    /\ audit[i].action \in {"update", "undo"} => audit[i].before \in RuleSets

\* A row on a result of the applier is not later than the last one recorded.
AppliedRows ==
  /\ audited <= verdict
  /\ \A i \in 1..Len(audit) : audit[i].action = "applied" => audit[i].before \in Nat /\ audit[i].before <= audited
  /\ AppliedOnce

SchedInv ==
  /\ SchedTypes /\ RulesValid /\ ViewsSeeThePast /\ PutsSeeThePast
  /\ RowsOfRules /\ AuditExplains /\ AppliedRows

LEMMA SchedStarts == SchedInit => SchedInv
<1> SUFFICES ASSUME SchedInit PROVE SchedInv
  OBVIOUS
<1> DEFINE guard == CHOOSE g \in Guards : ValidGuard(g)
           first == [rules |-> {}, version |-> 1, guard |-> guard, editable |-> TRUE, skipped |-> FALSE]
<1>1. guard \in Guards
  BY SchedulesInputs, Zenon
<1>2. entities = [e \in EntityId |-> IF e \in Seeded THEN first ELSE NoEntity]
  BY Zenon DEF SchedInit
<1> HIDE DEF guard
<1>3. first \in Entity
  BY <1>1, SchedulesInputs DEF Entity
<1>4. ValidRules(first.rules, first.guard)
  BY DEF ValidRules
<1> HIDE DEF first
<1>5. SchedTypes
  <2>1. audit = <<>> /\ <<>> \in Seq(ScheduleRow)
    BY DEF SchedInit
  <2>2. entities \in [EntityId -> Entity \cup {NoEntity}]
    BY <1>2, <1>3
  <2> QED
    BY <2>1, <2>2 DEF SchedInit, SchedTypes
<1>6. RulesValid
  BY <1>2, <1>4 DEF RulesValid, Exists
<1>7. Len(audit) = 0 /\ DOMAIN audit = {}
  BY DEF SchedInit
<1>8. AuditExplains
  BY <1>7 DEF AuditExplains, RuleRows, RuleChanges
<1>9. ViewsSeeThePast /\ PutsSeeThePast /\ RowsOfRules /\ AppliedRows
  BY <1>7 DEF SchedInit, ViewsSeeThePast, PutsSeeThePast, RowsOfRules, AppliedRows, AppliedOnce
<1> QED
  BY <1>5, <1>6, <1>8, <1>9 DEF SchedInv

\* What a new row of the audit is.
LEMMA RowAdded ==
  ASSUME SchedTypes, NEW row \in ScheduleRow, audit' = Append(audit, row)
  PROVE  /\ Len(audit) \in Nat /\ DOMAIN audit = 1..Len(audit)
         /\ audit' \in Seq(ScheduleRow) /\ Len(audit') = Len(audit) + 1 /\ DOMAIN audit' = 1..Len(audit')
         /\ audit'[Len(audit) + 1] = row /\ \A i \in 1..Len(audit) : audit'[i] = audit[i]
<1>1. audit \in Seq(ScheduleRow) /\ Len(audit) \in Nat
  BY DEF SchedTypes
<1>2. audit' \in Seq(ScheduleRow) /\ Len(audit') = Len(audit) + 1
  BY <1>1, AppendProperties
<1>3. audit'[Len(audit) + 1] = row /\ \A i \in 1..Len(audit) : audit'[i] = audit[i]
  BY <1>1, AppendProperties
<1> QED
  BY <1>1, <1>2, <1>3

LEMMA RuleRowsAre ==
  SchedTypes => \A e \in EntityId : RuleRows(e) = {i \in 1..Len(audit) : audit[i].entity = e /\ audit[i].action \in OfRules}
<1> SUFFICES ASSUME SchedTypes, NEW e \in EntityId
             PROVE RuleRows(e) = {i \in 1..Len(audit) : audit[i].entity = e /\ audit[i].action \in OfRules}
  OBVIOUS
<1>1. DOMAIN audit = 1..Len(audit)
  BY DEF SchedTypes
<1> QED
  BY <1>1 DEF RuleRows, RuleChanges, OfRules

LEMMA RuleRowsAreThen ==
  SchedTypes' => \A e \in EntityId : RuleRows(e)' = {i \in 1..Len(audit') : audit'[i].entity = e /\ audit'[i].action \in OfRules}
<1> SUFFICES ASSUME SchedTypes', NEW e \in EntityId
             PROVE RuleRows(e)' = {i \in 1..Len(audit') : audit'[i].entity = e /\ audit'[i].action \in OfRules}
  OBVIOUS
<1>1. DOMAIN audit' = 1..Len(audit')
  BY DEF SchedTypes
<1> QED
  BY <1>1 DEF RuleRows, RuleChanges, OfRules

\* A row keeps the account when it tells of the rules that it found and the rules that it left, and when
\* no other row goes with a change of rules.
LEMMA AccountStays ==
  ASSUME SchedTypes, SchedTypes', AuditExplains, NEW row \in ScheduleRow, audit' = Append(audit, row),
         \A e \in EntityId :
           IF row.entity = e /\ row.action \in OfRules
           THEN row.after = entities'[e].rules /\ (RuleRows(e) # {} => row.before = entities[e].rules)
           ELSE RuleRows(e) # {} => entities'[e].rules = entities[e].rules
  PROVE  AuditExplains'
<1> DEFINE k == Len(audit) + 1
<1>1. Len(audit) \in Nat /\ Len(audit') = k /\ audit'[k] = row /\ \A i \in 1..Len(audit) : audit'[i] = audit[i]
  BY RowAdded
<1> SUFFICES ASSUME NEW e \in EntityId, NEW i \in RuleRows(e)'
             PROVE  \/ /\ \A j \in RuleRows(e)' : j <= i
                       /\ audit'[i].after = entities'[e].rules
                    \/ \E j \in RuleRows(e)' :
                         /\ i < j /\ \A x \in RuleRows(e)' : x <= i \/ j <= x
                         /\ audit'[j].before = audit'[i].after
  BY DEF AuditExplains
<1> DEFINE Old == RuleRows(e)
           New == RuleRows(e)'
<1>2. /\ Old = {j \in 1..Len(audit) : audit[j].entity = e /\ audit[j].action \in OfRules}
      /\ New = {j \in 1..k : audit'[j].entity = e /\ audit'[j].action \in OfRules}
  BY <1>1, RuleRowsAre, RuleRowsAreThen
<1>3. New = IF row.entity = e /\ row.action \in OfRules THEN Old \cup {k} ELSE Old
  BY <1>1, <1>2
<1>4. \A j \in Old : j \in Nat /\ j < k /\ audit'[j] = audit[j]
  BY <1>1, <1>2
<1>5. \A h \in Old : \/ (\A j \in Old : j <= h) /\ audit[h].after = entities[e].rules
                     \/ \E j \in Old : /\ h < j /\ \A x \in Old : x <= h \/ j <= x
                                       /\ audit[j].before = audit[h].after
  BY Zenon DEF AuditExplains
<1>6. IF row.entity = e /\ row.action \in OfRules
      THEN row.after = entities'[e].rules /\ (Old # {} => row.before = entities[e].rules)
      ELSE Old # {} => entities'[e].rules = entities[e].rules
  OBVIOUS
<1>7. i \in New /\ k \in Nat
  BY <1>1
<1> HIDE DEF Old, New
<1>8. CASE row.entity = e /\ row.action \in OfRules
  <2>1. New = Old \cup {k} /\ audit'[k] = row
    BY <1>1, <1>3, <1>8
  <2> HIDE DEF k
  <2>2. CASE i = k
    <3>1. \A j \in New : j <= i
      BY <1>4, <1>7, <2>1, <2>2
    <3>2. audit'[i].after = entities'[e].rules
      BY <1>6, <1>8, <2>1, <2>2
    <3> QED
      BY <3>1, <3>2 DEF New
  <2>3. CASE i \in Old
    <3>1. CASE (\A j \in Old : j <= i) /\ audit[i].after = entities[e].rules
      <4>1. i < k /\ audit'[k].before = audit'[i].after
        BY <1>4, <1>6, <1>8, <2>1, <2>3, <3>1
      <4>2. \A x \in New : x <= i \/ k <= x
        BY <1>7, <2>1, <3>1
      <4> QED
        BY <2>1, <4>1, <4>2 DEF New
    <3>2. ASSUME NEW j \in Old, i < j, \A x \in Old : x <= i \/ j <= x, audit[j].before = audit[i].after
          PROVE  \E h \in New : i < h /\ (\A x \in New : x <= i \/ h <= x) /\ audit'[h].before = audit'[i].after
      <4>0. j \in Old /\ i \in Old
        BY <2>3
      <4>1. audit'[j] = audit[j] /\ audit'[i] = audit[i]
        BY <1>4, <4>0, Zenon
      <4>2. j <= k
        BY <1>4, <1>7, <4>0
      <4> QED
        BY <2>1, <3>2, <4>1, <4>2
    <3> QED
      BY <1>5, <2>3, <3>1, <3>2 DEF New
  <2> QED
    BY <1>7, <2>1, <2>2, <2>3
<1>9. CASE ~(row.entity = e /\ row.action \in OfRules)
  <2>1. New = Old
    BY <1>3, <1>9
  <2>2. i \in Old
    BY <1>7, <2>1
  <2>3. entities'[e].rules = entities[e].rules
    BY <1>6, <1>9, <2>2
  <2>4. CASE (\A j \in Old : j <= i) /\ audit[i].after = entities[e].rules
    BY <1>4, <2>1, <2>2, <2>3, <2>4 DEF New
  <2>5. ASSUME NEW j \in Old, i < j, \A x \in Old : x <= i \/ j <= x, audit[j].before = audit[i].after
        PROVE  \E h \in New : i < h /\ (\A x \in New : x <= i \/ h <= x) /\ audit'[h].before = audit'[i].after
    BY <1>4, <2>1, <2>2, <2>5
  <2> QED
    BY <1>5, <2>2, <2>4, <2>5 DEF New
<1> QED
  BY <1>8, <1>9

\* Of the requests under way some end, and none comes.
RequestsOnlyEnd ==
  /\ inFlight' \in [TokenId -> {NoRequest} \cup Requests \cup PutRequest]
  /\ \A t \in TokenId : inFlight'[t] # NoRequest => inFlight'[t] = inFlight[t]

\* The steps that change one entity and tell of it.
LEMMA EntityChanges ==
  ASSUME SchedInv, NEW e \in EntityId, NEW new \in Entity, NEW row \in ScheduleRow,
         entities' = [entities EXCEPT ![e] = new], audit' = Append(audit, row),
         ValidRules(new.rules, new.guard),
         Exists(e) => /\ entities[e].version <= new.version
                      /\ new.version = entities[e].version => new.rules = entities[e].rules,
         row.entity = e, row.action # "applied",
         row.action \in {"update", "undo"} => row.before \in RuleSets,
         IF row.action \in OfRules THEN row.after = new.rules /\ (Exists(e) => row.before = entities[e].rules)
                                   ELSE Exists(e) /\ new.rules = entities[e].rules,
         UNCHANGED <<tokens, views, verdict, audited, lastKey, crashes>>, RequestsOnlyEnd
  PROVE  SchedInv'
<1> USE DEF SchedInv
<1>1. new # NoEntity
  BY SchedulesNames
<1>2. /\ entities' \in [EntityId -> Entity \cup {NoEntity}] /\ entities'[e] = new
      /\ \A f \in EntityId : f # e => entities'[f] = entities[f]
  BY DEF SchedTypes
<1>3. SchedTypes'
  <2>1. audit' \in Seq(ScheduleRow)
    BY RowAdded
  <2> QED
    BY <1>2, <2>1 DEF SchedTypes, RequestsOnlyEnd
<1>4. \A f \in EntityId : Exists(f) => Exists(f)'
  BY <1>1, <1>2 DEF Exists
<1>5. RulesValid'
  BY <1>1, <1>2 DEF RulesValid, Exists
<1>6. \A f \in EntityId : Exists(f) =>
        /\ entities[f].version <= entities'[f].version
        /\ entities'[f].version = entities[f].version => entities'[f].rules = entities[f].rules
        /\ entities[f].version \in Nat /\ entities'[f].version \in Nat
  BY <1>1, <1>2 DEF Exists, SchedTypes, Entity
<1>7. ASSUME NEW f \in EntityId, NEW v \in Nat, NEW rules, Sees(f, v, rules) PROVE Sees(f, v, rules)'
  BY <1>4, <1>6, <1>7 DEF Sees
<1>8. ViewsSeeThePast'
  <2> SUFFICES ASSUME NEW t \in TokenId, views[t] # NoRequest
               PROVE Sees(views[t].entity, views[t].version, views[t].rules)'
    BY DEF ViewsSeeThePast
  <2>1. views[t] \in ScheduleView /\ Sees(views[t].entity, views[t].version, views[t].rules) /\ views'[t] = views[t]
    BY DEF SchedTypes, ViewsSeeThePast
  <2>2. views[t].entity \in EntityId /\ views[t].version \in Nat
    BY <2>1 DEF ScheduleView
  <2> DEFINE f == views[t].entity
             v == views[t].version
             rules == views[t].rules
  <2>3. f' = f /\ v' = v /\ rules' = rules
    BY <2>1
  <2>4. Exists(f)' /\ v <= entities'[f].version /\ (v = entities'[f].version => entities'[f].rules = rules)
    BY <1>7, <2>1, <2>2, ZenonT(60) DEF Sees
  <2> QED
    BY <2>3, <2>4 DEF Sees
<1>9. PutsSeeThePast'
  <2> SUFFICES ASSUME NEW t \in TokenId, inFlight'[t] # NoRequest, inFlight'[t].kind = "put"
               PROVE Sees(inFlight[t].entity, inFlight[t].version, inFlight[t].saw)'
    BY DEF PutsSeeThePast
  <2>1. inFlight'[t] = inFlight[t] /\ Sees(inFlight[t].entity, inFlight[t].version, inFlight[t].saw)
    BY DEF RequestsOnlyEnd, PutsSeeThePast
  <2>2. inFlight[t] \in PutRequest
    BY <2>1 DEF SchedTypes, Requests
  <2>3. inFlight[t].entity \in EntityId /\ inFlight[t].version \in Nat
    BY <2>2 DEF PutRequest
  <2> DEFINE f == inFlight[t].entity
             v == inFlight[t].version
             rules == inFlight[t].saw
  <2>4. f' = f /\ v' = v /\ rules' = rules
    BY <2>1
  <2>5. Exists(f)' /\ v <= entities'[f].version /\ (v = entities'[f].version => entities'[f].rules = rules)
    BY <1>7, <2>1, <2>3 DEF Sees
  <2> QED
    BY <2>4, <2>5 DEF Sees
<1>10. RowsOfRules'
  BY <1>1, <1>2, <1>4, RowAdded DEF RowsOfRules, Exists
<1>11. AuditExplains'
  <2>1. RuleRows(e) # {} => Exists(e)
    BY RuleRowsAre DEF RowsOfRules
  <2> QED
    BY <1>2, <1>3, <2>1, AccountStays
<1>12. AppliedRows'
  BY RowAdded DEF AppliedRows, AppliedOnce
<1> QED
  BY <1>3, <1>5, <1>8, <1>9, <1>10, <1>11, <1>12

\* The steps that leave the entities alone.
LEMMA EntitiesStay ==
  ASSUME SchedInv, SchedTypes', UNCHANGED <<entities, views>>, RequestsOnlyEnd,
         \/ UNCHANGED <<audit, audited>> /\ verdict <= verdict'
         \/ \E row \in ScheduleRow : /\ audit' = Append(audit, row) /\ row.action \in {"token_create", "token_revoke"}
                                  /\ UNCHANGED <<audited, verdict>>
         \/ \E row \in ScheduleRow : /\ audit' = Append(audit, row) /\ row.action = "applied" /\ row.before = verdict
                                  /\ audited # verdict /\ audited' = verdict /\ verdict' = verdict
  PROVE  SchedInv'
<1> USE DEF SchedInv
<1>1. RulesValid' /\ ViewsSeeThePast'
  BY DEF RulesValid, ViewsSeeThePast, Sees, Exists
<1>2. PutsSeeThePast'
  BY DEF PutsSeeThePast, RequestsOnlyEnd, Sees, Exists
<1>3. verdict \in Nat /\ audited \in Nat /\ verdict' \in Nat
  BY DEF SchedTypes
<1>4. CASE UNCHANGED <<audit, audited>> /\ verdict <= verdict'
  <2>1. RowsOfRules' /\ AppliedRows'
    BY <1>3, <1>4 DEF RowsOfRules, AppliedRows, AppliedOnce, Exists
  <2>2. AuditExplains'
    BY <1>4 DEF AuditExplains, RuleRows, RuleChanges
  <2> QED
    BY <1>1, <1>2, <2>1, <2>2
<1>5. ASSUME NEW row \in ScheduleRow, audit' = Append(audit, row), row.action \notin OfRules,
             row.action # "applied" \/ (audited # verdict /\ row.before = verdict),
             IF row.action = "applied" THEN audited' = verdict ELSE audited' = audited, verdict' = verdict
      PROVE  SchedInv'
  <2>1. RowsOfRules'
    BY <1>5, RowAdded DEF RowsOfRules, Exists, OfRules
  <2>2. AuditExplains'
    BY <1>5, AccountStays
  <2>3. AppliedRows'
    <3>1. CASE row.action # "applied"
      BY <1>5, <3>1, RowAdded DEF AppliedRows, AppliedOnce
    <3>2. CASE row.action = "applied"
      <4>1. audited < verdict /\ audited' = verdict /\ row.before = verdict
        BY <1>3, <1>5, <3>2 DEF AppliedRows
      <4> QED
        BY <1>3, <1>5, <4>1, RowAdded DEF AppliedRows, AppliedOnce
    <3> QED
      BY <3>1, <3>2
  <2> QED
    BY <1>1, <1>2, <2>1, <2>2, <2>3
<1>6. ASSUME NEW row \in ScheduleRow, audit' = Append(audit, row), row.action \in {"token_create", "token_revoke"},
             UNCHANGED <<audited, verdict>>
      PROVE  SchedInv'
  <2>1. row.action \notin OfRules /\ row.action # "applied"
    BY <1>6 DEF OfRules
  <2>2. verdict' = verdict /\ IF row.action = "applied" THEN audited' = verdict ELSE audited' = audited
    BY <1>6, <2>1
  <2>3. row.action # "applied" \/ (audited # verdict /\ row.before = verdict)
    BY <2>1, Zenon
  <2> QED
    BY <1>5, <1>6, <2>1, <2>2, <2>3, Zenon
<1>7. ASSUME NEW row \in ScheduleRow, audit' = Append(audit, row), row.action = "applied", row.before = verdict,
             audited # verdict, audited' = verdict, verdict' = verdict
      PROVE  SchedInv'
  BY <1>5, <1>7 DEF OfRules
<1> QED
  BY <1>4, <1>6, <1>7

LEMMA ValuesAreTold ==
  /\ \A b \in BOOLEAN : b \in AuditValue
  /\ \A rules \in RuleSets : rules \in AuditValue
  /\ \A g \in Guards : g \in AuditValue
  /\ \A u \in TokenId : u \in AuditValue
  /\ \A n \in Nat : n \in AuditValue
  /\ NoEntity \in AuditValue
  BY DEF AuditValue

LEMMA StoreStays ==
  ASSUME SchedInv, NEW t \in TokenId, NEW e \in EntityId, NEW rules \in RuleSets,
         NEW action \in {"update", "undo"}, Exists(e), ValidRules(rules, entities[e].guard),
         Store(t, e, rules, action),
         UNCHANGED <<tokens, views, verdict, audited, lastKey, crashes>>, RequestsOnlyEnd
  PROVE  SchedInv'
<1> DEFINE old == entities[e]
           new == Revised(old, rules)
           row == Row(action, t, e, old.rules, rules)
<1>1. old \in Entity
  BY DEF SchedInv, SchedTypes, Exists
<1>2. new \in Entity /\ new.rules = rules /\ new.guard = old.guard /\ new.version = old.version + 1
  BY <1>1 DEF Entity, Revised
<1>3. old.version \in Nat /\ old.rules \in RuleSets
  BY <1>1 DEF Entity
<1>4. row \in ScheduleRow
  BY <1>3, ValuesAreTold DEF ScheduleRow, OfRules, Row
<1>5. /\ row.entity = e /\ row.action = action /\ row.before = old.rules /\ row.after = rules
  BY DEF Row
<1>6. entities' = [entities EXCEPT ![e] = new] /\ audit' = Append(audit, row)
  BY DEF Store, Record
<1>7. action \in OfRules /\ action # "applied"
  BY DEF OfRules
<1> HIDE DEF new, row
<1>8. old.version <= new.version /\ (new.version = old.version => new.rules = old.rules)
  BY <1>2, <1>3
<1> QED
  BY <1>2, <1>3, <1>4, <1>5, <1>6, <1>7, <1>8, EntityChanges

\* The steps that change one flag of an entity, or its guardrails.
LEMMA OtherChangeStays ==
  ASSUME SchedInv, NEW t \in TokenId, NEW e \in EntityId, Exists(e), NEW action \in OtherActions \ {"applied"},
         NEW before \in AuditValue, NEW after \in AuditValue, NEW new \in Entity,
         entities' = [entities EXCEPT ![e] = new], Record(action, t, e, before, after),
         new.rules = entities[e].rules, new.version = entities[e].version, ValidRules(new.rules, new.guard),
         UNCHANGED <<tokens, views, verdict, audited, lastKey, crashes>>, RequestsOnlyEnd
  PROVE  SchedInv'
<1> DEFINE row == Row(action, t, e, before, after)
<1>1. row \in ScheduleRow /\ row.entity = e /\ row.action = action
  BY DEF ScheduleRow, Row
<1>2. audit' = Append(audit, row)
  BY DEF Record
<1>3. action \notin OfRules /\ action # "applied" /\ action \notin {"update", "undo"}
  BY DEF OtherActions, OfRules
<1>4. entities[e].version <= new.version /\ (new.version = entities[e].version => new.rules = entities[e].rules)
  BY DEF Entity
<1> HIDE DEF row
<1>5. /\ row.entity = e /\ row.action # "applied"
      /\ row.action \in {"update", "undo"} => row.before \in RuleSets
      /\ IF row.action \in OfRules THEN row.after = new.rules /\ (Exists(e) => row.before = entities[e].rules)
                                   ELSE Exists(e) /\ new.rules = entities[e].rules
  BY <1>1, <1>3
<1> QED
  BY <1>1, <1>2, <1>4, <1>5, EntityChanges

LEMMA FlagsKeepTheEntity ==
  ASSUME SchedInv, NEW e \in EntityId, Exists(e)
  PROVE  /\ \A b \in BOOLEAN :
              /\ [entities EXCEPT ![e].skipped = b] = [entities EXCEPT ![e] = [entities[e] EXCEPT !.skipped = b]]
              /\ [entities[e] EXCEPT !.skipped = b] \in Entity
              /\ [entities[e] EXCEPT !.skipped = b].rules = entities[e].rules
              /\ [entities[e] EXCEPT !.skipped = b].version = entities[e].version
              /\ [entities[e] EXCEPT !.skipped = b].guard = entities[e].guard
              /\ [entities EXCEPT ![e].editable = b] = [entities EXCEPT ![e] = [entities[e] EXCEPT !.editable = b]]
              /\ [entities[e] EXCEPT !.editable = b] \in Entity
              /\ [entities[e] EXCEPT !.editable = b].rules = entities[e].rules
              /\ [entities[e] EXCEPT !.editable = b].version = entities[e].version
              /\ [entities[e] EXCEPT !.editable = b].guard = entities[e].guard
         /\ \A g \in Guards :
              /\ [entities EXCEPT ![e].guard = g] = [entities EXCEPT ![e] = [entities[e] EXCEPT !.guard = g]]
              /\ [entities[e] EXCEPT !.guard = g] \in Entity
              /\ [entities[e] EXCEPT !.guard = g].rules = entities[e].rules
              /\ [entities[e] EXCEPT !.guard = g].version = entities[e].version
              /\ [entities[e] EXCEPT !.guard = g].guard = g
<1>1. entities[e] \in Entity
  BY DEF SchedInv, SchedTypes, Exists
<1> QED
  BY <1>1 DEF Entity

LEMMA UndoStays == ASSUME SchedInv, NEW t \in TokenId, NEW e \in EntityId, Undo(t, e) PROVE SchedInv'
<1> DEFINE rows == RuleChanges(e)
           last == audit[Latest(rows)]
<1>1. /\ Exists(e) /\ rows # {} /\ ValidRules(last.before, entities[e].guard) /\ Store(t, e, last.before, "undo")
      /\ UNCHANGED <<tokens, inFlight, views, verdict, audited, lastKey, crashes>>
  BY DEF Undo
<1>2. rows \in SUBSET (1..Len(audit)) /\ Len(audit) \in Nat
  BY DEF SchedInv, SchedTypes, RuleChanges
<1>3. Latest(rows) \in rows
  <2> DEFINE T == {n \in Nat : Len(audit) - n \in rows}
  <2>1. T \in SUBSET Nat /\ T # {} /\ \A i \in rows : Len(audit) - i \in T
    <3>1. \A i \in rows : Len(audit) - i \in Nat /\ Len(audit) - (Len(audit) - i) = i
      BY <1>2
    <3> QED
      BY <1>1, <3>1
  <2>2. PICK m \in T : \A n \in T : m <= n
    BY <2>1, NatLeast
  <2>3. Len(audit) - m \in rows /\ \A j \in rows : j <= Len(audit) - m
    BY <1>2, <2>1, <2>2
  <2> HIDE DEF rows
  <2> QED
    BY <2>3, Zenon DEF Latest
<1>4. last.before \in RuleSets
  <2>1. \A i \in rows : i \in 1..Len(audit) /\ audit[i].action \in {"update", "undo"}
    BY <1>2 DEF RuleChanges
  <2> QED
    BY <1>3, <2>1 DEF SchedInv, RowsOfRules
<1>5. RequestsOnlyEnd
  BY <1>1 DEF RequestsOnlyEnd, SchedInv, SchedTypes
<1> HIDE DEF last
<1> QED
  BY <1>1, <1>4, <1>5, StoreStays

LEMMA UnskipStays == ASSUME SchedInv, NEW t \in TokenId, NEW e \in EntityId, Unskip(t, e) PROVE SchedInv'
<1> DEFINE new == [entities[e] EXCEPT !.skipped = FALSE]
<1>1. /\ Exists(e) /\ entities' = [entities EXCEPT ![e].skipped = FALSE]
      /\ Record("exception_delete", t, e, TRUE, FALSE)
      /\ UNCHANGED <<tokens, inFlight, views, verdict, audited, lastKey, crashes>>
  BY DEF Unskip
<1>2. /\ entities' = [entities EXCEPT ![e] = new] /\ new \in Entity
      /\ new.rules = entities[e].rules /\ new.version = entities[e].version /\ new.guard = entities[e].guard
  BY <1>1, FlagsKeepTheEntity
<1>3. RequestsOnlyEnd
  BY <1>1 DEF RequestsOnlyEnd, SchedInv, SchedTypes
<1>4. ValidRules(new.rules, new.guard)
  BY <1>1, <1>2 DEF SchedInv, RulesValid
<1>5. TRUE \in AuditValue /\ FALSE \in AuditValue /\ "exception_delete" \in OtherActions \ {"applied"}
  BY DEF AuditValue, OtherActions
<1> HIDE DEF new
<1> QED
  BY <1>1, <1>2, <1>3, <1>4, <1>5, OtherChangeStays

\* A request that is served changes what it may, as a whole.
LEMMA ServedStays ==
  ASSUME SchedInv, NEW t \in TokenId, inFlight[t] # NoRequest, inFlight' = [inFlight EXCEPT ![t] = NoRequest],
         Change(t, inFlight[t]), UNCHANGED <<views, verdict, audited, lastKey, crashes>>
  PROVE  SchedInv'
<1> DEFINE r == inFlight[t]
<1>0. r \in Requests \cup PutRequest
  BY DEF SchedInv, SchedTypes
<1>1. RequestsOnlyEnd
  BY DEF RequestsOnlyEnd, SchedInv, SchedTypes
<1> HIDE DEF r
<1>2. ASSUME Put(t, r) PROVE SchedInv'
  <2>1. r \in PutRequest
    BY <1>0, <1>2 DEF Put, Requests
  <2>2. r.entity \in EntityId /\ r.rules \in RuleSets
    BY <2>1 DEF PutRequest
  <2>3. /\ Exists(r.entity) /\ ValidRules(r.rules, entities[r.entity].guard)
        /\ Store(t, r.entity, r.rules, "update") /\ UNCHANGED tokens
    BY <1>2 DEF Put
  <2> QED
    BY <1>1, <2>2, <2>3, StoreStays
<1>3. ASSUME SetGuardrails(t, r) PROVE SchedInv'
  <2>1. r.entity \in EntityId /\ r.guard \in Guards
    BY <1>0, <1>3 DEF SetGuardrails, Requests, PutRequest
  <2> DEFINE e == r.entity
             new == [entities[e] EXCEPT !.guard = r.guard]
  <2>2. /\ Exists(e) /\ ValidRules(entities[e].rules, r.guard) /\ entities' = [entities EXCEPT ![e].guard = r.guard]
        /\ Record("guardrails", t, e, entities[e].guard, r.guard) /\ UNCHANGED tokens
    BY <1>3 DEF SetGuardrails
  <2>3. /\ entities' = [entities EXCEPT ![e] = new] /\ new \in Entity
        /\ new.rules = entities[e].rules /\ new.version = entities[e].version /\ new.guard = r.guard
    BY <2>1, <2>2, FlagsKeepTheEntity
  <2>4. entities[e].guard \in Guards
    BY <2>1, <2>2 DEF SchedInv, SchedTypes, Exists, Entity
  <2>5. entities[e].guard \in AuditValue /\ r.guard \in AuditValue /\ "guardrails" \in OtherActions \ {"applied"}
    BY <2>1, <2>4 DEF AuditValue, OtherActions
  <2>6. ValidRules(new.rules, new.guard)
    BY <2>2, <2>3
  <2> HIDE DEF new, e
  <2>7. e \in EntityId
    BY <2>1 DEF e
  <2> QED
    BY <1>1, <2>2, <2>3, <2>5, <2>6, <2>7, OtherChangeStays
<1>4. ASSUME AddEntity(t, r) PROVE SchedInv'
  <2>1. r.entity \in EntityId /\ r.like \in EntityId
    BY <1>0, <1>4 DEF AddEntity, Requests, PutRequest
  <2> DEFINE e == r.entity
             old == entities[r.like]
             new == LikeOther(old)
             row == Row("entity_add", t, e, NoEntity, old.rules)
  <2>2. /\ ~Exists(e) /\ Exists(r.like) /\ entities' = [entities EXCEPT ![e] = new]
        /\ audit' = Append(audit, row) /\ UNCHANGED tokens
    BY <1>4 DEF AddEntity, Record
  <2>3. old \in Entity /\ ValidRules(old.rules, old.guard)
    BY <2>1, <2>2 DEF SchedInv, SchedTypes, RulesValid, Exists
  <2>4. new \in Entity /\ new.rules = old.rules /\ new.guard = old.guard
    BY <2>3 DEF Entity, LikeOther
  <2>5. old.rules \in RuleSets
    BY <2>3 DEF Entity
  <2>6. /\ row \in ScheduleRow /\ row.entity = e /\ row.action = "entity_add" /\ row.after = old.rules
    BY <2>1, <2>5, ValuesAreTold DEF ScheduleRow, OfRules, Row
  <2>7. "entity_add" \in OfRules /\ "entity_add" \notin {"update", "undo"} /\ "entity_add" # "applied"
    BY DEF OfRules
  <2> HIDE DEF new, row, old, e
  <2>8. e \in EntityId
    BY <2>1 DEF e
  <2> QED
    BY <1>1, <2>2, <2>3, <2>4, <2>6, <2>7, <2>8, EntityChanges
<1>5. ASSUME PatchEntity(t, r) PROVE SchedInv'
  <2>1. r.entity \in EntityId /\ r.editable \in BOOLEAN
    BY <1>0, <1>5 DEF PatchEntity, Requests, PutRequest
  <2> DEFINE e == r.entity
             new == [entities[e] EXCEPT !.editable = r.editable]
  <2>2. /\ Exists(e) /\ entities' = [entities EXCEPT ![e].editable = r.editable]
        /\ Record("entity", t, e, entities[e].editable, r.editable) /\ UNCHANGED tokens
    BY <1>5 DEF PatchEntity
  <2>3. /\ entities' = [entities EXCEPT ![e] = new] /\ new \in Entity
        /\ new.rules = entities[e].rules /\ new.version = entities[e].version /\ new.guard = entities[e].guard
    BY <2>1, <2>2, FlagsKeepTheEntity
  <2>4. entities[e].editable \in BOOLEAN
    BY <2>1, <2>2 DEF SchedInv, SchedTypes, Exists, Entity
  <2>5. entities[e].editable \in AuditValue /\ r.editable \in AuditValue /\ "entity" \in OtherActions \ {"applied"}
    BY <2>1, <2>4, ValuesAreTold DEF OtherActions
  <2>6. ValidRules(new.rules, new.guard)
    BY <2>1, <2>2, <2>3 DEF SchedInv, RulesValid
  <2> HIDE DEF new, e
  <2>7. e \in EntityId
    BY <2>1 DEF e
  <2> QED
    BY <1>1, <2>2, <2>3, <2>5, <2>6, <2>7, OtherChangeStays
<1>6. ASSUME Skip(t, r) PROVE SchedInv'
  <2> DEFINE e == r.entity
             new == [entities[e] EXCEPT !.skipped = TRUE]
  <2>1. e \in EntityId
    BY <1>0, <1>6 DEF Skip, Requests, PutRequest
  <2>2. /\ Exists(e) /\ entities' = [entities EXCEPT ![e].skipped = TRUE]
        /\ Record("exception_add", t, e, FALSE, TRUE) /\ UNCHANGED tokens
    BY <1>6 DEF Skip
  <2>3. /\ entities' = [entities EXCEPT ![e] = new] /\ new \in Entity
        /\ new.rules = entities[e].rules /\ new.version = entities[e].version /\ new.guard = entities[e].guard
    BY <2>1, <2>2, FlagsKeepTheEntity
  <2>4. TRUE \in AuditValue /\ FALSE \in AuditValue /\ "exception_add" \in OtherActions \ {"applied"}
    BY DEF AuditValue, OtherActions
  <2>5. ValidRules(new.rules, new.guard)
    BY <2>1, <2>2, <2>3 DEF SchedInv, RulesValid
  <2> HIDE DEF new, e
  <2> QED
    BY <1>1, <2>1, <2>2, <2>3, <2>4, <2>5, OtherChangeStays
<1>7. ASSUME CreateToken(t, r) PROVE SchedInv'
  <2>1. r.token \in TokenId
    BY <1>0, <1>7 DEF CreateToken, Requests, PutRequest
  <2> DEFINE row == Row("token_create", t, NoEntity, r.token, r.token)
  <2>2. audit' = Append(audit, row) /\ UNCHANGED entities /\ tokens' = [tokens EXCEPT ![r.token] = "live"]
    BY <1>7 DEF CreateToken, Record
  <2>3. row \in ScheduleRow /\ row.action = "token_create"
    BY <2>1, ValuesAreTold DEF ScheduleRow, OtherActions, Row
  <2> HIDE DEF row
  <2>4. SchedTypes'
    BY <1>1, <2>1, <2>2, <2>3, RowAdded DEF SchedInv, SchedTypes, RequestsOnlyEnd
  <2> QED
    BY <1>1, <2>2, <2>3, <2>4, EntitiesStay
<1> QED
  BY <1>2, <1>3, <1>4, <1>5, <1>6, <1>7 DEF Change, r

LEMMA SchedInvStays == SchedInv /\ [SchedNext]_schedVars => SchedInv'
<1> SUFFICES ASSUME SchedInv, [SchedNext]_schedVars PROVE SchedInv'
  OBVIOUS
<1>0. SchedTypes
  BY DEF SchedInv
<1>1. ASSUME UNCHANGED <<entities, tokens, audit, verdict, audited, lastKey, crashes>>,
             views' \in [TokenId -> {NoRequest} \cup ScheduleView], ViewsSeeThePast',
             inFlight' \in [TokenId -> {NoRequest} \cup Requests \cup PutRequest], PutsSeeThePast'
      PROVE  SchedInv'
  <2>1. SchedTypes'
    BY <1>0, <1>1 DEF SchedTypes
  <2>2. RulesValid' /\ RowsOfRules' /\ AppliedRows'
    BY <1>1 DEF SchedInv, RulesValid, RowsOfRules, AppliedRows, AppliedOnce, Exists
  <2>3. AuditExplains'
    BY <1>1 DEF SchedInv, AuditExplains, RuleRows, RuleChanges
  <2> QED
    BY <1>1, <2>1, <2>2, <2>3 DEF SchedInv
<1>2. ASSUME UNCHANGED <<entities, views>> PROVE ViewsSeeThePast'
  BY <1>2 DEF SchedInv, ViewsSeeThePast, Sees, Exists
<1>3. ASSUME NEW t \in TokenId, NEW e \in EntityId, ReadSchedule(t, e) PROVE SchedInv'
  <2> DEFINE shown == [entity |-> e, version |-> entities[e].version, rules |-> entities[e].rules]
  <2>1. /\ Exists(e) /\ views' = [views EXCEPT ![t] = shown]
        /\ UNCHANGED <<entities, tokens, audit, inFlight, verdict, audited, lastKey, crashes>>
    BY <1>3 DEF ReadSchedule
  <2>2. entities[e] \in Entity
    BY <1>0, <2>1 DEF SchedTypes, Exists
  <2>3. shown \in ScheduleView /\ shown.entity = e /\ shown.version = entities[e].version /\ shown.rules = entities[e].rules
    BY <2>2 DEF ScheduleView, Entity
  <2> HIDE DEF shown
  <2>4. /\ views' \in [TokenId -> {NoRequest} \cup ScheduleView] /\ views'[t] = shown
        /\ \A u \in TokenId : u # t => views'[u] = views[u]
    BY <1>0, <2>1, <2>3 DEF SchedTypes
  <2>5. entities[e].version \in Nat
    BY <2>2 DEF Entity
  <2>6. ViewsSeeThePast'
    <3> SUFFICES ASSUME NEW u \in TokenId, views'[u] # NoRequest
                 PROVE  Sees(views[u].entity, views[u].version, views[u].rules)'
      BY DEF ViewsSeeThePast
    <3>1. CASE u = t
      BY <2>1, <2>3, <2>4, <2>5, <3>1 DEF Sees, Exists
    <3>2. CASE u # t
      BY <2>1, <2>4, <3>2 DEF SchedInv, ViewsSeeThePast, Sees, Exists
    <3> QED
      BY <3>1, <3>2
  <2>7. PutsSeeThePast'
    BY <2>1 DEF SchedInv, PutsSeeThePast, Sees, Exists
  <2>8. inFlight' \in [TokenId -> {NoRequest} \cup Requests \cup PutRequest]
    BY <1>0, <2>1 DEF SchedTypes
  <2> QED
    BY <1>1, <2>1, <2>4, <2>6, <2>7, <2>8
<1>4. ASSUME NEW t \in TokenId, NEW r \in Requests \cup PutRequest, Accept(t, r),
             r.kind = "put" => Sees(r.entity, r.version, r.saw)
      PROVE  SchedInv'
  <2>1. inFlight' = [inFlight EXCEPT ![t] = r] /\ UNCHANGED <<entities, tokens, audit, views, verdict, audited, lastKey, crashes>>
    BY <1>4 DEF Accept
  <2>2. /\ inFlight' \in [TokenId -> {NoRequest} \cup Requests \cup PutRequest] /\ inFlight'[t] = r
        /\ \A u \in TokenId : u # t => inFlight'[u] = inFlight[u]
    BY <1>0, <2>1 DEF SchedTypes
  <2>3. PutsSeeThePast'
    <3> SUFFICES ASSUME NEW u \in TokenId, inFlight'[u] # NoRequest, inFlight'[u].kind = "put"
                 PROVE  Sees(inFlight[u].entity, inFlight[u].version, inFlight[u].saw)'
      BY DEF PutsSeeThePast
    <3>1. CASE u = t
      BY <1>4, <2>1, <2>2, <3>1 DEF Sees, Exists
    <3>2. CASE u # t
      BY <2>1, <2>2, <3>2 DEF SchedInv, PutsSeeThePast, Sees, Exists
    <3> QED
      BY <3>1, <3>2
  <2>4. views' \in [TokenId -> {NoRequest} \cup ScheduleView]
    BY <1>0, <2>1 DEF SchedTypes
  <2> QED
    BY <1>1, <1>2, <2>1, <2>2, <2>3, <2>4
<1>5. ASSUME NEW t \in TokenId, NEW r \in Requests, Accept(t, r) PROVE SchedInv'
  <2>1. r.kind # "put"
    BY DEF Requests
  <2> QED
    BY <1>4, <1>5, <2>1
<1>6. ASSUME NEW t \in TokenId, NEW rules \in RuleSets, AcceptPut(t, rules) PROVE SchedInv'
  <2> DEFINE r == [kind |-> "put", entity |-> views[t].entity, version |-> views[t].version, rules |-> rules,
                   saw |-> views[t].rules]
  <2>1. views[t] # NoRequest /\ Accept(t, r)
    BY <1>6 DEF AcceptPut
  <2>2. views[t] \in ScheduleView /\ Sees(views[t].entity, views[t].version, views[t].rules)
    BY <1>0, <2>1 DEF SchedTypes, SchedInv, ViewsSeeThePast
  <2>3. r \in PutRequest /\ Sees(r.entity, r.version, r.saw)
    BY <2>2 DEF PutRequest, ScheduleView
  <2> HIDE DEF r
  <2> QED
    BY <1>4, <2>1, <2>3
<1>7. ASSUME NEW t \in TokenId, Serve(t) PROVE SchedInv'
  <2>1. /\ inFlight[t] # NoRequest /\ inFlight' = [inFlight EXCEPT ![t] = NoRequest]
        /\ UNCHANGED <<views, verdict, audited, lastKey, crashes>>
    BY <1>7 DEF Serve
  <2>2. CASE Change(t, inFlight[t])
    BY <2>1, <2>2, ServedStays
  <2>3. CASE UNCHANGED <<entities, tokens, audit>>
    <3>1. RequestsOnlyEnd
      BY <1>0, <2>1 DEF RequestsOnlyEnd, SchedTypes
    <3>2. SchedTypes'
      BY <1>0, <2>1, <2>3, <3>1 DEF SchedTypes, RequestsOnlyEnd
    <3>3. verdict <= verdict'
      BY <1>0, <2>1 DEF SchedTypes
    <3> QED
      BY <2>1, <2>3, <3>1, <3>2, <3>3, EntitiesStay
  <2> QED
    BY <1>7, <2>2, <2>3 DEF Serve
<1>8. ASSUME UNCHANGED inFlight PROVE RequestsOnlyEnd
  BY <1>0, <1>8 DEF RequestsOnlyEnd, SchedTypes
<1>9. ASSUME NEW t \in TokenId, NEW u \in TokenId, RevokeToken(t, u) PROVE SchedInv'
  <2> DEFINE row == Row("token_revoke", t, NoEntity, u, u)
  <2>1. /\ audit' = Append(audit, row) /\ tokens' = [tokens EXCEPT ![u] = "revoked"]
        /\ UNCHANGED <<entities, inFlight, views, verdict, audited, lastKey, crashes>>
    BY <1>9 DEF RevokeToken, Record
  <2>2. row \in ScheduleRow /\ row.action = "token_revoke"
    BY ValuesAreTold DEF ScheduleRow, OtherActions, Row
  <2> HIDE DEF row
  <2>3. SchedTypes'
    BY <1>0, <2>1, <2>2, RowAdded DEF SchedTypes
  <2> QED
    BY <1>8, <2>1, <2>2, <2>3, EntitiesStay
<1>10. CASE Judge
  <2>1. SchedTypes' /\ verdict <= verdict'
    BY <1>0, <1>10 DEF Judge, SchedTypes
  <2> QED
    BY <1>8, <1>10, <2>1, EntitiesStay DEF Judge
<1>11. CASE Background
  <2>1. verdict' = verdict /\ lastKey' = verdict /\ UNCHANGED <<entities, tokens, inFlight, views, crashes>>
    BY <1>11 DEF Background
  <2>2. CASE audited # verdict /\ RecordApply
    <3> DEFINE row == Row("applied", "applier", NoEntity, verdict, verdict)
    <3>1. audit' = Append(audit, row) /\ audited' = verdict
      BY <2>2 DEF RecordApply
    <3>2. row \in ScheduleRow /\ row.action = "applied" /\ row.before = verdict
      BY <1>0, ValuesAreTold DEF SchedTypes, ScheduleRow, OtherActions, Row
    <3> HIDE DEF row
    <3>3. SchedTypes'
      BY <1>0, <2>1, <3>1, <3>2, RowAdded DEF SchedTypes
    <3> QED
      BY <1>8, <2>1, <2>2, <3>1, <3>2, <3>3, EntitiesStay
  <2>3. CASE UNCHANGED <<audit, audited>>
    <3>1. SchedTypes' /\ verdict <= verdict'
      BY <1>0, <2>1, <2>3 DEF SchedTypes
    <3> QED
      BY <1>8, <2>1, <2>3, <3>1, EntitiesStay
  <2> QED
    BY <1>11, <2>2, <2>3, Zenon DEF Background
<1>12. CASE SchedCrash
  <2>1. RequestsOnlyEnd
    BY <1>12 DEF SchedCrash, RequestsOnlyEnd
  <2>2. SchedTypes' /\ verdict <= verdict'
    BY <1>0, <1>12, <2>1 DEF SchedCrash, SchedTypes, RequestsOnlyEnd
  <2> QED
    BY <1>12, <2>1, <2>2, EntitiesStay DEF SchedCrash
<1>13. CASE UNCHANGED schedVars
  <2>1. SchedTypes' /\ verdict <= verdict'
    BY <1>0, <1>13 DEF schedVars, SchedTypes
  <2> QED
    BY <1>8, <1>13, <2>1, EntitiesStay DEF schedVars
<1> QED
  BY <1>3, <1>5, <1>6, <1>7, <1>9, <1>10, <1>11, <1>12, <1>13, UndoStays, UnskipStays DEF SchedNext

LEMMA SchedInvIsSafe == SchedInv => SchedulesSafe
<1> SUFFICES ASSUME SchedInv PROVE SchedulesSafe
  OBVIOUS
<1>0. SchedTypes
  BY DEF SchedInv
<1>1. SchedTypeOK
  <2>1. DOMAIN audit = 1..Len(audit)
    BY <1>0 DEF SchedTypes
  <2> QED
    BY <1>0, <2>1 DEF SchedTypes, SchedTypeOK, Exists
<1>2. \A e \in EntityId : Exists(e) =>
        /\ entities[e].rules \in SUBSET Window /\ entities[e].guard \in Guard /\ entities[e].skipped \in BOOLEAN
        /\ Respected(entities[e].rules, entities[e].guard)
  <2> SUFFICES ASSUME NEW e \in EntityId, Exists(e)
               PROVE  /\ entities[e].rules \in SUBSET Window /\ entities[e].guard \in Guard
                      /\ entities[e].skipped \in BOOLEAN /\ Respected(entities[e].rules, entities[e].guard)
    OBVIOUS
  <2>1. entities[e] \in Entity /\ ValidRules(entities[e].rules, entities[e].guard)
    BY <1>0 DEF SchedTypes, SchedInv, RulesValid, Exists
  <2>2. entities[e].rules \in SUBSET Window /\ entities[e].guard \in Guard /\ entities[e].skipped \in BOOLEAN
    BY <2>1, SchedulesInputs DEF Entity
  <2> QED
    BY <2>1, <2>2, ValidIsRespected
<1>3. RulesRespected
  BY <1>2 DEF RulesRespected
<1>4. VersionNamesRules
  BY DEF SchedInv, ViewsSeeThePast, Sees, VersionNamesRules
<1>5. EdgesMatchState
  BY <1>2, EdgesAreTheSchedule DEF EdgesMatchState
<1> QED
  BY <1>1, <1>3, <1>4, <1>5 DEF SchedInv, AppliedRows, SchedulesSafe

LEMMA PutsOverwriteWhatWasSeen == SchedInv /\ [SchedNext]_schedVars => OverwritesWhatWasSeen
<1> SUFFICES ASSUME SchedInv, [SchedNext]_schedVars, NEW t \in TokenId,
                    inFlight[t] # NoRequest, inFlight'[t] = NoRequest, inFlight[t].kind = "put",
                    entities' # entities
             PROVE  entities[inFlight[t].entity].rules = inFlight[t].saw
  BY DEF OverwritesWhatWasSeen
<1>0. SchedTypes
  BY DEF SchedInv
<1>1. inFlight' # inFlight
  OBVIOUS
<1>2. ASSUME NEW u \in TokenId, Serve(u) PROVE entities[inFlight[t].entity].rules = inFlight[t].saw
  <2>1. inFlight' = [inFlight EXCEPT ![u] = NoRequest] /\ Change(u, inFlight[u])
    BY <1>2 DEF Serve
  <2>2. u = t
    BY <1>0, <2>1 DEF SchedTypes
  <2>3. Put(t, inFlight[t])
    BY <2>1, <2>2 DEF Change, SetGuardrails, AddEntity, PatchEntity, Skip, CreateToken
  <2> QED
    BY <2>3 DEF SchedInv, PutsSeeThePast, Sees, Put
<1>3. ASSUME NEW u \in TokenId, NEW r, Accept(u, r) PROVE FALSE
  BY <1>3 DEF Accept
<1>4. \E u \in TokenId : Serve(u)
  BY <1>1, <1>3 DEF SchedNext, ReadSchedule, Undo, Unskip, RevokeToken, AcceptPut, Judge, Background, SchedCrash,
                    schedVars
<1> QED
  BY <1>2, <1>4

\* Whatever editors, guardrails, undos and crashes do in whatever order, for any rules, guardrails and
\* length of the day: the windows respect their guardrails round the week, a version names one list of
\* rules, the audit accounts for the rules, a result of the applier has one row, and the edges that Home
\* Assistant gets are the schedule that the service reports (sched/model.py, sched/store.py).
THEOREM SchedulesStaySafe == PortalSpec => []SchedulesHold
<1> DEFINE Inv == part = "schedules" => SchedInv
<1>1. PortalInit => Inv
  BY PartStarts, SchedStarts
<1>2. Inv /\ [PortalNext]_portalVars => Inv'
  BY PartMoves, SchedInvStays
<1>3. Inv => SchedulesHold
  BY SchedInvIsSafe DEF SchedulesHold
<1> QED
  BY <1>1, <1>2, <1>3, PTL DEF PortalSpec

\* No step overwrites a schedule that its editor has not seen, moves the channel of the app backwards, or
\* shows a verdict that is older than the cache allows.
THEOREM StepsOfThePortal == PortalSpec => PortalSteps
<1> DEFINE Inv == part = "schedules" => SchedInv
<1>1. PortalInit => Inv
  BY PartStarts, SchedStarts
<1>2. Inv /\ [PortalNext]_portalVars => Inv'
  BY PartMoves, SchedInvStays
<1>3. Inv /\ [PortalNext]_portalVars => (part = "schedules" => OverwritesWhatWasSeen)
  BY PartMoves, PutsOverwriteWhatWasSeen
<1>4. PortalSpec => [][part = "schedules" => OverwritesWhatWasSeen]_portalVars
  BY <1>1, <1>2, <1>3, PTL DEF PortalSpec
<1>5. (/\ [part = "schedules" => OverwritesWhatWasSeen]_portalVars
       /\ [part = "releases" => RollForward]_portalVars
       /\ [part = "parental" => ShownIsRecent]_portalVars)
      => [/\ (part = "schedules" => OverwritesWhatWasSeen)
          /\ (part = "releases" => RollForward)
          /\ (part = "parental" => ShownIsRecent)]_portalVars
  OBVIOUS
<1> QED
  BY <1>4, <1>5, ChannelRollsForward, ShownStaysRecent, PTL DEF PortalSteps
=============================================================================
