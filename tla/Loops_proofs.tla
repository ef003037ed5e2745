---------------------------- MODULE Loops_proofs ----------------------------
(***************************************************************************)
(* Proofs about the two loops of MCLoops and about the filter lists. The   *)
(* applier, for any files, contents, number of renders and troubles: its   *)
(* state is well-typed, its claim is true, and it implements EndArming.    *)
(* The event streams of the gateway, for any clients, queues, ring and     *)
(* number of events: a stream leads without a gap to the latest event, a   *)
(* revoked phone's to its mark. The filter lists, for any lists, labels,   *)
(* contents, number of requests and troubles: what a finished change says  *)
(* of itself is so, and every change is all or nothing (FilterBook).       *)
(***************************************************************************)
EXTENDS MCLoops, FilterLists, FiniteSetTheorems, TLAPS

-----------------------------------------------------------------------------
(* Types.                                                                  *)

LEMMA FileReplaced ==
  ASSUME NEW F \in Files, NEW G \in Files, NEW f \in File
  PROVE  [F EXCEPT ![f] = G[f]] \in Files
  BY DEF Files

LEMMA TypeInit == Init => TypeOK
<1> SUFFICES ASSUME Init PROVE TypeOK
  OBVIOUS
<1> USE DEF Init, HostInit
<1>1. out.seq = 1 /\ out.set \in Files /\ out \in [seq : Nat, set : Files, whole : BOOLEAN]
  OBVIOUS
<1>2. published \subseteq Nat \X Files
  BY <1>1
<1>3. st \in [result : Results, seq : Nat, set : Files \cup {Unset}, ok : BOOLEAN]
  BY DEF Results
<1> QED
  BY <1>1, <1>2, <1>3 DEF TypeOK, Steps

LEMMA TypeStep == TypeOK /\ [Next]_vars => TypeOK'
<1> USE DEF TypeOK, Steps, Results, haVars, passVars
<1>0. ASSUME trouble \in Nat, Trouble \/ UNCHANGED trouble PROVE trouble' \in Nat
  BY <1>0 DEF Trouble
<1>1. ASSUME TypeOK, UNCHANGED vars PROVE TypeOK'
  BY <1>1 DEF vars, hostVars
<1>2. ASSUME TypeOK, Take PROVE TypeOK'
  BY <1>2 DEF Take
<1>3. ASSUME TypeOK, Reverify PROVE TypeOK'
  <2>1. trouble' \in Nat
    BY <1>0, <1>3 DEF Reverify
  <2>2. st' \in [result : Results, seq : Nat, set : Files \cup {Unset}, ok : BOOLEAN]
    BY <1>0, <1>3 DEF Reverify
  <2> QED
    BY <1>3, <2>1, <2>2 DEF Reverify
<1>4. ASSUME TypeOK, NothingToDo PROVE TypeOK'
  BY <1>4 DEF NothingToDo, vars, hostVars
<1>5. ASSUME TypeOK, CheckConfig PROVE TypeOK'
  <2>1. trouble' \in Nat
    BY <1>0, <1>5 DEF CheckConfig
  <2>2. pc' \in Steps /\ reloadOld' \in BOOLEAN
    BY <1>0, <1>5 DEF CheckConfig
  <2> QED
    BY <1>5, <2>1, <2>2 DEF CheckConfig
<1>6. ASSUME TypeOK, Reload PROVE TypeOK'
  BY <1>6 DEF Reload
<1>7. ASSUME TypeOK, ReloadNotDone PROVE TypeOK'
  <2>1. trouble' \in Nat /\ reloadDue' \in BOOLEAN
    BY <1>0, <1>7 DEF ReloadNotDone
  <2> QED
    BY <1>7, <2>1 DEF ReloadNotDone
<1>8. ASSUME TypeOK, VerifyOk PROVE TypeOK'
  BY <1>8 DEF VerifyOk
<1>9. ASSUME TypeOK, VerifyTimeout PROVE TypeOK'
  BY <1>0, <1>9 DEF VerifyTimeout
<1>10. ASSUME TypeOK, Commit PROVE TypeOK'
  BY <1>10 DEF Commit
<1>11. ASSUME TypeOK, Failed PROVE TypeOK'
  BY <1>11 DEF Failed
<1>12. ASSUME TypeOK, Abort PROVE TypeOK'
  BY <1>0, <1>12 DEF Abort
<1>13. ASSUME TypeOK, HoldOver PROVE TypeOK'
  BY <1>13, ZenonT(60) DEF HoldOver
<1>14. ASSUME TypeOK, HaReload PROVE TypeOK'
  <2>1. trouble' \in Nat
    BY <1>0, <1>14 DEF HaReload
  <2>2. loaded' \in Files
    BY <1>0, <1>14 DEF HaReload
  <2> QED
    BY <1>14, <2>1, <2>2, ZenonT(60) DEF HaReload
<1>15. ASSUME TypeOK, HaStop PROVE TypeOK'
  <2>1. trouble' \in Nat
    BY <1>0, <1>15 DEF HaStop
  <2> QED
    BY <1>15, <2>1 DEF HaStop
<1>16. ASSUME TypeOK, HaStart PROVE TypeOK'
  BY <1>16 DEF HaStart
<1>17. ASSUME TypeOK, Publish PROVE TypeOK'
  BY <1>17 DEF Publish, vars, hostVars
<1>18. ASSUME TypeOK, PublishTorn PROVE TypeOK'
  <2>1. trouble' \in Nat
    BY <1>0, <1>18 DEF PublishTorn, vars, hostVars
  <2>2. out' \in [seq : Nat, set : Files, whole : BOOLEAN]
    BY <1>0, <1>18 DEF PublishTorn, vars, hostVars
  <2> QED
    BY <1>18, <2>1, <2>2 DEF PublishTorn, vars, hostVars
<1>19. ASSUME TypeOK, NEW f \in File, WriteFile(f) \/ UndoFile(f) PROVE TypeOK'
  BY <1>19, FileReplaced DEF WriteFile, UndoFile
<1>20. ASSUME TypeOK, HandChange PROVE TypeOK'
  BY <1>0, <1>20 DEF HandChange, Files
<1> QED
  BY <1>1, <1>2, <1>3, <1>4, <1>5, <1>6, <1>7, <1>8, <1>9, <1>10, <1>11, <1>12, <1>13, <1>14, <1>15, <1>16, <1>17, <1>18, <1>19, <1>20
  DEF Next, HostStep, PassStep, HaStep, Begin, ForceBegin

\* The applier's state keeps its types: no pass, cut or restart leaves a status
\* that its readers cannot read.
THEOREM TypeCorrect == Spec => []TypeOK
  BY TypeInit, TypeStep, PTL DEF Spec
-----------------------------------------------------------------------------
(* The claim.                                                              *)

\* Strengthening of ClaimIsTrue: before the first file is touched the status is
\* pending and stays so to the end of the pass; a pass that has written its files
\* keeps them; one about to commit has seen Home Assistant run them.
ClaimInv ==
  /\ out.whole => <<out.seq, out.set>> \in published
  /\ pc # "idle" => st.result = "pending" /\ <<job.seq, job.set>> \in published
  /\ pc \in {"reload", "verify", "commit"} => gen = job.set
  /\ pc = "commit" => drifted \/ loaded = job.set
  /\ st.result = "applied" => <<st.seq, st.set>> \in published
  /\ ClaimIsTrue

LEMMA ClaimInit == Init => ClaimInv
  BY DEF Init, HostInit, ClaimInv, ClaimIsTrue, Claimed

LEMMA ClaimStep ==
  ASSUME TypeOK, ClaimInv, [Next]_vars
  PROVE  ClaimInv'
<1> USE DEF ClaimInv, ClaimIsTrue, Claimed, TypeOK, haVars, passVars
<1>1. CASE UNCHANGED vars
  BY <1>1 DEF vars, hostVars
<1>2. CASE Take
  BY <1>2 DEF Take
<1>3. CASE Reverify
  BY <1>3 DEF Reverify, InPlace
<1>4. CASE NothingToDo
  BY <1>4 DEF NothingToDo, vars, hostVars
<1>5. ASSUME NEW f \in File, WriteFile(f) PROVE ClaimInv'
  BY <1>5 DEF WriteFile
<1>6. CASE CheckConfig
  BY <1>6 DEF CheckConfig
<1>7. CASE Reload
  BY <1>7 DEF Reload
<1>8. CASE ReloadNotDone
  BY <1>8 DEF ReloadNotDone
<1>9. CASE VerifyOk
  BY <1>9 DEF VerifyOk
<1>10. CASE VerifyTimeout
  BY <1>10 DEF VerifyTimeout
<1>11. CASE Commit
  BY <1>11 DEF Commit
<1>12. ASSUME NEW f \in File, UndoFile(f) PROVE ClaimInv'
  BY <1>12 DEF UndoFile
<1>13. CASE Failed
  BY <1>13 DEF Failed
<1>14. CASE Abort
  BY <1>14 DEF Abort
<1>15. CASE HoldOver
  BY <1>15 DEF HoldOver
<1>16. CASE HaReload
  BY <1>16 DEF HaReload
<1>17. CASE HaStop
  BY <1>17 DEF HaStop
<1>18. CASE HaStart
  BY <1>18 DEF HaStart
<1>19. CASE HandChange
  BY <1>19 DEF HandChange
<1>20. CASE Publish
  BY <1>20 DEF Publish, hostVars
<1>21. CASE PublishTorn
  BY <1>21 DEF PublishTorn
<1> QED
  BY <1>1, <1>2, <1>3, <1>4, <1>5, <1>6, <1>7, <1>8, <1>9, <1>10, <1>11, <1>12, <1>13,
     <1>14, <1>15, <1>16, <1>17, <1>18, <1>19, <1>20, <1>21
  DEF Next, HostStep, PassStep, HaStep, Begin, ForceBegin

LEMMA ClaimAlways == Spec => []ClaimInv
<1>1. ClaimInv /\ TypeOK /\ [Next]_vars => ClaimInv'
  BY ClaimStep
<1> QED
  BY <1>1, ClaimInit, TypeCorrect, PTL DEF Spec

\* Whenever the status says applied and loaded_ok, the files on disk are the set it
\* names, and Home Assistant runs it unless somebody changed that by hand since.
THEOREM ClaimTrue == Spec => []ClaimIsTrue
<1>1. ClaimInv => ClaimIsTrue
  BY DEF ClaimInv
<1> QED
  BY <1>1, ClaimAlways, PTL

\* The seq and the set of a claim were published together, so the service may read
\* the seq alone.
THEOREM ClaimPublished == Spec => []ClaimWasPublished
<1>1. ClaimInv => ClaimWasPublished
  BY DEF ClaimInv, ClaimWasPublished, Claimed
<1> QED
  BY <1>1, ClaimAlways, PTL

\* All of the claim together: what run_armed of the service relies on.
THEOREM ApplierAlwaysSafe == Spec => []ApplierSafe
<1>1. TypeOK /\ ClaimIsTrue /\ ClaimWasPublished => ApplierSafe
  BY DEF ApplierSafe
<1> QED
  BY <1>1, TypeCorrect, ClaimTrue, ClaimPublished, PTL
-----------------------------------------------------------------------------
(* Refinement.                                                             *)

LEMMA ArmingInit == Init => Arming!Init
  BY DEF Init, HostInit, Arming!Init, Claimed, ClaimMade, InForce

ArmingVars == <<published, ClaimMade, InForce>>

LEMMA InForceType == TypeOK => InForce \in Files \cup {Unset}
  BY DEF TypeOK, InForce

LEMMA ArmingStep ==
  ASSUME TypeOK, TypeOK', ClaimInv, ClaimInv', [Next]_vars
  PROVE  [Arming!Next]_ArmingVars
<1> DEFINE A == [Arming!Next]_ArmingVars
<1> USE DEF haVars, passVars
<1>1. ASSUME UNCHANGED <<published, gen, loaded, drifted, st>> PROVE A
  BY <1>1 DEF Claimed, ClaimMade, InForce, ArmingVars
<1>2. ASSUME UNCHANGED <<published, st>>, ~Claimed PROVE A
  <2>1. ClaimMade = Unset /\ ClaimMade' = Unset
    BY <1>2 DEF Claimed, ClaimMade
  <2>2. InForce' \in Files \cup {Unset}
    <3>1. TypeOK' => (InForce \in Files \cup {Unset})'
      BY InForceType, PTL
    <3> QED
      BY <3>1
  <2> QED
    BY <1>2, <2>1, <2>2 DEF Arming!Next, Arming!Change
<1>3. ASSUME UNCHANGED <<published, st>>, InForce' = InForce PROVE A
  BY <1>3 DEF Claimed, ClaimMade, ArmingVars
<1>4. ASSUME UNCHANGED <<published, gen, loaded, drifted>>, ~Claimed' PROVE A
  BY <1>4 DEF Arming!Next, Arming!TakeBack, Claimed, ClaimMade, InForce, ArmingVars
<1>5. ASSUME UNCHANGED <<published, gen, loaded, drifted>>, ~Claimed, Claimed' PROVE A
  <2>1. ClaimMade' = <<st'.seq, st'.set>> /\ InForce' = st'.set /\ InForce' = InForce
    BY <1>5 DEF ClaimMade, InForce, ClaimInv, ClaimIsTrue, Claimed
  <2>2. <<st'.seq, st'.set>> \in published
    BY <1>5 DEF ClaimInv, Claimed
  <2> QED
    BY <1>5, <2>1, <2>2 DEF Arming!Next, Arming!Claim
<1>6. CASE Publish
  <2>1. published \subseteq published' /\ UNCHANGED <<gen, loaded, drifted, st>>
    BY <1>6 DEF Publish, hostVars
  <2> QED
    BY <2>1 DEF Arming!Next, Arming!Publish, Claimed, ClaimMade, InForce
<1>7. CASE Take
  BY <1>4, <1>7 DEF Take, Claimed
<1>8. CASE Reverify
  <2>1. UNCHANGED <<published, gen, loaded, drifted>>
    BY <1>8 DEF Reverify
  <2>2. CASE Claimed /\ Claimed'
    <3>1. UNCHANGED <<st>>
      BY <1>8, <2>2 DEF Reverify, Claimed, TypeOK
    <3> QED
      BY <2>1, <3>1, <1>1
  <2> QED
    BY <2>1, <2>2, <1>4, <1>5
<1>9. CASE Commit
  <2>1. ~Claimed
    BY <1>9 DEF Commit, Claimed, ClaimInv
  <2>2. UNCHANGED <<published, gen, loaded, drifted>>
    BY <1>9 DEF Commit
  <2> QED
    BY <2>1, <2>2, <1>4, <1>5
<1>10. CASE ReloadNotDone \/ Failed
  <2>1. UNCHANGED <<published, gen, loaded, drifted>> /\ ~Claimed'
    BY <1>10 DEF ReloadNotDone, Failed, Claimed, TypeOK
  <2> QED
    BY <2>1, <1>4
<1>11. ASSUME NEW f \in File, WriteFile(f) \/ UndoFile(f) PROVE A
  <2>1. UNCHANGED <<published, st>> /\ ~Claimed
    BY <1>11 DEF WriteFile, UndoFile, Claimed, ClaimInv
  <2> QED
    BY <2>1, <1>2
<1>12. CASE HaReload \/ HaStart \/ HandChange
  <2>1. UNCHANGED <<published, st, gen>>
    BY <1>12 DEF HaReload, HaStart, HandChange
  <2>2. CASE Claimed
    <3>1. InForce = gen /\ InForce' = gen
      BY <1>12, <2>1, <2>2 DEF HaReload, HaStart, HandChange, ClaimInv, ClaimIsTrue, InForce
    <3> QED
      BY <2>1, <3>1, <1>3
  <2> QED
    BY <2>1, <2>2, <1>2
<1>13. CASE \/ CheckConfig \/ Reload \/ VerifyOk \/ VerifyTimeout \/ Abort \/ HoldOver
            \/ HaStop \/ PublishTorn \/ NothingToDo \/ UNCHANGED vars
  BY <1>1, <1>13 DEF CheckConfig, Reload, VerifyOk, VerifyTimeout, Abort, HoldOver, HaStop,
                     PublishTorn, NothingToDo, vars, hostVars
<1> QED
  BY <1>6, <1>7, <1>8, <1>9, <1>10, <1>11, <1>12, <1>13
  DEF Next, HostStep, PassStep, HaStep, Begin, ForceBegin

\* The applier, step by step, is an EndArming: apart from hand changes nothing moves
\* in Home Assistant or on its disk before the claim is taken back, and a claim is
\* only ever made of a published set that is in force.
THEOREM ApplierImplements == Spec => ImplementsEndArming
<1>1. ClaimInv /\ TypeOK /\ [Next]_vars => ClaimInv'
  BY ClaimStep
<1>2. TypeOK /\ TypeOK' /\ ClaimInv /\ ClaimInv' /\ [Next]_vars
        => [Arming!Next]_<<published, ClaimMade, InForce>>
  BY ArmingStep DEF ArmingVars
<1> QED
  BY <1>1, <1>2, ClaimInit, ArmingInit, TypeCorrect, PTL DEF Spec, ImplementsEndArming, Arming!Spec

-----------------------------------------------------------------------------
(* The event streams of the gateway.                                       *)

EvTypes ==
  /\ evSeq \in 0..MaxEventNo /\ open \subseteq Client /\ IsFiniteSet(open) /\ due \subseteq open
  /\ queue \in [Client -> Seq(Nat)] /\ replay \in [Client -> Seq(Nat)]
  /\ valid \in [Client -> {NoEvent} \cup Nat] /\ last \in [Client -> Nat] /\ overfull \in BOOLEAN
  /\ \A c \in Client :
       /\ Len(queue[c]) <= QueueLimit /\ valid[c] <= evSeq /\ last[c] <= evSeq
       /\ \A i \in 1..Len(queue[c]) : queue[c][i] <= evSeq
       /\ \A i \in 1..Len(replay[c]) : replay[c][i] <= evSeq
       /\ c \notin open => queue[c] = <<>> /\ replay[c] = <<>>

\* Before place m of the queue q, the replay r and the queue lead without a gap from the event l that the client
\* got last to the event b; or the client is one of those away too long (O) and the replay starts later.
Line(q, r, l, c, O, m, b) ==
  /\ b - (m - 1) - Len(r) >= 0
  /\ \A i \in 1..(m - 1) : q[i] = b - (m - 1) + i
  /\ \A j \in 1..Len(r) : r[j] = b - (m - 1) - Len(r) + j
  /\ l # 0 => l = b - (m - 1) - Len(r) \/ (r # <<>> /\ c \in O)

\* The stream of a revoked phone leads to the mark, behind the events from before the revocation; every other
\* one leads to the latest event.
Streams ==
  \A c \in open :
    IF c \in Phone /\ ~Good(c)
    THEN \E m \in 1..Len(queue[c]) : queue[c][m] = 0 /\ Line(queue[c], replay[c], last[c], c, offline, m, valid[c])
    ELSE Line(queue[c], replay[c], last[c], c, offline, Len(queue[c]) + 1, evSeq)

EvInv ==
  /\ EvTypes
  /\ ~overfull => Streams /\ gap \subseteq offline /\ late \cap Phone = {}

LEMMA SeqFacts ==
  ASSUME NEW q \in Seq(Nat)
  PROVE  /\ Len(q) \in Nat /\ \A i \in 1..Len(q) : q[i] \in Nat
         /\ q # <<>> => /\ Len(q) > 0 /\ Head(q) = q[1] /\ Head(q) \in Nat /\ Tail(q) \in Seq(Nat) /\ Len(Tail(q)) = Len(q) - 1
                        /\ \A i \in 1..(Len(q) - 1) : Tail(q)[i] = q[i + 1]
         /\ q = <<>> => Len(q) = 0
         /\ \A x \in Nat : /\ Append(q, x) \in Seq(Nat) /\ Len(Append(q, x)) = Len(q) + 1
                           /\ Append(q, x)[Len(q) + 1] = x /\ \A i \in 1..Len(q) : Append(q, x)[i] = q[i]
<1>1. Len(q) \in Nat /\ (\A i \in 1..Len(q) : q[i] \in Nat) /\ (q = <<>> => Len(q) = 0)
  OBVIOUS
<1>2. ASSUME q # <<>>
      PROVE  /\ Len(q) > 0 /\ Head(q) = q[1] /\ Head(q) \in Nat /\ Tail(q) \in Seq(Nat) /\ Len(Tail(q)) = Len(q) - 1
             /\ \A i \in 1..(Len(q) - 1) : Tail(q)[i] = q[i + 1]
  BY <1>2
<1>3. ASSUME NEW x \in Nat
      PROVE  /\ Append(q, x) \in Seq(Nat) /\ Len(Append(q, x)) = Len(q) + 1
             /\ Append(q, x)[Len(q) + 1] = x /\ \A i \in 1..Len(q) : Append(q, x)[i] = q[i]
  OBVIOUS
<1> QED
  BY <1>1, <1>2, <1>3

\* An event more, a kick.
LEMMA LineGrows ==
  ASSUME NEW q \in Seq(Nat), NEW r \in Seq(Nat), NEW l \in Nat, NEW c, NEW O, NEW b \in Nat, NEW x \in Nat
  PROVE  /\ Line(q, r, l, c, O, Len(q) + 1, b) => Line(Append(q, b + 1), r, l, c, O, Len(q) + 2, b + 1)
         /\ \A m \in 1..(Len(q) + 1) : Line(q, r, l, c, O, m, b) => Line(Append(q, x), r, l, c, O, m, b)
<1> DEFINE s == Append(q, b + 1)
           t == Append(q, x)
<1>1. /\ Len(q) \in Nat /\ Len(r) \in Nat /\ s[Len(q) + 1] = b + 1 /\ (\A i \in 1..Len(q) : s[i] = q[i])
      /\ \A i \in 1..Len(q) : t[i] = q[i]
  BY SeqFacts
<1> HIDE DEF s, t
<1>2. ASSUME Line(q, r, l, c, O, Len(q) + 1, b) PROVE Line(s, r, l, c, O, Len(q) + 2, b + 1)
  <2> DEFINE n == Len(q) + 2
  <2>0. n = Len(q) + 2
    OBVIOUS
  <2> HIDE DEF n
  <2>1. /\ b - Len(q) - Len(r) >= 0 /\ \A i \in 1..Len(q) : q[i] = b - Len(q) + i
        /\ \A j \in 1..Len(r) : r[j] = b - Len(q) - Len(r) + j
    BY <1>1, <1>2 DEF Line
  <2>2. l # 0 => l = b - Len(q) - Len(r) \/ (r # <<>> /\ c \in O)
    BY <1>1, <1>2 DEF Line
  <2>3. ASSUME NEW i \in 1..(n - 1) PROVE s[i] = (b + 1) - (n - 1) + i
    <3>1. CASE i = Len(q) + 1
      BY <1>1, <2>0, <3>1
    <3>2. CASE i \in 1..Len(q)
      BY <1>1, <2>0, <2>1, <3>2
    <3> QED
      BY <1>1, <2>0, <3>1, <3>2
  <2>4. /\ (b + 1) - (n - 1) - Len(r) >= 0 /\ (b + 1) - (n - 1) - Len(r) = b - Len(q) - Len(r)
        /\ \A j \in 1..Len(r) : r[j] = (b + 1) - (n - 1) - Len(r) + j
    BY <1>1, <2>0, <2>1
  <2>5. l # 0 => l = (b + 1) - (n - 1) - Len(r) \/ (r # <<>> /\ c \in O)
    BY <2>2, <2>4, Zenon
  <2>6. Line(s, r, l, c, O, n, b + 1)
    BY <2>3, <2>4, <2>5, Zenon DEF Line
  <2> QED
    BY <2>6 DEF n
<1>3. \A m \in 1..(Len(q) + 1) : Line(q, r, l, c, O, m, b) => Line(t, r, l, c, O, m, b)
  BY <1>1 DEF Line
<1> QED
  BY <1>2, <1>3 DEF s, t

\* The stream sends what comes next.
LEMMA LineReplays ==
  ASSUME NEW q \in Seq(Nat), NEW r \in Seq(Nat), NEW l \in Nat, NEW c, NEW O, NEW b \in Nat, NEW m \in Nat \ {0},
         Line(q, r, l, c, O, m, b), r # <<>>
  PROVE  /\ Line(q, Tail(r), Head(r), c, O, m, b)
         /\ Head(r) <= b /\ (l = 0 \/ Head(r) = l + 1 \/ c \in O)
<1> DEFINE t == Tail(r)
           h == Head(r)
<1>1. Len(r) \in Nat /\ Len(r) > 0 /\ h = r[1] /\ Len(t) = Len(r) - 1 /\ \A i \in 1..(Len(r) - 1) : t[i] = r[i + 1]
  BY SeqFacts
<1> HIDE DEF t, h
<1>2. h = b - (m - 1) - Len(r) + 1
  BY <1>1 DEF Line
<1>3. Line(q, t, h, c, O, m, b)
  BY <1>1, <1>2 DEF Line
<1>4. h <= b
  BY <1>1, <1>2
<1>5. l = 0 \/ h = l + 1 \/ c \in O
  <2>1. l = 0 \/ l = b - (m - 1) - Len(r) \/ c \in O
    BY Zenon DEF Line
  <2> QED
    BY <1>1, <1>2, <2>1
<1> QED
  BY <1>3, <1>4, <1>5 DEF t, h

LEMMA LineDelivers ==
  ASSUME NEW q \in Seq(Nat), NEW r, r = <<>>, NEW l \in Nat, NEW c, NEW O, NEW b \in Nat, NEW m \in 2..(Len(q) + 1),
         Line(q, r, l, c, O, m, b), q # <<>>
  PROVE  /\ Line(Tail(q), r, Head(q), c, O, m - 1, b)
         /\ Head(q) <= b /\ (l = 0 \/ Head(q) = l + 1)
<1> DEFINE t == Tail(q)
           h == Head(q)
<1>1. Len(q) \in Nat /\ Len(q) > 0 /\ h = q[1] /\ Len(t) = Len(q) - 1 /\ Len(r) = 0
      /\ \A i \in 1..(Len(q) - 1) : t[i] = q[i + 1]
  BY SeqFacts
<1> HIDE DEF t, h
<1>2. h = b - (m - 1) + 1 /\ m \in Nat /\ m >= 2
  BY <1>1 DEF Line
<1>3. Line(t, r, h, c, O, m - 1, b)
  <2>1. b - (m - 1) - Len(r) >= 0 /\ \A i \in 1..(m - 1) : q[i] = b - (m - 1) + i
    BY DEF Line
  <2>2. h = b - (m - 1 - 1) - Len(r) /\ b - (m - 1 - 1) - Len(r) >= 0
    BY <1>1, <1>2, <2>1
  <2>3. ASSUME NEW i \in 1..(m - 1 - 1) PROVE t[i] = b - (m - 1 - 1) + i
    <3>1. i \in 1..(Len(q) - 1) /\ i + 1 \in 1..(m - 1)
      BY <1>1, <1>2
    <3>2. t[i] = q[i + 1] /\ q[i + 1] = b - (m - 1) + (i + 1)
      BY <1>1, <2>1, <3>1
    <3> QED
      BY <1>2, <3>1, <3>2
  <2>4. \A j \in 1..Len(r) : r[j] = b - (m - 1 - 1) - Len(r) + j
    BY <1>1
  <2> QED
    BY <2>2, <2>3, <2>4 DEF Line
<1>4. h <= b /\ (l = 0 \/ h = l + 1)
  BY <1>1, <1>2 DEF Line
<1> QED
  BY <1>3, <1>4 DEF t, h

\* What a new stream reads from the ring.
LEMMA SinceIs ==
  ASSUME EvTypes, NEW n \in 0..evSeq, NEW c, NEW O
  PROVE  /\ Since(n) \in Seq(Nat) /\ \A i \in 1..Len(Since(n)) : Since(n)[i] <= evSeq
         /\ (n < evSeq - Keep => c \in O) => Line(<<>>, Since(n), n, c, O, 1, evSeq)
<1> DEFINE first == IF n >= evSeq - Keep THEN n + 1 ELSE evSeq - Keep + 1
           k == evSeq + 1 - first
           s == [i \in 1..k |-> first + i - 1]
<1>1. evSeq \in Nat /\ Keep \in Nat \ {0} /\ n \in Nat
  BY EventsNumbers DEF EvTypes
<1>2. first \in Nat \ {0} /\ k \in Nat /\ (n >= evSeq - Keep => first = n + 1) /\ (n < evSeq - Keep => first = evSeq - Keep + 1 /\ k = Keep)
      /\ first = evSeq + 1 - k
  BY <1>1
<1>3. Since(n) = s
  BY DEF Since
<1> HIDE DEF first, k
<1>4. s \in Seq(Nat) /\ Len(s) = k /\ \A i \in 1..k : s[i] = first + i - 1
  <2>1. s \in [1..k -> Nat]
    BY <1>2
  <2> QED
    BY <1>2, <2>1
<1> HIDE DEF s
<1>5. \A i \in 1..Len(s) : s[i] <= evSeq
  BY <1>1, <1>2, <1>4
<1>6. ASSUME n < evSeq - Keep => c \in O PROVE Line(<<>>, s, n, c, O, 1, evSeq)
  <2>1. evSeq - (1 - 1) - Len(s) >= 0 /\ (\A j \in 1..Len(s) : s[j] = evSeq - (1 - 1) - Len(s) + j)
    BY <1>1, <1>2, <1>4
  <2>2. n = evSeq - (1 - 1) - Len(s) \/ (s # <<>> /\ c \in O)
    <3>1. CASE n >= evSeq - Keep
      BY <1>1, <1>2, <1>4, <3>1
    <3>2. CASE n < evSeq - Keep
      <4>1. Len(s) # 0
        BY <1>1, <1>2, <1>4, <3>2
      <4> QED
        BY <1>4, <1>6, <3>2, <4>1
    <3> QED
      BY <1>1, <3>1, <3>2
  <2> QED
    BY <2>1, <2>2 DEF Line
<1> QED
  BY <1>3, <1>4, <1>5, <1>6

\* The stream of one client.
Flows(c) ==
  IF c \in Phone /\ ~Good(c)
  THEN \E m \in 1..Len(queue[c]) : queue[c][m] = 0 /\ Line(queue[c], replay[c], last[c], c, offline, m, valid[c])
  ELSE Line(queue[c], replay[c], last[c], c, offline, Len(queue[c]) + 1, evSeq)

LEMMA FlowsOn ==
  ASSUME NEW c, Flows(c), evSeq' = evSeq, queue'[c] = queue[c], replay'[c] = replay[c], last'[c] = last[c],
         valid'[c] = valid[c], c \in offline => c \in offline'
  PROVE  Flows(c)'
  BY Zenon DEF Flows, Good, Line

LEMMA EvTyped ==
  ASSUME EvTypes
  PROVE  /\ evSeq \in Nat /\ MaxEventNo \in Nat /\ QueueLimit \in Nat \ {0} /\ Phone \subseteq Client
         /\ \A c \in Client : /\ queue[c] \in Seq(Nat) /\ replay[c] \in Seq(Nat) /\ last[c] \in 0..evSeq
                              /\ Len(queue[c]) \in 0..QueueLimit /\ Len(replay[c]) \in Nat
                              /\ valid[c] \in {NoEvent} \cup 0..evSeq
         /\ \A c \in open : c \in Client
<1>1. evSeq \in Nat /\ MaxEventNo \in Nat /\ QueueLimit \in Nat \ {0} /\ Phone \subseteq Client
  BY EventsNumbers DEF EvTypes
<1>2. ASSUME NEW c \in Client
      PROVE  /\ queue[c] \in Seq(Nat) /\ replay[c] \in Seq(Nat) /\ last[c] \in Nat /\ last[c] <= evSeq
             /\ Len(queue[c]) <= QueueLimit /\ valid[c] \in {NoEvent} \cup Nat /\ valid[c] <= evSeq
  BY DEF EvTypes
<1>3. ASSUME NEW c \in Client
      PROVE  /\ queue[c] \in Seq(Nat) /\ replay[c] \in Seq(Nat) /\ last[c] \in 0..evSeq
             /\ Len(queue[c]) \in 0..QueueLimit /\ Len(replay[c]) \in Nat
             /\ valid[c] \in {NoEvent} \cup 0..evSeq
  <2>1. Len(queue[c]) \in Nat /\ Len(replay[c]) \in Nat
    BY <1>2, SeqFacts
  <2>2. QueueLimit \in Nat
    BY <1>1
  <2> QED
    BY <1>1, <1>2, <2>1, <2>2 DEF NoEvent
<1> QED
  BY <1>1, <1>3 DEF EvTypes

LEMMA EvStarts == EvInit => EvInv
<1> SUFFICES ASSUME EvInit PROVE EvInv
  OBVIOUS
<1>1. /\ evSeq = 0 /\ queue = [c \in Client |-> <<>>] /\ replay = [c \in Client |-> <<>>]
      /\ open = {} /\ valid = [c \in Client |-> NoEvent] /\ due = {} /\ last = [c \in Client |-> 0]
      /\ gap = {} /\ offline = {} /\ overfull = FALSE /\ late = {}
  BY DEF EvInit
<1>2. IsFiniteSet({})
  BY FS_EmptySet
<1>3. <<>> \in Seq(Nat) /\ Len(<<>>) = 0
  OBVIOUS
<1>4. QueueLimit \in Nat /\ MaxEventNo \in Nat
  BY EventsNumbers
<1>5. queue \in [Client -> Seq(Nat)] /\ replay \in [Client -> Seq(Nat)] /\ valid \in [Client -> {NoEvent} \cup Nat] /\ last \in [Client -> Nat]
  BY <1>1, <1>3
<1>6. \A c \in Client :
       /\ Len(queue[c]) <= QueueLimit /\ valid[c] <= evSeq /\ last[c] <= evSeq
       /\ \A i \in 1..Len(queue[c]) : queue[c][i] <= evSeq
       /\ \A i \in 1..Len(replay[c]) : replay[c][i] <= evSeq
       /\ queue[c] = <<>> /\ replay[c] = <<>>
  BY <1>1, <1>3, <1>4 DEF NoEvent
<1>7. EvTypes
  <2>1. evSeq \in 0..MaxEventNo
    BY <1>1, <1>4
  <2>2. open \subseteq Client /\ IsFiniteSet(open) /\ due \subseteq open /\ overfull \in BOOLEAN
    BY <1>1, <1>2
  <2> QED
    BY <1>5, <1>6, <2>1, <2>2, Zenon DEF EvTypes
<1>8. Streams /\ gap \subseteq offline /\ late \cap Phone = {}
  BY <1>1 DEF Streams
<1> QED
  BY <1>7, <1>8 DEF EvInv

\* The stream of one client changes, that of the others does not.
LEMMA OneStream ==
  ASSUME EvTypes, NEW c \in Client, NEW q \in Seq(Nat), NEW r \in Seq(Nat),
         queue' = [queue EXCEPT ![c] = q], replay' = [replay EXCEPT ![c] = r],
         UNCHANGED <<evSeq, valid, overfull>>, last' \in [Client -> Nat], last'[c] <= evSeq,
         \A d \in Client \ {c} : last'[d] = last[d],
         open' \subseteq open \cup {c}, \A d \in open \ {c} : d \in open', due' \subseteq open',
         Len(q) <= QueueLimit, \A i \in 1..Len(q) : q[i] <= evSeq, \A i \in 1..Len(r) : r[i] <= evSeq,
         c \notin open' => q = <<>> /\ r = <<>>
  PROVE  EvTypes'
<1>1. IsFiniteSet(open')
  <2>1. IsFiniteSet(open \cup {c})
    BY FS_AddElement DEF EvTypes
  <2> QED
    BY <2>1, FS_Subset
<1>2. queue' \in [Client -> Seq(Nat)] /\ replay' \in [Client -> Seq(Nat)] /\ queue'[c] = q /\ replay'[c] = r
      /\ \A d \in Client \ {c} : queue'[d] = queue[d] /\ replay'[d] = replay[d]
  BY DEF EvTypes
<1>3. ASSUME NEW d \in Client
      PROVE  /\ Len(queue'[d]) <= QueueLimit /\ valid'[d] <= evSeq' /\ last'[d] <= evSeq'
             /\ \A i \in 1..Len(queue'[d]) : queue'[d][i] <= evSeq'
             /\ \A i \in 1..Len(replay'[d]) : replay'[d][i] <= evSeq'
             /\ d \notin open' => queue'[d] = <<>> /\ replay'[d] = <<>>
  <2>1. CASE d = c
    BY <1>2, <2>1 DEF EvTypes
  <2>2. CASE d # c
    BY <1>2, <2>2 DEF EvTypes
  <2> QED
    BY <2>1, <2>2
<1>4. open' \subseteq Client /\ evSeq' \in 0..MaxEventNo /\ valid' \in [Client -> {NoEvent} \cup Nat] /\ overfull' \in BOOLEAN
  BY Zenon DEF EvTypes
<1> QED
  BY <1>1, <1>2, <1>3, <1>4, Zenon DEF EvTypes

\* A stream is closed.
LEMMA ClosedStays ==
  ASSUME EvInv, NEW c \in open, Closed(c), UNCHANGED <<evSeq, valid, last, gap, offline, overfull, late>>
  PROVE  EvInv'
<1>1. /\ open' = open \ {c} /\ queue' = [queue EXCEPT ![c] = <<>>] /\ replay' = [replay EXCEPT ![c] = <<>>]
      /\ due' = due \ {c}
  BY DEF Closed
<1>2. c \in Client /\ EvTypes /\ due \subseteq open
  BY DEF EvInv, EvTypes
<1>3. <<>> \in Seq(Nat) /\ Len(<<>>) = 0
  OBVIOUS
<1>4. last' \in [Client -> Nat] /\ last'[c] <= evSeq /\ \A d \in Client \ {c} : last'[d] = last[d]
  BY <1>2 DEF EvTypes
<1>5. EvTypes'
  <2>1. Len(<<>>) <= QueueLimit /\ (\A i \in 1..Len(<<>>) : <<>>[i] <= evSeq)
    BY <1>2, <1>3, EvTyped
  <2>2. open' \subseteq open \cup {c} /\ (\A d \in open \ {c} : d \in open') /\ due' \subseteq open'
    BY <1>1, <1>2
  <2> QED
    BY <1>1, <1>2, <1>3, <1>4, <2>1, <2>2, OneStream, Zenon
<1>6. ASSUME ~overfull' PROVE Streams' /\ gap' \subseteq offline' /\ late' \cap Phone = {}
  <2>1. Streams /\ gap \subseteq offline /\ late \cap Phone = {}
    BY <1>6 DEF EvInv
  <2>2. \A d \in open' : d \in open /\ d # c /\ d \in Client
    BY <1>1, <1>2, EvTyped
  <2>3. \A d \in open' : Flows(d)
    BY <2>1, <2>2 DEF Streams, Flows
  <2>4. \A d \in open' : queue'[d] = queue[d] /\ replay'[d] = replay[d]
    BY <1>1, <1>2, <2>2 DEF EvTypes
  <2>5. \A d \in open' : Flows(d)'
    BY <2>3, <2>4, FlowsOn
  <2> QED
    BY <2>1, <2>5 DEF Streams, Flows
<1> QED
  BY <1>5, <1>6 DEF EvInv

\* A stream that sends an event, once it is known what is left of it.
LEMMA SendStays ==
  ASSUME EvInv, NEW c \in open, NEW n \in Nat, Sends(c, n), NEW q \in Seq(Nat), NEW r \in Seq(Nat),
         queue' = [queue EXCEPT ![c] = q], replay' = [replay EXCEPT ![c] = r],
         open' \subseteq open, \A d \in open \ {c} : d \in open', due' \subseteq open',
         Len(q) <= QueueLimit, \A i \in 1..Len(q) : q[i] <= evSeq, \A i \in 1..Len(r) : r[i] <= evSeq,
         c \notin open' => q = <<>> /\ r = <<>>, n <= evSeq,
         ~overfull => /\ c \in open' => Flows(c)'
                      /\ last[c] = 0 \/ n = last[c] + 1 \/ c \in offline
                      /\ c \in Phone /\ ~Good(c) => n <= valid[c]
  PROVE  EvInv'
<1>1. /\ last' = [last EXCEPT ![c] = n] /\ UNCHANGED <<evSeq, valid, offline, overfull>>
      /\ gap' = IF last[c] # 0 /\ n # last[c] + 1 THEN gap \cup {c} ELSE gap
      /\ late' = IF ~Good(c) /\ n > valid[c] THEN late \cup {c} ELSE late
  BY DEF Sends
<1>2. EvTypes /\ c \in Client
  BY DEF EvInv, EvTypes
<1>3. last' \in [Client -> Nat] /\ last'[c] = n /\ \A d \in Client \ {c} : last'[d] = last[d]
  BY <1>1, <1>2 DEF EvTypes
<1>4. EvTypes'
  <2>1. open' \subseteq open \cup {c}
    OBVIOUS
  <2> QED
    BY <1>1, <1>2, <1>3, <2>1, OneStream, Zenon
<1>5. ASSUME ~overfull' PROVE Streams' /\ gap' \subseteq offline' /\ late' \cap Phone = {}
  <2>1. ~overfull /\ Streams /\ gap \subseteq offline /\ late \cap Phone = {}
    BY <1>1, <1>5, Zenon DEF EvInv
  <2>2. ASSUME NEW d \in open', d # c PROVE Flows(d)'
    <3>1. Flows(d) /\ d \in Client
      BY <1>2, <2>1, <2>2, EvTyped DEF Streams, Flows
    <3>2. queue'[d] = queue[d] /\ replay'[d] = replay[d] /\ last'[d] = last[d]
      BY <1>2, <1>3, <2>2, <3>1 DEF EvTypes
    <3> QED
      BY <1>1, <3>1, <3>2, FlowsOn
  <2>3. \A d \in open' : Flows(d)'
    BY <2>1, <2>2
  <2>4. gap' \subseteq offline'
    <3>1. last[c] # 0 /\ n # last[c] + 1 => c \in offline
      BY <2>1
    <3> QED
      BY <1>1, <2>1, <3>1
  <2>5. late' \cap Phone = {}
    <3>1. c \in Phone /\ ~Good(c) => ~(n > valid[c])
      <4>1. valid[c] \in Int /\ n \in Int
        BY <1>2, EvTyped DEF NoEvent
      <4> QED
        BY <2>1, <4>1
    <3> QED
      BY <1>1, <2>1, <3>1
  <2> QED
    BY <2>3, <2>4, <2>5 DEF Streams, Flows
<1> QED
  BY <1>4, <1>5 DEF EvInv

LEMMA ReplaysStays == ASSUME EvInv, NEW c \in Client, Replays(c) PROVE EvInv'
<1> DEFINE q == queue[c]
           r == replay[c]
           n == Head(r)
<1>1. /\ c \in open /\ r # <<>> /\ Sends(c, n) /\ replay' = [replay EXCEPT ![c] = Tail(r)]
      /\ UNCHANGED <<queue, open, due>> /\ UNCHANGED <<evSeq, valid, offline, overfull>>
  BY DEF Replays, Sends
<1>2. EvTypes /\ q \in Seq(Nat) /\ r \in Seq(Nat) /\ last[c] \in Nat /\ due \subseteq open
      /\ Len(q) <= QueueLimit /\ (\A i \in 1..Len(q) : q[i] <= evSeq) /\ \A i \in 1..Len(r) : r[i] <= evSeq
  BY DEF EvInv, EvTypes
<1>3. /\ Len(r) \in Nat /\ Len(r) > 0 /\ n = r[1] /\ n \in Nat /\ Tail(r) \in Seq(Nat) /\ Len(Tail(r)) = Len(r) - 1
      /\ (\A i \in 1..(Len(r) - 1) : Tail(r)[i] = r[i + 1]) /\ Len(q) \in Nat
  BY <1>1, <1>2, SeqFacts
<1>4. n <= evSeq /\ \A i \in 1..Len(Tail(r)) : Tail(r)[i] <= evSeq
  BY <1>2, <1>3
<1>5. queue' = [queue EXCEPT ![c] = q]
  BY <1>1, <1>2 DEF EvTypes
<1>6. queue'[c] = q /\ replay'[c] = Tail(r) /\ last'[c] = n /\ valid'[c] = valid[c] /\ offline' = offline
  BY <1>1, <1>2 DEF EvTypes, Sends
<1>7. ASSUME ~overfull
      PROVE  /\ Flows(c)' /\ (last[c] = 0 \/ n = last[c] + 1 \/ c \in offline)
             /\ c \in Phone /\ ~Good(c) => n <= valid[c]
  <2>1. Flows(c)
    BY <1>1, <1>7 DEF EvInv, Streams, Flows
  <2>2. CASE c \in Phone /\ ~Good(c)
    <3>1. PICK m \in 1..Len(q) : q[m] = 0 /\ Line(q, r, last[c], c, offline, m, valid[c])
      BY <2>1, <2>2 DEF Flows
    <3>2. valid[c] \in Nat /\ m \in Nat \ {0}
      BY <1>2, <1>3, <2>2, EvTyped DEF Good
    <3>3. /\ Line(q, Tail(r), n, c, offline, m, valid[c])
          /\ n <= valid[c] /\ (last[c] = 0 \/ n = last[c] + 1 \/ c \in offline)
      BY <1>1, <1>2, <2>1, <3>1, <3>2, LineReplays
    <3>4. c \in Phone /\ ~Good(c)'
      BY <1>6, <2>2 DEF Good
    <3>5. Flows(c)'
      BY <1>6, <3>1, <3>3, <3>4, Zenon DEF Flows
    <3> QED
      BY <3>3, <3>5
  <2>3. CASE ~(c \in Phone /\ ~Good(c))
    <3>1. Line(q, r, last[c], c, offline, Len(q) + 1, evSeq)
      BY <2>1, <2>3 DEF Flows
    <3>2. evSeq \in Nat /\ Len(q) + 1 \in Nat \ {0}
      BY <1>2, <1>3, EvTyped
    <3>3. /\ Line(q, Tail(r), n, c, offline, Len(q) + 1, evSeq)
          /\ (last[c] = 0 \/ n = last[c] + 1 \/ c \in offline)
      <4> DEFINE k == Len(q) + 1
      <4>1. k \in Nat \ {0} /\ Line(q, r, last[c], c, offline, k, evSeq)
        BY <3>1, <3>2
      <4> HIDE DEF k
      <4>2. Line(q, Tail(r), n, c, offline, k, evSeq) /\ (last[c] = 0 \/ n = last[c] + 1 \/ c \in offline)
        BY <1>1, <1>2, <3>2, <4>1, LineReplays
      <4> QED
        BY <4>2 DEF k
    <3>4. ~(c \in Phone /\ ~Good(c)')
      BY <1>6, <2>3 DEF Good
    <3>5. Flows(c)'
      BY <1>1, <1>6, <3>3, <3>4, Zenon DEF Flows
    <3> QED
      BY <2>3, <3>3, <3>5
  <2> QED
    BY <2>2, <2>3
<1> HIDE DEF q, r, n
<1>8. open' \subseteq open /\ (\A d \in open \ {c} : d \in open') /\ due' \subseteq open'
  BY <1>1, <1>2
<1>9. c \notin open' => q = <<>> /\ Tail(r) = <<>>
  BY <1>1
<1> QED
  BY <1>1, <1>2, <1>3, <1>4, <1>5, <1>7, <1>8, <1>9, SendStays

LEMMA DeliversStays == ASSUME EvInv, NEW c \in Client, Delivers(c) PROVE EvInv'
<1> DEFINE q == queue[c]
           r == replay[c]
           n == Head(q)
<1>1. c \in open /\ r = <<>> /\ q # <<>>
  BY DEF Delivers
<1>2. EvTypes /\ q \in Seq(Nat) /\ r \in Seq(Nat) /\ last[c] \in Nat /\ due \subseteq open
      /\ Len(q) <= QueueLimit /\ \A i \in 1..Len(q) : q[i] <= evSeq
  BY DEF EvInv, EvTypes
<1>3. /\ Len(q) \in Nat /\ Len(q) > 0 /\ n = q[1] /\ n \in Nat /\ Tail(q) \in Seq(Nat) /\ Len(Tail(q)) = Len(q) - 1
      /\ (\A i \in 1..(Len(q) - 1) : Tail(q)[i] = q[i + 1])
  BY <1>1, <1>2, SeqFacts
<1>4. CASE n = 0
  BY <1>1, <1>4, ClosedStays DEF Delivers
<1>5. ASSUME n # 0 PROVE EvInv'
  <2> DEFINE t == IF c \in open' THEN Tail(q) ELSE <<>>
  <2>1. /\ Sends(c, n) /\ Recheck(c) /\ queue' = [queue EXCEPT ![c] = t]
    BY <1>5 DEF Delivers
  <2>2. /\ n <= evSeq /\ Len(Tail(q)) <= QueueLimit /\ \A i \in 1..Len(Tail(q)) : Tail(q)[i] <= evSeq
    <3>1. n <= evSeq /\ Len(Tail(q)) <= QueueLimit
      <4>1. QueueLimit \in Nat
        BY <1>2, EvTyped
      <4> QED
        BY <1>2, <1>3, <4>1
    <3>2. \A i \in 1..Len(Tail(q)) : i + 1 \in 1..Len(q) /\ Tail(q)[i] = q[i + 1]
      BY <1>3
    <3> QED
      BY <1>2, <3>1, <3>2
  <2>3. t \in Seq(Nat) /\ (c \in open' => t = Tail(q)) /\ (c \notin open' => t = <<>>)
        /\ Len(t) <= QueueLimit /\ \A i \in 1..Len(t) : t[i] <= evSeq
    <3>1. Len(<<>>) = 0 /\ <<>> \in Seq(Nat) /\ QueueLimit \in Nat
      BY <1>2, EvTyped
    <3> QED
      BY <1>3, <2>2, <3>1
  <2> HIDE DEF t
  <2>4. /\ replay' = [replay EXCEPT ![c] = <<>>] /\ open' \subseteq open /\ (\A d \in open \ {c} : d \in open')
        /\ due' \subseteq open'
    <3>1. replay = [replay EXCEPT ![c] = <<>>]
      BY <1>1, <1>2 DEF EvTypes
    <3>2. CASE c \in due /\ ~Good(c)
      BY <1>2, <2>1, <3>2 DEF Recheck
    <3>3. CASE ~(c \in due /\ ~Good(c))
      BY <1>2, <2>1, <3>1, <3>3 DEF Recheck
    <3> QED
      BY <3>2, <3>3
  <2>5. queue'[c] = t /\ replay'[c] = <<>> /\ last'[c] = n /\ valid'[c] = valid[c] /\ offline' = offline /\ evSeq' = evSeq
    BY <1>2, <2>1, <2>4 DEF EvTypes, Sends
  <2>6. ASSUME ~overfull
        PROVE  /\ c \in open' => Flows(c)'
               /\ last[c] = 0 \/ n = last[c] + 1 \/ c \in offline
               /\ c \in Phone /\ ~Good(c) => n <= valid[c]
    <3>1. Flows(c)
      BY <1>1, <2>6 DEF EvInv, Streams, Flows
    <3>2. CASE c \in Phone /\ ~Good(c)
      <4>1. PICK m \in 1..Len(q) : q[m] = 0 /\ Line(q, r, last[c], c, offline, m, valid[c])
        BY <3>1, <3>2 DEF Flows
      <4>2. valid[c] \in Nat /\ m \in 2..(Len(q) + 1) /\ m - 1 \in 1..(Len(q) - 1)
        BY <1>2, <1>3, <1>5, <3>2, <4>1, EvTyped DEF Good
      <4>3. /\ Line(Tail(q), r, n, c, offline, m - 1, valid[c])
            /\ n <= valid[c] /\ (last[c] = 0 \/ n = last[c] + 1)
        BY <1>1, <1>2, <4>1, <4>2, LineDelivers
      <4>4. c \in Phone /\ ~Good(c)'
        BY <2>5, <3>2 DEF Good
      <4>5. Tail(q)[m - 1] = 0 /\ m - 1 \in 1..Len(Tail(q))
        BY <1>3, <4>1, <4>2
      <4>6. c \in open' => Flows(c)'
        BY <1>1, <2>3, <2>5, <4>3, <4>4, <4>5 DEF Flows
      <4> QED
        BY <4>3, <4>6
    <3>3. CASE ~(c \in Phone /\ ~Good(c))
      <4>1. Line(q, r, last[c], c, offline, Len(q) + 1, evSeq)
        BY <3>1, <3>3 DEF Flows
      <4>2. evSeq \in Nat /\ Len(q) + 1 \in 2..(Len(q) + 1) /\ (Len(q) + 1) - 1 = Len(Tail(q)) + 1
        BY <1>2, <1>3, EvTyped
      <4>3. /\ Line(Tail(q), r, n, c, offline, Len(Tail(q)) + 1, evSeq)
            /\ (last[c] = 0 \/ n = last[c] + 1)
        <5> DEFINE k == Len(q) + 1
        <5>1. k \in 2..(Len(q) + 1) /\ k - 1 = Len(Tail(q)) + 1 /\ Line(q, r, last[c], c, offline, k, evSeq)
          BY <4>1, <4>2
        <5> HIDE DEF k
        <5>2. /\ Line(Tail(q), r, n, c, offline, k - 1, evSeq)
              /\ (last[c] = 0 \/ n = last[c] + 1)
          BY <1>1, <1>2, <4>2, <5>1, LineDelivers
        <5> QED
          BY <5>1, <5>2
      <4>4. ~(c \in Phone /\ ~Good(c)')
        BY <2>5, <3>3 DEF Good
      <4>5. c \in open' => Flows(c)'
        BY <1>1, <2>3, <2>5, <4>3, <4>4 DEF Flows
      <4> QED
        BY <3>3, <4>3, <4>5
    <3> QED
      BY <3>2, <3>3
  <2> HIDE DEF q, r, n
  <2>7. <<>> \in Seq(Nat) /\ Len(<<>>) = 0
    OBVIOUS
  <2>8. \A i \in 1..Len(<<>>) : <<>>[i] <= evSeq
    BY <2>7
  <2> QED
    BY <1>1, <1>3, <2>1, <2>2, <2>3, <2>4, <2>6, <2>7, <2>8, SendStays, Zenon
<1> QED
  BY <1>4, <1>5

\* Only `due` changes.
LEMMA DueStays ==
  ASSUME EvInv, due' \subseteq open, UNCHANGED <<evSeq, queue, replay, open, valid, last, gap, offline, overfull, late>>
  PROVE  EvInv'
<1>1. EvTypes'
  BY Zenon DEF EvInv, EvTypes
<1>2. Streams' = Streams
  BY Zenon DEF Streams, Good
<1> QED
  BY <1>1, <1>2, Zenon DEF EvInv

LEMMA HeartbeatStays == ASSUME EvInv, NEW c \in Client, Heartbeat(c) PROVE EvInv'
<1>1. c \in open /\ UNCHANGED <<evSeq, valid, last, gap, offline, overfull, late>>
  BY DEF Heartbeat
<1>2. CASE Good(c)
  <2>1. due' = due \ {c} /\ UNCHANGED <<queue, open, replay>>
    BY <1>2 DEF Heartbeat
  <2> QED
    BY <1>1, <2>1, DueStays DEF EvInv, EvTypes
<1>3. CASE ~Good(c)
  BY <1>1, <1>3, ClosedStays DEF Heartbeat
<1> QED
  BY <1>2, <1>3

LEMMA CheckDueStays == ASSUME EvInv, NEW c \in Client, CheckDue(c) PROVE EvInv'
<1>1. due' \subseteq open
  BY DEF CheckDue, EvInv, EvTypes
<1> QED
  BY <1>1, DueStays DEF CheckDue

LEMMA DisconnectStays == ASSUME EvInv, NEW c \in Client, Disconnect(c) PROVE EvInv'
  BY ClosedStays DEF Disconnect

LEMMA SubscribeStays == ASSUME EvInv, NEW c \in Client, Subscribe(c) PROVE EvInv'
<1> DEFINE r == IF last[c] = 0 THEN <<>> ELSE Since(last[c])
<1>1. /\ c \notin open /\ Good(c) /\ open' = open \cup {c} /\ queue' = [queue EXCEPT ![c] = <<>>]
      /\ replay' = [replay EXCEPT ![c] = r] /\ due' = due \ {c}
      /\ offline' = IF last[c] # 0 /\ last[c] < evSeq - Keep THEN offline \cup {c} ELSE offline
      /\ UNCHANGED <<evSeq, valid, last, gap, overfull, late>>
  BY DEF Subscribe
<1>2. EvTypes /\ last[c] \in 0..evSeq /\ evSeq \in Nat /\ due \subseteq open /\ QueueLimit \in Nat
  BY EvTyped DEF EvInv, EvTypes
<1>3. <<>> \in Seq(Nat) /\ Len(<<>>) = 0
  OBVIOUS
<1>4. r \in Seq(Nat) /\ (\A i \in 1..Len(r) : r[i] <= evSeq) /\ Line(<<>>, r, last[c], c, offline', 1, evSeq)
  <2>1. CASE last[c] = 0
    <3>1. r = <<>>
      BY <2>1
    <3>2. Line(<<>>, <<>>, 0, c, offline', 1, evSeq)
      BY <1>2, <1>3 DEF Line
    <3> QED
      BY <1>3, <2>1, <3>1, <3>2
  <2>2. CASE last[c] # 0
    <3>1. r = Since(last[c])
      BY <2>2
    <3>2. last[c] < evSeq - Keep => c \in offline'
      BY <1>1, <2>2
    <3> HIDE DEF r
    <3> QED
      BY <1>2, <3>1, <3>2, SinceIs
  <2> QED
    BY <2>1, <2>2
<1> HIDE DEF r
<1>5. queue'[c] = <<>> /\ replay'[c] = r
      /\ \A d \in Client \ {c} : queue'[d] = queue[d] /\ replay'[d] = replay[d]
  BY <1>1, <1>2 DEF EvTypes
<1>6. EvTypes'
  <2>1. last' \in [Client -> Nat] /\ last'[c] <= evSeq /\ \A d \in Client \ {c} : last'[d] = last[d]
    BY <1>1, <1>2 DEF EvTypes
  <2>2. Len(<<>>) <= QueueLimit /\ \A i \in 1..Len(<<>>) : <<>>[i] <= evSeq
    BY <1>2, <1>3
  <2>3. open' \subseteq open \cup {c} /\ (\A d \in open \ {c} : d \in open') /\ due' \subseteq open' /\ c \in open'
    BY <1>1, <1>2
  <2> QED
    BY <1>1, <1>2, <1>3, <1>4, <2>1, <2>2, <2>3, OneStream, Zenon
<1>7. ASSUME ~overfull' PROVE Streams' /\ gap' \subseteq offline' /\ late' \cap Phone = {}
  <2>1. ~overfull /\ Streams /\ gap \subseteq offline /\ late \cap Phone = {}
    BY <1>1, <1>7, Zenon DEF EvInv
  <2>2. offline \subseteq offline'
    BY <1>1
  <2>3. ASSUME NEW d \in open', d # c PROVE Flows(d)'
    <3>1. Flows(d) /\ d \in Client
      BY <1>1, <1>2, <2>1, <2>3, EvTyped DEF Streams, Flows
    <3>2. queue'[d] = queue[d] /\ replay'[d] = replay[d] /\ evSeq' = evSeq /\ last'[d] = last[d] /\ valid'[d] = valid[d]
      BY <1>1, <1>5, <2>3, <3>1
    <3> QED
      BY <2>2, <3>1, <3>2, FlowsOn
  <2>4. Flows(c)'
    <3>1. Good(c)' /\ last' = last /\ evSeq' = evSeq
      BY <1>1 DEF Good
    <3>2. Len(queue'[c]) + 1 = 1
      BY <1>3, <1>5
    <3>3. Line(queue'[c], replay'[c], last'[c], c, offline', Len(queue'[c]) + 1, evSeq')
      BY <1>4, <1>5, <3>1, <3>2
    <3> QED
      BY <3>1, <3>3 DEF Flows
  <2> QED
    BY <1>1, <2>1, <2>2, <2>3, <2>4 DEF Streams, Flows
<1> QED
  BY <1>6, <1>7 DEF EvInv

LEMMA RevokeTokenStays == ASSUME EvInv, NEW c \in Client, RevokeToken(c) PROVE EvInv'
<1>1. /\ Good(c) /\ valid' = [valid EXCEPT ![c] = evSeq] /\ queue' = Kicked(c)
      /\ overfull' = (overfull \/ (c \in open \cap Phone /\ Full(queue[c])))
      /\ UNCHANGED <<evSeq, replay, open, due, last, gap, offline, late>>
  BY DEF RevokeToken
<1>2. EvTypes /\ queue \in [Client -> Seq(Nat)] /\ valid \in [Client -> {NoEvent} \cup Nat] /\ overfull \in BOOLEAN
      /\ evSeq \in Nat /\ QueueLimit \in Nat \ {0} /\ queue[c] \in Seq(Nat)
  BY EvTyped DEF EvInv, EvTypes
<1>3. valid' \in [Client -> {NoEvent} \cup Nat] /\ valid'[c] = evSeq /\ \A d \in Client \ {c} : valid'[d] = valid[d]
  BY <1>1, <1>2
<1>4. ASSUME NEW d \in Client PROVE valid'[d] <= evSeq
  <2>1. valid[d] <= evSeq /\ evSeq <= evSeq
    BY <1>2 DEF EvTypes
  <2> QED
    BY <1>3, <2>1
<1> DEFINE k == Append(queue[c], 0)
<1>5. /\ k \in Seq(Nat) /\ Len(k) = Len(queue[c]) + 1 /\ k[Len(queue[c]) + 1] = 0 /\ (\A i \in 1..Len(queue[c]) : k[i] = queue[c][i])
      /\ Len(queue[c]) \in Nat
  BY <1>2, SeqFacts
<1>6. /\ queue' \in [Client -> Seq(Nat)] /\ (\A d \in Client \ {c} : queue'[d] = queue[d])
      /\ c \in open \cap Phone /\ ~Full(queue[c]) => queue'[c] = k
      /\ ~(c \in open \cap Phone /\ ~Full(queue[c])) => queue'[c] = queue[c]
  <2>1. CASE c \in open \cap Phone /\ ~Full(queue[c])
    <3>1. queue' = [queue EXCEPT ![c] = k]
      BY <1>1, <2>1 DEF Kicked
    <3> HIDE DEF k
    <3> QED
      BY <1>2, <1>5, <2>1, <3>1
  <2>2. CASE ~(c \in open \cap Phone /\ ~Full(queue[c]))
    <3>1. queue' = queue
      BY <1>1, <2>2 DEF Kicked
    <3> QED
      BY <1>2, <2>2, <3>1
  <2> QED
    BY <2>1, <2>2
<1> HIDE DEF k
<1>7. ASSUME NEW d \in Client
      PROVE  /\ Len(queue'[d]) <= QueueLimit /\ (\A i \in 1..Len(queue'[d]) : queue'[d][i] <= evSeq)
             /\ d \notin open => queue'[d] = <<>>
  <2>1. queue'[d] = queue[d] \/ (d = c /\ c \in open /\ ~Full(queue[c]) /\ queue'[c] = k)
    BY <1>6
  <2>2. CASE queue'[d] = queue[d]
    BY <1>2, <2>2 DEF EvTypes
  <2>3. CASE d = c /\ c \in open /\ ~Full(queue[c]) /\ queue'[c] = k
    <3>1. Len(k) <= QueueLimit
      BY <1>2, <1>5, <2>3 DEF Full
    <3>2. ASSUME NEW i \in 1..Len(k) PROVE k[i] <= evSeq
      <4>1. CASE i = Len(queue[c]) + 1
        BY <1>2, <1>5, <4>1
      <4>2. CASE i \in 1..Len(queue[c])
        BY <1>2, <1>5, <4>2 DEF EvTypes
      <4> QED
        BY <1>5, <4>1, <4>2
    <3> QED
      BY <2>3, <3>1, <3>2
  <2> QED
    BY <2>1, <2>2, <2>3
<1>8. EvTypes'
  <2>1. overfull' \in BOOLEAN
    BY <1>1, <1>2, Zenon
  <2> QED
    BY <1>1, <1>2, <1>3, <1>4, <1>6, <1>7, <2>1, Zenon DEF EvTypes
<1>9. ASSUME ~overfull' PROVE Streams' /\ gap' \subseteq offline' /\ late' \cap Phone = {}
  <2>1. ~overfull /\ ~(c \in open \cap Phone /\ Full(queue[c]))
    BY <1>1, <1>9, Zenon
  <2>2. Streams /\ gap \subseteq offline /\ late \cap Phone = {}
    BY <2>1 DEF EvInv
  <2>3. ASSUME NEW d \in open, d # c PROVE Flows(d)'
    <3>1. Flows(d) /\ d \in Client
      BY <1>2, <2>2, <2>3, EvTyped DEF Streams, Flows
    <3>2. queue'[d] = queue[d] /\ valid'[d] = valid[d]
      BY <1>3, <1>6, <2>3, <3>1
    <3> QED
      BY <1>1, <3>1, <3>2, FlowsOn
  <2>4. ASSUME c \in open PROVE Flows(c)'
    <3>1. Line(queue[c], replay[c], last[c], c, offline, Len(queue[c]) + 1, evSeq)
      BY <1>1, <2>2, <2>4 DEF Streams
    <3>2. CASE c \in Phone
      <4>1. queue'[c] = k
        BY <1>6, <2>1, <2>4, <3>2
      <4>2. replay[c] \in Seq(Nat) /\ last[c] \in Nat /\ Len(queue[c]) + 1 \in 1..(Len(queue[c]) + 1)
        BY <1>2, <1>5 DEF EvTypes
      <4>3. Line(k, replay[c], last[c], c, offline, Len(queue[c]) + 1, evSeq)
        <5> DEFINE m == Len(queue[c]) + 1
        <5>1. m \in 1..(Len(queue[c]) + 1) /\ Line(queue[c], replay[c], last[c], c, offline, m, evSeq)
          BY <3>1, <4>2
        <5> HIDE DEF m
        <5>2. Line(k, replay[c], last[c], c, offline, m, evSeq)
          BY <1>2, <4>2, <5>1, LineGrows DEF k
        <5> QED
          BY <5>2 DEF m
      <4>4. Len(queue[c]) + 1 \in 1..Len(k)
        BY <1>5
      <4>5. \E m \in 1..Len(queue'[c]) : queue'[c][m] = 0 /\ Line(queue'[c], replay'[c], last'[c], c, offline', m, valid'[c])
        BY <1>1, <1>3, <1>5, <4>1, <4>3, <4>4, Zenon
      <4>6. ~Good(c)'
        BY <1>2, <1>3 DEF Good, NoEvent
      <4> QED
        BY <3>2, <4>5, <4>6 DEF Flows
    <3>3. CASE c \notin Phone
      <4>1. queue'[c] = queue[c]
        BY <1>6, <3>3
      <4> QED
        BY <1>1, <3>1, <3>3, <4>1 DEF Flows
    <3> QED
      BY <3>2, <3>3
  <2> QED
    BY <1>1, <2>2, <2>3, <2>4 DEF Streams, Flows
<1> QED
  BY <1>8, <1>9 DEF EvInv

\* What a publication does: it reaches all streams, unless it meets a full queue.
LEMMA PublishServes ==
  ASSUME EvTypes, HubPublish
  PROVE  /\ evSeq < MaxEventNo /\ evSeq' = evSeq + 1
         /\ UNCHANGED <<replay, open, valid, due, last, gap, offline, late>> /\ overfull' \in BOOLEAN
         /\ \E served \in SUBSET open :
              /\ queue' = [c \in Client |-> IF c \in served THEN Append(queue[c], evSeq') ELSE queue[c]]
              /\ \A c \in served : ~Full(queue[c])
              /\ ~overfull' => ~overfull /\ served = open
<1>1. PICK order \in [1..Cardinality(open) -> open] :
       /\ \A i, j \in DOMAIN order : order[i] = order[j] => i = j
       /\ LET blocked == {i \in DOMAIN order : Full(queue[order[i]])}
              served == {order[i] : i \in {k \in DOMAIN order : \A b \in blocked : k < b}}
          IN  /\ queue' = [c \in Client |-> IF c \in served THEN Append(queue[c], evSeq') ELSE queue[c]]
              /\ overfull' = (overfull \/ blocked # {})
  BY Zenon DEF HubPublish
<1> DEFINE blocked == {i \in DOMAIN order : Full(queue[order[i]])}
           served == {order[i] : i \in {k \in DOMAIN order : \A b \in blocked : k < b}}
<1>2. /\ queue' = [c \in Client |-> IF c \in served THEN Append(queue[c], evSeq') ELSE queue[c]]
      /\ overfull' = (overfull \/ blocked # {})
  BY <1>1
<1>3. IsFiniteSet(open) /\ Cardinality(open) \in Nat
  BY FS_CardinalityType DEF EvTypes
<1>4. DOMAIN order = 1..Cardinality(open) /\ \A i \in DOMAIN order : order[i] \in open
  OBVIOUS
<1>5. served \subseteq open
  BY <1>4
<1>6. ASSUME NEW c \in served PROVE ~Full(queue[c])
  <2>1. PICK i \in DOMAIN order : order[i] = c /\ \A b \in blocked : i < b
    BY <1>6
  <2>2. i \in Int
    BY <1>3, <1>4
  <2>3. i \notin blocked
    BY <2>1, <2>2
  <2> QED
    BY <2>1, <2>3
<1>7. ASSUME ~overfull' PROVE ~overfull /\ served = open
  <2>1. ~overfull /\ blocked = {}
    BY <1>2, <1>7, Zenon
  <2>2. order \in Injection(1..Cardinality(open), open)
    BY <1>1 DEF Injection, IsInjective
  <2>3. Cardinality(1..Cardinality(open)) = Cardinality(open)
    BY <1>3, FS_Interval
  <2>4. order \in Surjection(1..Cardinality(open), open)
    BY <1>3, <2>2, <2>3, FS_Injection
  <2>5. ASSUME NEW c \in open PROVE c \in served
    <3>1. PICK i \in 1..Cardinality(open) : order[i] = c
      BY <2>4 DEF Surjection
    <3> QED
      BY <1>4, <2>1, <3>1
  <2> QED
    BY <1>5, <2>1, <2>5
<1>8. overfull' \in BOOLEAN
  BY <1>2, Zenon
<1> HIDE DEF blocked, served
<1>9. /\ evSeq < MaxEventNo /\ evSeq' = evSeq + 1
      /\ UNCHANGED <<replay, open, valid, due, last, gap, offline, late>>
  BY DEF HubPublish
<1> QED
  BY <1>2, <1>5, <1>6, <1>7, <1>8, <1>9

LEMMA PublishStays == ASSUME EvInv, HubPublish PROVE EvInv'
<1>1. EvTypes
  BY DEF EvInv
<1>2. /\ evSeq < MaxEventNo /\ evSeq' = evSeq + 1 /\ overfull' \in BOOLEAN
      /\ UNCHANGED <<replay, open, valid, due, last, gap, offline, late>>
  BY <1>1, PublishServes
<1>3. PICK served \in SUBSET open :
        /\ queue' = [c \in Client |-> IF c \in served THEN Append(queue[c], evSeq') ELSE queue[c]]
        /\ \A c \in served : ~Full(queue[c])
        /\ ~overfull' => ~overfull /\ served = open
  BY <1>1, PublishServes
<1>4. evSeq \in Nat /\ evSeq' \in Nat /\ evSeq' \in 0..MaxEventNo /\ QueueLimit \in Nat
  BY <1>1, <1>2, EvTyped
<1>5. ASSUME NEW c \in Client
      PROVE  /\ queue'[c] \in Seq(Nat) /\ Len(queue'[c]) <= QueueLimit /\ \A i \in 1..Len(queue'[c]) : queue'[c][i] <= evSeq'
             /\ valid[c] <= evSeq' /\ last[c] <= evSeq' /\ (\A i \in 1..Len(replay[c]) : replay[c][i] <= evSeq')
             /\ c \notin open => queue'[c] = <<>>
  <2> DEFINE q == queue[c]
  <2>1. q \in Seq(Nat) /\ Len(q) \in Nat /\ Len(q) <= QueueLimit /\ (\A i \in 1..Len(q) : q[i] \in Nat /\ q[i] <= evSeq)
    BY <1>1, SeqFacts DEF EvTypes
  <2>2. valid[c] <= evSeq' /\ last[c] <= evSeq' /\ (\A i \in 1..Len(replay[c]) : replay[c][i] <= evSeq')
    <3>1. valid[c] \in Int /\ last[c] \in Int /\ valid[c] <= evSeq /\ last[c] <= evSeq
      BY <1>1, EvTyped DEF EvTypes, NoEvent
    <3>2. \A i \in 1..Len(replay[c]) : replay[c][i] \in Nat /\ replay[c][i] <= evSeq
      BY <1>1, SeqFacts DEF EvTypes
    <3> QED
      BY <1>2, <1>4, <3>1, <3>2
  <2>3. CASE c \in served
    <3> DEFINE t == Append(q, evSeq')
    <3>1. /\ t \in Seq(Nat) /\ Len(t) = Len(q) + 1 /\ t[Len(q) + 1] = evSeq' /\ \A i \in 1..Len(q) : t[i] = q[i]
      BY <1>4, <2>1, SeqFacts
    <3>2. queue'[c] = t /\ c \in open /\ ~Full(q)
      BY <1>3, <2>3
    <3> HIDE DEF t, q
    <3>3. Len(t) <= QueueLimit
      BY <1>4, <2>1, <3>1, <3>2 DEF Full
    <3>4. ASSUME NEW i \in 1..Len(t) PROVE t[i] <= evSeq'
      <4>1. CASE i = Len(q) + 1
        BY <1>4, <3>1, <4>1
      <4>2. CASE i \in 1..Len(q)
        <5>1. t[i] = q[i] /\ q[i] \in Nat /\ q[i] <= evSeq
          BY <2>1, <3>1, <4>2
        <5> QED
          BY <1>2, <1>4, <5>1
      <4> QED
        BY <2>1, <3>1, <4>1, <4>2
    <3> QED
      BY <2>2, <3>1, <3>2, <3>3, <3>4
  <2>4. CASE c \notin served
    <3>1. queue'[c] = q
      BY <1>3, <2>4
    <3>2. c \notin open => q = <<>>
      BY <1>1 DEF EvTypes
    <3>3. \A i \in 1..Len(q) : q[i] <= evSeq'
      BY <1>2, <1>4, <2>1
    <3> QED
      BY <2>1, <2>2, <3>1, <3>2, <3>3
  <2> QED
    BY <2>3, <2>4
<1>6. EvTypes'
  <2>1. queue' \in [Client -> Seq(Nat)]
    BY <1>3, <1>5
  <2> QED
    BY <1>1, <1>2, <1>4, <1>5, <2>1, Zenon DEF EvTypes
<1>7. ASSUME ~overfull' PROVE Streams' /\ gap' \subseteq offline' /\ late' \cap Phone = {}
  <2>1. ~overfull /\ served = open
    BY <1>3, <1>7
  <2>2. Streams /\ gap \subseteq offline /\ late \cap Phone = {}
    BY <2>1 DEF EvInv
  <2>3. ASSUME NEW c \in open PROVE Flows(c)'
    <3> DEFINE q == queue[c]
               t == Append(q, evSeq + 1)
    <3>1. /\ c \in Client /\ q \in Seq(Nat) /\ replay[c] \in Seq(Nat) /\ last[c] \in Nat /\ Len(q) \in Nat
          /\ valid[c] \in {NoEvent} \cup Nat
      BY <1>1, EvTyped
    <3>2. queue'[c] = t
      BY <1>2, <1>3, <2>1, <3>1
    <3>3. t \in Seq(Nat) /\ Len(t) = Len(q) + 1 /\ \A i \in 1..Len(q) : t[i] = q[i]
      BY <1>4, <3>1, SeqFacts
    <3>4. Flows(c)
      BY <2>2 DEF Streams, Flows
    <3>5. CASE c \in Phone /\ ~Good(c)
      <4>1. PICK m \in 1..Len(q) : q[m] = 0 /\ Line(q, replay[c], last[c], c, offline, m, valid[c])
        BY <3>4, <3>5 DEF Flows
      <4>2. m \in 1..(Len(q) + 1) /\ valid[c] \in Nat /\ evSeq + 1 \in Nat
        BY <1>4, <3>1, <3>5 DEF Good
      <4>3. Line(t, replay[c], last[c], c, offline, m, valid[c])
        BY <3>1, <4>1, <4>2, LineGrows
      <4>4. t[m] = 0 /\ m \in 1..Len(t)
        BY <3>1, <3>3, <4>1
      <4> HIDE DEF t, q
      <4> QED
        BY <1>2, <3>2, <3>5, <4>3, <4>4, Zenon DEF Flows, Good
    <3>6. CASE ~(c \in Phone /\ ~Good(c))
      <4>1. Line(q, replay[c], last[c], c, offline, Len(q) + 1, evSeq)
        BY <3>4, <3>6 DEF Flows
      <4>2. Line(t, replay[c], last[c], c, offline, Len(q) + 2, evSeq + 1)
        BY <1>4, <3>1, <4>1, LineGrows
      <4>3. Len(q) + 2 = Len(t) + 1
        BY <3>1, <3>3
      <4> HIDE DEF t, q
      <4>4. Line(queue'[c], replay'[c], last'[c], c, offline', Len(queue'[c]) + 1, evSeq')
        BY <1>2, <3>2, <4>2, <4>3
      <4>5. ~(c \in Phone /\ ~Good(c)')
        BY <1>2, <3>6 DEF Good
      <4> QED
        BY <4>4, <4>5 DEF Flows
    <3> QED
      BY <3>5, <3>6
  <2> QED
    BY <1>2, <2>2, <2>3 DEF Streams, Flows
<1> QED
  BY <1>6, <1>7 DEF EvInv

LEMMA EvInvStays == EvInv /\ [EvNext]_evVars => EvInv'
<1> SUFFICES ASSUME EvInv, [EvNext]_evVars PROVE EvInv'
  OBVIOUS
<1>1. CASE UNCHANGED evVars
  <2>1. UNCHANGED <<evSeq, queue, replay, open, valid, due, last, gap, offline, overfull, late>>
    BY <1>1 DEF evVars
  <2>2. due' \subseteq open
    BY <2>1 DEF EvInv, EvTypes
  <2>3. EvTypes'
    BY <2>1, Zenon DEF EvInv, EvTypes
  <2> QED
    BY <2>1, <2>2, DueStays
<1> QED
  BY <1>1, PublishStays, SubscribeStays, ReplaysStays, DeliversStays, HeartbeatStays, CheckDueStays, DisconnectStays,
     RevokeTokenStays DEF EvNext

\* In a behaviour one of the two loops moves, and the streams begin with no client.
LEMMA StreamsBegin == LoopsInit => EvInit
  BY DEF LoopsInit

LEMMA StreamsMove == [LoopsNext]_loopsVars => [EvNext]_evVars
  BY Zenon DEF LoopsNext, InApplier, InEvents, loopsVars

\* A client that comes back in time misses no event and gets none twice, and a revoked phone hears nothing
\* published after, wherever kicks, subscriptions and publications fall (gw/hub.py), as long as no queue was full.
THEOREM StreamsStayInStep == LoopsSpec => []EventsSafe
<1>1. LoopsInit => EvInv
  BY StreamsBegin, EvStarts
<1>2. EvInv /\ [LoopsNext]_loopsVars => EvInv'
  BY StreamsMove, EvInvStays
<1>3. EvInv => EventsSafe
  <2> SUFFICES ASSUME EvInv PROVE EventsSafe
    OBVIOUS
  <2>1. EvTypeOK
    BY EvTyped DEF EvInv, EvTypes, EvTypeOK
  <2>2. ResumesWithoutGap /\ RevokedHearsNothing
    BY Zenon DEF EvInv, ResumesWithoutGap, RevokedHearsNothing
  <2> QED
    BY <2>1, <2>2 DEF EventsSafe
<1> QED
  BY <1>1, <1>2, <1>3, PTL DEF LoopsSpec

-----------------------------------------------------------------------------
(* The filter lists: a change of a block list is all or nothing.           *)

\* The request that has the pipeline, up to the decision and after it.
Trying == {"baseline"} \cup Applying
Pipe == Trying \cup {"undo", "restore"}

\* The changes under way: the one in the pipeline, or those that a crash interrupted.
Changing == {q \in Open : pcF[q] # "hold"}

\* Where a request may be, as its row and the gateway are.
RowFits(q) ==
  /\ pcF[q] \in Pipe \cup {"asked", "hold"} => up
  /\ pcF[q] \in Pipe => busy
  /\ pcF[q] = "recover" => ~up
  /\ pcF[q] \in Pipe \cup {"hold", "recover"} <=> result[q] = "running" /\ ~(pcF[q] = "end")
  /\ result[q] = "running" /\ pcF[q] = "end" => ~up
  /\ pcF[q] \in {"new", "asked"} => result[q] = "none"

\* Its operations are of its list, and it leaves the others alone.
OneList(q) ==
  /\ pcF[q] \in Trying \cup {"asked"} => \A o \in ops[q] : o.url = target[q]
  /\ pcF[q] \in Trying => \A u \in Url \ {target[q]} : Setting(lists[u]) = snapshot[q][u]

\* What one operation has to do for a list to get from l to the setting s.
Needs(l, s, o) ==
  \/ o.kind = "add" /\ l = Absent /\ s # Absent /\ o.name = s.name /\ o.on = TRUE
  \/ o.kind = "set" /\ s # Absent /\ (IF l = Absent THEN ~s.on ELSE Setting(l) # s) /\ o.name = s.name /\ o.on = s.on
  \/ o.kind = "remove" /\ l # Absent /\ s = Absent /\ o.name = l.name /\ o.on = FALSE
Difference(at, want) == {o \in Op : Needs(at[o.url], want[o.url], o)}

\* What it has still to do in order to restore is what is different from the snapshot.
Restores(q) == pcF[q] \in {"restore", "recover"} => ops[q] = Difference(lists, snapshot[q])

\* After a probe of the new engine that is what was applied, and no needed domain is blocked.
Probed(q) ==
  pcF[q] \in {"replica", "parity"} /\ ~base[q].old =>
    engine = lists /\ \A d \in base[q].must : Blockers(engine, d) = {}

Fits(q) == RowFits(q) /\ OneList(q) /\ Restores(q) /\ Probed(q)

\* One pipeline, one recovery; and one row was interrupted, unless held ones were that recover() spoils.
OneAtATime ==
  /\ \A q, r \in Req : pcF[q] \in Pipe /\ pcF[r] \in Pipe => q = r
  /\ \A q, r \in Req : pcF[q] = "recover" /\ pcF[r] = "recover" => q = r
  /\ spoilt = {} => \A q, r \in Changing : q = r

FlInv == FTypeOK /\ OneAtATime /\ \A q \in Req : Fits(q)

\* The changes that were applied.
Applied == {q \in Req : result[q] = "applied"}

-----------------------------------------------------------------------------
(* Filter lists: settings and operations.                                  *)

LEMMA SettingIs ==
  ASSUME NEW l \in Installed \cup {Absent}
  PROVE  /\ Setting(l) \in Config /\ (Setting(l) = Absent <=> l = Absent)
         /\ l # Absent => l \in Installed /\ Setting(l) = [name |-> l.name, on |-> l.on]
  BY StartAssumption DEF Setting, Installed, Config

LEMMA SettingsAre == ASSUME NEW at \in Lists PROVE Settings(at) \in [Url -> Config]
  BY SettingIs DEF Settings, Lists

LEMMA NoBaseIs == NoBase \in [must : SUBSET Need, bait : [Bait -> SUBSET Url], old : BOOLEAN]
  BY DEF NoBase

LEMMA NothingIs == Nothing \in [Url -> Config]
  BY DEF Nothing, Config

\* An operation changes the setting of its list only, and a refresh of none.
LEMMA EffectIs ==
  ASSUME lists \in Lists, offered \in [Url -> Text], NEW o \in Op, Possible(o)
  PROVE  /\ Effect(o) \in Lists
         /\ \A u \in Url \ {o.url} : Setting(Effect(o)[u]) = Setting(lists[u])
         /\ o.kind = "add" => Setting(Effect(o)[o.url]) = [name |-> o.name, on |-> TRUE]
         /\ o.kind = "set" => Setting(Effect(o)[o.url]) = [name |-> o.name, on |-> o.on]
         /\ o.kind = "remove" => Effect(o)[o.url] = Absent
         /\ \A u \in Url \ {o.url} : o.kind # "refresh" => Effect(o)[u] = lists[u]
<1>1. o.url \in Url /\ o.name \in Label /\ o.on \in BOOLEAN /\ o.kind \in {"add", "set", "remove", "refresh"}
  BY DEF Op
<1>2. CASE o.kind = "add"
  <2> DEFINE l == [name |-> o.name, on |-> TRUE, text |-> offered[o.url]]
  <2>1. l \in Installed /\ l.name = o.name /\ l.on = TRUE
    BY <1>1 DEF Installed
  <2> HIDE DEF l
  <2>2. Effect(o) = [lists EXCEPT ![o.url] = l]
    BY <1>2 DEF Effect, l
  <2>3. Setting(l) = [name |-> o.name, on |-> TRUE]
    BY <2>1, SettingIs, StartAssumption
  <2> QED
    BY <1>1, <1>2, <2>1, <2>2, <2>3 DEF Lists
<1>3. CASE o.kind = "set"
  <2> DEFINE l == [name |-> o.name, on |-> o.on, text |-> lists[o.url].text]
  <2>1. lists[o.url] \in Installed
    BY <1>1, <1>3 DEF Possible, Lists
  <2>2. l \in Installed /\ l.name = o.name /\ l.on = o.on
    BY <1>1, <2>1 DEF Installed
  <2> HIDE DEF l
  <2>3. Effect(o) = [lists EXCEPT ![o.url] = l]
    BY <1>1, <1>3 DEF Effect, l, Lists
  <2>4. Setting(l) = [name |-> o.name, on |-> o.on]
    BY <2>2, SettingIs, StartAssumption
  <2> QED
    BY <1>1, <1>3, <2>2, <2>3, <2>4 DEF Lists
<1>4. CASE o.kind = "remove"
  BY <1>1, <1>4 DEF Effect, Lists
<1>5. CASE o.kind = "refresh"
  <2> DEFINE new(u) == IF lists[u] # Absent /\ lists[u].on THEN [lists[u] EXCEPT !.text = offered[u]] ELSE lists[u]
  <2>1. ASSUME NEW u \in Url PROVE new(u) \in Installed \cup {Absent} /\ Setting(new(u)) = Setting(lists[u])
    <3>1. CASE lists[u] # Absent /\ lists[u].on
      <4>1. lists[u] \in Installed /\ offered[u] \in Text
        BY <3>1 DEF Lists
      <4> DEFINE l == [lists[u] EXCEPT !.text = offered[u]]
      <4>2. l \in Installed /\ l.name = lists[u].name /\ l.on = lists[u].on
        BY <4>1 DEF Installed
      <4> HIDE DEF l
      <4>3. new(u) = l
        BY <3>1 DEF l
      <4>4. Setting(l) = Setting(lists[u])
        BY <4>1, <4>2, StartAssumption DEF Setting
      <4> QED
        BY <4>2, <4>3, <4>4
    <3> QED
      BY <3>1 DEF Lists
  <2>2. Effect(o) = [u \in Url |-> new(u)]
    BY <1>5 DEF Effect
  <2> HIDE DEF new
  <2> QED
    BY <1>1, <1>5, <2>1, <2>2 DEF Lists
<1> QED
  BY <1>1, <1>2, <1>3, <1>4, <1>5

\* diff_ops has the operations that are needed.
LEMMA DiffIs ==
  ASSUME lists \in Lists, NEW want \in [Url -> Config], NEW us \in SUBSET Url
  PROVE  Diff(want, us) = {o \in Op : o.url \in us /\ Needs(lists[o.url], want[o.url], o)}
<1> DEFINE N == {o \in Op : o.url \in us /\ Needs(lists[o.url], want[o.url], o)}
<1>1. ASSUME NEW u \in us
      PROVE  /\ want[u] = Absent \/ (want[u] # Absent /\ want[u].name \in Label /\ want[u].on \in BOOLEAN)
             /\ lists[u] = Absent \/ (lists[u] # Absent /\ lists[u].name \in Label)
  BY DEF Config, Lists, Installed
<1>2. ASSUME NEW o \in Diff(want, us) PROVE o \in N
  <2>1. CASE \E u \in us : lists[u] = Absent /\ want[u] # Absent /\ o = OpOf("add", u, want[u].name, TRUE)
    BY <1>1, <2>1 DEF Op, OpOf, Needs
  <2>2. CASE \E u \in us : /\ want[u] # Absent /\ (IF lists[u] = Absent THEN ~want[u].on ELSE Setting(lists[u]) # want[u])
                           /\ o = OpOf("set", u, want[u].name, want[u].on)
    BY <1>1, <2>2 DEF Op, OpOf, Needs
  <2>3. CASE \E u \in us : lists[u] # Absent /\ want[u] = Absent /\ o = OpOf("remove", u, lists[u].name, FALSE)
    BY <1>1, <2>3 DEF Op, OpOf, Needs
  <2> QED
    BY <2>1, <2>2, <2>3, Zenon DEF Diff
<1>3. ASSUME NEW o \in N PROVE o \in Diff(want, us)
  <2>1. o \in Op /\ o.url \in us /\ Needs(lists[o.url], want[o.url], o)
    OBVIOUS
  <2>2. o = OpOf(o.kind, o.url, o.name, o.on)
    BY <2>1 DEF Op, OpOf
  <2> QED
    BY <2>1, <2>2 DEF Needs, Diff
<1> QED
  BY <1>2, <1>3

LEMMA DifferenceIs ==
  ASSUME lists \in Lists, NEW want \in [Url -> Config]
  PROVE  Diff(want, Url) = Difference(lists, want)
<1>1. Diff(want, Url) = {o \in Op : o.url \in Url /\ Needs(lists[o.url], want[o.url], o)}
  BY DiffIs
<1> QED
  BY <1>1 DEF Difference, Op

\* Nothing is different from the lists as they should be.
LEMMA NoDifference ==
  ASSUME NEW at \in Lists, NEW want \in [Url -> Config], Difference(at, want) = {}
  PROVE  Settings(at) = want
<1>1. ASSUME NEW u \in Url PROVE Setting(at[u]) = want[u]
  <2> DEFINE l == at[u]
             s == want[u]
  <2>1. l \in Installed \cup {Absent} /\ s \in Config
    BY DEF Lists
  <2>2. \A o \in Op : o.url = u => ~Needs(l, s, o)
    BY DEF Difference
  <2> HIDE DEF l, s
  <2>3. CASE s = Absent
    <3>1. ASSUME l # Absent PROVE FALSE
      <4>1. OpOf("remove", u, l.name, FALSE) \in Op
        BY <2>1, <3>1 DEF OpOf, Op, Installed
      <4> QED
        BY <2>2, <2>3, <3>1, <4>1 DEF Needs, OpOf
    <3> QED
      BY <2>3, <3>1 DEF Setting, l, s
  <2>4. CASE s # Absent
    <3>1. s.name \in Label /\ s.on \in BOOLEAN
      BY <2>1, <2>4 DEF Config
    <3>2. OpOf("add", u, s.name, TRUE) \in Op /\ OpOf("set", u, s.name, s.on) \in Op
      BY <3>1 DEF OpOf, Op
    <3>3. l # Absent
      BY <2>2, <2>4, <3>2 DEF Needs, OpOf
    <3>4. Setting(l) = s
      BY <2>2, <2>4, <3>2, <3>3 DEF Needs, OpOf
    <3> QED
      BY <3>4 DEF l, s
  <2> QED
    BY <2>3, <2>4
<1> QED
  BY <1>1 DEF Settings

\* An operation that is made is needed no more, and nothing else is.
LEMMA OneDifferenceLess ==
  ASSUME lists \in Lists, offered \in [Url -> Text], NEW want \in [Url -> Config],
         NEW o \in Ready(Difference(lists, want)), Possible(o)
  PROVE  Difference(Effect(o), want) = Difference(lists, want) \ {o}
<1>1. /\ o \in Op /\ Needs(lists[o.url], want[o.url], o)
      /\ \A p \in Op : Needs(lists[p.url], want[p.url], p) /\ p.kind = "add" /\ p.url = o.url => p = o
  BY DEF Ready, Difference
<1> DEFINE u == o.url
           l == lists[u]
           s == want[u]
           e == Effect(o)[u]
<1>2. u \in Url /\ l \in Installed \cup {Absent} /\ s \in Config
  BY <1>1 DEF Lists, Op
<1>3. o.kind # "refresh"
  BY <1>1 DEF Needs
<1>4. /\ \A v \in Url \ {u} : Effect(o)[v] = lists[v]
      /\ o.kind = "add" => Setting(e) = [name |-> o.name, on |-> TRUE]
      /\ o.kind = "set" => Setting(e) = [name |-> o.name, on |-> o.on]
      /\ o.kind = "remove" => e = Absent
      /\ Effect(o) \in Lists
  BY <1>1, <1>3, EffectIs
<1>5. e \in Installed \cup {Absent}
  BY <1>2, <1>4 DEF Lists
<1>6. Needs(l, s, o) /\ \A p \in Op : Needs(l, s, p) /\ p.kind = "add" /\ p.url = u => p = o
  BY <1>1
<1> HIDE DEF l, s, e
<1>7. s # Absent => s.name \in Label /\ s.on \in BOOLEAN /\ s = [name |-> s.name, on |-> s.on]
  BY <1>2 DEF Config
<1>8. \A p \in Op : p.url = u => (Needs(e, s, p) <=> Needs(l, s, p) /\ p # o)
  <2> SUFFICES ASSUME NEW p \in Op, p.url = u PROVE Needs(e, s, p) <=> Needs(l, s, p) /\ p # o
    OBVIOUS
  <2>0. p.kind = o.kind /\ p.name = o.name /\ p.on = o.on => p = o
    BY <1>1 DEF Op
  <2>1. CASE o.kind = "add"
    <3>1. l = Absent /\ s # Absent /\ o.name = s.name /\ o.on = TRUE
      BY <1>6, <2>1 DEF Needs
    <3>2. e # Absent /\ Setting(e) = [name |-> s.name, on |-> TRUE]
      <4>1. Setting(e) = [name |-> s.name, on |-> TRUE]
        BY <1>4, <2>1, <3>1
      <4>2. [name |-> s.name, on |-> TRUE] \in [name : Label, on : BOOLEAN]
        BY <1>7, <3>1
      <4> QED
        BY <1>5, <4>1, <4>2, SettingIs, StartAssumption
    <3>3. Setting(e) # s <=> ~s.on
      BY <1>7, <3>1, <3>2
    <3>4. Needs(l, s, p) /\ p # o <=> p.kind = "set" /\ ~s.on /\ p.name = s.name /\ p.on = s.on
      BY <2>0, <2>1, <3>1 DEF Needs
    <3>5. Needs(e, s, p) <=> p.kind = "set" /\ ~s.on /\ p.name = s.name /\ p.on = s.on
      BY <3>1, <3>2, <3>3 DEF Needs
    <3> QED
      BY <3>4, <3>5
  <2>2. CASE o.kind = "set"
    <3>1. s # Absent /\ o.name = s.name /\ o.on = s.on /\ l # Absent
      BY <1>6, <2>2 DEF Needs, Possible, l
    <3>2. Setting(e) = s /\ e # Absent
      BY <1>4, <1>5, <1>7, <2>2, <3>1, SettingIs, StartAssumption
    <3>3. ~Needs(e, s, p)
      BY <3>1, <3>2 DEF Needs
    <3>4. Needs(l, s, p) => p = o
      BY <2>0, <2>2, <3>1 DEF Needs
    <3> QED
      BY <3>3, <3>4
  <2>3. CASE o.kind = "remove"
    <3>1. s = Absent /\ l # Absent /\ e = Absent /\ o.name = l.name /\ o.on = FALSE
      BY <1>4, <1>6, <2>3 DEF Needs
    <3>2. ~Needs(e, s, p) /\ (Needs(l, s, p) => p = o)
      BY <2>0, <2>3, <3>1 DEF Needs
    <3> QED
      BY <3>2
  <2> QED
    BY <1>1, <1>3, <2>1, <2>2, <2>3 DEF Op
<1>9. ASSUME NEW p \in Op PROVE Needs(Effect(o)[p.url], want[p.url], p) <=> Needs(lists[p.url], want[p.url], p) /\ p # o
  <2>1. CASE p.url = u
    BY <1>8, <2>1, Zenon DEF l, s, e
  <2>2. CASE p.url # u
    <3>1. Effect(o)[p.url] = lists[p.url] /\ p # o
      BY <1>4, <2>2 DEF Op
    <3> QED
      BY <3>1
  <2> QED
    BY <2>1, <2>2
<1> QED
  BY <1>9 DEF Difference

-----------------------------------------------------------------------------
(* Filter lists: types.                                                    *)

LEMMA FTypesAtStart == FlInit => FTypeOK
<1> SUFFICES ASSUME FlInit PROVE FTypeOK
  OBVIOUS
<1>1. PICK s \in Start : lists = s.lists /\ offered = s.offered
  BY DEF FlInit
<1>2. lists \in Lists /\ offered \in [Url -> Text]
  BY <1>1, StartAssumption
<1>3. engine \in Lists /\ replica \in [Url -> Config]
  BY <1>2, SettingsAre DEF FlInit
<1>4. (CHOOSE u \in Url : TRUE) \in Url
  BY StartAssumption
<1>5. target \in [Req -> Url]
  BY <1>4 DEF FlInit
<1>6. snapshot \in [Req -> [Url -> Config]] /\ base \in [Req -> [must : SUBSET Need, bait : [Bait -> SUBSET Url], old : BOOLEAN]]
  BY NothingIs, NoBaseIs DEF FlInit
<1>7. /\ parity \in [fresh : BOOLEAN, bad : BOOLEAN] /\ checker \in {"idle", "match", "differ"}
      /\ up \in BOOLEAN /\ busy \in BOOLEAN /\ spoilt \subseteq Req /\ troubleF \in Nat
  BY DEF FlInit
<1>8. /\ result \in [Req -> {"none", "running", "applied", "reverted", "failed", "held"}]
      /\ kind \in [Req -> Kinds \cup {"none"}] /\ pcF \in [Req -> Places] /\ ops \in [Req -> SUBSET Op]
  BY DEF FlInit, Places
<1> QED
  BY <1>2, <1>3, <1>5, <1>6, <1>7, <1>8 DEF FTypeOK

\* The row of a request is closed.
LEMMA CloseTypes ==
  ASSUME FTypeOK, NEW q \in Req, NEW r \in {"applied", "reverted", "failed"}, Close(q, r)
  PROVE  /\ result' \in [Req -> {"none", "running", "applied", "reverted", "failed", "held"}]
         /\ pcF' \in [Req -> Places] /\ snapshot' \in [Req -> [Url -> Config]] /\ ops' \in [Req -> SUBSET Op]
         /\ base' \in [Req -> [must : SUBSET Need, bait : [Bait -> SUBSET Url], old : BOOLEAN]]
         /\ kind' = kind /\ target' = target
<1>1. IF r = "applied" THEN snapshot[q] \in [Url -> Config] ELSE Nothing \in [Url -> Config]
  BY NothingIs DEF FTypeOK
<1>2. snapshot' \in [Req -> [Url -> Config]]
  BY <1>1 DEF FTypeOK, Close
<1>3. base' \in [Req -> [must : SUBSET Need, bait : [Bait -> SUBSET Url], old : BOOLEAN]]
  BY NoBaseIs DEF FTypeOK, Close
<1> QED
  BY <1>2, <1>3 DEF FTypeOK, Close, Goto, Places

LEMMA ReleaseTypes ==
  ASSUME FTypeOK, Release PROVE busy' = FALSE /\ parity' \in [fresh : BOOLEAN, bad : BOOLEAN]
  BY DEF FTypeOK, Release

LEMMA TroubleTypes == ASSUME FTypeOK, TroubleF PROVE troubleF' \in Nat
  BY DEF FTypeOK, TroubleF

LEMMA AskTypes ==
  ASSUME FTypeOK, NEW q \in Req, NEW k, NEW u \in Url, NEW os \in SUBSET Op, Ask(q, k, u, os)
  PROVE  FTypeOK'
  BY DEF FTypeOK, Ask, Arrives, Goto, Places, adguard, world, gate

LEMMA DiffOfOne == ASSUME FTypeOK, NEW r \in Req, NEW u \in Url PROVE Diff(snapshot[r], {u}) \in SUBSET {o \in Op : o.url = u}
<1> DEFINE want == snapshot[r]
<1>1. lists \in Lists /\ want \in [Url -> Config] /\ {u} \in SUBSET Url
  BY DEF FTypeOK
<1> HIDE DEF want
<1>2. Diff(want, {u}) \in SUBSET {o \in Op : o.url = u}
  BY <1>1, DiffIs
<1> QED
  BY <1>2 DEF want

LEMMA DiffOfAll ==
  ASSUME FTypeOK, NEW q \in Req
  PROVE  Diff(snapshot[q], Url) = Difference(lists, snapshot[q]) /\ Diff(snapshot[q], Url) \in SUBSET Op
<1> DEFINE want == snapshot[q]
<1>1. lists \in Lists /\ want \in [Url -> Config]
  BY DEF FTypeOK
<1> HIDE DEF want
<1>2. Diff(want, Url) = Difference(lists, want)
  BY <1>1, DifferenceIs
<1>3. Difference(lists, want) \in SUBSET Op
  BY Zenon DEF Difference
<1> QED
  BY <1>2, <1>3, Zenon DEF want

LEMMA AskStepTypes == ASSUME FTypeOK, NEW q \in Req, AskStep(q) PROVE FTypeOK'
<1>1. PICK u \in Url :
        \/ \E n \in Label : AskAdd(q, u, n) \/ (\E on \in BOOLEAN : AskSet(q, u, n, on))
        \/ AskRemove(q, u) \/ AskRefresh(q, u) \/ AskRevert(q, u) \/ HoldBegin(q, u)
  BY DEF AskStep
<1>2. ASSUME NEW k, NEW os \in SUBSET Op, Ask(q, k, u, os) PROVE FTypeOK'
  BY <1>2, AskTypes
<1>3. ASSUME NEW n \in Label, NEW on \in BOOLEAN, NEW k \in {"add", "set", "remove", "refresh"}
      PROVE  {OpOf(k, u, n, on)} \in SUBSET Op
  BY DEF OpOf, Op
<1>4. ASSUME NEW n \in Label, AskAdd(q, u, n) PROVE FTypeOK'
  BY <1>2, <1>3, <1>4 DEF AskAdd
<1>5. ASSUME NEW n \in Label, NEW on \in BOOLEAN, AskSet(q, u, n, on) PROVE FTypeOK'
  BY <1>2, <1>3, <1>5 DEF AskSet
<1>6. lists[u] # Absent => lists[u].name \in Label
  BY DEF FTypeOK, Lists, Installed
<1>7. CASE AskRemove(q, u)
  BY <1>2, <1>3, <1>6, <1>7 DEF AskRemove
<1>8. CASE AskRefresh(q, u)
  BY <1>2, <1>3, <1>6, <1>8 DEF AskRefresh
<1>9. CASE AskRevert(q, u)
  <2>1. PICK r \in Req : Ask(q, "revert", u, Diff(snapshot[r], {u}))
    BY <1>9 DEF AskRevert
  <2>2. Diff(snapshot[r], {u}) \in SUBSET Op
    BY DiffOfOne
  <2> QED
    BY <1>2, <2>1, <2>2
<1>10. CASE HoldBegin(q, u)
  BY <1>10 DEF FTypeOK, HoldBegin, Arrives, Goto, Places, adguard, world, gate
<1> QED
  BY <1>1, <1>4, <1>5, <1>7, <1>8, <1>9, <1>10

LEMMA PipelineTypes == ASSUME FTypeOK, NEW q \in Req, PipelineStep(q) PROVE FTypeOK'
<1> USE DEF Goto, Places, adguard, world, gate, rows
<1>1. CASE HoldEnd(q)
  BY <1>1 DEF FTypeOK, HoldEnd
<1>2. CASE Refuse(q)
  BY <1>2 DEF FTypeOK, Refuse
<1>3. CASE ChangeBegins(q)
  <2>1. Settings(lists) \in [Url -> Config]
    BY SettingsAre DEF FTypeOK
  <2> QED
    BY <1>3, <2>1 DEF FTypeOK, ChangeBegins
<1>4. CASE Baseline(q)
  <2> DEFINE b == [must |-> {d \in Need : Blockers(engine, d) = {}}, bait |-> [d \in Bait |-> Blockers(engine, d)], old |-> FALSE]
  <2>1. b \in [must : SUBSET Need, bait : [Bait -> SUBSET Url], old : BOOLEAN]
    BY DEF Blockers
  <2>2. base' = [base EXCEPT ![q] = b] \/ base' = base
    BY <1>4 DEF Baseline
  <2> HIDE DEF b
  <2>3. base' \in [Req -> [must : SUBSET Need, bait : [Bait -> SUBSET Url], old : BOOLEAN]]
    BY <2>1, <2>2 DEF FTypeOK
  <2>4. troubleF' \in Nat
    BY <1>4 DEF Baseline, TroubleF, FTypeOK
  <2> QED
    BY <1>4, <2>3, <2>4 DEF FTypeOK, Baseline
<1>5. ASSUME NEW o \in Op, Apply(q, o) PROVE FTypeOK'
  <2>1. lists' \in Lists
    <3>1. Possible(o) => Effect(o) \in Lists
      BY EffectIs DEF FTypeOK
    <3> QED
      BY <1>5, <3>1 DEF Apply, FTypeOK
  <2>2. troubleF' \in Nat
    BY <1>5, TroubleTypes DEF Apply, FTypeOK
  <2>3. ops' = [ops EXCEPT ![q] = @ \ {o}] \/ ops' = ops
    BY <1>5 DEF Apply
  <2>4. ops' \in [Req -> SUBSET Op]
    <3>1. ops \in [Req -> SUBSET Op] /\ ops[q] \ {o} \in SUBSET Op
      BY DEF FTypeOK
    <3> QED
      BY <2>3, <3>1
  <2>5. \E p \in Places : pcF' = [pcF EXCEPT ![q] = p]
    BY <1>5 DEF Apply
  <2>6. pcF' \in [Req -> Places]
    BY <2>5 DEF FTypeOK
  <2> QED
    BY <1>5, <2>1, <2>2, <2>4, <2>6 DEF FTypeOK, Apply
<1>6. ASSUME NEW o \in Op, RestoreOp(q, o) PROVE FTypeOK'
  <2>1. lists' \in Lists
    <3>1. Possible(o) => Effect(o) \in Lists
      BY EffectIs DEF FTypeOK
    <3> QED
      BY <1>6, <3>1 DEF RestoreOp, FTypeOK
  <2>2. CASE UNCHANGED <<pcF, rows, busy, parity, base, spoilt, troubleF>> /\ ops' = [ops EXCEPT ![q] = @ \ {o}]
    BY <1>6, <2>1, <2>2 DEF FTypeOK, RestoreOp
  <2>3. CASE TroubleF /\ Close(q, "reverted") /\ Release /\ spoilt' = spoilt \cup {q}
    <3>1. spoilt' \subseteq Req
      BY <2>3 DEF FTypeOK
    <3> QED
      BY <1>6, <2>1, <2>3, <3>1, CloseTypes, ReleaseTypes, TroubleTypes DEF FTypeOK, RestoreOp
  <2> QED
    BY <1>6, <2>2, <2>3 DEF RestoreOp
<1>8. CASE Probe(q)
  <2>1. troubleF' \in Nat
    BY <1>8, TroubleTypes DEF FTypeOK, Probe
  <2>2. \E p \in Places : pcF' = [pcF EXCEPT ![q] = p]
    BY <1>8 DEF Probe
  <2>3. pcF' \in [Req -> Places]
    BY <2>2 DEF FTypeOK
  <2>4. base' \in [Req -> [must : SUBSET Need, bait : [Bait -> SUBSET Url], old : BOOLEAN]]
    <3> DEFINE b == [base[q] EXCEPT !.old = engine # lists]
    <3>1. base' = [base EXCEPT ![q] = b] \/ base' = base
      BY <1>8 DEF Probe
    <3>2. b \in [must : SUBSET Need, bait : [Bait -> SUBSET Url], old : BOOLEAN]
      BY DEF FTypeOK
    <3> HIDE DEF b
    <3> QED
      BY <3>1, <3>2 DEF FTypeOK
  <2> QED
    BY <1>8, <2>1, <2>3, <2>4 DEF FTypeOK, Probe
<1>9. CASE AskReplica(q)
  BY <1>9 DEF FTypeOK, AskReplica
<1>10. CASE AskParity(q)
  <2>1. CASE Close(q, "applied") /\ Release
    BY <1>10, <2>1, CloseTypes DEF FTypeOK, AskParity, Release
  <2>2. CASE Goto(q, "undo") /\ UNCHANGED <<rows, busy, parity, ops, base>>
    BY <1>10, <2>2 DEF FTypeOK, AskParity
  <2> QED
    BY <1>10, <2>1, <2>2 DEF AskParity
<1>11. CASE Undo(q)
  <2>1. CASE ops' = [ops EXCEPT ![q] = Diff(snapshot[q], Url)] /\ Goto(q, "restore")
    <3>1. Diff(snapshot[q], Url) \in SUBSET Op
      BY DiffOfAll, Zenon
    <3>2. UNCHANGED <<rows, busy, parity, base, spoilt, troubleF>>
      BY <1>11, <2>1 DEF Undo, Close, FTypeOK
    <3> QED
      BY <1>11, <2>1, <3>1, <3>2 DEF FTypeOK, Undo
  <2>2. CASE TroubleF /\ Close(q, "reverted") /\ Release /\ spoilt' = spoilt \cup {q}
    <3>1. spoilt' \subseteq Req
      BY <2>2 DEF FTypeOK
    <3> QED
      BY <1>11, <2>2, <3>1, CloseTypes, ReleaseTypes, TroubleTypes DEF FTypeOK, Undo
  <2> QED
    BY <1>11, <2>1, <2>2 DEF Undo
<1>12. CASE RestoreEnd(q)
  BY <1>12, CloseTypes DEF FTypeOK, RestoreEnd, Release
<1> QED
  BY <1>1, <1>2, <1>3, <1>4, <1>5, <1>6, <1>8, <1>9, <1>10, <1>11, <1>12 DEF PipelineStep

LEMMA RecoverTypes == ASSUME FTypeOK, NEW q \in Req, RecoverStep(q) PROVE FTypeOK'
<1> USE DEF Goto, Places, adguard, world, gate, rows
<1>1. CASE Recover(q)
  <2>1. CASE ops' = [ops EXCEPT ![q] = Diff(snapshot[q], Url)] /\ Goto(q, "recover") /\ UNCHANGED <<rows, base, spoilt, troubleF>>
    <3>1. Diff(snapshot[q], Url) \in SUBSET Op
      BY DiffOfAll, Zenon
    <3> QED
      BY <1>1, <2>1, <3>1 DEF FTypeOK, Recover
  <2>2. CASE TroubleF /\ Close(q, "failed") /\ spoilt' = spoilt \cup {q}
    BY <1>1, <2>2, CloseTypes DEF FTypeOK, Recover, TroubleF
  <2> QED
    BY <1>1, <2>1, <2>2 DEF Recover
<1>2. ASSUME NEW o \in Op, RecoverOp(q, o) PROVE FTypeOK'
  <2>1. lists' \in Lists
    <3>1. Possible(o) => Effect(o) \in Lists
      BY EffectIs DEF FTypeOK
    <3> QED
      BY <1>2, <3>1 DEF RecoverOp, FTypeOK
  <2>2. CASE UNCHANGED <<pcF, rows, base, spoilt, troubleF>> /\ ops' = [ops EXCEPT ![q] = @ \ {o}]
    BY <1>2, <2>1, <2>2 DEF FTypeOK, RecoverOp
  <2>3. CASE TroubleF /\ Close(q, "failed") /\ spoilt' = spoilt \cup {q}
    BY <1>2, <2>1, <2>3, CloseTypes DEF FTypeOK, RecoverOp, TroubleF
  <2> QED
    BY <1>2, <2>2, <2>3 DEF RecoverOp
<1>3. CASE RecoverEnd(q)
  BY <1>3, CloseTypes DEF FTypeOK, RecoverEnd
<1> QED
  BY <1>1, <1>2, <1>3 DEF RecoverStep

LEMMA FTypesStay == FTypeOK /\ [FlNext]_flVars => FTypeOK'
<1> SUFFICES ASSUME FTypeOK, [FlNext]_flVars PROVE FTypeOK'
  OBVIOUS
<1> USE DEF adguard, world, gate, rows
<1>1. CASE \E q \in Req : AskStep(q) \/ PipelineStep(q) \/ RecoverStep(q)
  BY <1>1, AskStepTypes, PipelineTypes, RecoverTypes
<1>2. CASE Crash
  <2>1. pcF' \in [Req -> Places] /\ spoilt' \subseteq Req /\ troubleF' \in Nat /\ ops' \in [Req -> SUBSET Op]
    BY <1>2 DEF Crash, FTypeOK, Places, TroubleF
  <2>2. base' \in [Req -> [must : SUBSET Need, bait : [Bait -> SUBSET Url], old : BOOLEAN]]
    BY <1>2, NoBaseIs DEF Crash
  <2> QED
    BY <1>2, <2>1, <2>2 DEF FTypeOK, Crash, Release
<1>3. CASE Serve
  BY <1>3 DEF FTypeOK, Serve
<1>4. CASE EngineLoads
  BY <1>4 DEF FTypeOK, EngineLoads
<1>5. CASE SyncPass
  <2>1. replica' \in [Url -> Config]
    BY <1>5, SettingsAre DEF SyncPass, FTypeOK
  <2> QED
    BY <1>5, <2>1 DEF FTypeOK, SyncPass
<1>6. CASE CheckerPass
  <2>1. checker' \in {"idle", "match", "differ"}
    BY <1>6 DEF FTypeOK, CheckerPass, CheckerReads, CheckerSavesOld, CheckerSaves
  <2>2. parity' \in [fresh : BOOLEAN, bad : BOOLEAN]
    <3>1. CASE CheckerReads
      BY <3>1 DEF FTypeOK, CheckerReads
    <3>2. CASE CheckerSavesOld
      BY <3>2 DEF FTypeOK, CheckerSavesOld
    <3>3. CASE CheckerSaves
      <4>1. (checker = "differ") \in BOOLEAN
        OBVIOUS
      <4> QED
        BY <3>3, <4>1, Zenon DEF CheckerSaves
    <3> QED
      BY <1>6, <3>1, <3>2, <3>3 DEF CheckerPass
  <2>3. UNCHANGED <<lists, engine, replica, offered, up, busy, result, kind, target, snapshot, pcF, ops, base, spoilt, troubleF>>
    BY <1>6 DEF CheckerPass, CheckerReads, CheckerSavesOld, CheckerSaves, CheckerStep
  <2> QED
    BY <2>1, <2>2, <2>3 DEF FTypeOK
<1>7. CASE UNCHANGED flVars
  BY <1>7 DEF FTypeOK, flVars
<1> QED
  BY <1>1, <1>2, <1>3, <1>4, <1>5, <1>6, <1>7 DEF FlNext

-----------------------------------------------------------------------------
(* Filter lists: the invariant, action by action.                          *)

LEMMA PlacesOf == FlInv =>
  /\ \A r \in Req : pcF[r] \in Pipe \cup {"recover"} => r \in Changing
  /\ up => \A r \in Changing : pcF[r] \in Pipe
<1> SUFFICES ASSUME FlInv
             PROVE  /\ \A r \in Req : pcF[r] \in Pipe \cup {"recover"} => r \in Changing
                    /\ up => \A r \in Changing : pcF[r] \in Pipe
  OBVIOUS
<1>1. ASSUME NEW r \in Req, pcF[r] \in Pipe \cup {"recover"} PROVE r \in Changing
  <2>1. RowFits(r)
    BY DEF FlInv, Fits
  <2> QED
    BY <1>1, <2>1 DEF RowFits, Changing, Open, Pipe, Trying, Applying
<1>2. ASSUME up, NEW r \in Changing PROVE pcF[r] \in Pipe
  <2>1. RowFits(r) /\ result[r] = "running" /\ pcF[r] # "hold"
    BY DEF FlInv, Fits, Changing, Open
  <2> QED
    BY <1>2, <2>1 DEF RowFits
<1> QED
  BY <1>1, <1>2

\* A request that does not move, while another one does.
LEMMA OthersFit ==
  ASSUME FlInv, NEW r \in Req, up' = up, pcF'[r] = pcF[r], result'[r] = result[r], target'[r] = target[r],
         snapshot'[r] = snapshot[r], ops'[r] = ops[r], base'[r] = base[r],
         pcF[r] \in Pipe => busy',
         lists' = lists \/ pcF[r] \notin Pipe \cup {"recover"},
         engine' = engine \/ engine' = lists
  PROVE  Fits(r)'
<1>1. Fits(r)
  BY DEF FlInv
<1>2. RowFits(r)'
  BY <1>1 DEF Fits, RowFits
<1>3. OneList(r)'
  BY <1>1 DEF Fits, OneList, Pipe
<1>4. Restores(r)'
  BY <1>1 DEF Fits, Restores, Pipe
<1>5. Probed(r)'
  <2>1. CASE pcF[r] \in {"replica", "parity"} /\ ~base[r].old
    <3>1. lists' = lists /\ engine = lists /\ engine' = engine
      BY <1>1, <2>1 DEF Fits, Probed, Pipe, Trying, Applying
    <3>2. \A d : Blockers(engine, d)' = Blockers(engine, d)
      BY <3>1 DEF Blockers
    <3> QED
      BY <1>1, <2>1, <3>1, <3>2 DEF Fits, Probed
  <2>2. CASE ~(pcF[r] \in {"replica", "parity"} /\ ~base[r].old)
    BY <2>2 DEF Probed
  <2> QED
    BY <2>1, <2>2
<1> QED
  BY <1>2, <1>3, <1>4, <1>5 DEF Fits

LEMMA StaysOne ==
  ASSUME FlInv, NEW q \in Req, \A r \in Req \ {q} : pcF'[r] = pcF[r] /\ result'[r] = result[r],
         spoilt' = {} => spoilt = {},
         pcF'[q] \in Pipe => pcF[q] \in Pipe \/ \A r \in Req : pcF[r] \notin Pipe,
         pcF'[q] = "recover" => pcF[q] = "recover" \/ \A r \in Req : pcF[r] # "recover",
         q \in Changing' => q \in Changing \/ Changing = {}
  PROVE  OneAtATime'
<1>1. OneAtATime
  BY DEF FlInv
<1>2. \A r, s \in Req : pcF'[r] \in Pipe /\ pcF'[s] \in Pipe => r = s
  BY <1>1 DEF OneAtATime
<1>3. \A r, s \in Req : pcF'[r] = "recover" /\ pcF'[s] = "recover" => r = s
  BY <1>1 DEF OneAtATime
<1>4. \A r \in Changing' : r = q \/ r \in Changing
  BY DEF Changing, Open
<1>5. spoilt' = {} => \A r, s \in Changing' : r = s
  BY <1>1, <1>4 DEF OneAtATime
<1> QED
  BY <1>2, <1>3, <1>5 DEF OneAtATime

\* A request in the pipeline goes on in it.
LEMMA PipeMoves ==
  ASSUME FlInv, FTypeOK', NEW q \in Req, pcF[q] \in Pipe, NEW p \in Pipe, pcF' = [pcF EXCEPT ![q] = p],
         UNCHANGED <<up, busy, result, target, snapshot, spoilt, engine>>,
         \A r \in Req \ {q} : ops'[r] = ops[r] /\ base'[r] = base[r],
         OneList(q)', Restores(q)', Probed(q)'
  PROVE  FlInv'
<1>1. RowFits(q) /\ OneAtATime /\ FTypeOK
  BY DEF FlInv, Fits
<1>2. pcF'[q] = p /\ \A r \in Req \ {q} : pcF'[r] = pcF[r]
  BY <1>1 DEF FTypeOK
<1>3. up /\ busy /\ result[q] = "running"
  BY <1>1 DEF RowFits
<1>4. \A r \in Req \ {q} : pcF[r] \notin Pipe \cup {"recover"}
  BY <1>1, <1>3 DEF OneAtATime, FlInv, Fits, RowFits
<1>5. \A r \in Req \ {q} : Fits(r)'
  BY <1>2, <1>4, OthersFit
<1>6. p \notin {"new", "asked", "hold", "recover", "end"}
  BY DEF Pipe, Trying, Applying
<1>7. RowFits(q)'
  BY <1>2, <1>3, <1>6 DEF RowFits
<1>8. q \in Changing
  BY PlacesOf
<1>9. OneAtATime'
  BY <1>2, <1>6, <1>8, StaysOne
<1> QED
  BY <1>5, <1>7, <1>9 DEF FlInv, Fits

\* A row is closed, whatever happened to the lists.
LEMMA CloseFits ==
  ASSUME FlInv, FTypeOK', NEW q \in Req, NEW r, r # "running", Close(q, r),
         \A s \in Req \ {q} : pcF[s] \notin Pipe \cup {"recover"},
         up' = up, engine' = engine, spoilt' = {} => spoilt = {}
  PROVE  FlInv'
<1>1. FTypeOK
  BY DEF FlInv
<1>2. pcF'[q] = "end" /\ result'[q] = r
  BY <1>1 DEF FTypeOK, Close, Goto
<1>3. \A s \in Req \ {q} : /\ pcF'[s] = pcF[s] /\ result'[s] = result[s] /\ target'[s] = target[s]
                           /\ snapshot'[s] = snapshot[s] /\ ops'[s] = ops[s] /\ base'[s] = base[s]
  BY <1>1 DEF FTypeOK, Close, Goto
<1>4. \A s \in Req \ {q} : Fits(s)'
  BY <1>3, OthersFit
<1>5. "end" \notin Pipe \cup {"asked", "hold", "recover"}
  BY DEF Pipe, Trying, Applying
<1>6. RowFits(q)' /\ OneList(q)' /\ Restores(q)' /\ Probed(q)'
  BY <1>2, <1>5 DEF RowFits, OneList, Restores, Probed, Pipe
<1>7. q \notin Changing'
  BY <1>2 DEF Changing, Open
<1>8. OneAtATime'
  BY <1>2, <1>3, <1>5, <1>7, StaysOne
<1> QED
  BY <1>4, <1>6, <1>8 DEF FlInv, Fits

LEMMA NothingElseInPipe ==
  ASSUME FlInv, NEW q \in Req, pcF[q] \in Pipe \cup {"recover"}
  PROVE  \A s \in Req \ {q} : pcF[s] \notin Pipe \cup {"recover"}
<1>1. \A s \in Req : RowFits(s)
  BY DEF FlInv, Fits
<1> QED
  BY <1>1 DEF FlInv, OneAtATime, RowFits

LEMMA AskFits ==
  ASSUME FlInv, FTypeOK', NEW q \in Req, NEW k, NEW u \in Url, NEW os \in SUBSET {o \in Op : o.url = u}, Ask(q, k, u, os)
  PROVE  FlInv'
<1>1. FTypeOK /\ Fits(q)
  BY DEF FlInv
<1>2. up /\ pcF[q] = "new" /\ pcF'[q] = "asked" /\ ops'[q] = os /\ target'[q] = u /\ up' = up
  BY <1>1 DEF FTypeOK, Ask, Arrives, Goto, gate
<1>3. \A r \in Req \ {q} : pcF'[r] = pcF[r] /\ ops'[r] = ops[r] /\ target'[r] = target[r]
  BY <1>1 DEF FTypeOK, Ask, Arrives, Goto
<1>4. UNCHANGED <<lists, engine, up, busy, result, snapshot, base, spoilt>>
  BY DEF Ask, adguard, gate
<1>5. \A r \in Req \ {q} : Fits(r)'
  <2>1. \A r \in Req : pcF[r] \in Pipe => busy
    BY DEF FlInv, Fits, RowFits
  <2> QED
    BY <1>3, <1>4, <2>1, OthersFit
<1>6. {"asked", "new"} \cap (Pipe \cup {"hold", "recover", "end"}) = {} /\ "asked" \notin Trying
  BY DEF Pipe, Trying, Applying
<1>7. result'[q] = "none"
  BY <1>1, <1>2, <1>4 DEF Fits, RowFits
<1>8. RowFits(q)' /\ Restores(q)' /\ Probed(q)'
  BY <1>2, <1>6, <1>7 DEF RowFits, Restores, Probed
<1>9. OneList(q)'
  BY <1>2, <1>6 DEF OneList
<1>10. q \notin Changing'
  BY <1>7 DEF Changing, Open
<1>11. OneAtATime'
  BY <1>2, <1>3, <1>4, <1>6, <1>10, StaysOne
<1> QED
  BY <1>5, <1>8, <1>9, <1>11 DEF FlInv, Fits

LEMMA AskStepFits == ASSUME FlInv, FTypeOK', NEW q \in Req, AskStep(q) PROVE FlInv'
<1>0. FTypeOK
  BY DEF FlInv
<1>1. PICK u \in Url :
        \/ \E n \in Label : AskAdd(q, u, n) \/ (\E on \in BOOLEAN : AskSet(q, u, n, on))
        \/ AskRemove(q, u) \/ AskRefresh(q, u) \/ AskRevert(q, u) \/ HoldBegin(q, u)
  BY DEF AskStep
<1>2. ASSUME NEW k, NEW os \in SUBSET {o \in Op : o.url = u}, Ask(q, k, u, os) PROVE FlInv'
  BY <1>2, AskFits
<1>3. ASSUME NEW n \in Label, NEW on \in BOOLEAN, NEW k \in {"add", "set", "remove", "refresh"}
      PROVE  {OpOf(k, u, n, on)} \in SUBSET {o \in Op : o.url = u}
  BY DEF OpOf, Op
<1>4. ASSUME NEW n \in Label, AskAdd(q, u, n) PROVE FlInv'
  BY <1>2, <1>3, <1>4 DEF AskAdd
<1>5. ASSUME NEW n \in Label, NEW on \in BOOLEAN, AskSet(q, u, n, on) PROVE FlInv'
  BY <1>2, <1>3, <1>5 DEF AskSet
<1>6. lists[u] # Absent => lists[u].name \in Label
  BY <1>0 DEF FTypeOK, Lists, Installed
<1>7. CASE AskRemove(q, u)
  BY <1>2, <1>3, <1>6, <1>7 DEF AskRemove
<1>8. CASE AskRefresh(q, u)
  BY <1>2, <1>3, <1>6, <1>8 DEF AskRefresh
<1>9. CASE AskRevert(q, u)
  <2>1. PICK r \in Req : Ask(q, "revert", u, Diff(snapshot[r], {u}))
    BY <1>9 DEF AskRevert
  <2>2. Diff(snapshot[r], {u}) \in SUBSET {o \in Op : o.url = u}
    BY <1>0, DiffOfOne
  <2> QED
    BY <1>2, <2>1, <2>2
<1>10. CASE HoldBegin(q, u)
  <2>1. up /\ pcF[q] = "new" /\ pcF'[q] = "hold" /\ result'[q] = "running"
    BY <1>0, <1>10 DEF FTypeOK, HoldBegin, Arrives, Goto
  <2>2. \A r \in Req \ {q} : pcF'[r] = pcF[r] /\ result'[r] = result[r] /\ target'[r] = target[r]
    BY <1>0, <1>10 DEF FTypeOK, HoldBegin, Arrives, Goto
  <2>3. UNCHANGED <<lists, engine, up, busy, snapshot, ops, base, spoilt>>
    BY <1>10 DEF HoldBegin, adguard, gate
  <2>4. \A r \in Req \ {q} : Fits(r)'
    <3>1. \A r \in Req : pcF[r] \in Pipe => busy
      BY DEF FlInv, Fits, RowFits
    <3> QED
      BY <2>2, <2>3, <3>1, OthersFit
  <2>5. "hold" \notin Pipe \cup {"recover", "end"}
    BY DEF Pipe, Trying, Applying
  <2>6. RowFits(q)' /\ OneList(q)' /\ Restores(q)' /\ Probed(q)'
    BY <2>1, <2>3, <2>5 DEF RowFits, OneList, Restores, Probed, Pipe
  <2>7. q \notin Changing'
    BY <2>1 DEF Changing
  <2>8. OneAtATime'
    BY <2>1, <2>2, <2>3, <2>5, <2>7, StaysOne
  <2> QED
    BY <2>4, <2>6, <2>8 DEF FlInv, Fits
<1> QED
  BY <1>1, <1>4, <1>5, <1>7, <1>8, <1>9, <1>10

LEMMA HoldEndFits == ASSUME FlInv, FTypeOK', NEW q \in Req, HoldEnd(q) \/ Refuse(q) PROVE FlInv'
<1>1. FTypeOK /\ Fits(q)
  BY DEF FlInv
<1>2. /\ up /\ pcF[q] \in {"hold", "asked"} /\ pcF'[q] = "end" /\ pcF'[q] = "end" /\ result'[q] # "running"
      /\ \A r \in Req \ {q} : pcF'[r] = pcF[r] /\ result'[r] = result[r] /\ ops'[r] = ops[r]
  <2>1. CASE HoldEnd(q)
    BY <1>1, <2>1 DEF FTypeOK, HoldEnd, Goto
  <2>2. CASE Refuse(q)
    <3>1. pcF[q] = "asked" /\ result' = result
      BY <2>2 DEF Refuse, rows
    <3>2. result[q] # "running"
      BY <1>1, <3>1 DEF Fits, RowFits, Pipe, Trying, Applying
    <3> QED
      BY <1>1, <2>2, <3>1, <3>2 DEF FTypeOK, Refuse, Goto
  <2> QED
    BY <2>1, <2>2
<1>3. UNCHANGED <<lists, engine, up, busy, snapshot, target, base, spoilt>>
  BY DEF HoldEnd, Refuse, adguard, gate, rows
<1>4. \A r \in Req \ {q} : Fits(r)'
  <2>1. \A r \in Req : pcF[r] \in Pipe => busy
    BY DEF FlInv, Fits, RowFits
  <2> QED
    BY <1>2, <1>3, <2>1, OthersFit
<1>5. "end" \notin Pipe \cup {"asked", "hold", "recover"}
  BY DEF Pipe, Trying, Applying
<1>6. RowFits(q)' /\ OneList(q)' /\ Restores(q)' /\ Probed(q)'
  BY <1>2, <1>5 DEF RowFits, OneList, Restores, Probed, Pipe
<1>7. q \notin Changing'
  BY <1>2 DEF Changing, Open
<1>8. OneAtATime'
  BY <1>2, <1>3, <1>5, <1>7, StaysOne
<1> QED
  BY <1>4, <1>6, <1>8 DEF FlInv, Fits

LEMMA ChangeBeginsFits == ASSUME FlInv, FTypeOK', NEW q \in Req, ChangeBegins(q) PROVE FlInv'
<1>1. FTypeOK /\ Fits(q)
  BY DEF FlInv
<1>2. /\ up /\ ~busy /\ busy' = TRUE /\ pcF[q] = "asked" /\ pcF'[q] = "baseline" /\ result'[q] = "running"
      /\ snapshot'[q] = Settings(lists)
      /\ \A r \in Req \ {q} : pcF'[r] = pcF[r] /\ result'[r] = result[r] /\ snapshot'[r] = snapshot[r]
  BY <1>1 DEF FTypeOK, ChangeBegins, Goto
<1>3. UNCHANGED <<lists, engine, up, target, ops, base, spoilt>>
  BY DEF ChangeBegins, adguard
<1>4. \A r \in Req \ {q} : Fits(r)'
  BY <1>2, <1>3, OthersFit
<1>5. "baseline" \in Pipe /\ "baseline" \notin {"asked", "hold", "recover", "end", "restore", "probe", "replica", "parity"}
  BY DEF Pipe, Trying
<1>6. RowFits(q)' /\ Restores(q)' /\ Probed(q)'
  BY <1>2, <1>3, <1>5 DEF RowFits, Restores, Probed
<1>7. OneList(q)'
  <2>1. \A o \in ops[q] : o.url = target[q]
    BY <1>1, <1>2 DEF Fits, OneList
  <2>2. \A u \in Url : Setting(lists'[u]) = snapshot'[q][u]
    BY <1>2, <1>3 DEF Settings
  <2> QED
    BY <1>3, <2>1, <2>2 DEF OneList
<1>8. \A r \in Req : pcF[r] \notin Pipe
  BY <1>2 DEF FlInv, Fits, RowFits
<1>9. Changing = {}
  BY <1>2, <1>8, PlacesOf DEF Changing, Open
<1>10. OneAtATime'
  BY <1>2, <1>3, <1>5, <1>8, <1>9, StaysOne
<1> QED
  BY <1>4, <1>6, <1>7, <1>10 DEF FlInv, Fits

LEMMA BaselineFits == ASSUME FlInv, FTypeOK', NEW q \in Req, Baseline(q) PROVE FlInv'
<1>1. FTypeOK /\ Fits(q)
  BY DEF FlInv
<1>2. PICK p \in {"apply", "undo"} : pcF[q] = "baseline" /\ pcF' = [pcF EXCEPT ![q] = p] /\ pcF'[q] = p
  BY <1>1 DEF FTypeOK, Baseline, Goto
<1>3. UNCHANGED <<lists, engine, up, busy, result, target, snapshot, ops, spoilt>>
  BY DEF Baseline, adguard, gate, rows
<1>4. \A r \in Req \ {q} : base'[r] = base[r]
  BY <1>1 DEF FTypeOK, Baseline
<1>5. "baseline" \in Trying /\ p \in Pipe /\ "baseline" \in Pipe /\ "undo" \notin Trying \cup {"asked"}
  BY DEF Pipe, Trying, Applying
<1>6. OneList(q)'
  BY <1>1, <1>2, <1>3, <1>5 DEF Fits, OneList
<1>7. Restores(q)' /\ Probed(q)'
  BY <1>2 DEF Restores, Probed
<1> QED
  BY <1>2, <1>3, <1>4, <1>5, <1>6, <1>7, PipeMoves

LEMMA ApplyFits == ASSUME FlInv, FTypeOK', NEW q \in Req, NEW o \in Op, Apply(q, o) PROVE FlInv'
<1>1. FTypeOK /\ Fits(q)
  BY DEF FlInv
<1>2. PICK p \in {"apply", "probe", "undo"} : pcF' = [pcF EXCEPT ![q] = p]
  BY DEF Apply, Goto
<1>3. pcF[q] = "apply" /\ pcF'[q] = p /\ UNCHANGED <<engine, up, busy, result, target, snapshot, base, spoilt>>
  BY <1>1, <1>2 DEF FTypeOK, Apply, gate, rows
<1>4. \A r \in Req \ {q} : ops'[r] = ops[r]
  BY <1>1 DEF FTypeOK, Apply
<1>5. ops'[q] \subseteq ops[q] /\ o \in ops[q]
  BY <1>1 DEF FTypeOK, Apply, Ready
<1>6. "apply" \in Trying /\ "apply" \in Pipe /\ p \in Pipe
  BY DEF Pipe, Trying, Applying
<1>7. o.url = target[q] /\ \A r \in ops'[q] : r.url = target[q]
  BY <1>1, <1>3, <1>5, <1>6 DEF Fits, OneList
<1>8. \A u \in Url \ {target[q]} : Setting(lists'[u]) = Setting(lists[u])
  <2>1. lists' = lists \/ (Possible(o) /\ lists' = Effect(o))
    BY DEF Apply
  <2>2. Possible(o) => \A u \in Url \ {o.url} : Setting(Effect(o)[u]) = Setting(lists[u])
    BY <1>1, EffectIs DEF FTypeOK
  <2> QED
    BY <1>7, <2>1, <2>2
<1>9. OneList(q)'
  BY <1>1, <1>3, <1>6, <1>7, <1>8 DEF Fits, OneList
<1>10. Restores(q)' /\ Probed(q)'
  BY <1>3 DEF Restores, Probed
<1> QED
  BY <1>2, <1>3, <1>4, <1>6, <1>9, <1>10, PipeMoves

LEMMA LookFits == ASSUME FlInv, FTypeOK', NEW q \in Req, Probe(q) \/ AskReplica(q) PROVE FlInv'
<1>1. FTypeOK /\ Fits(q)
  BY DEF FlInv
<1>2. PICK p \in {"replica", "parity", "undo"} : pcF' = [pcF EXCEPT ![q] = p]
  BY DEF Probe, AskReplica, Goto
<1>3. pcF'[q] = p /\ UNCHANGED <<lists, engine, up, busy, result, target, snapshot, ops, spoilt>>
  BY <1>1, <1>2 DEF FTypeOK, Probe, AskReplica, adguard, gate, rows
<1>9. /\ \A r \in Req \ {q} : base'[r] = base[r]
      /\ base'[q].must = base[q].must
  BY <1>1 DEF FTypeOK, Probe, AskReplica
<1>4. \/ pcF[q] = "probe" /\ (p = "undo" \/ (p = "replica" /\ Healthy(q) /\ base'[q].old = (engine # lists)))
      \/ pcF[q] = "replica" /\ p \in {"parity", "undo"} /\ base' = base
  <2>2. CASE Probe(q)
    BY <1>1, <1>3, <2>2 DEF FTypeOK, Probe, Goto
  <2>3. CASE AskReplica(q)
    BY <1>1, <1>3, <2>3 DEF FTypeOK, AskReplica, Goto
  <2> QED
    BY <2>2, <2>3
<1>5. pcF[q] \in Trying /\ pcF[q] \in Pipe /\ p \in Pipe /\ "undo" \notin Trying \cup {"asked"}
  BY <1>4 DEF Pipe, Trying, Applying
<1>6. OneList(q)'
  BY <1>1, <1>3, <1>5 DEF Fits, OneList
<1>7. Restores(q)'
  BY <1>3 DEF Restores
<1>8. Probed(q)'
  <2>1. \A d : Blockers(engine, d)' = Blockers(engine, d)
    BY <1>3 DEF Blockers
  <2>2. p # "undo" /\ ~base'[q].old => engine = lists
    BY <1>1, <1>4 DEF Fits, Probed
  <2>3. p # "undo" /\ ~base'[q].old => \A d \in base[q].must : Blockers(engine, d) = {}
    BY <1>1, <1>4 DEF Fits, Probed, Healthy
  <2> QED
    BY <1>3, <1>9, <2>1, <2>2, <2>3 DEF Probed
<1> QED
  BY <1>2, <1>3, <1>5, <1>6, <1>7, <1>8, <1>9, PipeMoves

LEMMA AskParityFits == ASSUME FlInv, FTypeOK', NEW q \in Req, AskParity(q) PROVE FlInv'
<1>1. FTypeOK /\ Fits(q) /\ pcF[q] = "parity" /\ "parity" \in Pipe /\ "undo" \in Pipe
  BY DEF FlInv, AskParity, Pipe, Trying, Applying
<1>2. UNCHANGED <<lists, engine, up, spoilt>>
  BY DEF AskParity, adguard
<1>3. CASE Close(q, "applied")
  BY <1>1, <1>2, <1>3, NothingElseInPipe, CloseFits
<1>4. CASE Goto(q, "undo") /\ UNCHANGED <<rows, busy, parity, ops, base>>
  <2>1. pcF' = [pcF EXCEPT ![q] = "undo"] /\ pcF'[q] = "undo"
    BY <1>1, <1>4 DEF Goto, FTypeOK
  <2>2. OneList(q)' /\ Restores(q)' /\ Probed(q)'
    BY <2>1 DEF OneList, Restores, Probed, Trying, Applying
  <2> QED
    BY <1>1, <1>2, <1>4, <2>1, <2>2, PipeMoves DEF rows
<1> QED
  BY <1>3, <1>4 DEF AskParity

LEMMA UndoFits == ASSUME FlInv, FTypeOK', NEW q \in Req, Undo(q) PROVE FlInv'
<1>1. FTypeOK /\ Fits(q) /\ pcF[q] = "undo" /\ "restore" \in Pipe /\ "undo" \in Pipe
  BY DEF FlInv, Undo, Pipe, Trying, Applying
<1>2. UNCHANGED <<lists, engine, up>>
  BY DEF Undo, adguard
<1>3. CASE Close(q, "reverted") /\ spoilt' = spoilt \cup {q}
  BY <1>1, <1>2, <1>3, NothingElseInPipe, CloseFits
<1>4. CASE /\ ops' = [ops EXCEPT ![q] = Diff(snapshot[q], Url)] /\ Goto(q, "restore")
           /\ UNCHANGED <<rows, busy, parity, base, spoilt, troubleF>>
  <2>1. pcF' = [pcF EXCEPT ![q] = "restore"] /\ pcF'[q] = "restore" /\ \A r \in Req \ {q} : ops'[r] = ops[r]
    BY <1>1, <1>4 DEF Goto, FTypeOK
  <2>2. ops'[q] = Difference(lists, snapshot[q])
    <3>1. ops'[q] = Diff(snapshot[q], Url)
      BY <1>1, <1>4 DEF FTypeOK
    <3> QED
      BY <1>1, <3>1, DiffOfAll, Zenon
  <2>3. OneList(q)' /\ Probed(q)'
    BY <2>1 DEF OneList, Probed, Trying, Applying
  <2>4. UNCHANGED <<result, target, snapshot>>
    BY <1>4 DEF rows
  <2>5. Restores(q)'
    BY <1>2, <2>2, <2>4, Zenon DEF Restores, Difference
  <2> QED
    BY <1>1, <1>2, <1>4, <2>1, <2>3, <2>4, <2>5, PipeMoves
<1> QED
  BY <1>3, <1>4 DEF Undo

\* An operation of a restore leaves what is still different.
LEMMA LessToRestore ==
  ASSUME FTypeOK, NEW q \in Req, NEW o \in Ready(ops[q]), Possible(o), ops[q] = Difference(lists, snapshot[q])
  PROVE  ops[q] \ {o} = Difference(Effect(o), snapshot[q])
<1> DEFINE want == snapshot[q]
<1>1. lists \in Lists /\ offered \in [Url -> Text] /\ want \in [Url -> Config]
  BY DEF FTypeOK
<1>2. o \in Ready(Difference(lists, want))
  OBVIOUS
<1> HIDE DEF want
<1>3. Difference(Effect(o), want) = Difference(lists, want) \ {o}
  BY <1>1, <1>2, OneDifferenceLess
<1> QED
  BY <1>3 DEF want

LEMMA RestoreFits == ASSUME FlInv, FTypeOK', NEW q \in Req, (\E o \in Op : RestoreOp(q, o)) \/ RestoreEnd(q) PROVE FlInv'
<1>1. FTypeOK /\ Fits(q) /\ pcF[q] = "restore" /\ "restore" \in Pipe
  BY DEF FlInv, RestoreOp, RestoreEnd, Pipe
<1>2. UNCHANGED <<engine, up>>
  BY DEF RestoreOp, RestoreEnd, adguard
<1>3. CASE Close(q, "reverted") /\ (spoilt' = spoilt \/ spoilt' = spoilt \cup {q})
  BY <1>1, <1>2, <1>3, NothingElseInPipe, CloseFits
<1>4. ASSUME NEW o \in Op, o \in Ready(ops[q]), Possible(o), lists' = Effect(o), ops' = [ops EXCEPT ![q] = @ \ {o}],
             UNCHANGED <<pcF, rows, busy, parity, base, spoilt, troubleF>>
      PROVE  FlInv'
  <2>1. pcF' = [pcF EXCEPT ![q] = "restore"] /\ pcF'[q] = "restore" /\ ops'[q] = ops[q] \ {o}
        /\ \A r \in Req \ {q} : ops'[r] = ops[r]
    BY <1>1, <1>4 DEF FTypeOK
  <2>2. ops[q] = Difference(lists, snapshot[q])
    BY <1>1 DEF Fits, Restores
  <2>3. ops[q] \ {o} = Difference(Effect(o), snapshot[q])
    BY <1>1, <1>4, <2>2, LessToRestore
  <2>4. UNCHANGED <<result, target, snapshot>>
    BY <1>4 DEF rows
  <2>5. Restores(q)'
    BY <1>4, <2>1, <2>3, <2>4, Zenon DEF Restores, Difference
  <2>6. OneList(q)' /\ Probed(q)'
    BY <2>1 DEF OneList, Probed, Trying, Applying
  <2> QED
    BY <1>1, <1>2, <1>4, <2>1, <2>4, <2>5, <2>6, PipeMoves
<1> QED
  BY <1>3, <1>4 DEF RestoreOp, RestoreEnd

LEMMA PipelineFits == ASSUME FlInv, FTypeOK', NEW q \in Req, PipelineStep(q) PROVE FlInv'
<1>1. CASE HoldEnd(q) \/ Refuse(q)
  BY <1>1, HoldEndFits
<1>2. CASE ChangeBegins(q)
  BY <1>2, ChangeBeginsFits
<1>3. CASE Baseline(q)
  BY <1>3, BaselineFits
<1>4. ASSUME NEW o \in Op, Apply(q, o) PROVE FlInv'
  BY <1>4, ApplyFits
<1>5. CASE Probe(q) \/ AskReplica(q)
  BY <1>5, LookFits
<1>6. CASE AskParity(q)
  BY <1>6, AskParityFits
<1>7. CASE Undo(q)
  BY <1>7, UndoFits
<1>8. CASE (\E o \in Op : RestoreOp(q, o)) \/ RestoreEnd(q)
  BY <1>8, RestoreFits
<1> QED
  BY <1>1, <1>2, <1>3, <1>4, <1>5, <1>6, <1>7, <1>8 DEF PipelineStep

LEMMA RecoverFits == ASSUME FlInv, FTypeOK', NEW q \in Req, RecoverStep(q) PROVE FlInv'
<1>1. FTypeOK /\ Fits(q) /\ OneAtATime
  BY DEF FlInv
<1>2. ~up /\ UNCHANGED <<engine, up, busy>>
  BY DEF RecoverStep, Recover, RecoverOp, RecoverEnd, adguard, gate
<1>3. \A r \in Req : pcF[r] \notin Pipe
  BY <1>2 DEF FlInv, Fits, RowFits
<1>4. \A r \in Req \ {q} : pcF[r] \notin Pipe \cup {"recover"}
  <2>1. CASE Recover(q)
    BY <1>3, <2>1 DEF Recover
  <2>2. CASE pcF[q] = "recover"
    BY <1>1, <1>3, <2>2 DEF OneAtATime
  <2> QED
    BY <2>1, <2>2 DEF RecoverStep, RecoverOp, RecoverEnd
<1>5. \A r \in {"reverted", "failed"} : Close(q, r) /\ (spoilt' = spoilt \/ spoilt' = spoilt \cup {q}) => FlInv'
  BY <1>2, <1>4, CloseFits
<1>6. "recover" \notin Pipe \cup Trying \cup {"asked", "end", "probe", "replica", "parity"}
  BY DEF Pipe, Trying, Applying
<1>7. ASSUME pcF'[q] = "recover", UNCHANGED rows, UNCHANGED <<base, spoilt>>, result[q] = "running", pcF[q] # "hold",
             \A r \in Req \ {q} : pcF'[r] = pcF[r] /\ ops'[r] = ops[r],
             ops'[q] = Difference(lists', snapshot[q])
      PROVE  FlInv'
  <2>1. UNCHANGED <<result, target, snapshot>>
    BY <1>7 DEF rows
  <2>2. \A r \in Req \ {q} : Fits(r)'
    BY <1>2, <1>4, <1>7, <2>1, OthersFit
  <2>3. RowFits(q)' /\ OneList(q)' /\ Probed(q)'
    BY <1>2, <1>6, <1>7, <2>1 DEF RowFits, OneList, Probed
  <2>4. Restores(q)'
    BY <1>7, <2>1, Zenon DEF Restores, Difference
  <2>5. q \in Changing
    BY <1>7 DEF Changing, Open
  <2>6. pcF[q] = "recover" \/ \A r \in Req : pcF[r] # "recover"
    BY <1>2, <1>4, <1>7
  <2>7. OneAtATime'
    <3>1. \A r \in Req \ {q} : pcF'[r] = pcF[r] /\ result'[r] = result[r]
      BY <1>7, <2>1
    <3> QED
      BY <1>6, <1>7, <2>5, <2>6, <3>1, StaysOne
  <2> QED
    BY <2>2, <2>3, <2>4, <2>7 DEF FlInv, Fits
<1>8. CASE Recover(q)
  <2>1. CASE ops' = [ops EXCEPT ![q] = Diff(snapshot[q], Url)] /\ Goto(q, "recover") /\ UNCHANGED <<rows, base, spoilt, troubleF>>
    <3>1. /\ pcF'[q] = "recover" /\ result[q] = "running" /\ lists' = lists
          /\ \A r \in Req \ {q} : pcF'[r] = pcF[r] /\ ops'[r] = ops[r]
      BY <1>1, <1>8, <2>1 DEF FTypeOK, Goto, Recover, adguard
    <3>2. pcF[q] # "hold"
      BY <1>1, <1>2 DEF Fits, RowFits
    <3>3. ops'[q] = Difference(lists, snapshot[q])
      <4>1. ops'[q] = Diff(snapshot[q], Url)
        BY <1>1, <2>1 DEF FTypeOK
      <4> QED
        BY <1>1, <4>1, DiffOfAll, Zenon
    <3>4. ops'[q] = Difference(lists', snapshot[q])
      BY <3>1, <3>3
    <3> QED
      BY <1>7, <2>1, <3>1, <3>2, <3>4
  <2>2. CASE Close(q, "failed") /\ spoilt' = spoilt \cup {q}
    BY <1>5, <2>2
  <2> QED
    BY <1>8, <2>1, <2>2 DEF Recover
<1>9. ASSUME NEW o \in Op, RecoverOp(q, o) PROVE FlInv'
  <2>0. pcF[q] = "recover" /\ result[q] = "running"
    BY <1>1, <1>9 DEF RecoverOp, Fits, RowFits
  <2>1. CASE Possible(o) /\ lists' = Effect(o) /\ ops' = [ops EXCEPT ![q] = @ \ {o}] /\ UNCHANGED <<pcF, rows, base, spoilt, troubleF>>
    <3>1. ops'[q] = ops[q] \ {o} /\ \A r \in Req \ {q} : pcF'[r] = pcF[r] /\ ops'[r] = ops[r]
      BY <1>1, <2>1 DEF FTypeOK
    <3>2. ops[q] = Difference(lists, snapshot[q]) /\ o \in Ready(ops[q])
      BY <1>1, <1>9, <2>0 DEF Fits, Restores, RecoverOp
    <3>3. ops[q] \ {o} = Difference(Effect(o), snapshot[q])
      BY <1>1, <2>1, <3>2, LessToRestore
    <3>4. ops'[q] = Difference(lists', snapshot[q])
      BY <2>1, <3>1, <3>3
    <3> QED
      BY <1>7, <2>0, <2>1, <3>1, <3>4
  <2>2. CASE Close(q, "failed") /\ spoilt' = spoilt \cup {q}
    BY <1>5, <2>2
  <2> QED
    BY <1>9, <2>1, <2>2 DEF RecoverOp
<1>10. CASE RecoverEnd(q)
  BY <1>5, <1>10 DEF RecoverEnd
<1> QED
  BY <1>8, <1>9, <1>10 DEF RecoverStep

LEMMA CrashFits == ASSUME FlInv, FTypeOK', Crash PROVE FlInv'
<1>1. FTypeOK /\ OneAtATime /\ \A q \in Req : RowFits(q)
  BY DEF FlInv, Fits
<1>2. /\ ~up' /\ UNCHANGED <<result, target, snapshot>>
      /\ \A q \in Req : pcF'[q] = IF pcF[q] = "new" THEN "new" ELSE "end"
      /\ spoilt' = spoilt \cup {q \in Req : pcF[q] = "hold"}
  BY DEF Crash, rows
<1>3. {"new", "end"} \cap (Pipe \cup {"asked", "hold", "recover"}) = {}
  BY DEF Pipe, Trying, Applying
<1>4. ASSUME NEW q \in Req PROVE Fits(q)'
  <2>1. pcF'[q] \in {"new", "end"} /\ (pcF'[q] = "new" => pcF[q] = "new")
    BY <1>2
  <2>2. pcF'[q] = "new" => result'[q] = "none"
    BY <1>1, <1>2, <1>3, <2>1 DEF RowFits
  <2>3. RowFits(q)'
    BY <1>2, <1>3, <2>1, <2>2 DEF RowFits
  <2>4. OneList(q)' /\ Restores(q)' /\ Probed(q)'
    BY <1>3, <2>1 DEF OneList, Restores, Probed, Pipe
  <2> QED
    BY <2>3, <2>4 DEF Fits
<1>5. spoilt' = {} => spoilt = {} /\ \A r \in Changing' : r \in Changing
  <2>1. ASSUME spoilt' = {}, NEW r \in Changing' PROVE r \in Changing
    <3>1. r \in Req /\ result[r] = "running" /\ pcF[r] # "hold"
      BY <1>2, <2>1 DEF Changing, Open
    <3> QED
      BY <3>1 DEF Changing, Open
  <2> QED
    BY <1>2, <2>1
<1>6. OneAtATime'
  <2>1. \A q \in Req : pcF'[q] \notin Pipe /\ pcF'[q] # "recover"
    BY <1>2, <1>3
  <2>2. spoilt' = {} => \A q, r \in Changing' : q = r
    BY <1>1, <1>5 DEF OneAtATime
  <2> QED
    BY <2>1, <2>2 DEF OneAtATime
<1> QED
  BY <1>4, <1>6 DEF FlInv

LEMMA FlInvStays == FlInv /\ [FlNext]_flVars => FlInv'
<1> SUFFICES ASSUME FlInv, [FlNext]_flVars PROVE FlInv'
  OBVIOUS
<1>1. FTypeOK /\ FTypeOK' /\ OneAtATime
  BY FTypesStay DEF FlInv
<1>2. CASE \E q \in Req : AskStep(q) \/ PipelineStep(q) \/ RecoverStep(q)
  BY <1>1, <1>2, AskStepFits, PipelineFits, RecoverFits
<1>3. CASE Crash
  BY <1>1, <1>3, CrashFits
<1>4. CASE Serve
  <2>1. up' = TRUE /\ UNCHANGED <<lists, engine, result, target, snapshot, pcF, ops, base, spoilt, busy>> /\ \A q \in Req : result[q] # "running"
    BY <1>4 DEF Serve, adguard, rows
  <2>2. ASSUME NEW q \in Req PROVE Fits(q)'
    <3>1. RowFits(q) /\ OneList(q) /\ pcF[q] \notin Pipe \cup {"hold", "recover"}
      BY <2>1 DEF FlInv, Fits, RowFits
    <3>2. RowFits(q)'
      BY <2>1, <3>1 DEF RowFits
    <3>3. OneList(q)' /\ Restores(q)' /\ Probed(q)'
      BY <2>1, <3>1 DEF OneList, Restores, Probed, Pipe, Trying, Applying
    <3> QED
      BY <3>2, <3>3 DEF Fits
  <2>3. OneAtATime'
    <3>1. Changing' = {}
      BY <2>1 DEF Changing, Open
    <3> QED
      BY <1>1, <2>1, <3>1 DEF OneAtATime
  <2> QED
    BY <1>1, <2>2, <2>3 DEF FlInv
<1>5. CASE \/ EngineLoads \/ SyncPass \/ CheckerPass \/ UNCHANGED flVars
  <2>1. UNCHANGED <<lists, up, busy, result, target, snapshot, pcF, ops, base, spoilt>> /\ (engine' = engine \/ engine' = lists)
    BY <1>5 DEF EngineLoads, SyncPass, CheckerPass, CheckerReads, CheckerSavesOld, CheckerSaves, CheckerStep, flVars,
                adguard, world, gate, rows
  <2>2. \A r \in Req : pcF[r] \in Pipe => busy
    BY DEF FlInv, Fits, RowFits
  <2>3. \A r \in Req : Fits(r)'
    BY <2>1, <2>2, OthersFit
  <2>4. OneAtATime'
    BY <1>1, <2>1 DEF OneAtATime, Changing, Open
  <2> QED
    BY <1>1, <2>3, <2>4 DEF FlInv
<1> QED
  BY <1>2, <1>3, <1>4, <1>5 DEF FlNext

LEMMA FlInvAtStart == FlInit => FlInv
<1> SUFFICES ASSUME FlInit PROVE FlInv
  OBVIOUS
<1>1. /\ \A q \in Req : pcF[q] = "new" /\ result[q] = "none" /\ ops[q] = {}
  BY DEF FlInit
<1>2. "new" \notin Pipe \cup {"asked", "hold", "recover", "end"}
  BY DEF Pipe, Trying, Applying
<1>3. ASSUME NEW q \in Req PROVE Fits(q)
  BY <1>1, <1>2 DEF Fits, RowFits, OneList, Restores, Probed, Pipe
<1>4. Changing = {}
  BY <1>1 DEF Changing, Open
<1>5. OneAtATime
  BY <1>1, <1>2, <1>4 DEF OneAtATime
<1> QED
  BY <1>3, <1>5, FTypesAtStart DEF FlInv

-----------------------------------------------------------------------------
(* Filter lists: what a step does to the rows.                             *)

\* How the row of a change that is under way is closed.
Ends(q) ==
  \/ HoldEnd(q) /\ result'[q] = "held"
  \/ AskParity(q) /\ Close(q, "applied") /\ result'[q] = "applied"
  \/ q \in spoilt' /\ result'[q] \in {"reverted", "failed"}
  \/ (RestoreEnd(q) \/ RecoverEnd(q)) /\ result'[q] = "reverted"

LEMMA RowsMove ==
  ASSUME FlInv, [FlNext]_flVars, NEW q \in Req
  PROVE  \/ result'[q] = result[q]
         \/ result[q] = "none" /\ result'[q] = "running"
         \/ result[q] = "running" /\ Ends(q)
<1> DEFINE Goal == \/ result'[q] = result[q]
                   \/ result[q] = "none" /\ result'[q] = "running"
                   \/ result[q] = "running" /\ Ends(q)
<1> SUFFICES Goal
  OBVIOUS
<1>1. FTypeOK /\ \A r \in Req : RowFits(r)
  BY DEF FlInv, Fits
<1>2. ASSUME NEW r \in Req, NEW v, result' = [result EXCEPT ![r] = v], r # q PROVE Goal
  BY <1>1, <1>2 DEF FTypeOK
<1>3. ASSUME NEW v, Close(q, v) PROVE result'[q] = v
  BY <1>1, <1>3 DEF FTypeOK, Close
<1>4. CASE result' = result
  BY <1>4
<1>5. ASSUME NEW r \in Req, AskStep(r) PROVE Goal
  <2>1. CASE \E u \in Url : HoldBegin(r, u)
    <3>1. result[r] = "none"
      BY <1>1, <2>1 DEF HoldBegin, Arrives, RowFits
    <3>2. result' = [result EXCEPT ![r] = "running"]
      BY <2>1 DEF HoldBegin
    <3> QED
      BY <1>1, <1>2, <3>1, <3>2 DEF FTypeOK
  <2>2. CASE ~\E u \in Url : HoldBegin(r, u)
    BY <1>4, <1>5, <2>2 DEF AskStep, AskAdd, AskSet, AskRemove, AskRefresh, AskRevert, Ask
  <2> QED
    BY <2>1, <2>2
<1>6. ASSUME NEW r \in Req, PipelineStep(r) PROVE Goal
  <2>1. CASE HoldEnd(r)
    <3>1. result[r] = "running" /\ result' = [result EXCEPT ![r] = "held"]
      BY <1>1, <2>1 DEF HoldEnd, RowFits
    <3>2. r = q => result'[q] = "held"
      BY <1>1, <3>1 DEF FTypeOK
    <3> QED
      BY <1>2, <2>1, <3>1, <3>2 DEF Ends
  <2>2. CASE ChangeBegins(r)
    <3>1. result[r] = "none" /\ result' = [result EXCEPT ![r] = "running"]
      BY <1>1, <2>2 DEF ChangeBegins, RowFits
    <3> QED
      BY <1>1, <1>2, <3>1 DEF FTypeOK
  <2>3. CASE AskParity(r) \/ Undo(r) \/ (\E o \in Op : RestoreOp(r, o)) \/ RestoreEnd(r)
    <3>1. result[r] = "running"
      BY <1>1, <2>3 DEF AskParity, Undo, RestoreOp, RestoreEnd, RowFits, Pipe, Trying, Applying
    <3>2. \/ result' = result
          \/ AskParity(r) /\ Close(r, "applied")
          \/ Close(r, "reverted") /\ r \in spoilt'
          \/ RestoreEnd(r) /\ Close(r, "reverted")
      BY <2>3 DEF AskParity, Undo, RestoreOp, RestoreEnd, rows
    <3>3. \A v : Close(r, v) => result' = [result EXCEPT ![r] = v]
      BY DEF Close
    <3>4. CASE r = q
      BY <1>3, <1>4, <3>1, <3>2, <3>4 DEF Ends
    <3>5. CASE r # q
      BY <1>2, <1>4, <3>2, <3>3, <3>5
    <3> QED
      BY <3>4, <3>5
  <2>4. CASE Refuse(r) \/ Baseline(r) \/ (\E o \in Op : Apply(r, o)) \/ Probe(r) \/ AskReplica(r)
    BY <1>4, <2>4 DEF Refuse, Baseline, Apply, Probe, AskReplica, rows
  <2> QED
    BY <1>6, <2>1, <2>2, <2>3, <2>4 DEF PipelineStep
<1>7. ASSUME NEW r \in Req, RecoverStep(r) PROVE Goal
  <2>1. result[r] = "running"
    BY <1>1, <1>7 DEF RecoverStep, Recover, RecoverOp, RecoverEnd, RowFits
  <2>2. \/ result' = result
        \/ Close(r, "failed") /\ r \in spoilt'
        \/ RecoverEnd(r) /\ Close(r, "reverted")
    BY <1>7 DEF RecoverStep, Recover, RecoverOp, RecoverEnd, rows
  <2>3. \A v : Close(r, v) => result' = [result EXCEPT ![r] = v]
    BY DEF Close
  <2>4. CASE r = q
    BY <1>3, <1>4, <2>1, <2>2, <2>4 DEF Ends
  <2>5. CASE r # q
    BY <1>2, <1>4, <2>2, <2>3, <2>5
  <2> QED
    BY <2>4, <2>5
<1>8. CASE Crash \/ Serve \/ EngineLoads \/ SyncPass \/ CheckerPass \/ UNCHANGED flVars
  BY <1>4, <1>8 DEF Crash, Serve, EngineLoads, SyncPass, CheckerPass, CheckerReads, CheckerSavesOld, CheckerSaves,
                    CheckerStep, flVars, rows
<1> QED
  BY <1>5, <1>6, <1>7, <1>8 DEF FlNext

\* What a finished change says of itself is so.
LEMMA EndsAreTrue ==
  ASSUME FlInv, [FlNext]_flVars, NEW q \in Req, result[q] = "running"
  PROVE  /\ result'[q] = "applied" /\ ~base[q].old => \A d \in base[q].must : Blockers(lists, d) \cup Blockers(engine, d) = {}
         /\ result'[q] = "reverted" /\ q \notin spoilt' => Settings(lists') = snapshot[q]
<1>1. FTypeOK /\ Fits(q)
  BY DEF FlInv
<1>2. ASSUME result'[q] = "applied", ~base[q].old PROVE \A d \in base[q].must : Blockers(lists, d) \cup Blockers(engine, d) = {}
  <2>1. pcF[q] = "parity"
    BY <1>2, RowsMove DEF Ends, AskParity
  <2> QED
    BY <1>1, <1>2, <2>1 DEF Fits, Probed
<1>3. ASSUME result'[q] = "reverted", q \notin spoilt' PROVE Settings(lists') = snapshot[q]
  <2>1. RestoreEnd(q) \/ RecoverEnd(q)
    BY <1>3, RowsMove DEF Ends
  <2>2. pcF[q] \in {"restore", "recover"} /\ ops[q] = {} /\ lists' = lists
    BY <2>1 DEF RestoreEnd, RecoverEnd, adguard
  <2>3. Difference(lists, snapshot[q]) = {} /\ lists \in Lists /\ snapshot[q] \in [Url -> Config]
    BY <1>1, <2>2 DEF Fits, Restores, FTypeOK
  <2>4. Settings(lists) = snapshot[q]
    BY <2>3, NoDifference
  <2> QED
    BY <2>2, <2>4
<1> QED
  BY <1>2, <1>3

\* A change of a block list (_pipeline and recover() of filterlists.py) ends as "applied" only if no
\* domain that the house needs, and that resolved before, is blocked by AdGuard's lists or by its engine, but where
\* the engine was still the old one when the probe looked, after all the waiting of _settle; and as
\* "reverted", its restore having gone through, only if each list is as it was when the change began.
THEOREM FilterListsStaySafe == FlSpec => FilterListsSafe
<1>1. FlInv /\ [FlNext]_flVars =>
        [\A q \in Req : result[q] = "running" /\ result'[q] = "applied" /\ ~base[q].old =>
           \A d \in base[q].must : Blockers(lists, d) \cup Blockers(engine, d) = {}]_flVars
  BY EndsAreTrue
<1>2. FlInv /\ [FlNext]_flVars =>
        [\A q \in Req : result[q] = "running" /\ result'[q] = "reverted" /\ q \notin spoilt' =>
           Settings(lists') = snapshot[q]]_flVars
  BY EndsAreTrue
<1>3. FlInv => FTypeOK
  BY DEF FlInv
<1> QED
  BY <1>1, <1>2, <1>3, FlInvAtStart, FlInvStays, PTL DEF FlSpec, FilterListsSafe, AppliedIsSafe, RevertedIsRestored

-----------------------------------------------------------------------------
(* FilterLists implements FilterBook.                                      *)

LEMMA SettledIs ==
  /\ Changing = {} => Settled = Settings(lists)
  /\ \A q \in Req : Changing = {q} => Settled = snapshot[q]
  BY DEF Settled, Changing

LEMMA SettledNext ==
  /\ Changing' = {} => Settled' = Settings(lists')
  /\ \A q \in Req : Changing' = {q} => Settled' = snapshot'[q]
  BY DEF Settled, Changing

LEMMA SettledType == FTypeOK => Settled \in [Url -> Config]
<1> SUFFICES ASSUME FTypeOK PROVE Settled \in [Url -> Config]
  OBVIOUS
<1>1. CASE Changing = {}
  <2>1. Settings(lists) \in [Url -> Config]
    BY SettingsAre DEF FTypeOK
  <2> QED
    BY <1>1, <2>1, SettledIs
<1>2. CASE Changing # {}
  <2> DEFINE c == CHOOSE q \in Changing : TRUE
  <2>1. c \in Req /\ Settled = snapshot[c]
    BY <1>2 DEF Settled, Changing, Open
  <2> HIDE DEF c
  <2> QED
    BY <2>1 DEF FTypeOK
<1> QED
  BY <1>1, <1>2

LEMMA SettledNextType == FTypeOK' => Settled' \in [Url -> Config]
<1> SUFFICES ASSUME FTypeOK' PROVE Settled' \in [Url -> Config]
  OBVIOUS
<1>1. CASE Changing' = {}
  <2>1. Settings(lists') \in [Url -> Config]
    BY SettingsAre DEF FTypeOK
  <2> QED
    BY <1>1, <2>1, SettledNext
<1>2. CASE Changing' # {}
  <2> DEFINE c == CHOOSE q \in Changing' : TRUE
  <2>1. c \in Req /\ Settled' = snapshot'[c]
    BY <1>2 DEF Settled, Changing, Open
  <2> HIDE DEF c
  <2> QED
    BY <2>1 DEF FTypeOK
<1> QED
  BY <1>1, <1>2

LEMMA SpoiltGrows == FTypeOK /\ [FlNext]_flVars => spoilt \subseteq spoilt'
<1> SUFFICES ASSUME FTypeOK, [FlNext]_flVars PROVE spoilt \subseteq spoilt'
  OBVIOUS
<1>1. ASSUME NEW q \in Req, AskStep(q) \/ PipelineStep(q) \/ RecoverStep(q) PROVE spoilt \subseteq spoilt'
  <2>1. CASE AskStep(q)
    BY <2>1 DEF AskStep, AskAdd, AskSet, AskRemove, AskRefresh, AskRevert, Ask, HoldBegin
  <2>2. CASE PipelineStep(q)
    BY <2>2 DEF PipelineStep, HoldEnd, Refuse, ChangeBegins, Baseline, Apply, RestoreOp, Probe, AskReplica,
                AskParity, Undo, RestoreEnd
  <2>3. CASE RecoverStep(q)
    BY <2>3 DEF RecoverStep, Recover, RecoverOp, RecoverEnd
  <2> QED
    BY <1>1, <2>1, <2>2, <2>3
<1>2. CASE Crash \/ Serve \/ EngineLoads \/ SyncPass \/ CheckerPass \/ UNCHANGED flVars
  BY <1>2 DEF Crash, Serve, EngineLoads, SyncPass, CheckerPass, CheckerReads, CheckerSavesOld, CheckerSaves,
              CheckerStep, flVars
<1> QED
  BY <1>1, <1>2 DEF FlNext

\* The change in the pipeline, or the one being recovered while nothing is spoilt, is the only one.
LEMMA OnlyChange ==
  ASSUME FlInv, NEW q \in Req, pcF[q] \in Pipe \/ (pcF[q] = "recover" /\ spoilt = {})
  PROVE  Changing = {q}
<1>1. q \in Changing /\ Changing \subseteq Req
  BY PlacesOf DEF Changing, Open
<1>2. \A r \in Changing : r = q
  <2>1. CASE pcF[q] \in Pipe
    BY <1>1, <2>1, PlacesOf DEF FlInv, Fits, RowFits, OneAtATime
  <2>2. CASE spoilt = {}
    BY <1>1, <2>2 DEF FlInv, OneAtATime
  <2> QED
    BY <2>1, <2>2
<1> QED
  BY <1>1, <1>2

\* A change that is applied is one change of the book, of its own list.
LEMMA AppliedIsChange ==
  ASSUME FlInv, NEW q \in Req, AskParity(q), Close(q, "applied")
  PROVE  /\ Settled' = [Settled EXCEPT ![target[q]] = Setting(lists[target[q]])]
         /\ Setting(lists[target[q]]) \in Config /\ target[q] \in Url
         /\ Cardinality(Applied') = Cardinality(Applied) + 1 /\ spoilt' = spoilt
<1>1. FTypeOK /\ RowFits(q) /\ OneList(q)
  BY DEF FlInv, Fits
<1>2. pcF[q] = "parity" /\ pcF[q] \in Trying /\ pcF[q] \in Pipe /\ lists' = lists /\ spoilt' = spoilt
  BY DEF AskParity, Trying, Pipe, Applying, adguard
<1>3. Changing = {q} /\ Settled = snapshot[q] /\ result[q] = "running"
  BY <1>1, <1>2, OnlyChange, SettledIs DEF RowFits
<1>4. /\ result' = [result EXCEPT ![q] = "applied"] /\ pcF' = [pcF EXCEPT ![q] = "end"]
  BY DEF Close, Goto
<1>5. Settled' = Settings(lists)
  <2>1. \A r \in Req : r \in Changing' => r \in Changing /\ r # q
    BY <1>1, <1>4 DEF FTypeOK, Changing, Open
  <2>2. Changing' = {}
    BY <1>3, <2>1 DEF Changing, Open
  <2>3. Changing' = {} => Settled' = Settings(lists')
    BY SettledNext
  <2> QED
    BY <1>2, <2>2, <2>3
<1>6. Setting(lists[target[q]]) \in Config /\ target[q] \in Url
  BY <1>1, SettingIs DEF FTypeOK, Lists
<1>7. Settings(lists) = [snapshot[q] EXCEPT ![target[q]] = Setting(lists[target[q]])]
  <2>1. snapshot[q] \in [Url -> Config]
    BY <1>1 DEF FTypeOK
  <2>2. \A u \in Url \ {target[q]} : Setting(lists[u]) = snapshot[q][u]
    BY <1>1, <1>2 DEF OneList
  <2> QED
    BY <1>6, <2>1, <2>2 DEF Settings
<1>8. Cardinality(Applied') = Cardinality(Applied) + 1
  <2>1. Applied' = Applied \cup {q} /\ q \notin Applied
    BY <1>1, <1>3, <1>4 DEF FTypeOK, Applied
  <2>2. IsFiniteSet(Req)
    BY FS_Interval, FilterBounds DEF Req
  <2>3. IsFiniteSet(Applied)
    BY <2>2, FS_Subset DEF Applied
  <2> QED
    BY <2>1, <2>3, FS_AddElement
<1> QED
  BY <1>2, <1>3, <1>5, <1>6, <1>7, <1>8

\* Any other step leaves the applied changes alone.
LEMMA OthersApplyNothing ==
  ASSUME FlInv, [FlNext]_flVars, ~\E q \in Req : AskParity(q) /\ Close(q, "applied")
  PROVE  Applied' = Applied
<1>1. ASSUME NEW q \in Req PROVE result'[q] = "applied" <=> result[q] = "applied"
  <2>1. \/ result'[q] = result[q]
        \/ result[q] = "none" /\ result'[q] = "running"
        \/ result[q] = "running" /\ Ends(q)
    BY RowsMove
  <2>2. Ends(q) => result'[q] # "applied"
    BY DEF Ends
  <2> QED
    BY <2>1, <2>2
<1> QED
  BY <1>1 DEF Applied

\* A step that neither applies nor spoils a change leaves the book alone: a change begins with the lists as they
\* are, and ends with its restore gone through.
LEMMA OthersSettle ==
  ASSUME FlInv, FTypeOK', [FlNext]_flVars, ~\E q \in Req : AskParity(q) /\ Close(q, "applied"), spoilt' = {}
  PROVE  Settled' = Settled
<1>1. FTypeOK /\ spoilt = {} /\ \A q \in Req : RowFits(q)
  BY SpoiltGrows DEF FlInv, Fits
<1>2. \A r : /\ r \in Changing <=> r \in Req /\ result[r] = "running" /\ pcF[r] # "hold"
             /\ r \in Changing' <=> r \in Req /\ result'[r] = "running" /\ pcF'[r] # "hold"
  BY DEF Changing, Open
<1>3. ASSUME \A r \in Req : r \in Changing' <=> r \in Changing,
             \A r \in Changing : snapshot'[r] = snapshot[r], lists' = lists \/ Changing # {}
      PROVE  Settled' = Settled
  <2>1. Changing' = Changing
    BY <1>2, <1>3
  <2>2. CASE Changing = {}
    BY <1>3, <2>1, <2>2, SettledIs, SettledNext
  <2>3. CASE Changing # {}
    <3> DEFINE c == CHOOSE r \in Changing : TRUE
    <3>1. Settled = snapshot[c] /\ c \in Changing
      BY <2>3 DEF Settled, Changing
    <3>2. Settled' = snapshot'[c]
      BY <2>1, <2>3 DEF Settled, Changing
    <3> HIDE DEF c
    <3> QED
      BY <1>3, <3>1, <3>2
  <2> QED
    BY <2>2, <2>3
<1>4. ASSUME NEW q \in Req, AskStep(q) PROVE Settled' = Settled
  <2>1. pcF[q] = "new" /\ lists' = lists /\ snapshot' = snapshot
    BY <1>4 DEF AskStep, AskAdd, AskSet, AskRemove, AskRefresh, AskRevert, Ask, HoldBegin, Arrives, adguard
  <2>2. \/ result' = result /\ pcF' = [pcF EXCEPT ![q] = "asked"]
        \/ result' = [result EXCEPT ![q] = "running"] /\ pcF' = [pcF EXCEPT ![q] = "hold"]
    BY <1>4 DEF AskStep, AskAdd, AskSet, AskRemove, AskRefresh, AskRevert, Ask, HoldBegin, Goto
  <2>3. result[q] = "none"
    BY <1>1, <2>1 DEF RowFits
  <2>4. \A r \in Req : r \in Changing' <=> r \in Changing
    BY <1>1, <1>2, <2>1, <2>2, <2>3 DEF FTypeOK
  <2> QED
    BY <1>3, <2>1, <2>4
<1>5. ASSUME NEW q \in Req, HoldEnd(q) \/ Refuse(q) PROVE Settled' = Settled
  <2>1. /\ lists' = lists /\ snapshot' = snapshot /\ pcF' = [pcF EXCEPT ![q] = "end"]
        /\ \/ pcF[q] = "hold" /\ result' = [result EXCEPT ![q] = "held"]
           \/ pcF[q] = "asked" /\ result' = result
    BY <1>5 DEF HoldEnd, Refuse, Goto, adguard, rows
  <2>2. pcF[q] = "asked" => result[q] = "none"
    BY <1>1 DEF RowFits
  <2>3. q \notin Changing /\ q \notin Changing'
    BY <1>1, <1>2, <2>1, <2>2 DEF FTypeOK
  <2>4. \A r \in Req \ {q} : result'[r] = result[r] /\ pcF'[r] = pcF[r]
    BY <1>1, <2>1 DEF FTypeOK
  <2>5. \A r \in Req : r \in Changing' <=> r \in Changing
    BY <1>2, <2>3, <2>4
  <2> QED
    BY <1>3, <2>1, <2>5
<1>6. ASSUME NEW q \in Req, ChangeBegins(q) PROVE Settled' = Settled
  <2>1. /\ up /\ ~busy /\ lists' = lists /\ snapshot' = [snapshot EXCEPT ![q] = Settings(lists)]
        /\ result' = [result EXCEPT ![q] = "running"] /\ pcF' = [pcF EXCEPT ![q] = "baseline"]
    BY <1>6 DEF ChangeBegins, Goto, adguard
  <2>2. Changing = {}
    BY <1>1, <1>2, <2>1, PlacesOf DEF RowFits
  <2>3. \A r : r \in Changing' <=> r = q
    BY <1>1, <1>2, <2>1, <2>2 DEF FTypeOK
  <2>4. Changing' = {q}
    BY <2>3
  <2>5. snapshot'[q] = Settings(lists)
    BY <1>1, <2>1 DEF FTypeOK
  <2> QED
    BY <2>2, <2>4, <2>5, SettledIs, SettledNext
\* A step of the change that is under way.
<1>7. ASSUME NEW q \in Req, pcF[q] \in Pipe \cup {"recover"}, NEW p, p # "hold", pcF' = [pcF EXCEPT ![q] = p],
             result' = result, snapshot' = snapshot
      PROVE  Settled' = Settled
  <2>1. q \in Changing
    BY <1>7, PlacesOf
  <2>2. pcF[q] # "hold"
    BY <1>7 DEF Pipe, Trying, Applying
  <2>3. \A r \in Req : r \in Changing' <=> r \in Changing
    BY <1>1, <1>2, <1>7, <2>2 DEF FTypeOK
  <2> QED
    BY <1>3, <1>7, <2>1, <2>3
<1>8. ASSUME NEW q \in Req, RestoreEnd(q) \/ RecoverEnd(q) PROVE Settled' = Settled
  <2>1. pcF[q] \in Pipe \cup {"recover"} /\ Close(q, "reverted")
    BY <1>8 DEF RestoreEnd, RecoverEnd, Pipe
  <2>2. Changing = {q} /\ Settled = snapshot[q]
    BY <1>1, <2>1, OnlyChange, SettledIs
  <2>3. result' = [result EXCEPT ![q] = "reverted"] /\ result[q] = "running"
    BY <1>2, <2>1, <2>2 DEF Close
  <2>4. result'[q] = "reverted"
    BY <1>1, <2>3 DEF FTypeOK
  <2>5. Settings(lists') = snapshot[q]
    BY <1>1, <2>3, <2>4, EndsAreTrue
  <2>6. pcF' = [pcF EXCEPT ![q] = "end"]
    BY <2>1 DEF Close, Goto
  <2>7. \A r : r \notin Changing'
    BY <1>1, <1>2, <2>2, <2>3, <2>4, <2>6 DEF FTypeOK
  <2>8. Changing' = {}
    BY <2>7
  <2> QED
    BY <2>2, <2>5, <2>8, SettledNext
<1>9. ASSUME NEW q \in Req, PipelineStep(q) PROVE Settled' = Settled
  <2>1. CASE Baseline(q) \/ (\E o \in Op : Apply(q, o)) \/ Probe(q) \/ AskReplica(q)
    <3>1. /\ pcF[q] \in Pipe /\ result' = result /\ snapshot' = snapshot
          /\ \E p \in Pipe : pcF' = [pcF EXCEPT ![q] = p]
      BY <2>1 DEF Baseline, Apply, Probe, AskReplica, Goto, rows, Pipe, Trying, Applying
    <3>2. PICK p \in Pipe : pcF' = [pcF EXCEPT ![q] = p]
      BY <3>1
    <3>3. p # "hold"
      BY DEF Pipe, Trying, Applying
    <3> QED
      BY <1>7, <3>1, <3>2, <3>3
  <2>2. CASE AskParity(q) \/ Undo(q) \/ \E o \in Op : RestoreOp(q, o)
    <3>1. q \notin spoilt'
      OBVIOUS
    <3>2. /\ pcF[q] \in Pipe /\ result' = result /\ snapshot' = snapshot
          /\ \E p \in {"undo", "restore", pcF[q]} : pcF' = [pcF EXCEPT ![q] = p]
      <4>1. CASE AskParity(q)
        BY <4>1 DEF AskParity, Goto, rows, Pipe, Trying, Applying
      <4>2. CASE Undo(q)
        BY <3>1, <4>2 DEF Undo, Goto, rows, Pipe
      <4>3. CASE \E o \in Op : RestoreOp(q, o)
        BY <1>1, <3>1, <4>3 DEF RestoreOp, rows, Pipe, FTypeOK
      <4> QED
        BY <2>2, <4>1, <4>2, <4>3
    <3>3. PICK p \in {"undo", "restore", pcF[q]} : pcF' = [pcF EXCEPT ![q] = p]
      BY <3>2
    <3>4. p # "hold"
      BY <3>2 DEF Pipe, Trying, Applying
    <3> QED
      BY <1>7, <3>2, <3>3, <3>4
  <2> QED
    BY <1>5, <1>6, <1>8, <1>9, <2>1, <2>2 DEF PipelineStep
<1>10. ASSUME NEW q \in Req, RecoverStep(q) PROVE Settled' = Settled
  <2>1. CASE Recover(q)
    <3>1. ~up /\ result[q] = "running" /\ result' = result /\ snapshot' = snapshot /\ lists' = lists
          /\ pcF' = [pcF EXCEPT ![q] = "recover"]
      BY <2>1 DEF Recover, Goto, rows, adguard
    <3>2. pcF[q] # "hold"
      BY <1>1, <3>1 DEF RowFits
    <3>3. \A r \in Req : r \in Changing' <=> r \in Changing
      BY <1>1, <1>2, <3>1, <3>2 DEF FTypeOK
    <3> QED
      BY <1>3, <3>1, <3>3
  <2>2. CASE \E o \in Op : RecoverOp(q, o)
    <3>1. q \notin spoilt'
      OBVIOUS
    <3>2. pcF[q] = "recover" /\ result' = result /\ snapshot' = snapshot /\ pcF' = [pcF EXCEPT ![q] = "recover"]
      BY <1>1, <2>2, <3>1 DEF RecoverOp, rows, FTypeOK
    <3> QED
      BY <1>7, <3>2
  <2> QED
    BY <1>8, <1>10, <2>1, <2>2 DEF RecoverStep
<1>11. CASE Crash
  <2>1. /\ lists' = lists /\ result' = result /\ snapshot' = snapshot
        /\ \A q \in Req : pcF[q] # "hold" /\ pcF'[q] # "hold"
    BY <1>11 DEF Crash, adguard, rows
  <2> QED
    BY <1>2, <1>3, <2>1
<1>12. CASE Serve \/ EngineLoads \/ SyncPass \/ CheckerPass \/ UNCHANGED flVars
  <2>1. lists' = lists /\ result' = result /\ snapshot' = snapshot /\ pcF' = pcF
    BY <1>12 DEF Serve, EngineLoads, SyncPass, CheckerPass, CheckerReads, CheckerSavesOld, CheckerSaves,
                 CheckerStep, adguard, flVars, rows
  <2> QED
    BY <1>2, <1>3, <2>1
<1> QED
  BY <1>4, <1>9, <1>10, <1>11, <1>12 DEF FlNext

LEMMA BookInit == FlInit => Book!Init
<1> SUFFICES ASSUME FlInit PROVE Book!Init
  OBVIOUS
<1>1. Settled \in [Url -> Config]
  BY FTypesAtStart, SettledType
<1>2. {q \in Req : result[q] = "applied"} = {}
  BY DEF FlInit
<1>3. Cardinality({q \in Req : result[q] = "applied"}) = 0
  BY <1>2, FS_EmptySet
<1>4. (spoilt # {}) = FALSE
  BY DEF FlInit
<1> QED
  BY <1>1, <1>3, <1>4 DEF Book!Init

BookVars == <<Settled, Cardinality({q \in Req : result[q] = "applied"}), spoilt # {}>>

LEMMA BookStep == FlInv /\ FlInv' /\ [FlNext]_flVars => [Book!Next]_BookVars
<1> SUFFICES ASSUME FlInv, FlInv', [FlNext]_flVars PROVE [Book!Next]_BookVars
  OBVIOUS
<1>1. FTypeOK /\ FTypeOK'
  BY DEF FlInv
<1> DEFINE a == Cardinality({q \in Req : result[q] = "applied"})
           aNext == Cardinality({q \in Req : result'[q] = "applied"})
<1>2. a = Cardinality(Applied) /\ aNext = Cardinality(Applied')
  BY DEF Applied
<1>3. CASE \E q \in Req : AskParity(q) /\ Close(q, "applied")
  <2>1. PICK q \in Req : AskParity(q) /\ Close(q, "applied")
    BY <1>3
  <2> DEFINE c == Setting(lists[target[q]])
  <2>2. /\ Settled' = [Settled EXCEPT ![target[q]] = c] /\ c \in Config /\ target[q] \in Url
        /\ aNext = a + 1 /\ spoilt' = spoilt
    BY <1>2, <2>1, AppliedIsChange
  <2>3. (spoilt' # {}) = (spoilt # {})
    BY <2>2
  <2> HIDE DEF c
  <2>4. \E u \in Url : Book!Change(u)
    BY <2>2, <2>3 DEF Book!Change
  <2> QED
    BY <2>4 DEF Book!Next
<1>4. CASE ~\E q \in Req : AskParity(q) /\ Close(q, "applied")
  <2>1. aNext = a
    BY <1>2, <1>4, OthersApplyNothing
  <2>2. CASE spoilt' # {}
    <3>1. Settled' \in [Url -> Config]
      BY <1>1, SettledNextType
    <3>2. (spoilt' # {}) = TRUE
      BY <2>2
    <3>3. Book!Spoil
      BY <2>1, <3>1, <3>2 DEF Book!Spoil
    <3> QED
      BY <3>3 DEF Book!Next
  <2>3. CASE spoilt' = {}
    <3>1. Settled' = Settled
      BY <1>1, <1>4, <2>3, OthersSettle
    <3>2. (spoilt' # {}) = (spoilt # {})
      BY <1>1, <2>3, SpoiltGrows
    <3> QED
      BY <2>1, <3>1, <3>2 DEF BookVars
  <2> QED
    BY <2>2, <2>3
<1> QED
  BY <1>3, <1>4

\* The pipeline of filterlists.py implements FilterBook: a change is applied as a whole to its one list, or leaves
\* no trace, through failing calls, crashes and recovery, as long as every restore can be made.
THEOREM ChangesAreAllOrNothing == FlSpec => AllOrNothing
<1>1. FlInv /\ FlInv' /\ [FlNext]_flVars
        => [Book!Next]_<<Settled, Cardinality({q \in Req : result[q] = "applied"}), spoilt # {}>>
  BY BookStep DEF BookVars
<1> QED
  BY <1>1, BookInit, FlInvAtStart, FlInvStays, PTL DEF FlSpec, AllOrNothing, Book!Spec
=============================================================================
