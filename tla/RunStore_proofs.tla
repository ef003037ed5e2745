--------------------------- MODULE RunStore_proofs --------------------------
(***************************************************************************)
(* Proofs about the timed runs of the schedule service, for any plugs,     *)
(* runs, guardrails and bounds.                                            *)
(***************************************************************************)
EXTENDS RunStore, FiniteSetTheorems, TLAPS

-----------------------------------------------------------------------------
(* Lemmas on the operators.                                                *)

\* ceil_minute returns a time, at or after the one given.
LEMMA CeilMinuteType ==
  ASSUME NEW t \in Nat
  PROVE  CeilMinute(t) \in Nat /\ CeilMinute(t) >= t
  BY TimesAssumption DEF CeilMinute

LEMMA MinutesLater ==
  ASSUME NEW t \in Nat, NEW m \in Minutes
  PROVE  t + m * Minute \in Nat /\ t + m * Minute >= t
<1>1. m \in Nat /\ Minute \in Nat
  BY TimesAssumption
<1>2. m * Minute \in Nat
  BY <1>1
<1> QED
  BY <1>2

\* The part of the types that rendering reads.
RowTypes ==
  /\ status \in [RunId -> Status] /\ entity \in [RunId -> Plug]
  /\ endsAt \in [RunId -> Nat]
  /\ windows \in [Plug -> SUBSET Window] /\ managed \in [Plug -> BOOLEAN]

LEMMA RenderedType == RowTypes => Rendered \in RenderedSet
<1> SUFFICES ASSUME RowTypes, NEW p \in Plug PROVE Render(p) \in Content
  BY DEF Rendered, RenderedSet
<1>1. Absent \in Content
  BY DEF Absent, Content
<1>2. {<<x, endsAt[x]>> : x \in ActiveOn(p)} \in SUBSET (RunId \X Nat)
  BY DEF ActiveOn, RowTypes
<1>3. windows[p] \in SUBSET Window
  BY DEF RowTypes
<1> QED
  BY <1>1, <1>2, <1>3 DEF Render, Content

LEMMA OutTypes ==
  ASSUME TypeOK, RowTypes', seq' \in Nat, PublishWhole \/ PublishTorn
  PROVE  /\ out' \in [seq : Nat, set : RenderedSet, whole : BOOLEAN]
         /\ published' \subseteq Nat \X RenderedSet
<1>1. Rendered' \in RenderedSet
  <2>1. RowTypes' => (Rendered \in RenderedSet)'
    BY RenderedType, PTL
  <2> QED
    BY <2>1
<1>2. CASE PublishWhole
  <2>1. out' \in [seq : Nat, set : RenderedSet, whole : BOOLEAN]
    BY <1>1, <1>2 DEF PublishWhole
  <2>2. <<seq', Rendered'>> \in Nat \X RenderedSet
    BY <1>1
  <2> QED
    BY <1>2, <2>1, <2>2 DEF PublishWhole, TypeOK
<1>3. CASE PublishTorn
  <2>1. [out EXCEPT !.whole = FALSE] \in [seq : Nat, set : RenderedSet, whole : BOOLEAN]
    BY DEF TypeOK
  <2> QED
    BY <1>3, <2>1 DEF PublishTorn, TypeOK
<1> QED
  BY <1>2, <1>3

\* Whatever a publication does, out/ and the flags keep their types.
LEMMA PublishTypes ==
  ASSUME TypeOK, RowTypes', seq' \in Nat, PublishOutcome
  PROVE  /\ out' \in [seq : Nat, set : RenderedSet, whole : BOOLEAN]
         /\ published' \subseteq Nat \X RenderedSet
         /\ svc' \in BOOLEAN /\ pubError' \in BOOLEAN /\ mirrorFailed' \in BOOLEAN
         /\ faults' \in Nat
<1>1. PublishWhole \/ PublishTorn \/ UNCHANGED <<out, published>>
  BY DEF PublishOutcome, Publication
<1>2. svc' \in BOOLEAN /\ pubError' \in BOOLEAN /\ mirrorFailed' \in BOOLEAN
  BY Zenon DEF PublishOutcome, Publication, TypeOK
<1>3. faults' \in Nat
  BY DEF PublishOutcome, Publication, TypeOK
<1> QED
  BY <1>1, <1>2, <1>3, OutTypes DEF TypeOK

-----------------------------------------------------------------------------
(* Types.                                                                  *)

LEMMA StoreTypeInit == StoreInit => TypeOK
<1> SUFFICES ASSUME StoreInit PROVE TypeOK
  OBVIOUS
<1>1. RowTypes
  BY DEF StoreInit, RowTypes, Status
<1>2. Rendered \in RenderedSet
  BY <1>1, RenderedType
<1>3. out \in [seq : Nat, set : RenderedSet, whole : BOOLEAN]
  BY <1>2 DEF StoreInit
<1>4. published \subseteq Nat \X RenderedSet
  BY <1>2 DEF StoreInit
<1> QED
  BY <1>1, <1>3, <1>4 DEF StoreInit, TypeOK, RowTypes

\* The rows after an operation; what the publication adds is in PublishTypes.
LEMMA RowsTyped ==
  ASSUME TypeOK, seq' \in Nat, now' \in Nat,
         status' \in [RunId -> Status], entity' \in [RunId -> Plug],
         startedAt' \in [RunId -> Nat], endsAt' \in [RunId -> Nat],
         endedAt' \in [RunId -> Nat], revSeq' \in [RunId -> Nat],
         windows' \in [Plug -> SUBSET Window], managed' \in [Plug -> BOOLEAN],
         PublishOutcome
  PROVE  TypeOK'
<1>1. RowTypes'
  BY DEF RowTypes
<1> QED
  BY <1>1, PublishTypes DEF TypeOK

LEMMA AddRunTypes ==
  ASSUME TypeOK, NEW p \in Plug, NEW r \in RunId, NEW end \in Nat, AddRun(p, r, end)
  PROVE  TypeOK'
<1> USE DEF TypeOK, Status
<1> DEFINE seqBefore == IF Over(p) = {} THEN seq ELSE seq + 1
<1>1. seqBefore \in Nat
  OBVIOUS
<1>2. seq' = seqBefore + 1 /\ UNCHANGED <<now, windows, managed>> /\ PublishOutcome
  BY DEF AddRun
<1>3. status' \in [RunId -> Status]
  BY DEF AddRun
<1>4. endedAt' \in [RunId -> Nat]
  BY DEF AddRun
<1>5. revSeq' \in [RunId -> Nat]
  <2>1. revSeq' = [x \in RunId |-> IF x = r THEN seqBefore + 1
                                  ELSE IF x \in Over(p) THEN seq + 1 ELSE revSeq[x]]
    BY DEF AddRun
  <2> HIDE DEF seqBefore
  <2> QED
    BY <1>1, <2>1
<1>6. entity' \in [RunId -> Plug] /\ startedAt' \in [RunId -> Nat] /\ endsAt' \in [RunId -> Nat]
  BY DEF AddRun
<1> HIDE DEF TypeOK, Status
<1>7. seq' \in Nat
  BY <1>1, <1>2
<1>8. now' \in Nat /\ windows' \in [Plug -> SUBSET Window] /\ managed' \in [Plug -> BOOLEAN]
  BY <1>2 DEF TypeOK
<1> QED
  BY <1>2, <1>3, <1>4, <1>5, <1>6, <1>7, <1>8, RowsTyped

\* The swept runs are finitely many, so the sequence number stays one.
LEMMA LateCounted == TypeOK => Cardinality(Late) \in Nat
<1>1. IsFiniteSet(Late)
  BY PlugsAssumption, FS_Subset DEF Late
<1> QED
  BY <1>1, FS_CardinalityType

LEMMA StoreTypeStep == TypeOK /\ [StoreStep]_storeVars => TypeOK'
<1> USE TimesAssumption
<1>1. ASSUME TypeOK, NEW p \in Plug, NEW r \in RunId, NEW m \in Minutes, StartRun(p, r, m)
      PROVE  TypeOK'
  <2>1. now + m * Minute \in Nat
    BY <1>1, MinutesLater DEF TypeOK
  <2> QED
    BY <1>1, <2>1, CeilMinuteType, AddRunTypes DEF StartRun
<1>2. ASSUME TypeOK, NEW r \in RunId, NEW m \in Minutes, ExtendRun(r, m) PROVE TypeOK'
  <2>1. CeilMinute(endsAt[r] + m * Minute) \in Nat
    BY <1>2, MinutesLater, CeilMinuteType DEF TypeOK
  <2> QED
    BY <1>2, <2>1, RowsTyped DEF ExtendRun, MoveEnd, TypeOK
<1>3. ASSUME TypeOK, NEW r \in RunId, NEW how \in {"cancelled", "withdrawn"}, CancelRun(r, how)
      PROVE  TypeOK'
  <2>1. status' \in [RunId -> Status] /\ endedAt' \in [RunId -> Nat]
    BY <1>3 DEF CancelRun, CloseRun, TypeOK, Status
  <2> QED
    BY <1>3, <2>1, RowsTyped DEF CancelRun, CloseRun, TypeOK
<1>4. ASSUME TypeOK, ExpireRuns PROVE TypeOK'
  <2>1. seq' \in Nat
    BY <1>4, LateCounted DEF ExpireRuns, EndRuns, TypeOK
  <2>2. status' \in [RunId -> Status] /\ endedAt' \in [RunId -> Nat] /\ revSeq' \in [RunId -> Nat]
    BY <1>4, <2>1 DEF ExpireRuns, EndRuns, TypeOK, Status
  <2> QED
    BY <1>4, <2>1, <2>2, RowsTyped DEF ExpireRuns, EndRuns, TypeOK
<1>5. ASSUME TypeOK, NEW p \in Plug, NEW ws \in SUBSET Window, PutSchedule(p, ws) PROVE TypeOK'
  BY <1>5, RowsTyped DEF PutSchedule, rows, TypeOK
<1>6. ASSUME TypeOK, NEW p \in Plug, NEW on \in BOOLEAN, SetManaged(p, on) PROVE TypeOK'
  BY <1>6, RowsTyped DEF SetManaged, rows, TypeOK
<1>7. ASSUME TypeOK, Republish PROVE TypeOK'
  BY <1>7, RowsTyped DEF Republish, PublishOutcome, rows, TypeOK
<1>8. ASSUME TypeOK, Restart PROVE TypeOK'
  <2>1. RowTypes'
    BY <1>8 DEF Restart, rows, RowTypes, TypeOK
  <2>2. PublishWhole \/ PublishTorn
    BY <1>8 DEF Restart
  <2>3. faults' \in Nat /\ seq' \in Nat
    BY <1>8 DEF Restart, TypeOK
  <2>4. svc' \in BOOLEAN /\ pubError' \in BOOLEAN /\ mirrorFailed' \in BOOLEAN
    BY <1>8, Zenon DEF Restart, TypeOK
  <2> QED
    BY <1>8, <2>1, <2>2, <2>3, <2>4, OutTypes DEF Restart, rows, TypeOK
<1>9. ASSUME TypeOK, Tick PROVE TypeOK'
  BY <1>9 DEF Tick, rows, pubVars, TypeOK
<1>10. ASSUME TypeOK, RecordApply PROVE TypeOK'
  BY <1>10 DEF RecordApply, rows, pubVars, TypeOK
<1>11. ASSUME TypeOK, Crash PROVE TypeOK'
  <2>1. svc' \in BOOLEAN /\ pubError' \in BOOLEAN /\ mirrorFailed' \in BOOLEAN
    BY <1>11, Zenon DEF Crash
  <2>2. faults' \in Nat
    BY <1>11 DEF Crash, TypeOK
  <2> QED
    BY <1>11, <2>1, <2>2 DEF Crash, rows, TypeOK
<1>12. ASSUME TypeOK, Background \/ UNCHANGED storeVars PROVE TypeOK'
  BY <1>12 DEF Background, storeVars, rows, pubVars, TypeOK
<1> QED
  BY <1>1, <1>2, <1>3, <1>4, <1>5, <1>6, <1>7, <1>8, <1>9, <1>10, <1>11, <1>12 DEF StoreStep

\* The rows, the audit sequence and out/ keep their types.
THEOREM StoreTypeCorrect == StoreSpec => []TypeOK
  BY StoreTypeInit, StoreTypeStep, PTL DEF StoreSpec

-----------------------------------------------------------------------------
(* One active run a plug.                                                  *)

LEMMA OneActiveStep == TypeOK /\ OneActive /\ [StoreStep]_storeVars => OneActive'
<1> USE DEF TypeOK, OneActive
<1>1. ASSUME TypeOK, OneActive, NEW p \in Plug, NEW r \in RunId, NEW m \in Minutes, StartRun(p, r, m)
      PROVE  OneActive'
  <2>1. ActiveOn(p) = Over(p)
    BY <1>1 DEF StartRun
  <2>2. \A x \in RunId : entity'[x] = IF x = r THEN p ELSE entity[x]
    BY <1>1 DEF StartRun, AddRun
  <2>3. \A x \in RunId : status'[x] = "active" /\ x # r
                           => status[x] = "active" /\ x \notin Over(p)
    BY <1>1 DEF StartRun, AddRun
  <2>4. \A x \in RunId : status'[x] = "active" /\ entity'[x] = p => x = r
    BY <2>1, <2>2, <2>3 DEF ActiveOn
  <2> QED
    BY <1>1, <2>2, <2>3, <2>4
<1>2. ASSUME TypeOK, OneActive, UNCHANGED entity,
             \A x \in RunId : status'[x] = "active" => status[x] = "active"
      PROVE  OneActive'
  BY <1>2
<1>3. ASSUME TypeOK, NEW r \in RunId, NEW m \in Minutes, ExtendRun(r, m)
      PROVE  UNCHANGED <<status, entity>>
  BY <1>3 DEF ExtendRun, MoveEnd
<1>4. ASSUME TypeOK, NEW r \in RunId, NEW how \in {"cancelled", "withdrawn"}, CancelRun(r, how)
      PROVE  /\ UNCHANGED entity
             /\ \A x \in RunId : status'[x] = "active" => status[x] = "active"
  BY <1>4 DEF CancelRun, CloseRun
<1>5. ASSUME TypeOK, ExpireRuns
      PROVE  /\ UNCHANGED entity
             /\ \A x \in RunId : status'[x] = "active" => status[x] = "active"
  BY <1>5 DEF ExpireRuns, EndRuns
<1>6. ASSUME NEW p \in Plug, NEW ws \in SUBSET Window, PutSchedule(p, ws)
      PROVE  UNCHANGED <<status, entity>>
  BY <1>6 DEF PutSchedule, rows
<1>7. ASSUME NEW p \in Plug, NEW on \in BOOLEAN, SetManaged(p, on)
      PROVE  UNCHANGED <<status, entity>>
  BY <1>7 DEF SetManaged, rows
<1>8. ASSUME RecordApply \/ Republish \/ Background \/ Crash \/ Restart \/ Tick \/ UNCHANGED storeVars
      PROVE  UNCHANGED <<status, entity>>
  BY <1>8 DEF RecordApply, Republish, Background, Crash, Restart, Tick, storeVars, rows
<1> HIDE DEF TypeOK, OneActive
<1>9. ASSUME TypeOK, OneActive, UNCHANGED <<status, entity>> PROVE OneActive'
  BY <1>9, <1>2
<1>10. ASSUME TypeOK, OneActive, ExpireRuns PROVE OneActive'
  BY <1>10, <1>5, <1>2
<1>11. ASSUME TypeOK, OneActive, NEW r \in RunId, NEW how \in {"cancelled", "withdrawn"},
              CancelRun(r, how)
       PROVE  OneActive'
  BY <1>11, <1>4, <1>2
<1>12. ASSUME TypeOK, OneActive, NEW r \in RunId, NEW m \in Minutes, ExtendRun(r, m)
       PROVE  OneActive'
  BY <1>12, <1>3, <1>9
<1> QED
  BY <1>1, <1>6, <1>7, <1>8, <1>9, <1>10, <1>11, <1>12 DEF StoreStep

\* Whatever is started, extended, cancelled, expired, published or lost, a plug has
\* at most one active run.
THEOREM AtMostOneActive == StoreSpec => []OneActive
<1>1. StoreInit => OneActive
  BY DEF StoreInit, OneActive
<1> QED
  BY <1>1, OneActiveStep, StoreTypeCorrect, PTL DEF StoreSpec

-----------------------------------------------------------------------------
(* rev_seq.                                                                *)

NotAhead == /\ \A r \in RunId : status[r] = "active" => revSeq[r] <= seq
            /\ \A pub \in published : pub[1] <= seq

\* The inductive invariant of RevCovered: what is published now holds exactly the
\* end of the one active run, and nothing published carries a later number.
RevInv == OneActive /\ NotAhead /\ RevCovered

RendersOwn ==
  \A r \in RunId : status[r] = "active" /\ Rendered[entity[r]].rendered
                     => Rendered[entity[r]].ends = {<<r, endsAt[r]>>}

LEMMA RenderedOwn == TypeOK /\ OneActive => RendersOwn
<1> SUFFICES ASSUME TypeOK, OneActive, NEW r \in RunId, status[r] = "active",
                    Rendered[entity[r]].rendered
             PROVE  Rendered[entity[r]].ends = {<<r, endsAt[r]>>}
  BY DEF RendersOwn
<1>1. entity[r] \in Plug /\ managed[entity[r]]
  BY DEF TypeOK, Rendered, Render, Absent
<1>2. ActiveOn(entity[r]) = {r}
  BY DEF ActiveOn, OneActive
<1>3. Render(entity[r]).ends = {<<x, endsAt[x]>> : x \in ActiveOn(entity[r])}
  BY <1>1 DEF Render
<1> QED
  BY <1>1, <1>2, <1>3 DEF Rendered

\* What a step leaves of a run that is active after it: either its change has a
\* number of its own, or nothing of it moved.
Kept(r) == /\ status[r] = "active" /\ endsAt'[r] = endsAt[r]
           /\ entity'[r] = entity[r] /\ revSeq'[r] = revSeq[r]
Renumbered == \A r \in RunId : status'[r] = "active" =>
                 Kept(r) \/ (revSeq'[r] > seq /\ revSeq'[r] <= seq')
Appended == published' \subseteq published \cup {<<seq', Rendered'>>}

LEMMA PublishAppends == PublishOutcome => Appended
  BY DEF PublishOutcome, Publication, PublishWhole, PublishTorn, Appended

LEMMA RevFromParts ==
  ASSUME TypeOK, TypeOK', RevInv, OneActive', seq' >= seq, Renumbered, Appended
  PROVE  RevInv'
<1>1. NotAhead'
  <2>1. \A pub \in published : pub[1] \in Nat
    BY DEF TypeOK
  <2>2. \A pub \in published' : pub[1] <= seq'
    <3> TAKE pub \in published'
    <3>1. CASE pub \in published
      BY <3>1, <2>1 DEF RevInv, NotAhead, TypeOK
    <3>2. CASE pub = <<seq', Rendered'>>
      BY <3>2 DEF TypeOK
    <3> QED
      BY <3>1, <3>2 DEF Appended
  <2>3. \A r \in RunId : status'[r] = "active" => revSeq'[r] <= seq'
    BY DEF Renumbered, Kept, RevInv, NotAhead, TypeOK
  <2> QED
    BY <2>2, <2>3 DEF NotAhead
<1>2. RevCovered'
  <2> SUFFICES ASSUME NEW r \in RunId, NEW pub \in published', status'[r] = "active",
                      pub[1] >= revSeq'[r], pub[2][entity'[r]].rendered
               PROVE  pub[2][entity'[r]].ends = {<<r, endsAt'[r]>>}
    BY DEF RevCovered
  <2>1. CASE pub = <<seq', Rendered'>>
    <3>1. TypeOK' /\ OneActive' => RendersOwn'
      BY RenderedOwn, PTL
    <3>2. Rendered'[entity'[r]].ends = {<<r, endsAt'[r]>>}
      BY <2>1, <3>1 DEF RendersOwn
    <3> QED
      BY <2>1, <3>2
  <2>2. CASE pub \in published
    <3>1. pub[1] \in Nat /\ pub[1] <= seq
      BY <2>2 DEF TypeOK, RevInv, NotAhead
    <3>2. Kept(r)
      BY <3>1 DEF Renumbered, TypeOK
    <3> QED
      BY <2>2, <3>2 DEF Kept, RevInv, RevCovered
  <2> QED
    BY <2>1, <2>2 DEF Appended
<1> QED
  BY <1>1, <1>2 DEF RevInv

LEMMA RevStep ==
  ASSUME TypeOK, TypeOK', RevInv, OneActive', [StoreStep]_storeVars
  PROVE  RevInv'
<1>1. ASSUME NEW p \in Plug, NEW r \in RunId, NEW m \in Minutes, StartRun(p, r, m)
      PROVE  seq' >= seq /\ Renumbered /\ Appended
  <2>1. \A x \in RunId : status'[x] = "active" /\ x # r
                           => status[x] = "active" /\ x \notin Over(p)
    BY <1>1 DEF StartRun, AddRun
  <2>2. seq' > seq
    BY <1>1 DEF StartRun, AddRun, TypeOK
  <2>3. revSeq'[r] = seq' /\ \A x \in RunId \ (Over(p) \cup {r}) : revSeq'[x] = revSeq[x]
    BY <1>1 DEF StartRun, AddRun
  <2>4. \A x \in RunId \ {r} : entity'[x] = entity[x] /\ endsAt'[x] = endsAt[x]
    BY <1>1 DEF StartRun, AddRun, TypeOK
  <2>5. Renumbered
    BY <2>1, <2>2, <2>3, <2>4 DEF Renumbered, Kept, TypeOK
  <2> QED
    BY <1>1, <2>2, <2>5, PublishAppends DEF StartRun, AddRun, TypeOK
<1>2. ASSUME NEW r \in RunId, NEW m \in Minutes, ExtendRun(r, m)
      PROVE  seq' >= seq /\ Renumbered /\ Appended
  <2>1. Renumbered
    BY <1>2 DEF ExtendRun, MoveEnd, Renumbered, Kept, TypeOK
  <2> QED
    BY <1>2, <2>1, PublishAppends DEF ExtendRun, MoveEnd, TypeOK
<1>3. ASSUME NEW r \in RunId, NEW how \in {"cancelled", "withdrawn"}, CancelRun(r, how)
      PROVE  seq' >= seq /\ Renumbered /\ Appended
  <2>1. \A x \in RunId : status'[x] = "active" => x # r /\ status[x] = "active"
    BY <1>3 DEF CancelRun, CloseRun, TypeOK
  <2>2. Renumbered
    BY <1>3, <2>1 DEF CancelRun, CloseRun, Renumbered, Kept, TypeOK
  <2> QED
    BY <1>3, <2>2, PublishAppends DEF CancelRun, CloseRun, TypeOK
<1>4. ASSUME ExpireRuns
      PROVE  seq' >= seq /\ Renumbered /\ Appended
  <2>1. \A x \in RunId : status'[x] = "active" => x \notin Late /\ status[x] = "active"
    BY <1>4 DEF ExpireRuns, EndRuns
  <2>2. Renumbered
    BY <1>4, <2>1 DEF ExpireRuns, EndRuns, Renumbered, Kept
  <2>3. seq' >= seq
    BY <1>4, LateCounted DEF ExpireRuns, EndRuns, TypeOK
  <2> QED
    BY <1>4, <2>2, <2>3, PublishAppends DEF ExpireRuns
<1>5. ASSUME UNCHANGED rows, seq' >= seq, PublishOutcome
      PROVE  seq' >= seq /\ Renumbered /\ Appended
  BY <1>5, PublishAppends DEF rows, Renumbered, Kept
<1>6. ASSUME NEW p \in Plug, NEW ws \in SUBSET Window, PutSchedule(p, ws)
      PROVE  seq' >= seq /\ Renumbered /\ Appended
  BY <1>5, <1>6 DEF PutSchedule, TypeOK
<1>7. ASSUME NEW p \in Plug, NEW on \in BOOLEAN, SetManaged(p, on)
      PROVE  seq' >= seq /\ Renumbered /\ Appended
  BY <1>5, <1>7 DEF SetManaged, TypeOK
<1>8. ASSUME Republish
      PROVE  seq' >= seq /\ Renumbered /\ Appended
  BY <1>5, <1>8 DEF Republish, PublishOutcome, TypeOK
<1>9. ASSUME Restart
      PROVE  seq' >= seq /\ Renumbered /\ Appended
  <2>1. UNCHANGED <<rows, seq>>
    BY <1>9 DEF Restart
  <2>2. Appended
    BY <1>9 DEF Restart, PublishWhole, PublishTorn, Appended
  <2> QED
    BY <2>1, <2>2 DEF rows, Renumbered, Kept, TypeOK
<1>10. ASSUME RecordApply \/ Background \/ Crash \/ Tick \/ UNCHANGED storeVars
       PROVE  seq' >= seq /\ Renumbered /\ Appended
  <2>1. UNCHANGED <<rows, published>> /\ seq' >= seq
    BY <1>10 DEF RecordApply, Background, Crash, Tick, storeVars, pubVars, TypeOK
  <2> QED
    BY <2>1 DEF rows, Renumbered, Kept, Appended
<1>11. seq' >= seq /\ Renumbered /\ Appended
  BY <1>1, <1>2, <1>3, <1>4, <1>6, <1>7, <1>8, <1>9, <1>10 DEF StoreStep
<1> QED
  BY <1>11, RevFromParts

LEMMA RevAlways == StoreSpec => []RevInv
<1>1. StoreInit => RevInv
  BY DEF StoreInit, RevInv, OneActive, NotAhead, RevCovered
<1>2. TypeOK /\ TypeOK' /\ RevInv /\ OneActive' /\ [StoreStep]_storeVars => RevInv'
  BY RevStep
<1> QED
  BY <1>1, <1>2, StoreTypeCorrect, AtMostOneActive, PTL DEF StoreSpec

\* Everything published at or after rev_seq that renders the plug of an active run
\* holds the run's current end and no other: the number alone tells the service that
\* a loaded set includes the run (and nothing else when the plug was cut over).
THEOREM RevSeqSound == StoreSpec => []RevCovered
<1>1. RevInv => RevCovered
  BY DEF RevInv
<1> QED
  BY <1>1, RevAlways, PTL

-----------------------------------------------------------------------------
(* What the health endpoint shows.                                         *)

LEMMA FaultShown ==
  ASSUME PublishOutcome
  PROVE  PublishWhole \/ pubError' = TRUE \/ mirrorFailed' = TRUE \/ svc' = FALSE
  BY DEF PublishOutcome, Publication

LEMMA WholeShown == PublishWhole => StaleIsVisible'
  BY DEF PublishWhole, StaleIsVisible

LEMMA ShownAfter ==
  ASSUME PublishOutcome
  PROVE  StaleIsVisible'
  BY FaultShown, WholeShown DEF StaleIsVisible

LEMMA SameRender ==
  UNCHANGED <<rows, windows, managed>> => UNCHANGED Rendered
  BY DEF rows, Rendered, Render, ActiveOn

LEMMA StaleStep ==
  ASSUME StaleIsVisible, [StoreStep]_storeVars
  PROVE  StaleIsVisible'
<1>1. ASSUME NEW p \in Plug, NEW r \in RunId, NEW m \in Minutes, StartRun(p, r, m)
      PROVE  StaleIsVisible'
  BY <1>1, ShownAfter DEF StartRun, AddRun
<1>2. ASSUME NEW r \in RunId, NEW m \in Minutes, ExtendRun(r, m) PROVE StaleIsVisible'
  BY <1>2, ShownAfter DEF ExtendRun, MoveEnd
<1>3. ASSUME NEW r \in RunId, NEW how \in {"cancelled", "withdrawn"}, CancelRun(r, how)
      PROVE  StaleIsVisible'
  BY <1>3, ShownAfter DEF CancelRun, CloseRun
<1>4. ASSUME ExpireRuns \/ Republish PROVE StaleIsVisible'
  BY <1>4, ShownAfter DEF ExpireRuns, Republish, PublishOutcome
<1>5. ASSUME NEW p \in Plug, NEW ws \in SUBSET Window, PutSchedule(p, ws) PROVE StaleIsVisible'
  BY <1>5, ShownAfter DEF PutSchedule
<1>6. ASSUME NEW p \in Plug, NEW on \in BOOLEAN, SetManaged(p, on) PROVE StaleIsVisible'
  BY <1>6, ShownAfter DEF SetManaged
<1>7. ASSUME Restart PROVE StaleIsVisible'
  BY <1>7, WholeShown DEF Restart, StaleIsVisible
<1>8. ASSUME Crash PROVE StaleIsVisible'
  BY <1>8 DEF Crash, StaleIsVisible
<1>9. ASSUME RecordApply \/ Background \/ Tick \/ UNCHANGED storeVars PROVE StaleIsVisible'
  <2>1. UNCHANGED <<rows, windows, managed>> /\ UNCHANGED <<out, svc, pubError, mirrorFailed>>
    BY <1>9 DEF RecordApply, Background, Tick, storeVars, pubVars
  <2> QED
    BY <2>1, SameRender DEF StaleIsVisible
<1> QED
  BY <1>1, <1>2, <1>3, <1>4, <1>5, <1>6, <1>7, <1>8, <1>9 DEF StoreStep

\* At every moment out/ shows the database, or publish_error is set, or the service
\* is down, or the append to audit.jsonl has failed in the last write.
THEOREM StaleShown == StoreSpec => []StaleIsVisible
<1>1. StoreInit => StaleIsVisible
  BY DEF StoreInit, StaleIsVisible
<1>2. StaleIsVisible /\ [StoreStep]_storeVars => StaleIsVisible'
  BY StaleStep
<1> QED
  BY <1>1, <1>2, PTL DEF StoreSpec

-----------------------------------------------------------------------------
(* Closed rows.                                                            *)

Final(r) == status[r] \in {"cancelled", "withdrawn", "ended"} =>
              /\ status'[r] = status[r] /\ endsAt'[r] = endsAt[r]
              /\ endedAt'[r] = endedAt[r]

LEMMA FinalStep ==
  ASSUME TypeOK, StoreStep, NEW x \in RunId
  PROVE  Final(x)
<1>1. ASSUME NEW p \in Plug, NEW r \in RunId, NEW m \in Minutes, StartRun(p, r, m)
      PROVE  Final(x)
  BY <1>1 DEF StartRun, AddRun, Over, ActiveOn, Final, TypeOK
<1>2. ASSUME NEW r \in RunId, NEW m \in Minutes, ExtendRun(r, m) PROVE Final(x)
  BY <1>2 DEF ExtendRun, MoveEnd, Final, TypeOK
<1>3. ASSUME NEW r \in RunId, NEW how \in {"cancelled", "withdrawn"}, CancelRun(r, how)
      PROVE  Final(x)
  BY <1>3 DEF CancelRun, CloseRun, Final, TypeOK
<1>4. ASSUME ExpireRuns PROVE Final(x)
  BY <1>4 DEF ExpireRuns, EndRuns, Late, Final, TypeOK
<1>5. ASSUME NEW p \in Plug, NEW ws \in SUBSET Window, PutSchedule(p, ws) PROVE Final(x)
  BY <1>5 DEF PutSchedule, rows, Final
<1>6. ASSUME NEW p \in Plug, NEW on \in BOOLEAN, SetManaged(p, on) PROVE Final(x)
  BY <1>6 DEF SetManaged, rows, Final
<1>7. ASSUME RecordApply \/ Republish \/ Background \/ Crash \/ Restart \/ Tick PROVE Final(x)
  BY <1>7 DEF RecordApply, Republish, Background, Crash, Restart, Tick, storeVars, rows, Final
<1> QED
  BY <1>1, <1>2, <1>3, <1>4, <1>5, <1>6, <1>7 DEF StoreStep

\* No operation reopens, moves or closes again a run that is over.
THEOREM ClosedStaysClosed == StoreSpec => ClosedIsFinal
<1>1. TypeOK /\ [StoreStep]_storeVars => [\A r \in RunId : Final(r)]_storeVars
  BY FinalStep
<1>2. (\A r \in RunId : Final(r)) <=>
        \A r \in RunId : status[r] \in {"cancelled", "withdrawn", "ended"} =>
          /\ status'[r] = status[r] /\ endsAt'[r] = endsAt[r]
          /\ endedAt'[r] = endedAt[r]
  BY DEF Final
<1> QED
  BY <1>1, <1>2, StoreTypeCorrect, PTL DEF StoreSpec, ClosedIsFinal

-----------------------------------------------------------------------------
(* The length of a run.                                                    *)

LengthOk(x) == status[x] # "none" =>
  /\ startedAt[x] <= now /\ startedAt[x] <= endsAt[x]
  /\ endsAt[x] - startedAt[x] <= MaxOn
  /\ status[x] # "active" => endedAt[x] >= startedAt[x]

\* The inductive invariant of LengthBounded: a run also started in the past.
LengthInv == \A x \in RunId : LengthOk(x)

LEMMA LengthStep ==
  ASSUME TypeOK, TypeOK', LengthInv, [StoreStep]_storeVars, NEW x \in RunId
  PROVE  LengthOk(x)'
<1> USE TimesAssumption
<1>0. LengthOk(x)
  BY DEF LengthInv
<1>1. ASSUME NEW p \in Plug, NEW r \in RunId, NEW m \in Minutes, StartRun(p, r, m)
      PROVE  LengthOk(x)'
  <2> DEFINE end == CeilMinute(now + m * Minute)
  <2>1. now + m * Minute \in Nat /\ now + m * Minute >= now
    BY MinutesLater DEF TypeOK
  <2>2. end \in Nat /\ end >= now + m * Minute
    BY <2>1, CeilMinuteType
  <2>3. end - now <= MaxOn /\ AddRun(p, r, end)
    BY <1>1 DEF StartRun, Fits
  <2> HIDE DEF end
  <2>4. CASE x = r
    BY <2>1, <2>2, <2>3, <2>4 DEF AddRun, LengthOk, TypeOK
  <2>5. CASE x # r
    BY <1>0, <2>3, <2>5 DEF AddRun, Over, ActiveOn, LengthOk, TypeOK
  <2> QED
    BY <2>4, <2>5
<1>2. ASSUME NEW r \in RunId, NEW m \in Minutes, ExtendRun(r, m) PROVE LengthOk(x)'
  <2> DEFINE end == CeilMinute(endsAt[r] + m * Minute)
  <2>1. endsAt[r] + m * Minute \in Nat /\ endsAt[r] + m * Minute >= endsAt[r]
    BY MinutesLater DEF TypeOK
  <2>2. end \in Nat /\ end >= endsAt[r] + m * Minute
    BY <2>1, CeilMinuteType
  <2>3. end - startedAt[r] <= MaxOn /\ MoveEnd(r, end)
    BY <1>2 DEF ExtendRun, Fits
  <2> HIDE DEF end
  <2> QED
    BY <1>0, <2>1, <2>2, <2>3 DEF MoveEnd, LengthOk, TypeOK
<1>3. ASSUME NEW r \in RunId, NEW how \in {"cancelled", "withdrawn"}, CancelRun(r, how)
      PROVE  LengthOk(x)'
  BY <1>0, <1>3 DEF CancelRun, CloseRun, LengthOk, TypeOK
<1>4. ASSUME ExpireRuns PROVE LengthOk(x)'
  BY <1>0, <1>4 DEF ExpireRuns, EndRuns, Late, LengthOk, TypeOK
<1>5. ASSUME NEW p \in Plug, NEW ws \in SUBSET Window, PutSchedule(p, ws) PROVE LengthOk(x)'
  BY <1>0, <1>5 DEF PutSchedule, rows, LengthOk
<1>6. ASSUME NEW p \in Plug, NEW on \in BOOLEAN, SetManaged(p, on) PROVE LengthOk(x)'
  BY <1>0, <1>6 DEF SetManaged, rows, LengthOk
<1>7. ASSUME RecordApply \/ Republish \/ Background \/ Crash \/ Restart \/ UNCHANGED storeVars
      PROVE  LengthOk(x)'
  BY <1>0, <1>7 DEF RecordApply, Republish, Background, Crash, Restart, storeVars, rows, LengthOk
<1>8. ASSUME Tick PROVE LengthOk(x)'
  BY <1>0, <1>8 DEF Tick, rows, LengthOk, TypeOK
<1> QED
  BY <1>1, <1>2, <1>3, <1>4, <1>5, <1>6, <1>7, <1>8 DEF StoreStep

\* However often a run is extended, max_on_minutes counts from its real start.
THEOREM LengthKept == StoreSpec => []LengthBounded
<1>1. StoreInit => LengthInv
  BY DEF StoreInit, LengthInv, LengthOk
<1>2. TypeOK /\ TypeOK' /\ LengthInv /\ [StoreStep]_storeVars => LengthInv'
  BY LengthStep DEF LengthInv
<1>3. TypeOK /\ LengthInv => LengthBounded
  BY TimesAssumption DEF LengthInv, LengthOk, LengthBounded, EffectiveEnd, TypeOK, Status
<1> QED
  BY <1>1, <1>2, <1>3, StoreTypeCorrect, PTL DEF StoreSpec
-----------------------------------------------------------------------------
(* The gap between runs.                                                   *)

Counts(x) == status[x] \in {"active", "cancelled", "ended"}

GapOk(x, y) ==
  Counts(x) /\ status[y] = "active" /\ entity[x] = entity[y] /\ x # y
    => EffectiveEnd(x) + MinGap <= startedAt[y]

\* The inductive invariant of GapKept: an active run came after all others that count.
GapInv == GapKept /\ \A x, y \in RunId : GapOk(x, y)

\* A step that starts nothing: runs that count did so before, and end no later,
\* the active ones apart.
Shrinks(x) ==
  /\ entity'[x] = entity[x] /\ startedAt'[x] = startedAt[x]
  /\ status'[x] = "active" => status[x] = "active"
  /\ Counts(x)' => Counts(x)
  /\ status[x] = "active" \/ EffectiveEnd(x)' <= EffectiveEnd(x)

LEMMA EndType == TypeOK => \A x \in RunId : EffectiveEnd(x) \in Nat
  BY DEF TypeOK, EffectiveEnd

LEMMA GapShrinks ==
  ASSUME TypeOK, TypeOK', OneActive, GapInv, \A x \in RunId : Shrinks(x)
  PROVE  GapInv'
<1> USE TimesAssumption
<1>1. \A x \in RunId : EffectiveEnd(x) \in Nat /\ EffectiveEnd(x)' \in Nat
  <2>1. TypeOK' => (\A x \in RunId : EffectiveEnd(x) \in Nat)'
    BY EndType, PTL
  <2> QED
    BY <2>1, EndType
<1>2. \A x, y \in RunId : GapOk(x, y)'
  <2> SUFFICES ASSUME NEW x \in RunId, NEW y \in RunId, Counts(x)', status'[y] = "active",
                      entity'[x] = entity'[y], x # y
               PROVE  EffectiveEnd(x)' + MinGap <= startedAt'[y]
    BY DEF GapOk
  <2>1. Counts(x) /\ status[y] = "active" /\ entity[x] = entity[y] /\ startedAt'[y] = startedAt[y]
    BY DEF Shrinks
  <2>2. status[x] # "active"
    BY <2>1 DEF OneActive
  <2>3. EffectiveEnd(x)' <= EffectiveEnd(x)
    BY <2>2 DEF Shrinks
  <2>4. EffectiveEnd(x) + MinGap <= startedAt[y]
    BY <2>1 DEF GapInv, GapOk
  <2> QED
    BY <1>1, <2>1, <2>3, <2>4 DEF TypeOK
<1>3. GapKept'
  <2> SUFFICES ASSUME NEW x \in RunId, NEW y \in RunId, Counts(x)', Counts(y)',
                      entity'[x] = entity'[y], x # y
               PROVE  \/ EffectiveEnd(x)' + MinGap <= startedAt'[y]
                      \/ EffectiveEnd(y)' + MinGap <= startedAt'[x]
    BY DEF GapKept, Counts
  <2>1. /\ Counts(x) /\ Counts(y) /\ entity[x] = entity[y]
        /\ startedAt'[x] = startedAt[x] /\ startedAt'[y] = startedAt[y]
    BY DEF Shrinks
  <2>2. ~(status[x] = "active" /\ status[y] = "active")
    BY <2>1 DEF OneActive
  <2>3. CASE status[x] = "active"
    <3>1. EffectiveEnd(y) + MinGap <= startedAt[x]
      BY <2>1, <2>3 DEF GapInv, GapOk
    <3>2. EffectiveEnd(y)' <= EffectiveEnd(y)
      BY <2>2, <2>3 DEF Shrinks
    <3> QED
      BY <1>1, <2>1, <3>1, <3>2 DEF TypeOK
  <2>4. CASE status[y] = "active"
    <3>1. EffectiveEnd(x) + MinGap <= startedAt[y]
      BY <2>1, <2>4 DEF GapInv, GapOk
    <3>2. EffectiveEnd(x)' <= EffectiveEnd(x)
      BY <2>2, <2>4 DEF Shrinks
    <3> QED
      BY <1>1, <2>1, <3>1, <3>2 DEF TypeOK
  <2>5. CASE status[x] # "active" /\ status[y] # "active"
    <3>1. \/ EffectiveEnd(x) + MinGap <= startedAt[y]
          \/ EffectiveEnd(y) + MinGap <= startedAt[x]
      BY <2>1 DEF GapInv, GapKept, Counts
    <3>2. EffectiveEnd(x)' <= EffectiveEnd(x) /\ EffectiveEnd(y)' <= EffectiveEnd(y)
      BY <2>5 DEF Shrinks
    <3> QED
      BY <1>1, <2>1, <3>1, <3>2 DEF TypeOK
  <2> QED
    BY <2>3, <2>4, <2>5
<1> QED
  BY <1>2, <1>3 DEF GapInv

LEMMA GapStart ==
  ASSUME TypeOK, TypeOK', GapInv, NEW p \in Plug, NEW r \in RunId, NEW m \in Minutes,
         StartRun(p, r, m)
  PROVE  GapInv'
<1> USE TimesAssumption
<1>1. /\ status[r] = "none" /\ ActiveOn(p) = Over(p)
      /\ \A x \in Counted(p) : EffectiveEnd(x) + MinGap <= now
  BY DEF StartRun
<1>2. /\ \A x \in RunId \ {r} : entity'[x] = entity[x] /\ startedAt'[x] = startedAt[x]
                               /\ endsAt'[x] = endsAt[x]
      /\ entity'[r] = p /\ startedAt'[r] = now /\ status'[r] = "active"
  BY DEF StartRun, AddRun, TypeOK
<1>3. \A x \in RunId \ {r} :
        /\ status'[x] = IF x \in Over(p) THEN "ended" ELSE status[x]
        /\ endedAt'[x] = IF x \in Over(p) THEN endsAt[x] ELSE endedAt[x]
  BY DEF StartRun, AddRun
<1>4. \A x \in RunId \ {r} : EffectiveEnd(x)' = EffectiveEnd(x) /\ (Counts(x)' <=> Counts(x))
  BY <1>2, <1>3 DEF EffectiveEnd, Counts, Over, ActiveOn, TypeOK
<1>5. \A x \in RunId \ {r} : Counts(x) /\ entity[x] = p => EffectiveEnd(x) + MinGap <= now
  BY <1>1 DEF Counts, Counted, ActiveOn
<1>6. \A x \in RunId \ {r} : status'[x] = "active" => status[x] = "active" /\ entity[x] # p
  BY <1>1, <1>3 DEF ActiveOn
<1>7. \A x, y \in RunId : GapOk(x, y)'
  <2> SUFFICES ASSUME NEW x \in RunId, NEW y \in RunId, Counts(x)', status'[y] = "active",
                      entity'[x] = entity'[y], x # y
               PROVE  EffectiveEnd(x)' + MinGap <= startedAt'[y]
    BY DEF GapOk
  <2>1. CASE y = r
    BY <1>2, <1>4, <1>5, <2>1
  <2>2. CASE y # r
    <3>1. entity[y] # p /\ status[y] = "active" /\ x # r
      BY <1>2, <1>6, <2>2
    <3> QED
      BY <1>2, <1>4, <2>2, <3>1 DEF GapInv, GapOk
  <2> QED
    BY <2>1, <2>2
<1>8. GapKept'
  <2> SUFFICES ASSUME NEW x \in RunId, NEW y \in RunId, Counts(x)', Counts(y)',
                      entity'[x] = entity'[y], x # y
               PROVE  \/ EffectiveEnd(x)' + MinGap <= startedAt'[y]
                      \/ EffectiveEnd(y)' + MinGap <= startedAt'[x]
    BY DEF GapKept, Counts
  <2>1. CASE x = r
    BY <1>2, <1>7, <2>1 DEF GapOk
  <2>2. CASE y = r
    BY <1>2, <1>7, <2>2 DEF GapOk
  <2>3. CASE x # r /\ y # r
    BY <1>2, <1>4, <2>3 DEF GapInv, GapKept, Counts
  <2> QED
    BY <2>1, <2>2, <2>3
<1> QED
  BY <1>7, <1>8 DEF GapInv

LEMMA GapStep ==
  ASSUME TypeOK, TypeOK', OneActive, GapInv, [StoreStep]_storeVars
  PROVE  GapInv'
<1>1. ASSUME NEW r \in RunId, NEW m \in Minutes, ExtendRun(r, m) PROVE \A x \in RunId : Shrinks(x)
  BY <1>1 DEF ExtendRun, MoveEnd, Shrinks, Counts, EffectiveEnd, TypeOK
<1>2. ASSUME NEW r \in RunId, NEW how \in {"cancelled", "withdrawn"}, CancelRun(r, how)
      PROVE  \A x \in RunId : Shrinks(x)
  BY <1>2 DEF CancelRun, CloseRun, Shrinks, Counts, EffectiveEnd, TypeOK
<1>3. ASSUME ExpireRuns PROVE \A x \in RunId : Shrinks(x)
  BY <1>3 DEF ExpireRuns, EndRuns, Late, Shrinks, Counts, EffectiveEnd, TypeOK
<1>4. ASSUME UNCHANGED rows PROVE \A x \in RunId : Shrinks(x)
  BY <1>4, EndType DEF rows, Shrinks, Counts, EffectiveEnd, TypeOK
<1>5. ASSUME NEW p \in Plug, NEW ws \in SUBSET Window, PutSchedule(p, ws) PROVE UNCHANGED rows
  BY <1>5 DEF PutSchedule
<1>6. ASSUME NEW p \in Plug, NEW on \in BOOLEAN, SetManaged(p, on) PROVE UNCHANGED rows
  BY <1>6 DEF SetManaged
<1>7. ASSUME RecordApply \/ Republish \/ Background \/ Crash \/ Restart \/ Tick \/ UNCHANGED storeVars
      PROVE  UNCHANGED rows
  BY <1>7 DEF RecordApply, Republish, Background, Crash, Restart, Tick, storeVars
<1>8. (\A x \in RunId : Shrinks(x)) \/ \E p \in Plug, r \in RunId, m \in Minutes : StartRun(p, r, m)
  BY <1>1, <1>2, <1>3, <1>4, <1>5, <1>6, <1>7 DEF StoreStep
<1> QED
  BY <1>8, GapShrinks, GapStart

\* Whatever is extended, cancelled early, expired or closed by the next start: runs
\* of a plug that count keep min_gap_minutes between them.
THEOREM GapAlwaysKept == StoreSpec => []GapKept
<1>1. StoreInit => GapInv
  BY DEF StoreInit, GapInv, GapKept, GapOk, Counts
<1>2. TypeOK /\ TypeOK' /\ OneActive /\ GapInv /\ [StoreStep]_storeVars => GapInv'
  BY GapStep
<1>3. GapInv => GapKept
  BY DEF GapInv
<1> QED
  BY <1>1, <1>2, <1>3, StoreTypeCorrect, AtMostOneActive, PTL DEF StoreSpec

\* All three of them: the table of runs keeps to the rules of the plugs.
THEOREM RunsAlwaysKept == StoreSpec => []RunsKept
<1>1. OneActive /\ GapKept /\ LengthBounded => RunsKept
  BY DEF RunsKept
<1> QED
  BY <1>1, AtMostOneActive, GapAlwaysKept, LengthKept, PTL
=============================================================================
