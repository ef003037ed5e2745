-------------------------- MODULE RunChain_proofs ---------------------------
(***************************************************************************)
(* Proofs about the service and the applier composed, for any plugs, runs, *)
(* guardrails, faults and troubles: what the service calls armed is what   *)
(* Home Assistant holds. The table of runs behaves as RunStore says, so    *)
(* RunStore_proofs applies; the applier keeps its claim true, as in        *)
(* Loops_proofs, whatever the service publishes meanwhile.                 *)
(***************************************************************************)
EXTENDS RunChain, RunStore_proofs

-----------------------------------------------------------------------------
(* The service in the chain is the service alone.                          *)

LEMMA HostLeavesService == Host!HostStep => UNCHANGED <<out, published>>
<1> USE DEF Host!haVars, Host!passVars
<1>1. Host!PassStep => UNCHANGED <<out, published>>
  BY DEF Host!PassStep, Host!Begin, Host!Take, Host!Reverify, Host!NothingToDo, Host!vars,
         Host!WriteFile, Host!CheckConfig, Host!Reload, Host!ReloadNotDone, Host!VerifyOk,
         Host!VerifyTimeout, Host!Commit, Host!UndoFile, Host!Failed
<1>2. Host!HaStep => UNCHANGED <<out, published>>
  BY DEF Host!HaStep, Host!HaReload, Host!HaStop, Host!HaStart, Host!HandChange
<1>3. Host!ForceBegin \/ Host!Abort \/ Host!HoldOver => UNCHANGED <<out, published>>
  BY DEF Host!ForceBegin, Host!Take, Host!Abort, Host!HoldOver
<1> QED
  BY <1>1, <1>2, <1>3 DEF Host!HostStep

LEMMA ChainIsStore == [ChainNext]_chainVars => [StoreStep]_storeVars
<1>1. HostMoves => UNCHANGED storeVars
  BY HostLeavesService DEF HostMoves, storeVars, pubVars
<1> QED
  BY <1>1 DEF ChainNext, StoreMoves, chainVars

\* Every behaviour of the chain is one of the service: its theorems hold here.
THEOREM ChainRefinesStore == ChainSpec => StoreSpec
<1>1. ChainInit => StoreInit
  BY DEF ChainInit
<1> QED
  BY <1>1, ChainIsStore, PTL DEF ChainSpec, StoreSpec

-----------------------------------------------------------------------------
(* The claim of the applier, over what the service publishes.              *)

HostTypes ==
  /\ st \in [result : Host!Results, seq : Nat, set : RenderedSet \cup {NoSet}, ok : BOOLEAN]
  /\ job \in [seq : Nat, set : RenderedSet]

WholeWasPublished == out.whole => <<out.seq, out.set>> \in published

\* The inductive invariant: before the first file is touched the status is pending
\* and stays so to the end of the pass; a pass that has written its files keeps
\* them; one about to commit has seen Home Assistant run them; and what a claim or
\* a pass names was published, with that number.
ChainInv ==
  /\ HostTypes
  /\ WholeWasPublished
  /\ pc # "idle" => st.result = "pending" /\ <<job.seq, job.set>> \in published
  /\ pc \in {"reload", "verify", "commit"} => gen = job.set
  /\ pc = "commit" => drifted \/ loaded = job.set
  /\ st.result = "applied" => <<st.seq, st.set>> \in published
  /\ Host!ClaimIsTrue

LEMMA ChainInvInit == ChainInit => ChainInv
<1> SUFFICES ASSUME ChainInit PROVE ChainInv
  OBVIOUS
<1>1. gen \in RenderedSet
  BY DEF ChainInit, Absent, Content, RenderedSet
<1>2. HostTypes
  BY <1>1 DEF ChainInit, Host!HostInit, HostTypes, Host!Results
<1>3. WholeWasPublished
  BY DEF ChainInit, StoreInit, WholeWasPublished
<1> QED
  BY <1>2, <1>3 DEF ChainInit, Host!HostInit, ChainInv, Host!ClaimIsTrue, Host!Claimed

\* The service: a publication is whole and new, or nothing of it is whole.
LEMMA ServiceKeepsWhole ==
  ASSUME TypeOK, WholeWasPublished, StoreStep
  PROVE  WholeWasPublished' /\ published \subseteq published'
<1>1. PublishWhole \/ PublishTorn \/ UNCHANGED <<out, published>>
  BY DEF StoreStep, StartRun, AddRun, ExtendRun, MoveEnd, CancelRun, CloseRun, ExpireRuns,
         EndRuns, PutSchedule, SetManaged, RecordApply, Republish, Background, Crash, Restart,
         Tick, PublishOutcome, Publication, pubVars, storeVars
<1>2. CASE PublishWhole
  BY <1>2 DEF PublishWhole, WholeWasPublished
<1>3. CASE PublishTorn
  BY <1>3 DEF PublishTorn, WholeWasPublished, TypeOK
<1>4. CASE UNCHANGED <<out, published>>
  BY <1>4 DEF WholeWasPublished
<1> QED
  BY <1>1, <1>2, <1>3, <1>4

LEMMA ServiceKeepsClaim ==
  ASSUME TypeOK, ChainInv, StoreMoves
  PROVE  ChainInv'
<1>1. WholeWasPublished' /\ published \subseteq published'
  BY ServiceKeepsWhole DEF StoreMoves, ChainInv
<1>2. UNCHANGED <<gen, loaded, drifted, st, pc, job>>
  BY DEF StoreMoves, hostVars
<1> QED
  BY <1>1, <1>2 DEF ChainInv, HostTypes, Host!ClaimIsTrue, Host!Claimed

\* One step of the host, case by case.
LEMMA HostKeepsClaim ==
  ASSUME TypeOK, ChainInv, Host!HostStep
  PROVE  ChainInv'
<1> USE DEF ChainInv, HostTypes, WholeWasPublished, Host!ClaimIsTrue, Host!Claimed, TypeOK,
            Host!haVars, Host!passVars, Host!Results
<1>0. UNCHANGED <<out, published>>
  BY HostLeavesService
<1>2. CASE Host!Take
  BY <1>0, <1>2 DEF Host!Take
<1>3. CASE Host!Reverify
  BY <1>0, <1>3 DEF Host!Reverify, Host!InPlace
<1>4. CASE Host!NothingToDo
  BY <1>0, <1>4 DEF Host!NothingToDo, Host!vars, Host!hostVars
<1>5. ASSUME NEW f \in Plug, Host!WriteFile(f) PROVE ChainInv'
  BY <1>0, <1>5 DEF Host!WriteFile
<1>6. CASE Host!CheckConfig
  BY <1>0, <1>6 DEF Host!CheckConfig
<1>7. CASE Host!Reload
  BY <1>0, <1>7 DEF Host!Reload
<1>8. CASE Host!ReloadNotDone
  BY <1>0, <1>8 DEF Host!ReloadNotDone
<1>9. CASE Host!VerifyOk
  BY <1>0, <1>9 DEF Host!VerifyOk
<1>10. CASE Host!VerifyTimeout
  BY <1>0, <1>10 DEF Host!VerifyTimeout
<1>11. CASE Host!Commit
  BY <1>0, <1>11 DEF Host!Commit
<1>12. ASSUME NEW f \in Plug, Host!UndoFile(f) PROVE ChainInv'
  BY <1>0, <1>12 DEF Host!UndoFile
<1>13. CASE Host!Failed
  BY <1>0, <1>13 DEF Host!Failed
<1>14. CASE Host!Abort
  BY <1>0, <1>14 DEF Host!Abort
<1>15. CASE Host!HoldOver
  BY <1>0, <1>15 DEF Host!HoldOver
<1>16. CASE Host!HaReload
  BY <1>0, <1>16 DEF Host!HaReload
<1>17. CASE Host!HaStop
  BY <1>0, <1>17 DEF Host!HaStop
<1>18. CASE Host!HaStart
  BY <1>0, <1>18 DEF Host!HaStart
<1>19. CASE Host!HandChange
  BY <1>0, <1>19 DEF Host!HandChange
<1> QED
  BY <1>2, <1>3, <1>4, <1>5, <1>6, <1>7, <1>8, <1>9, <1>10, <1>11, <1>12, <1>13,
     <1>14, <1>15, <1>16, <1>17, <1>18, <1>19
  DEF Host!HostStep, Host!PassStep, Host!HaStep, Host!Begin, Host!ForceBegin

LEMMA ChainInvStep ==
  ASSUME TypeOK, ChainInv, [ChainNext]_chainVars
  PROVE  ChainInv'
<1>1. CASE UNCHANGED chainVars
  BY <1>1 DEF chainVars, storeVars, pubVars, hostVars, ChainInv, HostTypes, WholeWasPublished,
              Host!ClaimIsTrue, Host!Claimed
<1>2. CASE StoreMoves
  BY <1>2, ServiceKeepsClaim
<1>3. CASE HostMoves
  BY <1>3, HostKeepsClaim DEF HostMoves
<1> QED
  BY <1>1, <1>2, <1>3 DEF ChainNext

\* What the applier's status claims of the service's render stays true, whatever the service publishes
\* or loses meanwhile: the claim names a pair that was published, and Home Assistant runs that set.
THEOREM ChainClaimTrue == ChainSpec => []ChainInv
<1>1. TypeOK /\ ChainInv /\ [ChainNext]_chainVars => ChainInv'
  BY ChainInvStep
<1> QED
  BY <1>1, ChainInvInit, ChainRefinesStore, StoreTypeCorrect, PTL DEF ChainSpec

-----------------------------------------------------------------------------
(* Armed means enforced.                                                   *)

LEMMA ArmedFromClaim ==
  ASSUME TypeOK, RevCovered, ChainInv, NEW r \in RunId, Armed(r)
  PROVE  /\ drifted \/ gen[entity[r]] = loaded[entity[r]]
         /\ gen[entity[r]].rendered => gen[entity[r]].ends = {<<r, endsAt[r]>>}
<1>1. gen = st.set /\ (drifted \/ loaded = st.set)
  BY DEF Armed, ChainInv, Host!ClaimIsTrue, Host!Claimed
<1>2. <<st.seq, st.set>> \in published
  BY DEF Armed, ChainInv
<1>3. <<st.seq, st.set>>[1] >= revSeq[r] /\ status[r] = "active"
  BY DEF Armed
<1> QED
  BY <1>1, <1>2, <1>3 DEF RevCovered

\* Whatever is started, extended, published, lost, rolled back or restarted: a run
\* that run_armed calls armed has its current end, and no other, in the files Home
\* Assistant holds and would load again.
THEOREM ArmedIsEnforced == ChainSpec => []ArmedEndInForce
<1>1. TypeOK /\ RevCovered /\ ChainInv => ArmedEndInForce
  BY ArmedFromClaim DEF ArmedEndInForce
<1> QED
  BY <1>1, ChainRefinesStore, StoreTypeCorrect, RevSeqSound, ChainClaimTrue, PTL
=============================================================================
