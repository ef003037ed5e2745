------------------------------ MODULE RunChain ------------------------------
(***************************************************************************)
(* The chain that arms a timed run: the schedule service (RunStore)        *)
(* accepts the run and publishes a render with its end, the host-side      *)
(* applier (Applier) puts the render into Home Assistant and reports, and  *)
(* the service reads the report as `armed`. The two programs share only    *)
(* out/ and apply-status.json.                                             *)
(***************************************************************************)
EXTENDS RunStore

CONSTANTS
  NoSet, Drift, HaMayStop, MayAbort, MaxTrouble, \* as in Applier (NoSet: Unset)
  MaxSetbacks  \* bound on the faults of the service and the troubles of the host together

VARIABLES gen, haUp, loaded, reloadDue, drifted, st, held, pc, job, previous, reloadOld,
          verified, trouble

Host == INSTANCE Applier WITH
  File <- Plug, Value <- Content, Unset <- NoSet, MaxPublish <- MaxSeq

hostVars == <<gen, haUp, loaded, reloadDue, drifted, st, held, pc, job, previous, reloadOld,
              verified, trouble>>
chainVars == <<storeVars, hostVars>>

\* Mutant: any successful pass counts, whatever it applied.
Armed_AnySeq(r) == status[r] = "active" /\ st.result = "applied" /\ st.ok

\* Store.run_armed: the service's reading of apply-status.json.
Armed(r) ==
  /\ status[r] = "active"
  /\ st.result = "applied" /\ st.ok
  /\ st.seq >= revSeq[r]

\* Nothing generated yet; the service has published its seed.
ChainInit ==
  /\ StoreInit
  /\ gen = [p \in Plug |-> Absent]
  /\ Host!HostInit

StoreMoves == StoreStep /\ UNCHANGED hostVars
HostMoves == Host!HostStep /\ UNCHANGED <<now, rows, windows, managed, seq, pubError, mirrorFailed,
                                        svc, faults>>

ChainNext == (StoreMoves \/ HostMoves) /\ faults' + trouble' <= MaxSetbacks

ChainSpec == ChainInit /\ [][ChainNext]_chainVars

\* The loops and timers of both programs; people and faults stay free.
ChainFairness ==
  /\ WF_chainVars(StoreMoves /\ Restart) /\ WF_chainVars(StoreMoves /\ Republish)
  /\ WF_chainVars(HostMoves /\ Host!PassStep) /\ WF_chainVars(HostMoves /\ Host!HoldOver)
  /\ WF_chainVars(HostMoves /\ Host!HaStart) /\ WF_chainVars(HostMoves /\ Host!HaReload)

ChainFairSpec == ChainSpec /\ ChainFairness

-----------------------------------------------------------------------------
(* Properties.                                                             *)

\* "Its end is enforced by HA itself" (run_armed): an armed run's end, the
\* current one, is in what Home Assistant runs and in what it would load at a
\* restart, and no end of another run of that plug is, which could cut it short.
\* (A plug taken out of management meanwhile has no files any more; what somebody
\* changed by hand in Home Assistant counts until it loads its files again.)
ArmedEndInForce ==
  \A r \in RunId : Armed(r) =>
    /\ drifted \/ gen[entity[r]] = loaded[entity[r]]
    /\ gen[entity[r]].rendered => gen[entity[r]].ends = {<<r, endsAt[r]>>}

\* An accepted run gets armed in the end, unless it ends first: no order of
\* publications, passes, roll-backs and restarts leaves it waiting for ever.
AcceptedIsArmed ==
  \A r \in RunId :
    status[r] = "active" ~> (Armed(r) \/ status[r] # "active" \/ mirrorFailed)
=============================================================================
