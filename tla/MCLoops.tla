------------------------------ MODULE MCLoops ------------------------------
(***************************************************************************)
(* Small instances, for TLC, of two loops that share no state: the applier *)
(* of the host and the event streams of the gateway. In a behaviour one of *)
(* them moves, and the other stays as it began.                            *)
(***************************************************************************)
EXTENDS Applier, Events

CONSTANT v1

VARIABLE part  \* the loop that moves in this behaviour

LoopsInit ==
  /\ Init /\ EvInit
  /\ \/ part = "applier"
     \/ part = "events" /\ \A f \in File : gen[f] = v1 /\ out.set[f] = v1

InApplier(A) == part = "applier" /\ A /\ UNCHANGED <<part, evVars>>
InEvents(A) == part = "events" /\ A /\ UNCHANGED <<part, vars>>

LoopsNext == InApplier(Next) \/ InEvents(EvNext)

loopsVars == <<part, vars, evVars>>

\* What Fairness and EvFairness ask, of the loop that moves.
LoopsFairness ==
  /\ WF_loopsVars(InApplier(PassStep)) /\ WF_loopsVars(InApplier(HoldOver))
  /\ WF_loopsVars(InApplier(HaStart)) /\ WF_loopsVars(InApplier(HaReload))
  /\ \A c \in Client :
       /\ WF_loopsVars(InEvents(Replays(c))) /\ WF_loopsVars(InEvents(Delivers(c)))
       /\ WF_loopsVars(InEvents(Heartbeat(c))) /\ WF_loopsVars(InEvents(CheckDue(c)))

LoopsSpec == LoopsInit /\ [][LoopsNext]_loopsVars /\ LoopsFairness

---------------------------------------------------------------------------
(* Property *)

\* Neither a render without a verdict nor a claim that has become false lasts.
VerdictsHold == part = "applier" => VerdictsCome
=============================================================================
