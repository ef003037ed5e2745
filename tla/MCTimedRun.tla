----------------------------- MODULE MCTimedRun -----------------------------
(***************************************************************************)
(* Small instances of TimedRun for TLC. Two scenarios in one state space:  *)
(* starts, ends and switch-offs with one setback of any kind, a fault of   *)
(* the service or a trouble of the plug; starts and extensions             *)
(* while Home Assistant stays up and its calls do not mislead (an          *)
(* extension that is rolled back after the old end has passed leaves the   *)
(* plug to the fail-safe: see the hazards).                                *)
(***************************************************************************)
EXTENDS TimedRun, TLC

VARIABLE scenario

Requests == Permutations(Req)

InScenario ==
  /\ scenario = "requests" => faults' + trouble' <= 1 /\ \A q \in Req : pc'[q] # "moving"
  /\ scenario = "extensions" =>
       /\ haUp' /\ (trouble' # trouble => UNCHANGED pc)
       /\ \A q \in Req : pc'[q] # "turn_off"

ScenarioInit == RunInit /\ scenario \in {"requests", "extensions"}
ScenarioNext == RunNext /\ InScenario /\ UNCHANGED scenario
ScenarioSpec == ScenarioInit /\ [][ScenarioNext]_<<runVars, scenario>>
=============================================================================
