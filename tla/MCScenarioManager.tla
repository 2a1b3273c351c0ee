------------------------- MODULE MCScenarioManager -------------------------
(* ScenarioManager for TLC. *)
EXTENDS ScenarioManager
=============================================================================
