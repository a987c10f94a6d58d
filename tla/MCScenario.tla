----------------------------- MODULE MCScenario -----------------------------
(* One step that reads, no cleanup: the report is what the run is about.   *)
EXTENDS Scenario

MCSteps == {[class |-> "read", continue |-> FALSE, timeout |-> 0, ref |-> 0]}

MCSpec == ScenarioInit("run") /\ [][ScenarioNext]_scvars

=============================================================================
