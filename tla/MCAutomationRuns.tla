-------------------------- MODULE MCAutomationRuns --------------------------
(* Constants for the run of AutomationRuns.                                *)
EXTENDS AutomationRuns

AllOrigins == {"user", "rail"}
FirstStep  == {0}
=============================================================================
