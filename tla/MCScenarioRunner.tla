-------------------------- MODULE MCScenarioRunner --------------------------
\* ScenarioRunner for TLC.
EXTENDS ScenarioRunner
=============================================================================
