\* What the scenario test promises of the steps.
CONSTANTS
  e1 = e1
  e2 = e2
  Executors = {e1, e2}
  WaitChunks = 2
SPECIFICATION UnattendedSpec
INVARIANT UnstoppedScenarioCompletes
