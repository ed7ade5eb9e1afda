\* Two executors of any scenario beside the commands of operators and the SMC.
CONSTANTS
  e1 = e1
  e2 = e2
  Executors = {e1, e2}
  WaitChunks = 2
SPECIFICATION FairSpec
INVARIANTS
  TypeOK
  RunningHasExecutor
  LoneScenarioCompletes
PROPERTIES
  ExecutorsEnd
