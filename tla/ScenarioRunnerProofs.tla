------------------------ MODULE ScenarioRunnerProofs ------------------------
(***************************************************************************)
(* Theorems about ScenarioRunner, for any number of executors and any      *)
(* length of a WAIT.                                                       *)
(***************************************************************************)
EXTENDS ScenarioRunner, TLAPS

(***************************************************************************)
(* Types.  An executor that sleeps has a chunk left.                       *)
(***************************************************************************)
SleepersWait == \A e \in Executors : executor[e].state = "asleep" => executor[e].left > 0

RunnerTypes == TypeOK /\ SleepersWait

LEMMA RunnerTypesInit == Init => RunnerTypes
<1> SUFFICES ASSUME Init PROVE RunnerTypes
  OBVIOUS
<1>1. current \in Scenarios /\ WaitChunks \in Nat
  BY RunnerAssumption DEF Init
<1>2. Len(Steps[current]) \in Nat
  BY <1>1 DEF Scenarios, Steps
<1>3. executor \in [Executors -> Executor]
  BY <1>1, <1>2 DEF Init, Executor
<1>4. SleepersWait
  BY DEF Init, SleepersWait
<1>5. QED BY <1>1, <1>3, <1>4 DEF Init, RunnerTypes, TypeOK, Statuses

\* A step's engine call leaves the sorter in one of its statuses.
LEMMA LineAfterType ==
  ASSUME TypeOK, NEW action
  PROVE  LineAfter(action) \in Statuses /\ HeartbeatAfter(action) \in BOOLEAN
BY DEF TypeOK, LineAfter, HeartbeatAfter, Statuses

LEMMA RunnerTypesNext == RunnerTypes /\ [Next]_vars => RunnerTypes'
<1> SUFFICES ASSUME RunnerTypes, [Next]_vars PROVE RunnerTypes'
  OBVIOUS
<1> USE RunnerAssumption
<1>a. /\ TypeOK /\ executor \in [Executors -> Executor]
      /\ \A e \in Executors : executor[e].state = "asleep" => executor[e].left > 0
  BY DEF RunnerTypes, TypeOK, SleepersWait
<1>1. ASSUME NEW e \in Executors, NEW s \in Scenarios, StartScenario(e, s)
      PROVE RunnerTypes'
  <2>1. executor' = [executor EXCEPT ![e] =
          [state |-> "awake", scenario |-> s, step |-> 0, left |-> 0, stopped |-> FALSE,
           overlapped |-> \E other \in Executors : Alive(other)]]
    BY <1>1 DEF StartScenario
  <2>2. executor' \in [Executors -> Executor] /\ SleepersWait'
    BY <1>a, <2>1 DEF Executor, SleepersWait
  <2>3. QED BY <1>a, <1>1, <2>2 DEF StartScenario, RunnerTypes, TypeOK
<1>2. CASE StopScenario
  <2>1. executor' = [e \in Executors |-> [executor[e] EXCEPT !.stopped = Alive(e) \/ @]]
    BY <1>2 DEF StopScenario
  <2>2. executor' \in [Executors -> Executor] /\ SleepersWait'
    BY <1>a, <2>1 DEF Executor, SleepersWait, Alive
  <2>3. QED BY <1>a, <1>2, <2>2 DEF StopScenario, RunnerTypes, TypeOK, Statuses
<1>3. ASSUME NEW e \in Executors, ExecuteStep(e)
      PROVE RunnerTypes'
  <2> DEFINE next == executor[e].step + 1
             action == Steps[executor[e].scenario][next]
  <2>1. /\ currentStep' = next /\ line' = LineAfter(action) /\ heartbeat' = HeartbeatAfter(action)
        /\ executor' = [executor EXCEPT ![e].step = next,
              ![e].state = IF action = "WAIT" THEN "asleep" ELSE "awake",
              ![e].left = IF action = "WAIT" THEN WaitChunks ELSE 0]
    BY <1>3 DEF ExecuteStep
  <2>2. next \in Nat
    BY <1>a DEF Executor
  <2> DEFINE state == IF action = "WAIT" THEN "asleep" ELSE "awake"
             left  == IF action = "WAIT" THEN WaitChunks ELSE 0
  <2>a. /\ state \in {"awake", "asleep"} /\ left \in 0..WaitChunks
        /\ state = "asleep" => left > 0
    OBVIOUS
  <2>b. executor' = [executor EXCEPT ![e].step = next, ![e].state = state, ![e].left = left]
    BY <2>1
  <2> DEFINE moved == [executor[e] EXCEPT !.step = next, !.state = state, !.left = left]
  <2> HIDE DEF action, next, state, left
  <2>b1. executor[e] \in Executor
    BY <1>a
  <2>b2. moved \in Executor
    BY <2>b1, <2>2, <2>a DEF Executor
  <2>b3. executor' = [executor EXCEPT ![e] = moved]
    BY <2>b
  <2>c. executor' \in [Executors -> Executor]
    <3> HIDE DEF moved
    <3> QED BY <1>a, <2>b2, <2>b3
  <2>d. SleepersWait'
    BY <1>a, <2>a, <2>b DEF SleepersWait
  <2>3. executor' \in [Executors -> Executor] /\ SleepersWait'
    BY <2>c, <2>d
  <2>4. line' \in Statuses /\ heartbeat' \in BOOLEAN
    BY <1>a, <2>1, LineAfterType
  <2>5. QED BY <1>a, <1>3, <2>1, <2>2, <2>3, <2>4 DEF ExecuteStep, RunnerTypes, TypeOK
<1>4. ASSUME NEW e \in Executors, EndScenario(e)
      PROVE RunnerTypes'
  <2>1. executor' = [executor EXCEPT ![e].state = "gone"]
    BY <1>4 DEF EndScenario
  <2>2. executor' \in [Executors -> Executor] /\ SleepersWait'
    BY <1>a, <2>1 DEF Executor, SleepersWait
  <2>3. QED BY <1>a, <1>4, <2>2 DEF EndScenario, RunnerTypes, TypeOK
<1>5. ASSUME NEW e \in Executors, Wake(e)
      PROVE RunnerTypes'
  <2> DEFINE left == executor[e].left - 1
  <2>1. executor' = [executor EXCEPT ![e].left = left,
          ![e].state = IF left > 0 /\ running THEN "asleep" ELSE "awake"]
    BY <1>5 DEF Wake
  <2>2. left \in 0..WaitChunks
    BY <1>a, <1>5 DEF Wake, Executor
  <2> DEFINE state == IF left > 0 /\ running THEN "asleep" ELSE "awake"
  <2>3. /\ state \in {"awake", "asleep"}
        /\ state = "asleep" => left > 0
    OBVIOUS
  <2>4. executor' = [executor EXCEPT ![e].left = left, ![e].state = state]
    BY <2>1
  <2> HIDE DEF left, state
  <2> DEFINE woken == [executor[e] EXCEPT !.left = left, !.state = state]
  <2>5. woken \in Executor
    <3>1. executor[e] \in Executor
      BY <1>a
    <3>2. QED BY <3>1, <2>2, <2>3 DEF Executor
  <2>6. executor' = [executor EXCEPT ![e] = woken]
    BY <2>4
  <2>7. executor' \in [Executors -> Executor]
    <3> HIDE DEF woken
    <3> QED BY <1>a, <2>5, <2>6
  <2>8. SleepersWait'
    BY <1>a, <2>3, <2>4 DEF SleepersWait
  <2>9. QED BY <1>a, <1>5, <2>7, <2>8 DEF Wake, RunnerTypes, TypeOK
<1>6. CASE OutsideCommand
  BY <1>a, <1>6 DEF OutsideCommand, RunnerTypes, TypeOK, SleepersWait, Statuses
<1>7. CASE UNCHANGED vars
  BY <1>a, <1>7 DEF vars, RunnerTypes, TypeOK, SleepersWait
<1>8. QED BY <1>1, <1>2, <1>3, <1>4, <1>5, <1>6, <1>7 DEF Next, ScenarioStep

\* Every variable keeps its type; in particular chunks never go below zero.
THEOREM RunnerTypeCorrect == Spec => []TypeOK
<1>1. RunnerTypes => TypeOK
  BY DEF RunnerTypes
<1>2. QED BY RunnerTypesInit, RunnerTypesNext, <1>1, PTL DEF Spec

(***************************************************************************)
(* A running scenario has its executor.                                    *)
(***************************************************************************)
LEMMA RunningHasExecutorNext == TypeOK /\ RunningHasExecutor /\ [Next]_vars => RunningHasExecutor'
<1> SUFFICES ASSUME TypeOK, RunningHasExecutor, [Next]_vars, running'
             PROVE  \E e \in Executors : /\ Alive(e)' /\ ~executor'[e].stopped
                                         /\ executor'[e].scenario = current'
  BY DEF RunningHasExecutor
<1>a. executor \in [Executors -> Executor]
  BY DEF TypeOK
<1>1. ASSUME NEW e \in Executors, NEW s \in Scenarios, StartScenario(e, s)
      PROVE /\ Alive(e)' /\ ~executor'[e].stopped /\ executor'[e].scenario = current'
  BY <1>a, <1>1 DEF StartScenario, Alive
<1>2. ASSUME NEW e \in Executors, ExecuteStep(e)
      PROVE \E o \in Executors : /\ Alive(o)' /\ ~executor'[o].stopped
                                 /\ executor'[o].scenario = current'
  <2>1. PICK o \in Executors : Alive(o) /\ ~executor[o].stopped /\ executor[o].scenario = current
    BY <1>2 DEF ExecuteStep, RunningHasExecutor
  <2>2. Alive(o)' /\ executor'[o].stopped = executor[o].stopped
        /\ executor'[o].scenario = executor[o].scenario
    BY <1>a, <1>2, <2>1 DEF ExecuteStep, Alive, Executor
  <2>3. QED BY <1>2, <2>1, <2>2 DEF ExecuteStep
<1>4. ASSUME NEW e \in Executors, Wake(e)
      PROVE \E o \in Executors : /\ Alive(o)' /\ ~executor'[o].stopped
                                 /\ executor'[o].scenario = current'
  <2>1. PICK o \in Executors : Alive(o) /\ ~executor[o].stopped /\ executor[o].scenario = current
    BY <1>4 DEF Wake, RunningHasExecutor
  <2>2. Alive(o)' /\ executor'[o].stopped = executor[o].stopped
        /\ executor'[o].scenario = executor[o].scenario
    BY <1>a, <1>4, <2>1 DEF Wake, Alive, Executor
  <2>3. QED BY <1>4, <2>1, <2>2 DEF Wake
<1>5. CASE OutsideCommand
  BY <1>5 DEF OutsideCommand, RunningHasExecutor, Alive
<1>6. CASE UNCHANGED vars
  BY <1>6 DEF vars, RunningHasExecutor, Alive
<1>7. ~StopScenario /\ \A e \in Executors : ~EndScenario(e)
  BY DEF StopScenario, EndScenario
<1>8. QED BY <1>1, <1>2, <1>4, <1>5, <1>6, <1>7 DEF Next, ScenarioStep

\* Whatever starts, stops and ends overlap, the running flag always has an
\* executor of the current scenario behind it that nobody stopped.
THEOREM RunningIsBacked == Spec => []RunningHasExecutor
<1>1. Init => RunningHasExecutor
  BY DEF Init, RunningHasExecutor
<1>2. Spec => [](RunnerTypes /\ RunningHasExecutor)
  <2>1. RunnerTypes => TypeOK
    BY DEF RunnerTypes
  <2>2. QED BY RunnerTypesInit, RunnerTypesNext, RunningHasExecutorNext, <1>1, <2>1, PTL DEF Spec
<1>3. QED BY <1>2, PTL

(***************************************************************************)
(* A lone scenario completes.                                              *)
(***************************************************************************)

\* As long as it is alive, a lone scenario is the one that runs, and no other
\* executor is there to clear its flag.
LoneScenarioRuns ==
  \A e \in Executors :
    Alive(e) /\ ~executor[e].stopped /\ ~executor[e].overlapped =>
      running /\ \A other \in Executors \ {e} : ~Alive(other)

LoneInv == LoneScenarioCompletes /\ LoneScenarioRuns

LEMMA LoneNext == TypeOK /\ LoneInv /\ [Next]_vars => LoneInv'
<1> SUFFICES ASSUME TypeOK, LoneInv, [Next]_vars,
                    NEW l \in Executors, ~executor'[l].stopped, ~executor'[l].overlapped
             PROVE  /\ ~Alive(l)' => Finished(l)'
                    /\ Alive(l)' => running' /\ \A o \in Executors \ {l} : ~Alive(o)'
  BY DEF LoneInv, LoneScenarioCompletes, LoneScenarioRuns
<1>a. executor \in [Executors -> Executor]
  BY DEF TypeOK
<1>b. ~Alive(l) /\ ~executor[l].stopped /\ ~executor[l].overlapped => Finished(l)
  BY DEF LoneInv, LoneScenarioCompletes
<1>c. Alive(l) /\ ~executor[l].stopped /\ ~executor[l].overlapped =>
        running /\ \A o \in Executors \ {l} : ~Alive(o)
  BY DEF LoneInv, LoneScenarioRuns
<1>1. ASSUME NEW e \in Executors, NEW s \in Scenarios, StartScenario(e, s)
      PROVE  /\ ~Alive(l)' => Finished(l)'
             /\ Alive(l)' => running' /\ \A o \in Executors \ {l} : ~Alive(o)'
  <2>1. CASE e = l
    BY <1>a, <1>1, <2>1 DEF StartScenario, Alive, Executor
  <2>2. CASE e # l
    <3>1. executor'[l] = executor[l]
      BY <1>a, <1>1, <2>2 DEF StartScenario
    <3>2. ~Alive(l)
      BY <1>c, <1>1, <3>1 DEF StartScenario
    <3>3. QED BY <1>b, <3>1, <3>2 DEF Alive, Finished
  <2>3. QED BY <2>1, <2>2
<1>2. CASE StopScenario
  <2>1. executor'[l] = [executor[l] EXCEPT !.stopped = Alive(l) \/ @]
    BY <1>2 DEF StopScenario
  <2>2. ~Alive(l) /\ ~executor[l].stopped /\ ~executor[l].overlapped
    BY <1>a, <2>1 DEF Executor
  <2>3. executor'[l].state = executor[l].state /\ executor'[l].step = executor[l].step
        /\ executor'[l].scenario = executor[l].scenario
    BY <1>a, <2>1 DEF Executor
  <2>4. QED BY <1>b, <2>2, <2>3 DEF Alive, Finished
<1>3. ASSUME NEW e \in Executors, ExecuteStep(e) \/ Wake(e)
      PROVE  /\ ~Alive(l)' => Finished(l)'
             /\ Alive(l)' => running' /\ \A o \in Executors \ {l} : ~Alive(o)'
  <2>1. /\ Alive(e) /\ Alive(e)' /\ running' = running
        /\ \A o \in Executors \ {e} : executor'[o] = executor[o]
        /\ executor'[e].stopped = executor[e].stopped
        /\ executor'[e].overlapped = executor[e].overlapped
    BY <1>a, <1>3 DEF ExecuteStep, Wake, Alive, Executor
  <2>2. QED BY <1>a, <1>b, <1>c, <2>1 DEF Alive, Finished
<1>4. ASSUME NEW e \in Executors, EndScenario(e)
      PROVE  /\ ~Alive(l)' => Finished(l)'
             /\ Alive(l)' => running' /\ \A o \in Executors \ {l} : ~Alive(o)'
  <2>1. /\ Alive(e)
        /\ ~running \/ Finished(e)
        /\ executor' = [executor EXCEPT ![e].state = "gone"]
    BY <1>4 DEF EndScenario, Alive
  <2>2. CASE e = l
    BY <1>a, <1>c, <2>1, <2>2 DEF Alive, Finished, Executor
  <2>3. CASE e # l
    <3>1. executor'[l] = executor[l]
      BY <1>a, <2>1, <2>3
    <3>2. ~Alive(l)
      BY <1>c, <2>1, <2>3, <3>1
    <3>3. QED BY <1>b, <3>1, <3>2 DEF Alive, Finished
  <2>4. QED BY <2>2, <2>3
<1>5. CASE OutsideCommand
  BY <1>b, <1>c, <1>5 DEF OutsideCommand, Alive, Finished
<1>6. CASE UNCHANGED vars
  BY <1>b, <1>c, <1>6 DEF vars, Alive, Finished
<1>7. QED BY <1>1, <1>2, <1>3, <1>4, <1>5, <1>6 DEF Next, ScenarioStep

\* With any number of executors, a scenario started when none was left, and not
\* stopped, runs all of its steps.
THEOREM LoneScenariosComplete == Spec => []LoneScenarioCompletes
<1>1. Init => LoneInv
  BY DEF Init, LoneInv, LoneScenarioCompletes, LoneScenarioRuns, Alive, Finished
<1>2. RunnerTypes => TypeOK
  BY DEF RunnerTypes
<1>3. LoneInv => LoneScenarioCompletes
  BY DEF LoneInv
<1>4. QED BY RunnerTypesInit, RunnerTypesNext, LoneNext, <1>1, <1>2, <1>3, PTL DEF Spec
=============================================================================
