--------------------------- MODULE ScenarioRunner ---------------------------
(***************************************************************************)
(* The scenarios of the PLC simulator                                      *)
(* (apps/plc-simulator/src/scenario/scenario.service.ts) and what they do  *)
(* to the sorter and the heartbeat, next to the operators and the SMC who  *)
(* command both as well.  Of the sorter only its status matters here; see  *)
(* SorterEngine for the rest.                                              *)
(*                                                                         *)
(* Each startScenario() leaves an executor behind, an async loop over the  *)
(* scenario's steps.  Its awaits between steps only yield to microtasks of *)
(* its own, so it is interrupted nowhere but in the 500 ms chunks of a     *)
(* WAIT: while an executor is awake, nothing else happens.                 *)
(***************************************************************************)
EXTENDS Integers, Sequences

CONSTANTS
  Executors,   \* executors alive at the same time; the code has no limit
  WaitChunks   \* 500 ms chunks of a WAIT: 10 to 120 in the code

ASSUME RunnerAssumption == WaitChunks \in Nat \ {0}

VARIABLES
  running,      \* this.running
  current,      \* this.currentScenario
  currentStep,  \* this.currentStep
  executor,     \* the async loops of executeScenario(), also of past scenarios
  line,         \* the sorter's status
  heartbeat     \* HeartbeatService.running

vars == <<running, current, currentStep, executor, line, heartbeat>>

\* ALL_SCENARIOS, by their actions.  Only WAIT has a delay.
Steps ==
  [normal   |-> <<"START_SORTER", "WAIT", "STOP_SORTER">>,
   fault    |-> <<"START_SORTER", "WAIT", "JAM", "WAIT", "CLEAR_JAM", "WAIT",
                  "MOTOR_TRIP", "WAIT", "CLEAR_MOTOR_TRIP", "STOP_SORTER">>,
   loadTest |-> <<"UPDATE_CONFIG", "START_SORTER", "WAIT", "STOP_SORTER", "UPDATE_CONFIG">>,
   overflow |-> <<"UPDATE_CONFIG", "START_SORTER", "WAIT", "OVERFLOW", "WAIT",
                  "CLEAR_OVERFLOW", "STOP_SORTER">>]

Scenarios == DOMAIN Steps
Statuses  == {"STOPPED", "RUNNING", "EMERGENCY"}

\* gone: it returned (or never was); stopped and overlapped are history: whether
\* stopScenario() was called since it started, and whether another one was alive then.
Executor == [state : {"gone", "awake", "asleep"}, scenario : Scenarios, step : Nat,
             left : 0..WaitChunks, stopped : BOOLEAN, overlapped : BOOLEAN]

Alive(e) == executor[e].state # "gone"
AllAsleep == \A e \in Executors : executor[e].state # "awake"
Finished(e) == executor[e].step = Len(Steps[executor[e].scenario])

-----------------------------------------------------------------------------
(* Faulty variants, see SorterEngine.                                      *)

\* startScenario() does not look at running.
StartScenarioAnyway(e, s) ==
  /\ AllAsleep
  /\ ~Alive(e)
  /\ running' = TRUE
  /\ current' = s
  /\ currentStep' = 0
  /\ executor' = [executor EXCEPT ![e] =
       [state |-> "awake", scenario |-> s, step |-> 0, left |-> 0, stopped |-> FALSE,
        overlapped |-> \E other \in Executors : Alive(other)]]
  /\ UNCHANGED <<line, heartbeat>>

\* stopScenario() relies on the executor to clear running.
StopScenarioKeepsRunning ==
  /\ AllAsleep
  /\ running
  /\ executor' = [e \in Executors |-> [executor[e] EXCEPT !.stopped = Alive(e) \/ @]]
  /\ line' = "STOPPED"
  /\ UNCHANGED <<running, current, currentStep, heartbeat>>

\* abortableDelay() sleeps on while its scenario runs.
WakeNever(e) ==
  /\ AllAsleep
  /\ executor[e].state = "asleep"
  /\ executor' = [executor EXCEPT ![e].state = IF running THEN "asleep" ELSE "awake"]
  /\ UNCHANGED <<running, current, currentStep, line, heartbeat>>

\* abortableDelay() tests running only.
WakeOverrun(e) ==
  /\ AllAsleep
  /\ executor[e].state = "asleep"
  /\ executor' = [executor EXCEPT ![e].left = @ - 1,
                                   ![e].state = IF running THEN "asleep" ELSE "awake"]
  /\ UNCHANGED <<running, current, currentStep, line, heartbeat>>
-----------------------------------------------------------------------------
\* What a step's engine call does to the sorter's status.
LineAfter(action) ==
  CASE action = "START_SORTER"                           -> "RUNNING"
    [] action = "STOP_SORTER"                            -> "STOPPED"
    [] action = "MOTOR_TRIP"                             -> "EMERGENCY"
    [] action = "CLEAR_MOTOR_TRIP" /\ line = "EMERGENCY" -> "STOPPED"
    [] OTHER                                             -> line

HeartbeatAfter(action) ==
  CASE action = "START_SORTER" -> TRUE
    [] action = "STOP_SORTER"  -> FALSE
    [] OTHER                   -> heartbeat

Init ==
  /\ running = FALSE
  /\ current \in Scenarios                       \* undefined until the first start
  /\ currentStep = 0
  /\ executor = [e \in Executors |-> [state |-> "gone", scenario |-> current,
                                      step |-> Len(Steps[current]), left |-> 0,
                                      stopped |-> FALSE, overlapped |-> FALSE]]
  /\ line = "STOPPED"
  /\ heartbeat = FALSE

\* startScenario(): refused while running.  The executor starts at once.
StartScenario(e, s) ==
  /\ AllAsleep
  /\ ~running
  /\ ~Alive(e)
  /\ running' = TRUE
  /\ current' = s
  /\ currentStep' = 0
  /\ executor' = [executor EXCEPT ![e] =
       [state |-> "awake", scenario |-> s, step |-> 0, left |-> 0, stopped |-> FALSE,
        overlapped |-> \E other \in Executors : Alive(other)]]
  /\ UNCHANGED <<line, heartbeat>>

\* stopScenario(): the executor notices when its chunk is over.  Nobody listens
\* to the abort signal.  The heartbeat goes on.
StopScenario ==
  /\ AllAsleep
  /\ running
  /\ running' = FALSE
  /\ executor' = [e \in Executors |-> [executor[e] EXCEPT !.stopped = Alive(e) \/ @]]
  /\ line' = "STOPPED"
  /\ UNCHANGED <<current, currentStep, heartbeat>>

\* One round of executeScenario()'s loop, up to and into its delay.
ExecuteStep(e) ==
  /\ executor[e].state = "awake"
  /\ running
  /\ ~Finished(e)
  /\ LET next == executor[e].step + 1
         action == Steps[executor[e].scenario][next]
     IN  /\ currentStep' = next
         /\ line' = LineAfter(action)
         /\ heartbeat' = HeartbeatAfter(action)
         /\ executor' = [executor EXCEPT
              ![e].step = next,
              ![e].state = IF action = "WAIT" THEN "asleep" ELSE "awake",
              ![e].left = IF action = "WAIT" THEN WaitChunks ELSE 0]
  /\ UNCHANGED <<running, current>>

\* The loop ends, after the last step or because nothing runs any more; the
\* executor clears running, whoever's scenario that flag belongs to.
EndScenario(e) ==
  /\ executor[e].state = "awake"
  /\ ~running \/ Finished(e)
  /\ running' = FALSE
  /\ executor' = [executor EXCEPT ![e].state = "gone"]
  /\ UNCHANGED <<current, currentStep, line, heartbeat>>

\* A chunk of abortableDelay() is over.
Wake(e) ==
  /\ AllAsleep
  /\ executor[e].state = "asleep"
  /\ LET left == executor[e].left - 1
     IN  executor' = [executor EXCEPT ![e].left = left,
                                      ![e].state = IF left > 0 /\ running THEN "asleep" ELSE "awake"]
  /\ UNCHANGED <<running, current, currentStep, line, heartbeat>>

\* The operator's and the SMC's commands between two chunks.  POST start and stop
\* switch the heartbeat too, the SMC's telegram 100 does not.
OutsideCommand ==
  /\ AllAsleep
  /\ \/ line' = "RUNNING"   /\ heartbeat' \in {heartbeat, TRUE}
     \/ line' = "STOPPED"   /\ heartbeat' \in {heartbeat, FALSE}
     \/ line' = "EMERGENCY" /\ heartbeat' = heartbeat
  /\ UNCHANGED <<running, current, currentStep, executor>>

ScenarioStep ==
  \/ \E e \in Executors, s \in Scenarios : StartScenario(e, s)
  \/ StopScenario
  \/ \E e \in Executors : ExecuteStep(e) \/ EndScenario(e) \/ Wake(e)

Next == ScenarioStep \/ OutsideCommand

Spec == Init /\ [][Next]_vars

\* Nobody but the scenarios commands the line.
UnattendedSpec == Init /\ [][ScenarioStep]_vars

\* Node runs awake loops on, and fires every chunk's timer once it is due: other
\* events delay a due timer but do not remove it, hence strong fairness.
ExecutorFairness ==
  \A e \in Executors : WF_vars(ExecuteStep(e)) /\ WF_vars(EndScenario(e)) /\ SF_vars(Wake(e))

FairSpec == Spec /\ ExecutorFairness
-----------------------------------------------------------------------------
TypeOK ==
  /\ running \in BOOLEAN
  /\ current \in Scenarios
  /\ currentStep \in Nat
  /\ executor \in [Executors -> Executor]
  /\ line \in Statuses
  /\ heartbeat \in BOOLEAN

\* The running flag has an executor of the current scenario behind it that nobody
\* stopped: it never refuses scenarios for ever.
RunningHasExecutor ==
  running => \E e \in Executors : /\ Alive(e)
                                  /\ ~executor[e].stopped
                                  /\ executor[e].scenario = current

\* A scenario that was started when no executor was left, and was not stopped,
\* runs all of its steps.
LoneScenarioCompletes ==
  \A e \in Executors :
    ~Alive(e) /\ ~executor[e].stopped /\ ~executor[e].overlapped => Finished(e)

\* Every executor comes to an end, stopped or not, whatever the others do.
ExecutorsEnd == \A e \in Executors : Alive(e) ~> ~Alive(e)

\* Test "all steps of the scenario must be executed in order": also without a
\* stop, the executor of an earlier, stopped scenario can cut a scenario short.
UnstoppedScenarioCompletes ==
  \A e \in Executors : ~Alive(e) /\ ~executor[e].stopped => Finished(e)
=============================================================================
