----------------------------- MODULE LocalRelay -----------------------------
(***************************************************************************)
(* The local relay of a post office: OperationService, which moves the     *)
(* relay between the simulator and the real equipment, over the services   *)
(* it drives: SimulatorService (virtual parcels), PLCConnectionService     *)
(* (PLC channels) and EquipmentMonitorService (equipment and alarms).      *)
(* Every handler runs to its end without a pause, so each is one action.   *)
(***************************************************************************)
EXTENDS Naturals, Sequences

CONSTANTS Equipment,     \* ids of the monitored equipment
          Statuses,      \* equipment statuses, with "ERROR", "STOPPED", "OFFLINE"
          Channels,      \* names of the PLC channels
          Severities,    \* alarm severities, "CRITICAL" among them
          AlarmCap,      \* alarms kept (500 in the code)
          ItemCap,       \* items kept by the periodic simulation (1000)
          MaxAlarms, MaxItems, MaxSwitches   \* bounds of the model only

ASSUME LocalRelayAssumption ==
  /\ {"ERROR", "STOPPED", "OFFLINE"} \subseteq Statuses
  /\ "CRITICAL" \in Severities
  /\ AlarmCap \in Nat \ {0} /\ ItemCap \in Nat \ {0}
  /\ MaxAlarms \in Nat /\ MaxItems \in Nat /\ MaxSwitches \in Nat

VARIABLES mode,          \* currentMode
          modeHistory,   \* completed switches [from, to], newest first
          running,       \* the simulator's interval is armed
          items,         \* pids of the simulated items, newest first
          pidCounter,    \* the simulator's last pid, relative to its base
          channel,       \* status of each PLC channel
          equipment,     \* status of each piece of equipment
          alarms,        \* alarms kept, newest first
          alarmCounter,  \* number of the last alarm
          openCritical   \* history: CRITICAL alarms raised and never cleared

opVars  == <<mode, modeHistory>>
simVars == <<running, items, pidCounter>>
alarmVars == <<alarms, alarmCounter, openCritical>>
vars == <<opVars, simVars, channel, equipment, alarmVars>>

Modes == {"SIMULATOR", "OPERATION", "SWITCHING"}
Switch == [from : Modes, to : Modes]
Alarm == [id : Nat, severity : Severities, active : BOOLEAN]

\* Faulty variants: each stands beside what a model-checking mutant replaces by it.
NewestAndOne(x, s, cap) == SubSeq(<<x>> \o s, 1, IF Len(s) <= cap THEN Len(s) + 1 ELSE cap + 1)
NewestButOne(x, s, cap) == SubSeq(<<x>> \o s, 1, IF Len(s) + 1 < cap THEN Len(s) + 1 ELSE cap - 1)

\* unshift() followed by slice(0, cap)
Newest(x, s, cap) == SubSeq(<<x>> \o s, 1, IF Len(s) < cap THEN Len(s) + 1 ELSE cap)

ActiveCritical == { i \in DOMAIN alarms :
                      alarms[i].active /\ alarms[i].severity = "CRITICAL" }

Init ==
  /\ mode = "SIMULATOR" /\ modeHistory = <<>>
  /\ running = FALSE /\ items = <<>> /\ pidCounter = 0
  /\ channel = [c \in Channels |-> "DISCONNECTED"]
  /\ equipment \in [Equipment -> {"STOPPED", "OFFLINE"}]
  /\ alarms = <<>> /\ alarmCounter = 0 /\ openCritical = {}

-----------------------------------------------------------------------------
(***************************************************************************)
(* OperationService                                                        *)
(***************************************************************************)

SafetyCheckNewestAlarm(target) ==
  /\ 1 \notin ActiveCritical
  /\ \A e \in Equipment : equipment[e] # "ERROR"

\* performSafetyCheck()
SafetyCheck(target) ==
  /\ ActiveCritical = {}
  /\ \A e \in Equipment : equipment[e] # "ERROR"
  /\ target = "OPERATION" => Channels # {}

\* The simulator stops before the hardware is connected.
HandOver(target) ==
  IF target = "OPERATION"
    THEN /\ running' = FALSE
         /\ channel' = [c \in Channels |-> "CONNECTED"]
    ELSE /\ channel' = [c \in Channels |-> "DISCONNECTED"]
         /\ UNCHANGED running

RecordSwitch(target) ==
  modeHistory' = <<[from |-> mode, to |-> target]>> \o modeHistory

\* switchMode(): the body's mode is used as it comes, "SWITCHING" included.
SwitchMode(target) ==
  /\ Len(modeHistory) < MaxSwitches
  /\ mode \notin {target, "SWITCHING"}
  /\ SafetyCheck(target)
  /\ HandOver(target)
  /\ mode' = target
  /\ RecordSwitch(target)
  /\ UNCHANGED <<items, pidCounter, equipment, alarmVars>>

-----------------------------------------------------------------------------
(***************************************************************************)
(* SimulatorService                                                        *)
(***************************************************************************)

SimStart ==
  /\ ~running
  /\ running' = TRUE
  /\ UNCHANGED <<opVars, items, pidCounter, channel, equipment, alarmVars>>

SimStop ==
  /\ running
  /\ running' = FALSE
  /\ UNCHANGED <<opVars, items, pidCounter, channel, equipment, alarmVars>>

SimReset ==
  /\ running' = FALSE
  /\ items' = <<>>
  /\ pidCounter' = 0
  /\ UNCHANGED <<opVars, channel, equipment, alarmVars>>

\* generateItem(): one tick of the armed interval
GenerateItem ==
  /\ running /\ pidCounter < MaxItems
  /\ pidCounter' = pidCounter + 1
  /\ items' = Newest(pidCounter + 1, items, ItemCap)
  /\ UNCHANGED <<opVars, running, channel, equipment, alarmVars>>

\* simulateOne(): by HTTP, running or not, and past the limit
SimulateOne ==
  /\ pidCounter < MaxItems
  /\ pidCounter' = pidCounter + 1
  /\ items' = <<pidCounter + 1>> \o items
  /\ UNCHANGED <<opVars, running, channel, equipment, alarmVars>>

-----------------------------------------------------------------------------
(***************************************************************************)
(* PLCConnectionService and EquipmentMonitorService                        *)
(***************************************************************************)

ConnectChannel(c) ==
  /\ channel' = [channel EXCEPT ![c] = "CONNECTED"]
  /\ UNCHANGED <<opVars, simVars, equipment, alarmVars>>

DisconnectChannel(c) ==
  /\ channel' = [channel EXCEPT ![c] = "DISCONNECTED"]
  /\ UNCHANGED <<opVars, simVars, equipment, alarmVars>>

UpdateStatus(e, status) ==
  /\ equipment' = [equipment EXCEPT ![e] = status]
  /\ UNCHANGED <<opVars, simVars, channel, alarmVars>>

\* raiseAlarm(); e = "unlisted" stands for an id the relay does not monitor
RaiseAlarm(e, severity) ==
  LET id == alarmCounter + 1 IN
  /\ alarmCounter < MaxAlarms
  /\ alarmCounter' = id
  /\ alarms' = Newest([id |-> id, severity |-> severity, active |-> TRUE],
                      alarms, AlarmCap)
  /\ openCritical' = IF severity = "CRITICAL" THEN openCritical \cup {id}
                                              ELSE openCritical
  /\ equipment' = IF e \in Equipment /\ severity = "CRITICAL"
                    THEN [equipment EXCEPT ![e] = "ERROR"] ELSE equipment
  /\ UNCHANGED <<opVars, simVars, channel>>

\* clearAlarm(): leaves the status of the equipment as it is
ClearAlarm(i) ==
  /\ alarms[i].active
  /\ alarms' = [alarms EXCEPT ![i].active = FALSE]
  /\ openCritical' = openCritical \ {alarms[i].id}
  /\ UNCHANGED <<opVars, simVars, channel, equipment, alarmCounter>>

Next ==
  \/ \E target \in Modes : SwitchMode(target)
  \/ SimStart \/ SimStop \/ SimReset \/ GenerateItem \/ SimulateOne
  \/ \E c \in Channels : ConnectChannel(c) \/ DisconnectChannel(c)
  \/ \E e \in Equipment, s \in Statuses : UpdateStatus(e, s)
  \/ \E e \in Equipment \cup {"unlisted"}, s \in Severities : RaiseAlarm(e, s)
  \/ \E i \in DOMAIN alarms : ClearAlarm(i)

Spec == Init /\ [][Next]_vars

-----------------------------------------------------------------------------
(***************************************************************************)
(* Properties                                                              *)
(***************************************************************************)

\* Every variable keeps its type, lists keep their limits: the alarms their
\* cap (equipment-monitor.service.ts:126), pids never pass the counter.
TypeOK ==
  /\ mode \in Modes /\ modeHistory \in Seq(Switch)
  /\ running \in BOOLEAN
  /\ items \in Seq(1 .. MaxItems) /\ pidCounter \in 0 .. MaxItems
  /\ channel \in [Channels -> {"CONNECTED", "DISCONNECTED"}]
  /\ equipment \in [Equipment -> Statuses]
  /\ alarms \in Seq(Alarm) /\ Len(alarms) <= AlarmCap
  /\ alarmCounter \in 0 .. MaxAlarms
  /\ openCritical \subseteq 1 .. alarmCounter

\* A mode switch (the safety check of operation.service.ts:98-138) happens
\* only when every CRITICAL alarm ever raised has been cleared, or AlarmCap
\* later alarms have pushed it out of the list the check reads, and when no
\* equipment is in ERROR.
SwitchIsSafe ==
  [][mode' # mode =>
       /\ \A id \in openCritical : id + AlarmCap <= alarmCounter
       /\ \A e \in Equipment : equipment[e] # "ERROR"]_vars

\* The alarm list tells the truth as far as it reaches: its active CRITICAL
\* entries are exactly the open alarms among the last AlarmCap raised, so a
\* clear hits the alarm it names and no open alarm is dropped early.
AlarmListAccurate ==
  { alarms[i].id : i \in ActiveCritical } =
    { id \in openCritical : id + AlarmCap > alarmCounter }

\* A switch into OPERATION hands the line to the hardware, with the
\* simulator stopped and every channel connected, and any other switch
\* leaves no channel connected (mode-switch.integration.spec.ts:44 and 73).
SwitchHandsOver ==
  [][mode' # mode =>
       IF mode' = "OPERATION"
         THEN ~running' /\ \A c \in Channels : channel'[c] = "CONNECTED"
         ELSE \A c \in Channels : channel'[c] = "DISCONNECTED"]_vars

\* The switch history is one unbroken chain from the initial mode to the
\* current one: each entry starts where the older one ended, and none is
\* lost or recorded with the intermediate mode (operation.service.ts:61, 76).
HistoryIsChain ==
  LET n == Len(modeHistory) IN
  /\ mode = IF n = 0 THEN "SIMULATOR" ELSE modeHistory[1].to
  /\ n > 0 => modeHistory[n].from = "SIMULATOR"
  /\ \A i \in 1 .. n - 1 : modeHistory[i].from = modeHistory[i + 1].to

\* The simulated items are the latest pids without gap or repetition,
\* whatever ticks, single simulations and resets are mixed
\* (simulator.service.ts:148-149, 185, 234-240).
ItemsConsecutive ==
  \A i \in DOMAIN items : items[i] + i = pidCounter + 1
=============================================================================
