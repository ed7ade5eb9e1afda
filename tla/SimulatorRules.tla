---------------------------- MODULE SimulatorRules ----------------------------
(***************************************************************************)
(* What becomes of an item of the local relay's simulator                  *)
(* (apps/local-relay/src/simulator/simulator.service.ts), whose starting   *)
(* and stopping LocalRelay has.  An item is sorted by the rule in force,   *)
(* in two places that do not treat all rules alike.                        *)
(***************************************************************************)
EXTENDS Integers, Sequences

CONSTANTS
  GeneratedCodes,  \* sort codes of generated barcodes: from 42000 to 99999
  GivenCodes,      \* those of items simulated by hand: any digits
  NotANumber,      \* or text; a negative number is never odd to the code, like text
  SimulatedCap,    \* items kept of those generated (1000)
  MaxSimulated     \* bound of the model: items simulated

ASSUME SimulatorAssumption ==
  /\ GeneratedCodes \subseteq Nat /\ GivenCodes \subseteq Nat \cup {NotANumber}
  /\ {SimulatedCap, MaxSimulated} \subseteq Nat

VARIABLES
  activeRule,
  simulated,       \* items, newest first
  simulatedPid     \* pidCounter, from 0 where the code has 100000

simulatorVars == <<activeRule, simulated, simulatedPid>>

SimRules == {"ODD_EVEN", "DIVISIBLE", "RANGE", "MODULO"}

SortedTo(chute) == [result |-> "SUCCESS", chute |-> chute]
ToReject == [result |-> "REJECT", chute |-> 99]
NotRead == [result |-> "NO_READ", chute |-> 0]

SimulatorInit == activeRule = "ODD_EVEN" /\ simulated = <<>> /\ simulatedPid = 0

-----------------------------------------------------------------------------
\* By parity; what is no number is not odd.
ByParity(code) == SortedTo(IF code # NotANumber /\ code % 2 = 1 THEN 1 ELSE 2)

ByPid(pid) == SortedTo((pid % 10) + 1)

\* Faulty variant, for the mutant checks: the range has no upper end.
GeneratedUnbounded(code, pid) ==
  CASE activeRule = "ODD_EVEN" -> ByParity(code)
    [] activeRule = "DIVISIBLE" /\ code % 3 = 0 -> SortedTo(3)
    [] activeRule = "RANGE" /\ code >= 30000 -> SortedTo(15)
    [] activeRule = "MODULO" -> ByPid(pid)
    [] OTHER -> ToReject

\* The switch of generateItem()
Generated(code, pid) ==
  CASE activeRule = "ODD_EVEN" -> ByParity(code)
    [] activeRule = "DIVISIBLE" /\ code % 3 = 0 -> SortedTo(3)
    [] activeRule = "RANGE" /\ code >= 30000 /\ code <= 39999 -> SortedTo(15)
    [] activeRule = "MODULO" -> ByPid(pid)
    [] OTHER -> ToReject

\* The conditions of simulateOne(), which knows two of the rules
Simulated(code, pid) ==
  CASE activeRule = "ODD_EVEN" -> ByParity(code)
    [] activeRule = "MODULO" -> ByPid(pid)
    [] OTHER -> ToReject

SimulatedItem(code, outcome) ==
  [pid |-> simulatedPid + 1, code |-> code, rule |-> activeRule,
   result |-> outcome.result, assignedChute |-> outcome.chute]

Listed(item) == <<item>> \o simulated

\* generateItem() of the timer: a tenth of the items has no barcode; older items go.
AutoItem ==
  \E item \in {SimulatedItem(NotANumber, NotRead)} \cup
             {SimulatedItem(c, Generated(c, simulatedPid + 1)) : c \in GeneratedCodes} :
    /\ simulatedPid < MaxSimulated
    /\ simulated' = SubSeq(Listed(item), 1, IF Len(simulated) < SimulatedCap
                                             THEN Len(simulated) + 1 ELSE SimulatedCap)
    /\ simulatedPid' = simulatedPid + 1
    /\ UNCHANGED activeRule

\* simulateOne(): no barcode and so no reading, or a code of any kind.  Nothing goes.
ManualItem ==
  \E item \in {SimulatedItem(NotANumber, NotRead)} \cup
             {SimulatedItem(c, Simulated(c, simulatedPid + 1)) : c \in GivenCodes} :
    /\ simulatedPid < MaxSimulated
    /\ simulated' = Listed(item)
    /\ simulatedPid' = simulatedPid + 1
    /\ UNCHANGED activeRule

\* setRule(): a rule that does not exist is refused.
SetRule(rule) ==
  /\ activeRule' = IF rule \in SimRules THEN rule ELSE activeRule
  /\ UNCHANGED <<simulated, simulatedPid>>

\* reset() leaves the rule.
ResetSimulated ==
  /\ simulated' = <<>> /\ simulatedPid' = 0
  /\ UNCHANGED activeRule

SimulatorNext ==
  \/ AutoItem \/ ManualItem \/ ResetSimulated
  \/ \E rule \in SimRules \cup {"UNKNOWN"} : SetRule(rule)

SimulatorSpec == SimulatorInit /\ [][SimulatorNext]_simulatorVars

-----------------------------------------------------------------------------
SimulatorTypeOK ==
  /\ activeRule \in SimRules
  /\ simulatedPid \in 0 .. MaxSimulated
  /\ \A i \in DOMAIN simulated :
       [result |-> simulated[i].result, chute |-> simulated[i].assignedChute] \in
         {NotRead, ToReject} \cup {SortedTo(chute) : chute \in 1 .. 10 \cup {15}}

\* An item that is sorted goes to the chute that the description of the rule it
\* bears names, whatever rule is in force by now: odd codes to chute 1 and even ones
\* to 2, multiples of 3 to 3, codes 30000 to 39999 to 15; and under MODULO pids of one
\* last digit, and no others, share a chute
\* (simulator.service.ts:51-54, 112-135, 161-173).
ItemsFollowRules ==
  \A i \in DOMAIN simulated :
    LET s == simulated[i] IN
    s.result = "SUCCESS" =>
      /\ s.rule = "ODD_EVEN" /\ s.code # NotANumber =>
           s.assignedChute = IF s.code % 2 = 1 THEN 1 ELSE 2
      /\ s.rule = "DIVISIBLE" => s.code % 3 = 0 /\ s.assignedChute = 3
      /\ s.rule = "RANGE" => s.code \in 30000 .. 39999 /\ s.assignedChute = 15
      /\ s.rule = "MODULO" =>
           \A j \in DOMAIN simulated :
             LET o == simulated[j] IN
             (o.rule = "MODULO" /\ o.result = "SUCCESS") =>
               (o.assignedChute = s.assignedChute <=> o.pid % 10 = s.pid % 10)
=============================================================================
