----------------------------- MODULE Inspections -----------------------------
(***************************************************************************)
(* Maintenance inspections and test runs of the local relay                *)
(* (apps/local-relay/src/maintenance, src/test-runner).  Both await only   *)
(* what is done already, so a report is complete before any other request  *)
(* can see it.  Each item passes or fails at random, as in the code.       *)
(***************************************************************************)
EXTENDS Integers, Sequences

CONSTANTS
  Conveyors,   \* number of conveyors among the equipment
  MaxReports   \* bound of the model: reports of each service

ASSUME InspectionsAssumption == {Conveyors, MaxReports} \subseteq Nat

VARIABLES inspections, tests   \* the reports, oldest first

inspectionVars == <<inspections, tests>>

InspectionTypes == {"RELAY_BYPASS", "HW_CHECK", "FULL_INSPECTION"}
TestTypes == {"SORTING", "COMMUNICATION", "PROTOCOL", "INTEGRATION"}

\* runHWCheck(): the fixed items, and one for each conveyor
HWCheckItems == 8 + Conveyors

\* Items of each inspection and cases of each test.  The type of a test comes
\* from the request, and no case of the switch takes another one.
InspectionItems(type) ==
  CASE type = "RELAY_BYPASS" -> 5 [] type = "HW_CHECK" -> HWCheckItems
    [] type = "FULL_INSPECTION" -> 12

TestCases(type) ==
  CASE type \in {"SORTING", "COMMUNICATION"} -> 5 [] type = "PROTOCOL" -> 6
    [] type = "INTEGRATION" -> 4 [] OTHER -> 0

InspectionsInit == inspections = <<>> /\ tests = <<>>

-----------------------------------------------------------------------------
Verdict(failed) == IF failed > 0 THEN "FAILED" ELSE "COMPLETED"

\* runInspection(): every item is checked and counted.
RunInspection(type) ==
  \E failed \in 0 .. InspectionItems(type) :
    /\ Len(inspections) < MaxReports
    /\ inspections' = Append(inspections,
         [type |-> type, status |-> Verdict(failed),
          passed |-> InspectionItems(type) - failed, failed |-> failed])
    /\ UNCHANGED tests

\* executeTestCases(): how many of the cases fail
ExecutedTestCases(type) ==
  {[total |-> TestCases(type), passed |-> TestCases(type) - failed, failed |-> failed] :
     failed \in 0 .. TestCases(type)}

\* runTest()
RunTest(type) ==
  \E run \in ExecutedTestCases(type) :
    /\ Len(tests) < MaxReports
    /\ tests' = Append(tests, [type |-> type, status |-> Verdict(run.failed),
                               total |-> run.total, passed |-> run.passed, failed |-> run.failed])
    /\ UNCHANGED inspections

\* cancelTest(): refused unless the test is RUNNING
CancelTest(i) ==
  IF i \notin DOMAIN tests \/ tests[i].status # "RUNNING"
    THEN UNCHANGED inspectionVars
    ELSE tests' = [tests EXCEPT ![i].status = "CANCELLED"] /\ UNCHANGED inspections

InspectionsNext ==
  \/ \E type \in InspectionTypes : RunInspection(type)
  \/ \E type \in TestTypes \cup {"UNKNOWN"} : RunTest(type)
  \/ \E i \in 1 .. MaxReports : CancelTest(i)

InspectionsSpec == InspectionsInit /\ [][InspectionsNext]_inspectionVars

-----------------------------------------------------------------------------
InspectionsTypeOK ==
  /\ \A i \in DOMAIN inspections : inspections[i].status \in {"COMPLETED", "FAILED"}
  /\ \A i \in DOMAIN tests : tests[i].status \in {"COMPLETED", "FAILED", "CANCELLED"}

\* A report that says COMPLETED has seen every item of its kind pass, and still says
\* so whatever is asked of the service afterwards, a cancellation included
\* (maintenance.service.ts:143, test-runner.service.ts:93, 182).
ReportsHonest ==
  /\ \A i \in DOMAIN inspections : LET r == inspections[i] IN
       r.status = "COMPLETED" <=> r.passed = InspectionItems(r.type)
  /\ \A i \in DOMAIN tests : LET r == tests[i] IN
       /\ r.passed + r.failed = TestCases(r.type)
       /\ r.status = "COMPLETED" <=> r.failed = 0
=============================================================================
