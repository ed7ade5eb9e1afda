------------------------------ MODULE Sorting ------------------------------
(***************************************************************************)
(* Sorting plans and the sorting engine of the standard software           *)
(* (apps/standard-sw/src/sorting/sorting.service.ts).  A plan's id is the  *)
(* millisecond of its creation: the plans are numbered in the order they   *)
(* were first created in, and one created at the millisecond of another    *)
(* takes its number.                                                       *)
(***************************************************************************)
EXTENDS Integers, Sequences, FiniteSetsExt

CONSTANTS
  Barcodes,        \* the barcodes that come in
  SortHistoryCap,  \* MAX_HISTORY (1000)
  CommLogCap,      \* MAX_COMM_LOG (500)
  MaxPlans,        \* bounds of the model: plans and barcodes
  MaxProcessed

ASSUME SortingAssumption ==
  {SortHistoryCap, CommLogCap, MaxPlans, MaxProcessed} \subseteq Nat

VARIABLES
  plans,           \* status and rules of each plan, by id
  sortHistory,     \* sort events, newest first
  commLog,         \* chutes commanded to the PLC, newest first
  processedCount, successCount, rejectCount,
  inForce,         \* history: the plan activated last, 0 once another took its id
  barcodeless      \* history: requests that brought no barcode

sortingVars == <<plans, sortHistory, commLog, processedCount, successCount, rejectCount,
                 inForce, barcodeless>>

PlanStatuses == {"ACTIVE", "DRAFT", "ARCHIVED"}
SortResults == {"SUCCESS", "REJECT"}
UnsortedChute == 20

\* A barcode as far as the code looks at it: its length, its first two and its
\* next two characters (digits, or 10 for anything else).
Barcode == [length : Nat, head : Seq(0 .. 10), inner : Seq(0 .. 10), allDigits : BOOLEAN]

\* generateRules(): rule i is of priority i and leads to chute i.
GeneratedRules == <<<<0, 1>>, <<0, 2>>, <<0, 3>>, <<0, 4>>, <<0, 5>>, <<0, 6>>,
                    <<1>>, <<2>>, <<3>>, <<4>>>>

Plan == [status : PlanStatuses, rules : {<<>>, GeneratedRules}]

\* initializePlans(): PLAN-001 and PLAN-002.
SortingInit ==
  /\ plans = <<[status |-> "ACTIVE", rules |-> GeneratedRules],
               [status |-> "DRAFT", rules |-> GeneratedRules]>>
  /\ sortHistory = <<>> /\ commLog = <<>>
  /\ processedCount = 0 /\ successCount = 0 /\ rejectCount = 0
  /\ inForce = 1 /\ barcodeless = 0

-----------------------------------------------------------------------------
\* Faulty variant, for the mutant checks: the plan is made ACTIVE before the others are archived.
ActivatedFirst(ps, id) ==
  [p \in DOMAIN ps |-> IF p = id \/ ps[p].status = "ACTIVE"
                         THEN [ps[p] EXCEPT !.status = "ARCHIVED"] ELSE ps[p]]
-----------------------------------------------------------------------------
\* createPlan(): a plan created in the millisecond of another, or again at that
\* millisecond when the clock is set back, takes its place, whatever its status.
CreatePlan(id) ==
  /\ id \in 3 .. Len(plans) + 1 /\ id <= MaxPlans
  /\ plans' = [p \in DOMAIN plans \cup {id} |->
                 IF p = id THEN [status |-> "DRAFT", rules |-> <<>>] ELSE plans[p]]
  /\ inForce' = IF id = inForce THEN 0 ELSE inForce
  /\ UNCHANGED <<sortHistory, commLog, processedCount, successCount, rejectCount, barcodeless>>

\* The ACTIVE plans are archived, then plan id is made ACTIVE, whatever it was.
Activated(ps, id) ==
  [p \in DOMAIN ps |->
     IF p = id THEN [ps[p] EXCEPT !.status = "ACTIVE"]
     ELSE IF ps[p].status = "ACTIVE" THEN [ps[p] EXCEPT !.status = "ARCHIVED"]
     ELSE ps[p]]

\* activatePlan()
ActivatePlan(id) ==
  /\ id \in DOMAIN plans
  /\ plans' = Activated(plans, id) /\ inForce' = id
  /\ UNCHANGED <<sortHistory, commLog, processedCount, successCount, rejectCount, barcodeless>>

\* getActivePlan()
ActivePlans == {p \in DOMAIN plans : plans[p].status = "ACTIVE"}

\* extractZipCode(): the postal code's first two characters, <<>> for none.
\* Any barcode of seven or more that starts with 42 is taken to carry the
\* code behind it, a plain one of the region 42 included.
ExtractZipCode(b) ==
  IF b.length >= 7 /\ b.head = <<4, 2>> THEN b.inner
  ELSE IF b.allDigits /\ b.length >= 5 THEN b.head
  ELSE <<>>

\* matchRule(): the chute of the first rule by priority that is a prefix.
MatchRule(zip, rules) ==
  LET matching == {r \in DOMAIN rules : rules[r] = SubSeq(zip, 1, Len(rules[r]))}
  IN  IF matching = {} THEN {} ELSE {Min(matching)}

\* The chute a barcode is sorted to, none if it is rejected.
AssignedChute(zip) ==
  IF ActivePlans = {} \/ zip = <<>> THEN {} ELSE MatchRule(zip, plans[Min(ActivePlans)].rules)

Rejected(zip, chute) == chute = {}

Recorded(entry, list, cap) == SubSeq(<<entry>> \o list, 1, Min({cap, Len(list) + 1}))

\* processBarcode() with recordSortEvent() and simulatePlcSend().
ProcessBarcode(b) ==
  LET zip == ExtractZipCode(b)
      chute == AssignedChute(zip)
      assigned == IF chute = {} THEN UnsortedChute ELSE Min(chute)
      result == IF chute = {} THEN "REJECT" ELSE "SUCCESS"
  IN
  /\ processedCount < MaxProcessed
  /\ processedCount' = processedCount + 1
  /\ successCount' = IF chute # {} THEN successCount + 1 ELSE successCount
  /\ rejectCount' = IF Rejected(zip, chute) THEN rejectCount + 1 ELSE rejectCount
  /\ sortHistory' = Recorded([chute |-> assigned, result |-> result], sortHistory, SortHistoryCap)
  /\ commLog' = Recorded(assigned, commLog, CommLogCap)
  /\ UNCHANGED <<plans, inForce, barcodeless>>

\* processBarcode() without one counts before extractZipCode() throws.
ProcessNoBarcode ==
  /\ processedCount < MaxProcessed
  /\ processedCount' = processedCount + 1 /\ barcodeless' = barcodeless + 1
  /\ UNCHANGED <<plans, sortHistory, commLog, successCount, rejectCount, inForce>>

SortingNext ==
  \/ \E id \in 1 .. MaxPlans : CreatePlan(id) \/ ActivatePlan(id)
  \/ \E b \in Barcodes : ProcessBarcode(b)
  \/ ProcessNoBarcode

SortingSpec == SortingInit /\ [][SortingNext]_sortingVars

-----------------------------------------------------------------------------
SortEvent == [chute : 1 .. UnsortedChute, result : SortResults]

SortingTypeOK ==
  /\ plans \in Seq(Plan)
  /\ sortHistory \in Seq(SortEvent) /\ Len(sortHistory) <= SortHistoryCap
  /\ commLog \in Seq(1 .. UnsortedChute) /\ Len(commLog) <= CommLogCap
  /\ {processedCount, successCount, rejectCount, barcodeless} \subseteq Nat
  /\ inForce \in 0 .. Len(plans)

\* Mail is sorted by the plan that was activated last and by no other, whatever
\* plans are created and activated again; only a plan created with the very id of
\* that one leaves none ACTIVE (sorting.service.ts:155, 166-177).
OneActivePlan == ActivePlans = IF inForce = 0 THEN {} ELSE {inForce}

\* The statistics account for every request, those that fail for want of a barcode
\* included, and agree with what the history holds of the others
\* (sorting.service.ts:191-230, 262).
SortingAccounts ==
  LET kept(r) == Cardinality({i \in DOMAIN sortHistory : sortHistory[i].result = r}) IN
  /\ processedCount = successCount + rejectCount + barcodeless
  /\ Len(sortHistory) = Min({successCount + rejectCount, SortHistoryCap})
  /\ kept("SUCCESS") <= successCount /\ kept("REJECT") <= rejectCount
=============================================================================
