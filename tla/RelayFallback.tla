--------------------------- MODULE RelayFallback ---------------------------
(***************************************************************************)
(* The central relay while SIMS is away                                    *)
(* (apps/central-relay/src/fallback/fallback.service.ts): the fallback is  *)
(* switched on and off by health checks in a row, and records accepted     *)
(* meanwhile end in CSV files or, at recovery, at SIMS.                    *)
(*                                                                         *)
(* A file is named by its type and the second, a record's id is made of    *)
(* the millisecond and the number of pending records.  Every handler runs  *)
(* without interruption; recovery awaits only what is done already, so its *)
(* status RECOVERING is never seen.                                        *)
(***************************************************************************)
EXTENDS Integers, FiniteSets, SequencesExt

CONSTANTS
  Records,            \* what the centres hand over, each record once
  FailureThreshold,   \* FAILURE_THRESHOLD
  RecoveryThreshold,  \* RECOVERY_THRESHOLD
  MaxRows,            \* MAX_ROWS_PER_FILE
  Second,             \* milliseconds of a second
  MaxTime             \* bound of the clock

ASSUME FallbackAssumption ==
  /\ FailureThreshold \in Nat \ {0}
  /\ RecoveryThreshold \in Nat \ {0}
  /\ MaxRows \in Nat \ {0}
  /\ Second \in Nat \ {0}
  /\ MaxTime \in Nat

VARIABLES
  simsConnected,      \* connectionService.isSimsConnected()
  status,             \* this.status
  failures,           \* consecutiveFailures, up to FailureThreshold
  successes,          \* consecutiveSuccesses, up to RecoveryThreshold
  pendingRecords,     \* this.pendingRecords
  csvFilesGenerated,  \* this.csvFilesGenerated
  csv,                \* the files' records
  sent,               \* records given to SIMS by a recovery
  accepted,           \* history: what addPendingRecord() took
  now                 \* Date.now()

vars == <<simsConnected, status, failures, successes, pendingRecords,
          csvFilesGenerated, csv, sent, accepted, now>>

health == <<simsConnected, status, failures, successes>>

Types == {"SORTING_RESULT", "BINDING_INFO"}

\* What a file is made of: records of one type, or of both.
Selections == Types \cup {"all"}

Item == [record : Records, type : Types, id : Nat \X Nat]
FileName == Selections \X Nat

Selected(items, sel) == {i \in items : sel \in {i.type, "all"}}
RecordsOf(items) == {i.record : i \in items}

-----------------------------------------------------------------------------
(* Faulty variants.  A mutant check replaces an action or operator by one   *)
(* of these and expects a property to fail.                                 *)

\* generateCSVFile() leaves the records it wrote on the pending list.
GenerateCSVKeepsPending(items, sel, written) ==
  LET rows == Selected(items, sel)
      name == <<sel, now \div Second>>
  IN  /\ pendingRecords' = items
      /\ IF rows # {} /\ written
         THEN /\ csvFilesGenerated' = Append(csvFilesGenerated, name)
              /\ csv' = [f \in DOMAIN csv \cup {name} |->
                           IF f = name THEN RecordsOf(rows) ELSE csv[f]]
         ELSE UNCHANGED <<csvFilesGenerated, csv>>

\* generateCSVFile() drops the records of a file it could not write.
GenerateCSVDropsUnwritten(items, sel, written) ==
  LET rows == Selected(items, sel)
      name == <<sel, now \div Second>>
  IN  /\ pendingRecords' = {i \in items : \A row \in rows : i.id # row.id}
      /\ IF rows # {} /\ written
         THEN /\ csvFilesGenerated' = Append(csvFilesGenerated, name)
              /\ csv' = [f \in DOMAIN csv \cup {name} |->
                           IF f = name THEN RecordsOf(rows) ELSE csv[f]]
         ELSE UNCHANGED <<csvFilesGenerated, csv>>

\* generateCSVFile() lists the file before it is written.
GenerateCSVListsFirst(items, sel, written) ==
  LET rows == Selected(items, sel)
      name == <<sel, now \div Second>>
  IN  /\ csvFilesGenerated' = Append(csvFilesGenerated, name)
      /\ IF rows # {} /\ written
         THEN /\ csv' = [f \in DOMAIN csv \cup {name} |->
                           IF f = name THEN RecordsOf(rows) ELSE csv[f]]
              /\ pendingRecords' = {i \in items : \A row \in rows : i.id # row.id}
         ELSE UNCHANGED csv /\ pendingRecords' = items

\* One recovery sends one batch.
RecoverOneBatch ==
  LET batch == IF pendingRecords = {} THEN {} ELSE {CHOOSE i \in pendingRecords : TRUE}
  IN  /\ status' = "INACTIVE"
      /\ sent' = sent \cup RecordsOf(batch)
      /\ pendingRecords' = pendingRecords \ batch

\* A recovery ends in the status COMPLETED.
RecoverCompletes ==
  /\ status' = "COMPLETED"
  /\ sent' = sent \cup RecordsOf(pendingRecords)
  /\ pendingRecords' = {}

-----------------------------------------------------------------------------
Init ==
  /\ simsConnected \in BOOLEAN
  /\ status = "INACTIVE"
  /\ failures = 0
  /\ successes = 0
  /\ pendingRecords = {}
  /\ csvFilesGenerated = <<>>
  /\ csv = [f \in {} |-> {}]
  /\ sent = {}
  /\ accepted = {}
  /\ now = 0

\* generateCSVFile(), for the records items of which some may be new.  Writing
\* can fail before the file is touched.  Records leave the list by their ids.
GenerateCSV(items, sel, written) ==
  LET rows == Selected(items, sel)
      name == <<sel, now \div Second>>
  IN  IF rows # {} /\ written
      THEN /\ csv' = [f \in DOMAIN csv \cup {name} |->
                        IF f = name THEN RecordsOf(rows) ELSE csv[f]]
           /\ csvFilesGenerated' = Append(csvFilesGenerated, name)
           /\ pendingRecords' = {i \in items : \A row \in rows : i.id # row.id}
      ELSE pendingRecords' = items /\ UNCHANGED <<csv, csvFilesGenerated>>

\* addPendingRecord(): a full file is written at once.
AddPendingRecord(r, type, written) ==
  LET item == [record |-> r, type |-> type, id |-> <<now, Cardinality(pendingRecords)>>]
      items == pendingRecords \cup {item}
  IN  /\ status = "ACTIVATED"
      /\ r \notin RecordsOf(accepted)
      /\ accepted' = accepted \cup {item}
      /\ IF Cardinality(Selected(items, type)) >= MaxRows
         THEN GenerateCSV(items, type, written)
         ELSE pendingRecords' = items /\ UNCHANGED <<csvFilesGenerated, csv>>
      /\ UNCHANGED <<health, sent, now>>

\* triggerCSVGeneration(), POST generate-csv with or without a type.
TriggerCSVGeneration(sel, written) ==
  /\ GenerateCSV(pendingRecords, sel, written)
  /\ UNCHANGED <<health, sent, accepted, now>>

\* startRecovery() and syncPendingRecords(): all batches, nothing can fail.
Recover ==
  /\ status' = "INACTIVE"
  /\ sent' = sent \cup RecordsOf(pendingRecords)
  /\ pendingRecords' = {}

\* checkSimsHealth() without SIMS.
SimsCheckFails ==
  /\ ~simsConnected
  /\ successes' = 0
  /\ failures' = IF failures < FailureThreshold THEN failures + 1 ELSE failures
  /\ status' = IF failures' >= FailureThreshold /\ status = "INACTIVE"
               THEN "ACTIVATED" ELSE status
  /\ UNCHANGED <<simsConnected, pendingRecords, csvFilesGenerated, csv, sent, accepted, now>>

\* checkSimsHealth() with SIMS.
SimsCheckSucceeds ==
  /\ simsConnected
  /\ failures' = 0
  /\ successes' = IF successes < RecoveryThreshold THEN successes + 1 ELSE successes
  /\ IF successes' >= RecoveryThreshold /\ status = "ACTIVATED"
     THEN Recover
     ELSE UNCHANGED <<status, sent, pendingRecords>>
  /\ UNCHANGED <<simsConnected, csvFilesGenerated, csv, accepted, now>>

CheckSimsHealth == SimsCheckFails \/ SimsCheckSucceeds

Tick ==
  /\ now < MaxTime
  /\ now' = now + 1
  /\ UNCHANGED <<health, pendingRecords, csvFilesGenerated, csv, sent, accepted>>

FallbackStep ==
  \/ CheckSimsHealth
  \/ \E r \in Records, type \in Types, written \in BOOLEAN : AddPendingRecord(r, type, written)
  \/ \E sel \in Selections, written \in BOOLEAN : TriggerCSVGeneration(sel, written)
  \/ Tick

\* The connection to SIMS comes and goes.  CentralRelay has the real one.
SimsChanges ==
  /\ simsConnected' = ~simsConnected
  /\ UNCHANGED <<status, failures, successes, pendingRecords, csvFilesGenerated, csv, sent,
                 accepted, now>>

Next == FallbackStep \/ SimsChanges

Spec == Init /\ [][Next]_vars

\* The health check's interval of 10 s.
FairSpec == Spec /\ WF_vars(CheckSimsHealth)
-----------------------------------------------------------------------------
TypeOK ==
  /\ simsConnected \in BOOLEAN
  /\ status \in {"INACTIVE", "ACTIVATED"}
  /\ failures \in 0..FailureThreshold
  /\ successes \in 0..RecoveryThreshold
  /\ pendingRecords \in SUBSET Item
  /\ csvFilesGenerated \in Seq(FileName)
  /\ csv \in [ToSet(csvFilesGenerated) -> SUBSET Records]
  /\ sent \in SUBSET Records
  /\ accepted \in SUBSET Item
  /\ now \in Nat

Written == UNION {csv[f] : f \in DOMAIN csv}

\* No two records with one id, no two files with one name.
NoClash ==
  /\ \A i, j \in accepted : i.id = j.id => i = j
  /\ IsInjective(csvFilesGenerated)

\* Unless ids or file names clash, every accepted record is pending, in a file, or
\* at SIMS, whatever writes fail and whenever recovery comes.
KeptUnlessClash ==
  NoClash => RecordsOf(accepted) = RecordsOf(pendingRecords) \cup Written \cup sent

\* No record is delivered twice: a record in a file is in no other file and will
\* not be sent to SIMS as well, even after failed writes and clashes.
DeliveredOnce ==
  /\ \A f, g \in DOMAIN csv : f # g => csv[f] \cap csv[g] = {}
  /\ Written \cap sent = {}
  /\ RecordsOf(pendingRecords) \cap (Written \cup sent) = {}

\* Nothing is left pending when the fallback is over: the next recovery may be
\* months away.
PendingOnlyInFallback == pendingRecords # {} => status = "ACTIVATED"

\* The status is the one the checks so far call for.
ThresholdsDecide ==
  /\ status = "INACTIVE" => failures < FailureThreshold
  /\ status = "ACTIVATED" => successes < RecoveryThreshold

\* A lasting outage activates the fallback for as long as it lasts.
OutageActivates == <>[](~simsConnected) => <>[](status = "ACTIVATED")

\* When SIMS is back to stay, the fallback ends and nothing stays pending.
RecoveryDrains == <>[]simsConnected => <>[](status = "INACTIVE" /\ pendingRecords = {})

\* DEFAULT_CSV_CONFIG: file names have a sequence number, so files do not replace
\* one another and accepted records are kept.
AcceptedRecordsKept ==
  RecordsOf(accepted) \subseteq RecordsOf(pendingRecords) \cup Written \cup sent
=============================================================================
