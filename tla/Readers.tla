------------------------------ MODULE Readers ------------------------------
(***************************************************************************)
(* The barcode readers of the inductions                                   *)
(* (apps/local-relay/src/ips/ips.service.ts): readings, device states and  *)
(* device alarms.  A reading is counted whatever state its device is in.   *)
(***************************************************************************)
EXTENDS Integers, Sequences, FiniteSets

CONSTANTS
  Devices,          \* ids of the readers (IPS-IND01 to IPS-IND04)
  ReadHistoryCap,   \* MAX_HISTORY (1000)
  MaxReads          \* bound of the model: readings, and alarms per device

ASSUME ReadersAssumption == ReadHistoryCap \in Nat

VARIABLES
  device,           \* state of each reader
  readHistory       \* readings, newest first

readerVars == <<device, readHistory>>

DeviceStatuses == {"ONLINE", "OFFLINE", "ERROR", "MAINTENANCE"}
ReadStatuses == {"SUCCESS", "NO_READ", "MULTI_READ", "ERROR"}

Device == [status : DeviceStatuses, totalReads : Nat, successReads : Nat,
           failedReads : Nat, alarms : Nat]

\* A reading is of 0 barcodes, 1, or more (they come separated by "/").
ReadStatus(barcodes, confident) ==
  IF barcodes = 0 THEN "NO_READ"
  ELSE IF barcodes > 1 THEN "MULTI_READ"
  ELSE IF confident THEN "SUCCESS" ELSE "ERROR"

ReadersInit ==
  /\ device = [d \in Devices |-> [status |-> "ONLINE", totalReads |-> 0, successReads |-> 0,
                                  failedReads |-> 0, alarms |-> 0]]
  /\ readHistory = <<>>

\* processRead(); a device that is not known is recorded in the history only.
ProcessRead(d, barcodes, confident) ==
  LET status == ReadStatus(barcodes, confident)
      grown == <<[device |-> d, status |-> status]>> \o readHistory
  IN
  /\ \A k \in Devices : device[k].totalReads < MaxReads
  /\ readHistory' = IF Len(grown) > ReadHistoryCap
                      THEN SubSeq(grown, 1, ReadHistoryCap) ELSE grown
  /\ device' = IF d \notin Devices THEN device ELSE
       [device EXCEPT ![d].totalReads = @ + 1,
                      ![d].successReads = IF status = "SUCCESS" THEN @ + 1 ELSE @,
                      ![d].failedReads = IF status = "SUCCESS" THEN @ ELSE @ + 1]

SetDeviceStatus(d, status) ==
  /\ device' = [device EXCEPT ![d].status = status]
  /\ UNCHANGED readHistory

AddDeviceAlarm(d) ==
  /\ device[d].alarms < MaxReads
  /\ device' = [device EXCEPT ![d].alarms = @ + 1, ![d].status = "ERROR"]
  /\ UNCHANGED readHistory

\* clearAlarms() brings a device back ONLINE from ERROR only.
ClearDeviceAlarms(d) ==
  /\ device' = [device EXCEPT ![d].alarms = 0,
                              ![d].status = IF @ = "ERROR" THEN "ONLINE" ELSE @]
  /\ UNCHANGED readHistory

ReadersNext ==
  \/ \E d \in Devices \cup {"unknown"}, barcodes \in 0 .. 2, confident \in BOOLEAN :
       ProcessRead(d, barcodes, confident)
  \/ \E d \in Devices : AddDeviceAlarm(d) \/ ClearDeviceAlarms(d)
  \/ \E d \in Devices, status \in DeviceStatuses : SetDeviceStatus(d, status)

ReadersSpec == ReadersInit /\ [][ReadersNext]_readerVars

-----------------------------------------------------------------------------
ReadersTypeOK ==
  /\ device \in [Devices -> Device]
  /\ readHistory \in Seq([device : Devices \cup {"unknown"}, status : ReadStatuses])
  /\ Len(readHistory) <= ReadHistoryCap

\* Every reader's counts add up and cover what the history holds of it
\* (ips.service.ts:102-113).
ReadersTruthful ==
  \A d \in Devices :
    /\ device[d].totalReads = device[d].successReads + device[d].failedReads
    /\ LET kept(ok) == Cardinality({i \in DOMAIN readHistory :
             readHistory[i].device = d /\ ok = (readHistory[i].status = "SUCCESS")})
       IN  kept(TRUE) <= device[d].successReads /\ kept(FALSE) <= device[d].failedReads
=============================================================================
