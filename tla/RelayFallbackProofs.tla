------------------------ MODULE RelayFallbackProofs ------------------------
(***************************************************************************)
(* What RelayFallback's checks show on four records, proved for any        *)
(* number of records, thresholds, rows, and any clock.                     *)
(***************************************************************************)
EXTENDS RelayFallback, FiniteSetTheorems, TLAPS

\* The clock is only needed to be a clock.
LEMMA SecondOf ==
  ASSUME TypeOK
  PROVE  now \div Second \in Nat
BY FallbackAssumption DEF TypeOK, FallbackAssumption

LEMMA ToSetAppend ==
  ASSUME NEW S, NEW s \in Seq(S), NEW e \in S
  PROVE  ToSet(Append(s, e)) = ToSet(s) \cup {e}
<1>1. \A x : x \in ToSet(Append(s, e)) => x \in ToSet(s) \cup {e}
  BY DEF ToSet
<1>2. \A x \in ToSet(s) : x \in ToSet(Append(s, e))
  <2> SUFFICES ASSUME NEW i \in 1..Len(s)
               PROVE  s[i] \in ToSet(Append(s, e))
    BY DEF ToSet
  <2>1. i \in DOMAIN Append(s, e) /\ Append(s, e)[i] = s[i]
    OBVIOUS
  <2>2. QED BY <2>1 DEF ToSet
<1>3. e \in ToSet(Append(s, e))
  <2>1. Len(s) + 1 \in DOMAIN Append(s, e) /\ Append(s, e)[Len(s) + 1] = e
    OBVIOUS
  <2>2. QED BY <2>1 DEF ToSet
<1>4. QED BY <1>1, <1>2, <1>3

(***************************************************************************)
(* Types.                                                                  *)
(***************************************************************************)
\* Ids count the pending records, so these must be finitely many.
FallbackTypes == TypeOK /\ IsFiniteSet(pendingRecords)

LEMMA GenerateCSVType ==
  ASSUME TypeOK, NEW items \in SUBSET Item, IsFiniteSet(items), NEW sel \in Selections,
         NEW written, GenerateCSV(items, sel, written)
  PROVE  /\ pendingRecords' \subseteq items
         /\ IsFiniteSet(pendingRecords')
         /\ csvFilesGenerated' \in Seq(FileName)
         /\ csv' \in [ToSet(csvFilesGenerated') -> SUBSET Records]
<1> DEFINE rows == Selected(items, sel)
           name == <<sel, now \div Second>>
<1>1. CASE rows # {} /\ written
  <2>1. name \in FileName
    BY SecondOf DEF FileName
  <2>2. RecordsOf(rows) \in SUBSET Records
    BY DEF Selected, RecordsOf, Item
  <2>3. /\ csv' = [f \in DOMAIN csv \cup {name} |-> IF f = name THEN RecordsOf(rows) ELSE csv[f]]
        /\ csvFilesGenerated' = Append(csvFilesGenerated, name)
        /\ pendingRecords' = {i \in items : \A row \in rows : i.id # row.id}
    BY <1>1 DEF GenerateCSV
  <2> HIDE DEF rows, name
  <2>4. csvFilesGenerated \in Seq(FileName) /\ csv \in [ToSet(csvFilesGenerated) -> SUBSET Records]
    BY DEF TypeOK
  <2>5. csvFilesGenerated' \in Seq(FileName)
    BY <2>1, <2>3, <2>4
  <2>6. ToSet(csvFilesGenerated') = ToSet(csvFilesGenerated) \cup {name}
    BY <2>1, <2>3, <2>4, ToSetAppend
  <2>7. csv' \in [ToSet(csvFilesGenerated') -> SUBSET Records]
    BY <2>2, <2>3, <2>4, <2>6
  <2>8. pendingRecords' \subseteq items /\ IsFiniteSet(pendingRecords')
    BY <2>3, FS_Subset
  <2>9. QED BY <2>5, <2>7, <2>8
<1>2. CASE ~ (rows # {} /\ written)
  BY <1>2 DEF GenerateCSV, TypeOK
<1>3. QED BY <1>1, <1>2

\* What addPendingRecord() pushes.
NewItem(r, type) == [record |-> r, type |-> type, id |-> <<now, Cardinality(pendingRecords)>>]

LEMMA NewItemType ==
  ASSUME FallbackTypes, NEW r \in Records, NEW type \in Types
  PROVE  /\ NewItem(r, type) \in Item
         /\ pendingRecords \cup {NewItem(r, type)} \in SUBSET Item
         /\ IsFiniteSet(pendingRecords \cup {NewItem(r, type)})
<1>1. Cardinality(pendingRecords) \in Nat
  BY FS_CardinalityType DEF FallbackTypes
<1>2. NewItem(r, type) \in Item
  BY <1>1 DEF NewItem, Item, FallbackTypes, TypeOK
<1>3. QED BY <1>2, FS_AddElement DEF FallbackTypes, TypeOK

LEMMA FallbackTypesInit == Init => FallbackTypes
<1> SUFFICES ASSUME Init PROVE FallbackTypes
  OBVIOUS
<1>1. csvFilesGenerated \in Seq(FileName) /\ ToSet(csvFilesGenerated) = {}
  BY DEF Init, ToSet
<1>2. QED
  BY <1>1, FallbackAssumption, FS_EmptySet DEF Init, FallbackTypes, TypeOK, FallbackAssumption

LEMMA FallbackTypesNext == FallbackTypes /\ [Next]_vars => FallbackTypes'
<1> SUFFICES ASSUME FallbackTypes, [Next]_vars
             PROVE  FallbackTypes'
  OBVIOUS
<1>a. TypeOK /\ IsFiniteSet(pendingRecords)
  BY DEF FallbackTypes
<1>b. FailureThreshold \in Nat \ {0} /\ RecoveryThreshold \in Nat \ {0}
  BY FallbackAssumption DEF FallbackAssumption
<1>1. CASE SimsCheckFails
  <2>1. failures' \in 0..FailureThreshold
    BY <1>a, <1>b, <1>1 DEF SimsCheckFails, TypeOK
  <2>2. QED BY <1>a, <1>b, <1>1, <2>1 DEF SimsCheckFails, TypeOK, FallbackTypes
<1>2. CASE SimsCheckSucceeds
  <2>1. failures' \in 0..FailureThreshold /\ successes' \in 0..RecoveryThreshold
    BY <1>a, <1>b, <1>2 DEF SimsCheckSucceeds, TypeOK
  <2>2. /\ status' \in {"INACTIVE", "ACTIVATED"}
        /\ pendingRecords' \subseteq pendingRecords
        /\ sent' \subseteq Records
    BY <1>a, <1>2 DEF SimsCheckSucceeds, Recover, TypeOK, RecordsOf, Item
  <2>3. IsFiniteSet(pendingRecords')
    BY <1>a, <2>2, FS_Subset
  <2>4. QED BY <1>a, <1>2, <2>1, <2>2, <2>3 DEF SimsCheckSucceeds, TypeOK, FallbackTypes
<1>3. ASSUME NEW r \in Records, NEW type \in Types, NEW written \in BOOLEAN,
             AddPendingRecord(r, type, written)
      PROVE  FallbackTypes'
  <2> DEFINE items == pendingRecords \cup {NewItem(r, type)}
  <2>1. /\ accepted' = accepted \cup {NewItem(r, type)}
        /\ \/ GenerateCSV(items, type, written)
           \/ pendingRecords' = items /\ UNCHANGED <<csvFilesGenerated, csv>>
        /\ UNCHANGED <<health, sent, now>>
    BY <1>3 DEF AddPendingRecord, NewItem
  <2>2. NewItem(r, type) \in Item /\ items \in SUBSET Item /\ IsFiniteSet(items)
    BY NewItemType
  <2>3. type \in Selections
    BY DEF Selections
  <2> HIDE DEF items
  <2>4. /\ pendingRecords' \subseteq items
        /\ IsFiniteSet(pendingRecords')
        /\ csvFilesGenerated' \in Seq(FileName)
        /\ csv' \in [ToSet(csvFilesGenerated') -> SUBSET Records]
    BY <1>a, <2>1, <2>2, <2>3, GenerateCSVType DEF TypeOK
  <2>5. QED BY <1>a, <2>1, <2>2, <2>4 DEF FallbackTypes, TypeOK, health
<1>4. ASSUME NEW sel \in Selections, NEW written \in BOOLEAN, TriggerCSVGeneration(sel, written)
      PROVE  FallbackTypes'
  <2>1. pendingRecords \in SUBSET Item
    BY <1>a DEF TypeOK
  <2>2. /\ pendingRecords' \subseteq pendingRecords
        /\ IsFiniteSet(pendingRecords')
        /\ csvFilesGenerated' \in Seq(FileName)
        /\ csv' \in [ToSet(csvFilesGenerated') -> SUBSET Records]
    BY <1>a, <1>4, <2>1, GenerateCSVType DEF TriggerCSVGeneration
  <2>3. QED BY <1>a, <1>4, <2>1, <2>2 DEF TriggerCSVGeneration, FallbackTypes, TypeOK, health
<1>5. CASE Tick
  BY <1>a, <1>5 DEF Tick, FallbackTypes, TypeOK, health
<1>6. CASE SimsChanges
  BY <1>a, <1>6 DEF SimsChanges, FallbackTypes, TypeOK
<1>7. CASE UNCHANGED vars
  BY <1>a, <1>7 DEF vars, FallbackTypes, TypeOK
<1>8. QED BY <1>1, <1>2, <1>3, <1>4, <1>5, <1>6, <1>7 DEF Next, FallbackStep, CheckSimsHealth

\* Every variable keeps its type; in particular the files on disk are those the
\* service lists.
THEOREM FallbackTypeCorrect == Spec => []TypeOK
<1>1. FallbackTypes => TypeOK
  BY DEF FallbackTypes
<1>2. QED BY FallbackTypesInit, FallbackTypesNext, <1>1, PTL DEF Spec

(***************************************************************************)
(* The status is the one the checks call for, and records are pending only *)
(* in the fallback.                                                        *)
(***************************************************************************)
LEMMA ThresholdsNext == TypeOK /\ ThresholdsDecide /\ [Next]_vars => ThresholdsDecide'
<1> SUFFICES ASSUME TypeOK, ThresholdsDecide, [Next]_vars
             PROVE  ThresholdsDecide'
  OBVIOUS
<1>a. FailureThreshold \in Nat \ {0} /\ RecoveryThreshold \in Nat \ {0}
  BY FallbackAssumption DEF FallbackAssumption
<1>1. CASE SimsCheckFails
  BY <1>a, <1>1 DEF SimsCheckFails, ThresholdsDecide, TypeOK
<1>2. CASE SimsCheckSucceeds
  <2>1. failures' = 0 /\ successes' \in 0..RecoveryThreshold
    BY <1>a, <1>2 DEF SimsCheckSucceeds, TypeOK
  <2>2. CASE successes' >= RecoveryThreshold /\ status = "ACTIVATED"
    BY <1>a, <1>2, <2>1, <2>2 DEF SimsCheckSucceeds, Recover, ThresholdsDecide
  <2>3. CASE ~ (successes' >= RecoveryThreshold /\ status = "ACTIVATED")
    BY <1>a, <1>2, <2>1, <2>3 DEF SimsCheckSucceeds, ThresholdsDecide, TypeOK
  <2>4. QED BY <2>2, <2>3
<1>3. CASE UNCHANGED <<status, failures, successes>>
  BY <1>3 DEF ThresholdsDecide
<1>4. QED
  BY <1>1, <1>2, <1>3 DEF Next, FallbackStep, CheckSimsHealth, AddPendingRecord,
     TriggerCSVGeneration, Tick, SimsChanges, vars, health

\* For all thresholds: FailureThreshold failed checks in a row always find the
\* fallback active, RecoveryThreshold successful ones always find it ended.
THEOREM StatusFollowsChecks == Spec => []ThresholdsDecide
<1>1. Init => ThresholdsDecide
  BY FallbackAssumption DEF Init, ThresholdsDecide, FallbackAssumption
<1>2. FallbackTypes => TypeOK
  BY DEF FallbackTypes
<1>3. QED BY FallbackTypesInit, FallbackTypesNext, ThresholdsNext, <1>1, <1>2, PTL DEF Spec

LEMMA PendingNext == FallbackTypes /\ PendingOnlyInFallback /\ [Next]_vars => PendingOnlyInFallback'
<1> SUFFICES ASSUME FallbackTypes, PendingOnlyInFallback, [Next]_vars
             PROVE  PendingOnlyInFallback'
  OBVIOUS
<1>1. CASE SimsCheckFails
  BY <1>1 DEF SimsCheckFails, PendingOnlyInFallback, FallbackTypes, TypeOK
<1>2. CASE SimsCheckSucceeds
  BY <1>2 DEF SimsCheckSucceeds, Recover, PendingOnlyInFallback
<1>3. ASSUME NEW r \in Records, NEW type \in Types, NEW written \in BOOLEAN,
             AddPendingRecord(r, type, written)
      PROVE  PendingOnlyInFallback'
  BY <1>3 DEF AddPendingRecord, PendingOnlyInFallback, health
<1>4. ASSUME NEW sel \in Selections, NEW written \in BOOLEAN, TriggerCSVGeneration(sel, written)
      PROVE  PendingOnlyInFallback'
  <2>1. pendingRecords' \subseteq pendingRecords /\ status' = status
    BY <1>4, GenerateCSVType DEF TriggerCSVGeneration, FallbackTypes, TypeOK, health
  <2>2. QED BY <2>1 DEF PendingOnlyInFallback
<1>5. CASE UNCHANGED <<status, pendingRecords>>
  BY <1>5 DEF PendingOnlyInFallback
<1>6. QED
  BY <1>1, <1>2, <1>3, <1>4, <1>5
     DEF Next, FallbackStep, CheckSimsHealth, Tick, SimsChanges, vars, health

\* Whatever is accepted and written meanwhile, nothing is pending outside the fallback.
THEOREM NothingPendsAfterwards == Spec => []PendingOnlyInFallback
<1>1. Init => PendingOnlyInFallback
  BY DEF Init, PendingOnlyInFallback
<1>2. QED BY FallbackTypesInit, FallbackTypesNext, PendingNext, <1>1, PTL DEF Spec

(***************************************************************************)
(* Every record is delivered once, and none is lost without a clash.       *)
(***************************************************************************)

\* Items are known by their records, and only accepted ones are anywhere.
Ledger ==
  /\ pendingRecords \subseteq accepted
  /\ \A i, j \in accepted : i.record = j.record => i = j
  /\ Written \cup sent \subseteq RecordsOf(accepted)

\* The accounts with items on the pending list and taken accepted.
Accounts(items, taken) ==
  /\ items \subseteq taken
  /\ \A i, j \in taken : i.record = j.record => i = j
  /\ Written \cup sent \subseteq RecordsOf(taken)
  /\ \A f, g \in DOMAIN csv : f # g => csv[f] \cap csv[g] = {}
  /\ Written \cap sent = {}
  /\ RecordsOf(items) \cap (Written \cup sent) = {}

\* A file moves records from the list to the disk; what it replaces is lost.
LEMMA GenerateCSVAccounts ==
  ASSUME TypeOK, NEW items \in SUBSET Item, NEW taken, Accounts(items, taken),
         NEW sel \in Selections, NEW written, GenerateCSV(items, sel, written),
         sent' = sent, accepted' = taken
  PROVE  (Ledger /\ DeliveredOnce)'
<1> DEFINE rows == Selected(items, sel)
           name == <<sel, now \div Second>>
<1>1. CASE rows # {} /\ written
  <2>1. /\ csv' = [f \in DOMAIN csv \cup {name} |-> IF f = name THEN RecordsOf(rows) ELSE csv[f]]
        /\ pendingRecords' = {i \in items : \A row \in rows : i.id # row.id}
    BY <1>1 DEF GenerateCSV
  <2>2. rows \subseteq items
    BY DEF Selected
  <2> HIDE DEF rows, name
  <2>3. /\ csv'[name] = RecordsOf(rows)
        /\ \A f \in DOMAIN csv' : f # name => f \in DOMAIN csv /\ csv'[f] = csv[f]
    BY <2>1
  <2>4. Written' \subseteq Written \cup RecordsOf(rows)
    BY <2>1, <2>3 DEF Written
  <2>5. pendingRecords' \subseteq items \ rows
    BY <2>1
  <2>6. RecordsOf(rows) \subseteq RecordsOf(items) /\ RecordsOf(items) \subseteq RecordsOf(taken)
    BY <2>2 DEF RecordsOf, Accounts
  <2>7. RecordsOf(pendingRecords') \cap RecordsOf(rows) = {}
    BY <2>2, <2>5 DEF RecordsOf, Accounts
  <2>8. RecordsOf(pendingRecords') \subseteq RecordsOf(items)
    BY <2>5 DEF RecordsOf
  <2>9. \A f \in DOMAIN csv : csv[f] \subseteq Written
    BY DEF Written
  <2>10. Ledger'
    BY <2>4, <2>5, <2>6 DEF Ledger, Accounts, RecordsOf
  <2>11. \A f, g \in DOMAIN csv' : f # g => csv'[f] \cap csv'[g] = {}
    BY <2>3, <2>6, <2>9 DEF Accounts
  <2>12. Written' \cap sent' = {}
    BY <2>4, <2>6 DEF Accounts
  <2>13. RecordsOf(pendingRecords') \cap (Written' \cup sent') = {}
    BY <2>4, <2>7, <2>8 DEF Accounts
  <2>14. RecordsOf(pendingRecords)' = RecordsOf(pendingRecords')
    BY DEF RecordsOf
  <2>15. QED BY <2>10, <2>11, <2>12, <2>13, <2>14 DEF DeliveredOnce
<1>2. CASE ~ (rows # {} /\ written)
  <2>1. pendingRecords' = items /\ csv' = csv
    BY <1>2 DEF GenerateCSV
  <2>2. /\ Written' = Written
        /\ RecordsOf(pendingRecords)' = RecordsOf(items)
        /\ RecordsOf(accepted)' = RecordsOf(taken)
    BY <2>1 DEF Written, RecordsOf
  <2>3. QED BY <2>1, <2>2 DEF Accounts, Ledger, DeliveredOnce
<1>3. QED BY <1>1, <1>2

\* addPendingRecord() takes a record no item has.
LEMMA AddPendingRecordAccounts ==
  ASSUME Ledger, DeliveredOnce, NEW r \in Records, r \notin RecordsOf(accepted), NEW type \in Types
  PROVE  Accounts(pendingRecords \cup {NewItem(r, type)}, accepted \cup {NewItem(r, type)})
<1> DEFINE item == NewItem(r, type)
<1>1. item.record = r
  BY DEF NewItem
<1> HIDE DEF item
<1>2. /\ RecordsOf(accepted \cup {item}) = RecordsOf(accepted) \cup {r}
      /\ RecordsOf(pendingRecords \cup {item}) = RecordsOf(pendingRecords) \cup {r}
  BY <1>1 DEF RecordsOf
<1>3. \A i \in accepted : i.record # r
  BY DEF RecordsOf
<1>4. r \notin Written \cup sent
  BY DEF Ledger
<1>5. \A i, j \in accepted \cup {item} : i.record = j.record => i = j
  BY <1>1, <1>3 DEF Ledger
<1>6. pendingRecords \cup {item} \subseteq accepted \cup {item}
  BY DEF Ledger
<1>7. Written \cup sent \subseteq RecordsOf(accepted \cup {item})
  BY <1>2 DEF Ledger
<1>8. RecordsOf(pendingRecords \cup {item}) \cap (Written \cup sent) = {}
  BY <1>2, <1>4 DEF DeliveredOnce
<1>9. /\ \A f, g \in DOMAIN csv : f # g => csv[f] \cap csv[g] = {}
      /\ Written \cap sent = {}
  BY DEF DeliveredOnce
<1>10. Accounts(pendingRecords \cup {item}, accepted \cup {item})
  BY <1>5, <1>6, <1>7, <1>8, <1>9 DEF Accounts
<1>11. QED BY <1>10 DEF item

LEMMA LedgerNext ==
  FallbackTypes /\ Ledger /\ DeliveredOnce /\ [Next]_vars => (Ledger /\ DeliveredOnce)'
<1> SUFFICES ASSUME FallbackTypes, Ledger, DeliveredOnce, [Next]_vars
             PROVE  (Ledger /\ DeliveredOnce)'
  OBVIOUS
<1>a. TypeOK
  BY DEF FallbackTypes
<1>1. CASE SimsCheckSucceeds
  <2>1. CASE Recover
    <3>1. pendingRecords' = {} /\ sent' = sent \cup RecordsOf(pendingRecords)
          /\ UNCHANGED <<csv, accepted>>
      BY <1>1, <2>1 DEF Recover, SimsCheckSucceeds
    <3>2. RecordsOf(pendingRecords) \subseteq RecordsOf(accepted)
      BY DEF Ledger, RecordsOf
    <3>3. Written' = Written /\ RecordsOf(accepted)' = RecordsOf(accepted)
          /\ RecordsOf(pendingRecords)' = {}
      BY <3>1 DEF Written, RecordsOf
    <3>4. QED BY <3>1, <3>2, <3>3 DEF Ledger, DeliveredOnce
  <2>2. CASE ~Recover
    BY <1>1, <2>2 DEF SimsCheckSucceeds, Ledger, DeliveredOnce, Written, RecordsOf
  <2>3. QED BY <2>1, <2>2
<1>2. ASSUME NEW r \in Records, NEW type \in Types, NEW written \in BOOLEAN,
             AddPendingRecord(r, type, written)
      PROVE  (Ledger /\ DeliveredOnce)'
  <2> DEFINE items == pendingRecords \cup {NewItem(r, type)}
             taken == accepted \cup {NewItem(r, type)}
  <2>1. /\ r \notin RecordsOf(accepted)
        /\ accepted' = taken
        /\ \/ GenerateCSV(items, type, written)
           \/ pendingRecords' = items /\ UNCHANGED csv
        /\ sent' = sent
    BY <1>2 DEF AddPendingRecord, NewItem
  <2>2. Accounts(items, taken)
    BY <2>1, AddPendingRecordAccounts
  <2>3. items \in SUBSET Item /\ type \in Selections
    BY NewItemType DEF Selections
  <2> HIDE DEF items, taken
  <2>4. CASE GenerateCSV(items, type, written)
    BY <1>a, <2>1, <2>2, <2>3, <2>4, GenerateCSVAccounts
  <2>5. CASE pendingRecords' = items /\ UNCHANGED csv
    BY <2>1, <2>2, <2>5 DEF Accounts, Ledger, DeliveredOnce, Written, RecordsOf
  <2>6. QED BY <2>1, <2>4, <2>5
<1>3. ASSUME NEW sel \in Selections, NEW written \in BOOLEAN, TriggerCSVGeneration(sel, written)
      PROVE  (Ledger /\ DeliveredOnce)'
  <2>1. Accounts(pendingRecords, accepted)
    BY DEF Ledger, DeliveredOnce, Accounts
  <2>2. pendingRecords \in SUBSET Item
    BY <1>a DEF TypeOK
  <2>3. QED BY <1>a, <1>3, <2>1, <2>2, GenerateCSVAccounts DEF TriggerCSVGeneration
<1>4. CASE UNCHANGED <<pendingRecords, csv, sent, accepted>>
  BY <1>4 DEF Ledger, DeliveredOnce, Written, RecordsOf
<1>5. QED
  BY <1>1, <1>2, <1>3, <1>4
     DEF Next, FallbackStep, CheckSimsHealth, SimsCheckFails, Tick, SimsChanges, vars

LEMMA LedgerInit == Init => Ledger /\ DeliveredOnce
BY DEF Init, Ledger, DeliveredOnce, Written, RecordsOf

\* Whatever writes fail and however files and ids clash, no record is in two
\* files, in a file and at SIMS, or delivered and still pending.
THEOREM RecordsDeliveredOnce == Spec => []DeliveredOnce
BY FallbackTypesInit, FallbackTypesNext, LedgerInit, LedgerNext, PTL DEF Spec

\* Without a clash a file replaces none and takes no other records along.
LEMMA GenerateCSVKeeps ==
  ASSUME TypeOK, NEW items \in SUBSET Item, NEW taken, Accounts(items, taken),
         NEW sel \in Selections, NEW written, GenerateCSV(items, sel, written),
         \A i, j \in taken : i.id = j.id => i = j, IsInjective(csvFilesGenerated')
  PROVE  RecordsOf(pendingRecords') \cup Written' = RecordsOf(items) \cup Written
<1> DEFINE rows == Selected(items, sel)
           name == <<sel, now \div Second>>
<1>1. CASE rows # {} /\ written
  <2>1. /\ csv' = [f \in DOMAIN csv \cup {name} |-> IF f = name THEN RecordsOf(rows) ELSE csv[f]]
        /\ csvFilesGenerated' = Append(csvFilesGenerated, name)
        /\ pendingRecords' = {i \in items : \A row \in rows : i.id # row.id}
    BY <1>1 DEF GenerateCSV
  <2>2. rows \subseteq items
    BY DEF Selected
  <2>3. name \in FileName
    BY SecondOf DEF FileName
  <2> HIDE DEF rows, name
  <2>4. csvFilesGenerated \in Seq(FileName) /\ DOMAIN csv = ToSet(csvFilesGenerated)
    BY DEF TypeOK
  <2>5. name \notin DOMAIN csv
    <3> SUFFICES ASSUME NEW i \in DOMAIN csvFilesGenerated, csvFilesGenerated[i] = name
                 PROVE  FALSE
      BY <2>4 DEF ToSet
    <3>1. /\ i \in DOMAIN csvFilesGenerated' /\ csvFilesGenerated'[i] = name
          /\ Len(csvFilesGenerated) + 1 \in DOMAIN csvFilesGenerated'
          /\ csvFilesGenerated'[Len(csvFilesGenerated) + 1] = name
          /\ i # Len(csvFilesGenerated) + 1
      BY <2>1, <2>3, <2>4
    <3>2. QED BY <3>1 DEF IsInjective
  <2>a. /\ DOMAIN csv' = DOMAIN csv \cup {name}
        /\ csv'[name] = RecordsOf(rows)
        /\ \A f \in DOMAIN csv : csv'[f] = csv[f]
    BY <2>1, <2>5
  <2>6. Written' = Written \cup RecordsOf(rows)
    <3>1. \A x : x \in Written' => x \in Written \cup RecordsOf(rows)
      BY <2>a DEF Written
    <3>2. \A x : x \in Written => x \in Written'
      BY <2>a DEF Written
    <3>3. \A x : x \in RecordsOf(rows) => x \in Written'
      BY <2>a DEF Written
    <3>4. QED BY <3>1, <3>2, <3>3
  <2>7. pendingRecords' = items \ rows
    BY <2>1, <2>2 DEF Accounts
  <2>8. RecordsOf(pendingRecords') \cup RecordsOf(rows) = RecordsOf(items)
    BY <2>2, <2>7 DEF RecordsOf
  <2>9. QED BY <2>6, <2>8
<1>2. CASE ~ (rows # {} /\ written)
  BY <1>2 DEF GenerateCSV, Written
<1>3. QED BY <1>1, <1>2

\* Clashes stay: accepted items and listed files are never removed.
LEMMA NoClashBefore ==
  ASSUME FallbackTypes, [Next]_vars, NoClash'
  PROVE  NoClash
<1>1. accepted \subseteq accepted'
  BY DEF Next, FallbackStep, CheckSimsHealth, SimsCheckFails, SimsCheckSucceeds, AddPendingRecord,
     TriggerCSVGeneration, Tick, SimsChanges, vars
<1>2. \/ csvFilesGenerated' = csvFilesGenerated
      \/ \E sel \in Selections : csvFilesGenerated' = Append(csvFilesGenerated, <<sel, now \div Second>>)
  BY DEF Next, FallbackStep, CheckSimsHealth, SimsCheckFails, SimsCheckSucceeds, AddPendingRecord,
     TriggerCSVGeneration, GenerateCSV, Tick, SimsChanges, vars, Selections
<1>3. IsInjective(csvFilesGenerated)
  <2>1. CASE csvFilesGenerated' = csvFilesGenerated
    BY <2>1 DEF NoClash
  <2>2. ASSUME NEW sel \in Selections,
               csvFilesGenerated' = Append(csvFilesGenerated, <<sel, now \div Second>>)
        PROVE  IsInjective(csvFilesGenerated)
    <3>1. csvFilesGenerated \in Seq(FileName) /\ <<sel, now \div Second>> \in FileName
      BY SecondOf DEF FallbackTypes, TypeOK, FileName
    <3>2. \A i \in DOMAIN csvFilesGenerated :
            i \in DOMAIN csvFilesGenerated' /\ csvFilesGenerated'[i] = csvFilesGenerated[i]
      BY <2>2, <3>1
    <3>3. QED BY <3>2 DEF NoClash, IsInjective
  <2>3. QED BY <1>2, <2>1, <2>2
<1>4. QED BY <1>1, <1>3 DEF NoClash

LEMMA KeptNext ==
  /\ FallbackTypes /\ Ledger /\ DeliveredOnce /\ KeptUnlessClash /\ [Next]_vars
  => KeptUnlessClash'
<1> SUFFICES ASSUME FallbackTypes, Ledger, DeliveredOnce, KeptUnlessClash, [Next]_vars, NoClash'
             PROVE  RecordsOf(accepted') = RecordsOf(pendingRecords') \cup Written' \cup sent'
  BY DEF KeptUnlessClash, RecordsOf
<1>a. TypeOK
  BY DEF FallbackTypes
<1>b. RecordsOf(accepted) = RecordsOf(pendingRecords) \cup Written \cup sent
  BY NoClashBefore DEF KeptUnlessClash
<1>c. /\ \A i, j \in accepted' : i.id = j.id => i = j
      /\ IsInjective(csvFilesGenerated')
  BY DEF NoClash
<1>1. CASE SimsCheckSucceeds
  <2>1. UNCHANGED <<csv, accepted>>
    BY <1>1 DEF SimsCheckSucceeds
  <2>2. RecordsOf(pendingRecords') \cup sent' = RecordsOf(pendingRecords) \cup sent
    BY <1>1 DEF SimsCheckSucceeds, Recover, RecordsOf
  <2>3. QED BY <1>b, <2>1, <2>2 DEF Written
<1>2. ASSUME NEW r \in Records, NEW type \in Types, NEW written \in BOOLEAN,
             AddPendingRecord(r, type, written)
      PROVE  RecordsOf(accepted') = RecordsOf(pendingRecords') \cup Written' \cup sent'
  <2> DEFINE items == pendingRecords \cup {NewItem(r, type)}
             taken == accepted \cup {NewItem(r, type)}
  <2>1. /\ r \notin RecordsOf(accepted)
        /\ accepted' = taken
        /\ \/ GenerateCSV(items, type, written)
           \/ pendingRecords' = items /\ UNCHANGED csv
        /\ sent' = sent
    BY <1>2 DEF AddPendingRecord, NewItem
  <2>2. Accounts(items, taken)
    BY <2>1, AddPendingRecordAccounts
  <2>3. items \in SUBSET Item /\ type \in Selections
    BY NewItemType DEF Selections
  <2>4. RecordsOf(taken) = RecordsOf(items) \cup Written \cup sent
    BY <1>b DEF RecordsOf
  <2> HIDE DEF items, taken
  <2>5. RecordsOf(pendingRecords') \cup Written' = RecordsOf(items) \cup Written
    <3>1. CASE GenerateCSV(items, type, written)
      BY <1>a, <1>c, <2>1, <2>2, <2>3, <3>1, GenerateCSVKeeps
    <3>2. CASE pendingRecords' = items /\ UNCHANGED csv
      BY <3>2 DEF Written
    <3>3. QED BY <2>1, <3>1, <3>2
  <2>6. QED BY <2>1, <2>4, <2>5
<1>3. ASSUME NEW sel \in Selections, NEW written \in BOOLEAN, TriggerCSVGeneration(sel, written)
      PROVE  RecordsOf(accepted') = RecordsOf(pendingRecords') \cup Written' \cup sent'
  <2>1. Accounts(pendingRecords, accepted)
    BY DEF Ledger, DeliveredOnce, Accounts
  <2>2. pendingRecords \in SUBSET Item
    BY <1>a DEF TypeOK
  <2>3. /\ GenerateCSV(pendingRecords, sel, written)
        /\ accepted' = accepted /\ sent' = sent
    BY <1>3 DEF TriggerCSVGeneration
  <2>4. RecordsOf(pendingRecords') \cup Written' = RecordsOf(pendingRecords) \cup Written
    BY <1>a, <1>c, <2>1, <2>2, <2>3, GenerateCSVKeeps
  <2>5. QED BY <1>b, <2>3, <2>4
<1>4. CASE UNCHANGED <<pendingRecords, csv, sent, accepted>>
  BY <1>b, <1>4 DEF Written
<1>5. QED
  BY <1>1, <1>2, <1>3, <1>4
     DEF Next, FallbackStep, CheckSimsHealth, SimsCheckFails, Tick, SimsChanges, vars

\* For any number of records and rows: as long as no two records got one id and
\* no two files one name, every accepted record is pending, on disk, or at SIMS.
THEOREM RecordsKept == Spec => []KeptUnlessClash
<1>1. Init => KeptUnlessClash
  BY DEF Init, KeptUnlessClash, Written, RecordsOf
<1>2. QED
  BY FallbackTypesInit, FallbackTypesNext, LedgerInit, LedgerNext, KeptNext, <1>1, PTL DEF Spec
=============================================================================
