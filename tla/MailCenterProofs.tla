-------------------------- MODULE MailCenterProofs --------------------------
(***************************************************************************)
(* Proofs about MailCenter: about the services of the standard software,   *)
(* the parcel ids, the telegrams of the channels and the sorter's server,  *)
(* each alone and for any constants, about the data lifecycle scheduler    *)
(* for any numbers of days, rows, missed weeks, periods and parcels, and   *)
(* about all services together.                                            *)
(***************************************************************************)
EXTENDS MailCenter, LocalRelayProofs, WellFoundedInduction

(***************************************************************************)
(* The data lifecycle scheduler: deletions and backups, then the reports   *)
(***************************************************************************)

\* The last backup was that of week k: no more weeks have passed since than were
\* missed, and the one under way.
BackedUpInWeek(k) ==
  /\ Week * k <= day /\ day <= Week * (k + missed + 1)
  /\ day = Week * (k + missed + 1) => ~backupOver

\* Every row from before the backup of week k is in a dump.
DumpedInWeek(k) ==
  \A r \in rows : r.created < Week * k => \E f \in dumps : r \in f.rows

\* The inductive invariant
LifecycleInv ==
  /\ LifecycleTypeOK
  /\ \E k \in Int : BackedUpInWeek(k) /\ DumpedInWeek(k)

-----------------------------------------------------------------------------
\* Only the days Week * k are Sundays.
LEMMA Sundays ==
  ASSUME NEW d \in Nat, NEW w \in Nat \ {0}
  PROVE  /\ d % w = 0 => \E k \in Int : d = w * k
         /\ \A k \in Int : d = w * k => d % w = 0
<1> DEFINE q == d \div w
           m == d % w
<1>1. q \in Int /\ m \in 0 .. w - 1 /\ d = w * q + m
  OBVIOUS
<1> HIDE DEF q, m
<1>2. m = 0 => \E k \in Int : d = w * k
  BY <1>1
<1>3. ASSUME NEW k \in Int, d = w * k PROVE m = 0
  <2>1. w * (k - q) = m
    BY <1>1, <1>3
  <2>2. k - q >= 1 => w * (k - q) >= w
    BY <1>1
  <2>3. k - q <= -1 => w * (k - q) <= -w
    BY <1>1
  <2>4. k - q = 0
    BY <1>1, <2>1, <2>2, <2>3
  <2> QED BY <2>1, <2>4
<1> QED BY <1>2, <1>3 DEF m

LEMMA Retentions == ASSUME LifecycleAssumption, NEW c \in Classes PROVE Retention[c] \in Nat
BY DEF LifecycleAssumption, Classes, Retention

-----------------------------------------------------------------------------
LEMMA LifecycleInitSound == ASSUME LifecycleAssumption, LifecycleInit PROVE LifecycleInv
<1>1. MaxDay \in Nat /\ MaxRows \in Nat /\ Week \in Nat \ {0}
  BY DEF LifecycleAssumption
<1>2. LifecycleTypeOK
  <2>1. /\ day \in 0 .. MaxDay /\ inserted \in 0 .. MaxRows /\ backupOver \in BOOLEAN
        /\ missed \in Nat /\ worstMissed \in Nat /\ missed <= worstMissed
    <3>1. day = 0 /\ inserted = 0 /\ backupOver = FALSE /\ missed = 0 /\ worstMissed = 0
      BY DEF LifecycleInit
    <3>2. 0 \in 0 .. MaxDay /\ 0 \in 0 .. MaxRows /\ 0 \in Nat /\ 0 <= 0
      BY <1>1
    <3>3. backupOver \in BOOLEAN
      BY <3>1
    <3> QED BY <3>1, <3>2, <3>3, Zenon
  <2>2. rows = {} /\ dumps = {}
    BY DEF LifecycleInit
  <2> QED BY <2>1, <2>2, Zenon DEF LifecycleTypeOK
<1>3. BackedUpInWeek(-1) /\ DumpedInWeek(-1)
  BY <1>1 DEF LifecycleInit, BackedUpInWeek, DumpedInWeek
<1> QED BY <1>2, <1>3 DEF LifecycleInv

\* A new row is one of today, on or after the day of the last backup.
LEMMA InsertSound ==
  ASSUME LifecycleAssumption, LifecycleInv, NEW c \in Classes, Insert(c) PROVE LifecycleInv'
<1> DEFINE row == [class |-> c, created |-> day, afterBackup |-> backupOver]
<1>1. /\ rows' = rows \cup {row} /\ inserted < MaxRows /\ inserted' = inserted + 1
      /\ UNCHANGED <<day, dumps, backupOver, missed, worstMissed>>
  BY DEF Insert
<1>2. row \in StoredRow /\ row.created = day
  BY DEF LifecycleInv, LifecycleTypeOK, StoredRow
<1> HIDE DEF row
<1>3. MaxDay \in Nat /\ MaxRows \in Nat /\ Week \in Nat \ {0}
  BY DEF LifecycleAssumption
<1>4. LifecycleTypeOK'
  BY <1>1, <1>2, <1>3 DEF LifecycleInv, LifecycleTypeOK
<1>5. PICK k \in Int : BackedUpInWeek(k) /\ DumpedInWeek(k)
  BY DEF LifecycleInv
<1>6. BackedUpInWeek(k)'
  BY <1>1, <1>5 DEF BackedUpInWeek
<1>7. ~(row.created < Week * k)
  BY <1>2, <1>3, <1>5 DEF BackedUpInWeek, LifecycleInv, LifecycleTypeOK
<1>8. DumpedInWeek(k)'
  BY <1>1, <1>5, <1>7 DEF DumpedInWeek
<1> QED BY <1>4, <1>6, <1>8 DEF LifecycleInv

\* Deletion takes no dump away.
LEMMA DeleteSound ==
  ASSUME LifecycleInv, NEW c \in Classes, Delete(c) PROVE LifecycleInv'
<1>1. rows' \subseteq rows /\ UNCHANGED <<day, dumps, backupOver, inserted, missed, worstMissed>>
  BY DEF Delete
<1>2. LifecycleTypeOK'
  BY <1>1 DEF LifecycleInv, LifecycleTypeOK
<1>3. PICK k \in Int : BackedUpInWeek(k) /\ DumpedInWeek(k)
  BY DEF LifecycleInv
<1>4. BackedUpInWeek(k)' /\ DumpedInWeek(k)'
  BY <1>1, <1>3 DEF BackedUpInWeek, DumpedInWeek
<1> QED BY <1>2, <1>4 DEF LifecycleInv

\* A dump holds rows of today's database.
LEMMA DumpType ==
  ASSUME LifecycleTypeOK, NEW s \in Schemas
  PROVE  /\ Dump(s) \in [made : 0 .. day, schema : Schemas, rows : SUBSET StoredRow]
         /\ Dump(s).made = day
         /\ Dump(s).rows = {r \in rows : SchemaOf(r.class) = s}
<1>1. {r \in rows : SchemaOf(r.class) = s} \subseteq StoredRow
  BY DEF LifecycleTypeOK
<1>2. day \in 0 .. day
  BY DEF LifecycleTypeOK
<1> QED BY <1>1, <1>2 DEF Dump

\* A backup puts every row there is into a dump, which outlives the cleanup that
\* takes older ones away (backup.processor.ts).
LEMMA BackupSound ==
  ASSUME LifecycleAssumption, LifecycleInv, BackupDatabase PROVE LifecycleInv'
<1>1. /\ day % Week = 0 /\ dumps' = CleanedUp(dumps \cup {Dump(s) : s \in Schemas})
      /\ backupOver' = TRUE /\ missed' = 0 /\ UNCHANGED <<day, rows, inserted, worstMissed>>
  BY DEF BackupDatabase, Sunday
<1>2. Week \in Nat \ {0} /\ BackupDays \in Nat /\ day \in Nat /\ LifecycleTypeOK
  BY DEF LifecycleAssumption, LifecycleInv, LifecycleTypeOK
<1>3. PICK k \in Int : day = Week * k
  BY <1>1, <1>2, Sundays
<1>4. BackedUpInWeek(k)'
  <2>1. Week * (k + 0 + 1) = day + Week
    BY <1>2, <1>3
  <2> QED BY <1>1, <1>2, <1>3, <2>1 DEF BackedUpInWeek
<1>5. ASSUME NEW r \in rows PROVE \E f \in dumps' : r \in f.rows
  <2>1. SchemaOf(r.class) \in Schemas
    BY DEF SchemaOf, Schemas
  <2>2. r \in Dump(SchemaOf(r.class)).rows /\ Dump(SchemaOf(r.class)).made = day
    BY <1>2, <2>1, DumpType
  <2>3. Dump(SchemaOf(r.class)) \in dumps'
    BY <1>1, <1>2, <2>1, <2>2 DEF CleanedUp
  <2> QED BY <2>2, <2>3
<1>6. DumpedInWeek(k)'
  BY <1>1, <1>5 DEF DumpedInWeek
<1>7. LifecycleTypeOK'
  <2>1. dumps' \subseteq [made : 0 .. day, schema : Schemas, rows : SUBSET StoredRow]
    BY <1>1, <1>2, DumpType DEF CleanedUp, LifecycleTypeOK
  <2> QED BY <1>1, <1>2, <2>1 DEF LifecycleTypeOK
<1> QED BY <1>4, <1>6, <1>7 DEF LifecycleInv

\* A Sunday without a backup is counted.
LEMMA MissingCounts ==
  ASSUME LifecycleTypeOK, Missing
  PROVE  missed' = missed + 1 /\ missed' \in Nat /\ worstMissed' \in Nat /\ missed' <= worstMissed'
BY DEF LifecycleTypeOK, Missing

\* A failed backup leaves at most one dump more.
LEMMA BackupFailsSound ==
  ASSUME LifecycleAssumption, LifecycleInv, BackupFails PROVE LifecycleInv'
<1>1. PICK made \in {{}, {"psm_operation"}} : dumps' = dumps \cup {Dump(s) : s \in made}
  BY DEF BackupFails
<1>2. backupOver' = TRUE /\ Missing /\ UNCHANGED <<day, rows, inserted>>
  BY DEF BackupFails
<1>3. Week \in Nat \ {0} /\ day \in Nat /\ missed \in Nat /\ LifecycleTypeOK
  BY DEF LifecycleAssumption, LifecycleInv, LifecycleTypeOK
<1>4. /\ missed' = missed + 1 /\ missed' \in Nat
      /\ worstMissed' \in Nat /\ missed' <= worstMissed'
  BY <1>2, <1>3, MissingCounts
<1>5. PICK k \in Int : BackedUpInWeek(k) /\ DumpedInWeek(k)
  BY DEF LifecycleInv
<1>6. BackedUpInWeek(k)'
  <2>1. Week * (k + missed' + 1) = Week * (k + missed + 1) + Week
    BY <1>3, <1>4
  <2> QED BY <1>2, <1>3, <1>4, <1>5, <2>1 DEF BackedUpInWeek
<1>7. DumpedInWeek(k)'
  BY <1>1, <1>2, <1>5 DEF DumpedInWeek
<1>8. LifecycleTypeOK'
  <2>1. made \subseteq Schemas
    BY DEF Schemas
  <2>2. dumps' \subseteq [made : 0 .. day, schema : Schemas, rows : SUBSET StoredRow]
    BY <1>1, <1>3, <2>1, DumpType DEF LifecycleTypeOK
  <2> QED BY <1>2, <1>3, <1>4, <2>2 DEF LifecycleTypeOK
<1> QED BY <1>5, <1>6, <1>7, <1>8 DEF LifecycleInv

\* Midnight: a Sunday that ends without a backup is counted; any other day is not
\* the last of the week under way.
LEMMA NextDaySound ==
  ASSUME LifecycleAssumption, LifecycleInv, NextDay PROVE LifecycleInv'
<1>1. /\ day < MaxDay /\ day' = day + 1 /\ backupOver' = FALSE
      /\ UNCHANGED <<rows, dumps, inserted>>
  BY DEF NextDay
<1>2. Week \in Nat \ {0} /\ MaxDay \in Nat /\ day \in Nat /\ missed \in Nat /\ LifecycleTypeOK
  BY DEF LifecycleAssumption, LifecycleInv, LifecycleTypeOK
<1>3. PICK k \in Int : BackedUpInWeek(k) /\ DumpedInWeek(k)
  BY DEF LifecycleInv
<1>4. BackedUpInWeek(k)' /\ missed' \in Nat /\ worstMissed' \in Nat /\ missed' <= worstMissed'
  <2>1. CASE Sunday /\ ~backupOver
    <3>1. /\ missed' = missed + 1 /\ missed' \in Nat
          /\ worstMissed' \in Nat /\ missed' <= worstMissed'
      BY <1>2, <2>1, MissingCounts DEF NextDay
    <3>2. Week * (k + missed' + 1) = Week * (k + missed + 1) + Week
      BY <1>2, <3>1
    <3> QED BY <1>1, <1>2, <1>3, <3>1, <3>2 DEF BackedUpInWeek
  <2>2. CASE ~(Sunday /\ ~backupOver)
    <3>1. UNCHANGED <<missed, worstMissed>>
      BY <2>2 DEF NextDay
    <3>2. day # Week * (k + missed + 1)
      <4>1. CASE ~Sunday
        <5>1. k + missed + 1 \in Int
          BY <1>2
        <5> QED BY <1>2, <4>1, <5>1, Sundays DEF Sunday
      <4>2. CASE backupOver
        BY <1>3, <4>2 DEF BackedUpInWeek
      <4> QED BY <2>2, <4>1, <4>2
    <3> DEFINE over == Week * (k + missed + 1)
               last == Week * k
    <3>3. over \in Int /\ last \in Int
      BY <1>2
    <3>4. last <= day /\ day < over
      BY <1>2, <1>3, <3>2, <3>3 DEF BackedUpInWeek
    <3>5. last <= day' /\ day' <= over
      <4> HIDE DEF over, last
      <4> QED BY <1>1, <1>2, <3>3, <3>4
    <3> QED BY <1>1, <1>2, <3>1, <3>5 DEF BackedUpInWeek, LifecycleTypeOK
  <2> QED BY <2>1, <2>2
<1>5. DumpedInWeek(k)'
  BY <1>1, <1>3 DEF DumpedInWeek
<1>6. LifecycleTypeOK'
  <2>1. 0 .. day \subseteq 0 .. day'
    BY <1>1, <1>2
  <2>2. dumps \subseteq [made : 0 .. day', schema : Schemas, rows : SUBSET StoredRow]
    BY <1>2, <2>1 DEF LifecycleTypeOK
  <2>3. day' \in 0 .. MaxDay
    BY <1>1, <1>2
  <2>4. rows' \subseteq StoredRow /\ inserted' \in 0 .. MaxRows /\ backupOver' \in BOOLEAN
    BY <1>1, <1>2 DEF LifecycleTypeOK, StoredRow
  <2> QED BY <1>1, <1>4, <2>2, <2>3, <2>4, Zenon DEF LifecycleTypeOK, StoredRow
<1> QED BY <1>4, <1>5, <1>6 DEF LifecycleInv

LEMMA LifecycleStepSound ==
  ASSUME LifecycleAssumption, LifecycleInv, [LifecycleNext]_lifecycleVars PROVE LifecycleInv'
<1>1. CASE \E c \in Classes : Insert(c)
  BY <1>1, InsertSound
<1>2. CASE \/ DeleteLocalStats \/ DeleteMachineState \/ DeleteSortData
           \/ DeleteSimsStats \/ DeleteRegiInfo \/ DeleteSortResult
  BY <1>2, DeleteSound DEF DeleteLocalStats, DeleteMachineState, DeleteSortData,
     DeleteSimsStats, DeleteRegiInfo, DeleteSortResult, Classes, Retention
<1>3. CASE BackupDatabase \/ BackupFails \/ NextDay
  BY <1>3, BackupSound, BackupFailsSound, NextDaySound
<1>4. CASE UNCHANGED lifecycleVars
  BY <1>4 DEF lifecycleVars, LifecycleInv, LifecycleTypeOK, BackedUpInWeek, DumpedInWeek
<1> QED BY <1>1, <1>2, <1>3, <1>4 DEF LifecycleNext

LEMMA LifecycleInvariant == LifecycleSpec => []LifecycleInv
<1>1. LifecycleInit => LifecycleInv
  BY LifecycleAssumption, LifecycleInitSound
<1>2. LifecycleInv /\ [LifecycleNext]_lifecycleVars => LifecycleInv'
  BY LifecycleAssumption, LifecycleStepSound
<1> QED BY <1>1, <1>2, PTL DEF LifecycleSpec

-----------------------------------------------------------------------------
\* A row that goes is one that Delete finds too old.
LEMMA OnlyOldRowsGo ==
  ASSUME LifecycleInv, [LifecycleNext]_lifecycleVars, NEW r \in rows \ rows'
  PROVE  dumps' = dumps /\ r.created < day - Retention[r.class] /\ r.class \in Classes
<1>1. CASE \E c \in Classes : Insert(c)
  BY <1>1 DEF Insert
<1>2. ASSUME NEW c \in Classes, Delete(c)
      PROVE  dumps' = dumps /\ r.created < day - Retention[r.class] /\ r.class \in Classes
  <2>1. r.class = c /\ ~(r.created >= day - Retention[c])
    BY <1>2 DEF Delete, CutoffDay
  <2>2. r.created \in Int /\ day \in Int
    BY DEF LifecycleInv, LifecycleTypeOK, StoredRow
  <2>3. r.created < day - Retention[r.class]
    <3>1. r.class = c /\ Retention[c] \in Int
      BY <2>1, LifecycleAssumption, Retentions
    <3> QED BY <2>1, <2>2, <3>1
  <2> QED BY <1>2, <2>1, <2>3 DEF Delete
<1>3. CASE \/ DeleteLocalStats \/ DeleteMachineState \/ DeleteSortData
           \/ DeleteSimsStats \/ DeleteRegiInfo \/ DeleteSortResult
  BY <1>2, <1>3 DEF DeleteLocalStats, DeleteMachineState, DeleteSortData,
     DeleteSimsStats, DeleteRegiInfo, DeleteSortResult, Classes, Retention
<1>4. CASE BackupDatabase \/ BackupFails \/ NextDay \/ UNCHANGED lifecycleVars
  BY <1>4 DEF BackupDatabase, BackupFails, NextDay, lifecycleVars
<1> QED BY <1>1, <1>3, <1>4 DEF LifecycleNext

\* The state keeps its type (index.ts, batch-delete.processor.ts, backup.processor.ts).
THEOREM LifecycleTypes == LifecycleSpec => []LifecycleTypeOK
<1>1. LifecycleInv => LifecycleTypeOK
  BY DEF LifecycleInv
<1> QED BY <1>1, LifecycleInvariant, PTL

\* A row kept for as many weeks as backups failed in a row, and one more, is in a
\* dump when it is deleted (index.ts:219-237, batch-delete.processor.ts:21).
THEOREM RowsAreBackedUp == LifecycleSpec => BackedUpBeforeDeleted
<1>1. ASSUME LifecycleInv, [LifecycleNext]_lifecycleVars, NEW r \in rows \ rows',
             Retention[r.class] >= Week * (worstMissed + 1)
      PROVE  \E f \in dumps : r \in f.rows
  <2>1. r.created < day - Retention[r.class] /\ r.class \in Classes
    BY <1>1, OnlyOldRowsGo
  <2>2. PICK k \in Int : BackedUpInWeek(k) /\ DumpedInWeek(k)
    BY <1>1 DEF LifecycleInv
  <2>3. /\ Week \in Nat \ {0} /\ day \in Nat /\ missed \in Nat /\ worstMissed \in Nat
        /\ missed <= worstMissed /\ r.created \in Nat /\ Retention[r.class] \in Nat
    BY <1>1, <2>1, LifecycleAssumption, Retentions
    DEF LifecycleAssumption, LifecycleInv, LifecycleTypeOK, StoredRow
  <2>4. Week * (missed + 1) <= Week * (worstMissed + 1)
    BY <2>3
  <2>5. Week * (k + missed + 1) = Week * k + Week * (missed + 1)
    BY <2>3
  <2>6. day <= Week * (k + missed + 1)
    BY <2>2 DEF BackedUpInWeek
  <2> DEFINE last == Week * k
             missedDays == Week * (missed + 1)
             worstDays == Week * (worstMissed + 1)
             over == Week * (k + missed + 1)
             kept == Retention[r.class]
  <2>7. last \in Int /\ missedDays \in Int /\ worstDays \in Int /\ over \in Int /\ kept \in Int
    BY <2>3
  <2>8. /\ r.created < day - kept /\ kept >= worstDays /\ missedDays <= worstDays
        /\ over = last + missedDays /\ day <= over
    BY <1>1, <2>1, <2>4, <2>5, <2>6
  <2>9. r.created < last
    <3> HIDE DEF last, missedDays, worstDays, over, kept
    <3> QED BY <2>3, <2>7, <2>8
  <2> QED BY <1>1, <2>2, <2>9 DEF DumpedInWeek
<1>2. LifecycleInv /\ [LifecycleNext]_lifecycleVars =>
        [\A r \in rows \ rows' :
           Retention[r.class] >= Week * (worstMissed + 1) =>
             \E f \in dumps : r \in f.rows]_lifecycleVars
  BY <1>1
<1> QED BY <1>2, LifecycleInvariant, PTL DEF LifecycleSpec, BackedUpBeforeDeleted

-----------------------------------------------------------------------------
(* The statistics reports.                                                  *)

\* A parcel is in a row for SIMS, or in a local row the next SIMS job sums up.
InSims(i) == \E r \in simsRows : i \in r.counted
Kept(i) ==
  InSims(i) \/ \E r \in localRows : r.at >= ran["sims"] /\ i \in r.counted
BeingWritten(i) == \E r \in unwritten : i \in r.counted

\* The rows of parcels
ParcelRow == [at : Nat, induction : {d.induction : d \in ParcelData},
              chute : {d.chute : d \in ParcelData}, code : {d.code : d \in ParcelData}]

\* The types the argument needs, with the order of the history variables.
ReportInv ==
  /\ ReportTypeOK
  /\ parcels \in Seq(ParcelRow)
  /\ \A i \in DOMAIN parcels : parcels[i].at <= clock
  /\ \A r \in localRows : r.at \in Nat
  /\ ran \in [Jobs -> Nat] /\ written <= ran["local"]

\* Every counted parcel has gone as far as the job that came after it.
NoneLost ==
  (~slipped /\ kind \in {"summary", "chute", "code"}) =>
    \A i \in DOMAIN parcels : Counted(i) =>
      /\ parcels[i].at < written => Kept(i)
      /\ parcels[i].at < ran["local"] => (Kept(i) \/ BeingWritten(i))
      /\ parcels[i].at < covered => InSims(i)

-----------------------------------------------------------------------------
LEMMA ParcelTimes ==
  ASSUME parcels \in Seq(ParcelRow)
  PROVE  \A i \in DOMAIN parcels : parcels[i].at \in Nat
<1>1. \A i \in DOMAIN parcels : parcels[i] \in ParcelRow
  OBVIOUS
<1> QED BY <1>1 DEF ParcelRow

LEMMA Periods ==
  ASSUME ReportAssumption
  PROVE  /\ LocalPeriod \in Nat /\ LocalPeriod > 0
         /\ SimsPeriod \in Nat /\ SimsPeriod > 0
         /\ Period["local"] = LocalPeriod /\ Period["sims"] = SimsPeriod
         /\ MaxTime \in Nat /\ LocalPeriod - 1 <= MaxTime
BY DEF ReportAssumption, Period

\* The rows of a report count parcels that exist.
RowsCount ==
  /\ \A r \in unwritten : r.counted \subseteq DOMAIN parcels
  /\ \A r \in localRows : r.counted \subseteq DOMAIN parcels
  /\ \A r \in simsRows : r.counted \subseteq DOMAIN parcels

\* The type invariant with its sets of rows one by one
ReportTypes0 ==
  /\ kind \in ReportKinds /\ clock \in 0 .. MaxTime /\ slipped \in BOOLEAN
  /\ RowsCount
  /\ {written, covered, ran["local"], ran["sims"]} \subseteq 0 .. clock

LEMMA CountedSets ==
  /\ ReportTypeOK <=> ReportTypes0
  /\ ReportTypeOK' <=> ReportTypes0'
<1>1. (\A i \in 1 .. 3 : \A r \in <<unwritten, localRows, simsRows>>[i] :
         r.counted \subseteq DOMAIN parcels) <=> RowsCount
  <2> DEFINE Rows == <<unwritten, localRows, simsRows>>
  <2>1. Rows[1] = unwritten /\ Rows[2] = localRows /\ Rows[3] = simsRows
    OBVIOUS
  <2>2. 1 .. 3 = {1, 2, 3}
    OBVIOUS
  <2> HIDE DEF Rows
  <2>3. (\A i \in 1 .. 3 : \A r \in Rows[i] : r.counted \subseteq DOMAIN parcels) <=> RowsCount
    BY <2>1, <2>2 DEF RowsCount
  <2> QED BY <2>3 DEF Rows
<1>2. (\A i \in 1 .. 3 : \A r \in <<unwritten', localRows', simsRows'>>[i] :
         r.counted \subseteq DOMAIN (parcels')) <=> RowsCount'
  <2> DEFINE Rows == <<unwritten', localRows', simsRows'>>
  <2>1. Rows[1] = unwritten' /\ Rows[2] = localRows' /\ Rows[3] = simsRows'
    OBVIOUS
  <2>2. 1 .. 3 = {1, 2, 3}
    OBVIOUS
  <2> HIDE DEF Rows
  <2>3. (\A i \in 1 .. 3 : \A r \in Rows[i] : r.counted \subseteq DOMAIN (parcels')) <=> RowsCount'
    BY <2>1, <2>2 DEF RowsCount
  <2> QED BY <2>3 DEF Rows
<1> QED BY <1>1, <1>2, Zenon DEF ReportTypeOK, ReportTypes0

\* The rows of a local job count parcels, and every recent one the kind counts.
LEMMA LocalReportCounts ==
  ASSUME kind \in {"summary", "induction", "chute", "code", "sorter"}
  PROVE  /\ \A r \in LocalReport : r.counted \subseteq DOMAIN parcels
         /\ kind \in {"summary", "chute", "code"} =>
              \A i \in Recent(LocalPeriod) :
                Counted(i) => \E r \in LocalReport : i \in r.counted
<1>0. Recent(LocalPeriod) \subseteq DOMAIN parcels
  BY DEF Recent
<1>1. CASE kind = "summary"
  <2> DEFINE row == [group |-> Null, counted |-> Recent(LocalPeriod)]
  <2>1. LocalReport = {row}
    BY <1>1 DEF LocalReport, LocalSummary
  <2>2. row.counted = Recent(LocalPeriod)
    OBVIOUS
  <2> HIDE DEF row
  <2> QED BY <1>0, <1>1, <2>1, <2>2
<1>2. CASE kind = "sorter"
  BY <1>0, <1>2 DEF LocalReport, LocalSorter
<1>3. CASE kind = "induction"
  <2>1. LocalReport = LocalInduction
    BY <1>3 DEF LocalReport
  <2>2. \A r \in LocalInduction : r.counted \subseteq Recent(LocalPeriod)
    BY DEF LocalInduction, RowsBy
  <2> QED BY <1>0, <1>3, <2>1, <2>2
<1>4. CASE kind = "chute"
  <2> DEFINE row(i) == [group |-> parcels[i].chute,
                        counted |-> {k \in {n \in Recent(LocalPeriod) : parcels[n].chute # Null} :
                                       parcels[k].chute = parcels[i].chute}]
  <2>1. LocalReport = LocalChute
    BY <1>4 DEF LocalReport
  <2>2. \A i \in Recent(LocalPeriod) : parcels[i].chute # Null => row(i) \in LocalChute
    BY DEF LocalChute, RowsBy
  <2>3. \A i \in Recent(LocalPeriod) : Counted(i) => i \in row(i).counted
    BY <1>4 DEF Counted
  <2>4. \A i : Counted(i) => parcels[i].chute # Null
    BY <1>4 DEF Counted
  <2>5. \A r \in LocalChute : r.counted \subseteq Recent(LocalPeriod)
    BY DEF LocalChute, RowsBy
  <2> HIDE DEF row
  <2> QED BY <1>0, <1>4, <2>1, <2>2, <2>3, <2>4, <2>5
<1>5. CASE kind = "code"
  <2> DEFINE of(i) == <<parcels[i].code, parcels[i].chute>>
             row(i) == [group |-> of(i),
                        counted |-> {k \in {n \in Recent(LocalPeriod) : parcels[n].code # Null} :
                                       of(k) = of(i)}]
  <2>1. LocalReport = LocalCode
    BY <1>5 DEF LocalReport
  <2>2. \A i \in Recent(LocalPeriod) : parcels[i].code # Null => row(i) \in LocalCode
    BY DEF LocalCode, RowsBy
  <2>3. \A i \in Recent(LocalPeriod) : Counted(i) => i \in row(i).counted
    BY <1>5 DEF Counted
  <2>4. \A i : Counted(i) => parcels[i].code # Null
    BY <1>5 DEF Counted
  <2>5. \A r \in LocalCode : r.counted \subseteq Recent(LocalPeriod)
    BY DEF LocalCode, RowsBy
  <2> HIDE DEF row
  <2> QED BY <1>0, <1>5, <2>1, <2>2, <2>3, <2>4, <2>5
<1> QED BY <1>1, <1>2, <1>3, <1>4, <1>5

\* The rows for SIMS count what local rows counted, and all that recent ones did.
LEMMA SimsReportCounts ==
  ASSUME kind \in {"summary", "induction", "chute", "code", "sorter"},
         \A r \in localRows : r.counted \subseteq DOMAIN parcels
  PROVE  /\ \A r \in SimsReport : r.counted \subseteq DOMAIN parcels
         /\ kind \in {"summary", "chute", "code"} =>
              \A s \in RecentRows : \A i \in s.counted :
                \E r \in SimsReport : i \in r.counted
<1>0. RecentRows \subseteq localRows
  BY DEF RecentRows
<1>1. CASE kind = "summary"
  <2> DEFINE row == [group |-> Null, counted |-> UNION {r.counted : r \in RecentRows}]
  <2>1. SimsReport = {row}
    BY <1>1 DEF SimsReport, SimsSummary
  <2>2. row.counted = UNION {r.counted : r \in RecentRows}
    OBVIOUS
  <2> HIDE DEF row
  <2>3. \A s \in RecentRows : s.counted \subseteq row.counted
    BY <2>2
  <2>4. row.counted \subseteq DOMAIN parcels
    BY <1>0, <2>2
  <2> QED BY <1>0, <1>1, <2>1, <2>3, <2>4
<1>2. CASE kind = "sorter"
  <2>1. SimsReport = SimsSorter
    BY <1>2 DEF SimsReport
  <2>2. \A r \in SimsSorter : r.counted \subseteq UNION {s.counted : s \in localRows}
    BY DEF SimsSorter
  <2> QED BY <1>2, <2>1, <2>2
<1>3. CASE kind = "induction"
  BY <1>3 DEF SimsReport
<1>4. CASE kind = "chute"
  <2> DEFINE row(s) == [group |-> s.group,
                        counted |-> UNION {r.counted : r \in {t \in RecentRows : t.group = s.group}}]
  <2>1. SimsReport = SimsChute
    BY <1>4 DEF SimsReport
  <2>2. \A s \in RecentRows : row(s) \in SimsChute
    BY DEF SimsChute, SummedBy
  <2>3. \A s \in RecentRows : s.counted \subseteq row(s).counted
    OBVIOUS
  <2>4. \A r \in SimsChute : r.counted \subseteq UNION {s.counted : s \in RecentRows}
    BY DEF SimsChute, SummedBy
  <2> HIDE DEF row
  <2> QED BY <1>0, <1>4, <2>1, <2>2, <2>3, <2>4
<1>5. CASE kind = "code"
  <2> DEFINE row(s) == [group |-> s.group[1],
                        counted |-> UNION {r.counted : r \in {t \in RecentRows :
                                                               t.group[1] = s.group[1]}}]
  <2>1. SimsReport = SimsCode
    BY <1>5 DEF SimsReport
  <2>2. \A s \in RecentRows : row(s) \in SimsCode
    BY DEF SimsCode, SummedBy
  <2>3. \A s \in RecentRows : s.counted \subseteq row(s).counted
    OBVIOUS
  <2>4. \A r \in SimsCode : r.counted \subseteq UNION {s.counted : s \in RecentRows}
    BY DEF SimsCode, SummedBy
  <2> HIDE DEF row
  <2> QED BY <1>0, <1>5, <2>1, <2>2, <2>3, <2>4
<1> QED BY <1>1, <1>2, <1>3, <1>4, <1>5

-----------------------------------------------------------------------------
LEMMA ReportInitSound == ASSUME ReportAssumption, ReportInit PROVE ReportInv /\ NoneLost
<1>1. clock \in 0 .. MaxTime /\ clock \in Nat
  BY Periods DEF ReportInit
<1>2. /\ ran["local"] = clock /\ ran["sims"] = clock /\ ran \in [Jobs -> Nat]
      /\ written = clock /\ covered = clock
  BY <1>1 DEF ReportInit, Jobs
<1>3. ReportTypeOK
  <2>1. {written, covered, ran["local"], ran["sims"]} \subseteq 0 .. clock
    BY <1>1, <1>2
  <2>2. /\ kind \in ReportKinds /\ slipped \in BOOLEAN
        /\ unwritten = {} /\ localRows = {} /\ simsRows = {}
    BY DEF ReportInit
  <2> QED BY <1>1, <2>1, <2>2, CountedSets DEF ReportTypes0, RowsCount
<1>4. parcels = <<>> /\ localRows = {}
  BY DEF ReportInit
<1> QED BY <1>1, <1>2, <1>3, <1>4 DEF ReportInv, NoneLost

\* What a job that begins does to its times; the other job's stay.
LEMMA BeginTimes ==
  ASSUME ReportAssumption, ReportInv, NEW job \in Jobs, Begin(job)
  PROVE  /\ ran' \in [Jobs -> Nat] /\ ran'[job] = clock
         /\ \A j \in Jobs \ {job} : ran'[j] = ran[j]
<1>1. clock \in Nat
  BY Periods DEF ReportInv, ReportTypeOK
<1> QED BY <1>1 DEF ReportInv, Begin

\* A local job counts what is recent; what it had counted before is written.
LEMMA CountLocalSound ==
  ASSUME ReportAssumption, ReportInv, NoneLost, CountLocal
  PROVE  ReportInv' /\ NoneLost'
<1> USE DEF ReportInv
<1>1. /\ ran' \in [Jobs -> Nat] /\ ran'["local"] = clock /\ ran'["sims"] = ran["sims"]
  BY BeginTimes DEF CountLocal, Jobs
<1>2. /\ kind \in {"summary", "induction", "chute", "code", "sorter"}
      /\ clock \in Nat /\ clock \in 0 .. MaxTime
      /\ written \in Nat /\ covered \in Nat /\ ran["local"] \in Nat /\ ran["sims"] \in Nat
      /\ written <= clock /\ covered <= clock /\ ran["local"] <= clock /\ ran["sims"] <= clock
  BY Periods DEF ReportTypeOK, ReportAssumption
<1>3. /\ UNCHANGED <<kind, clock, parcels, localRows, simsRows, covered>>
      /\ unwritten = {} /\ unwritten' = LocalReport
      /\ slipped' = (slipped \/ clock - ran["local"] > LocalPeriod)
      /\ written' = clock \/ written' = written
      /\ LocalReport # {} => written' = written
  BY Periods DEF CountLocal, Slip
<1>4. /\ \A r \in unwritten' : r.counted \subseteq DOMAIN parcels
      /\ kind \in {"summary", "chute", "code"} =>
           \A i \in Recent(LocalPeriod) :
             Counted(i) => \E r \in unwritten' : i \in r.counted
  BY <1>2, <1>3, LocalReportCounts
<1>5. ReportInv'
  <2>1. slipped' \in BOOLEAN
    BY <1>3
  <2>2. {written', covered', ran'["local"], ran'["sims"]} \subseteq 0 .. clock'
    BY <1>1, <1>2, <1>3
  <2>3. ReportTypeOK'
    BY <1>3, <1>4, <2>1, <2>2, CountedSets DEF ReportTypes0, RowsCount, ReportTypeOK
  <2>4. written' <= ran'["local"]
    BY <1>1, <1>2, <1>3
  <2> QED BY <1>1, <1>3, <2>3, <2>4
<1>6. ASSUME ~slipped', kind' \in {"summary", "chute", "code"},
             NEW i \in DOMAIN parcels', Counted(i)'
      PROVE  /\ parcels'[i].at < written' => Kept(i)'
             /\ parcels'[i].at < ran'["local"] => (Kept(i)' \/ BeingWritten(i)')
             /\ parcels'[i].at < covered' => InSims(i)'
  <2>1. /\ ~slipped /\ clock - ran["local"] <= LocalPeriod
        /\ kind \in {"summary", "chute", "code"} /\ i \in DOMAIN parcels /\ Counted(i)
    <3>1. ~slipped /\ ~(clock - ran["local"] > LocalPeriod)
      BY <1>3, <1>6
    <3>2. /\ kind \in {"summary", "chute", "code"} /\ i \in DOMAIN parcels /\ Counted(i)
      BY <1>3, <1>6 DEF Counted
    <3> QED BY <1>2, <3>1, <3>2, Periods
  <2>2. /\ parcels[i].at < written => Kept(i)
        /\ parcels[i].at < ran["local"] => Kept(i)
        /\ parcels[i].at < covered => InSims(i)
    BY <1>3, <2>1 DEF NoneLost, BeingWritten
  <2>3. (InSims(i)' <=> InSims(i)) /\ (Kept(i)' <=> Kept(i))
    BY <1>1, <1>3 DEF InSims, Kept
  <2>4. parcels[i].at \in Nat
    BY <2>1, ParcelTimes
  <2>5. parcels[i].at >= ran["local"] => BeingWritten(i)'
    <3>1. SUFFICES ASSUME parcels[i].at >= ran["local"] PROVE BeingWritten(i)'
      OBVIOUS
    <3>2. i \in Recent(LocalPeriod)
      BY <1>2, <2>1, <2>4, <3>1, Periods DEF Recent
    <3> QED BY <1>4, <2>1, <3>2 DEF BeingWritten
  <2>6. Kept(i)' \/ BeingWritten(i)'
    BY <1>2, <2>2, <2>3, <2>4, <2>5
  <2>7. parcels[i].at < written' => Kept(i)'
    <3>1. CASE LocalReport = {}
      BY <1>3, <2>6, <3>1 DEF BeingWritten
    <3>2. CASE LocalReport # {}
      BY <1>3, <2>2, <2>3, <3>2
    <3> QED BY <3>1, <3>2
  <2> QED BY <1>3, <2>2, <2>3, <2>6, <2>7
<1> QED BY <1>5, <1>6 DEF NoneLost

LEMMA WriteRowSound ==
  ASSUME ReportAssumption, ReportInv, NoneLost, WriteRow
  PROVE  ReportInv' /\ NoneLost'
<1> USE DEF ReportInv
<1>0. PICK r \in unwritten :
        /\ localRows' = localRows \cup {[at |-> clock, asOf |-> ran["local"],
                                      group |-> r.group, counted |-> r.counted]}
        /\ unwritten' = unwritten \ {r}
        /\ written' = IF unwritten = {r} THEN ran["local"] ELSE written
        /\ UNCHANGED <<kind, clock, parcels, simsRows, due, ran, covered, slipped>>
  BY DEF WriteRow
<1> DEFINE new == [at |-> clock, asOf |-> ran["local"],
                   group |-> r.group, counted |-> r.counted]
<1>1. new.at = clock /\ new.counted = r.counted
  OBVIOUS
<1>2. localRows' = localRows \cup {new}
  BY <1>0
<1> HIDE DEF new
<1>3. /\ clock \in Nat /\ written \in Nat /\ ran["local"] \in Nat /\ ran["sims"] \in Nat
      /\ ran["sims"] <= clock /\ ran["local"] <= clock
  BY Periods DEF ReportTypeOK
<1>4. ReportInv'
  <2>1. \A s \in localRows' : s.counted \subseteq DOMAIN parcels
    BY <1>1, <1>2, CountedSets DEF ReportTypes0, RowsCount
  <2>2. \A s \in unwritten' : s.counted \subseteq DOMAIN parcels
    BY <1>0, CountedSets DEF ReportTypes0, RowsCount
  <2>3. {written', covered', ran'["local"], ran'["sims"]} \subseteq 0 .. clock'
    BY <1>0, <1>3 DEF ReportTypeOK
  <2>4. ReportTypeOK'
    BY <1>0, <2>1, <2>2, <2>3, CountedSets DEF ReportTypes0, RowsCount
  <2>5. \A s \in localRows' : s.at \in Nat
    BY <1>1, <1>2, <1>3
  <2>6. written' <= ran'["local"]
    BY <1>0, <1>3
  <2> QED BY <1>0, <2>4, <2>5, <2>6
<1>5. ASSUME ~slipped', kind' \in {"summary", "chute", "code"},
             NEW i \in DOMAIN parcels', Counted(i)'
      PROVE  /\ parcels'[i].at < written' => Kept(i)'
             /\ parcels'[i].at < ran'["local"] => (Kept(i)' \/ BeingWritten(i)')
             /\ parcels'[i].at < covered' => InSims(i)'
  <2>1. /\ ~slipped /\ kind \in {"summary", "chute", "code"}
        /\ i \in DOMAIN parcels /\ Counted(i)
    BY <1>0, <1>5 DEF Counted
  <2>2. /\ parcels[i].at < written => Kept(i)
        /\ parcels[i].at < ran["local"] => (Kept(i) \/ BeingWritten(i))
        /\ parcels[i].at < covered => InSims(i)
    BY <2>1 DEF NoneLost
  <2>3. (InSims(i)' <=> InSims(i)) /\ (Kept(i) => Kept(i)')
    BY <1>0, <1>2 DEF InSims, Kept
  <2>4. i \in r.counted => Kept(i)'
    BY <1>0, <1>1, <1>2, <1>3 DEF Kept
  <2>5. BeingWritten(i) => (i \in r.counted \/ BeingWritten(i)')
    BY <1>0 DEF BeingWritten
  <2>6. unwritten = {r} => ~BeingWritten(i)'
    BY <1>0 DEF BeingWritten
  <2> QED BY <1>0, <2>2, <2>3, <2>4, <2>5, <2>6
<1> QED BY <1>4, <1>5 DEF NoneLost

\* A job that fails slips: only the types remain to be shown.
LEMMA FailureSound ==
  ASSUME ReportAssumption, ReportInv, NoneLost, WriteFails \/ SimsFails
  PROVE  ReportInv' /\ NoneLost'
<1> USE DEF ReportInv
<1>1. /\ clock \in Nat /\ written \in Nat /\ ran["local"] \in Nat /\ ran["sims"] \in Nat
      /\ covered \in 0 .. clock /\ written <= clock
      /\ ran["sims"] <= clock /\ ran["local"] <= clock
  BY Periods DEF ReportTypeOK
<1>2. /\ slipped' = TRUE
      /\ UNCHANGED <<kind, clock, parcels, localRows, simsRows, covered>>
      /\ unwritten' \subseteq unwritten
  BY DEF WriteFails, SimsFails
<1>3. /\ ran' \in [Jobs -> Nat] /\ ran'["local"] = ran["local"]
      /\ ran'["sims"] = ran["sims"] \/ ran'["sims"] = clock
      /\ written' = written \/ written' = ran["local"]
  <2>1. CASE WriteFails
    BY <2>1 DEF WriteFails
  <2>2. CASE SimsFails
    BY <2>2, BeginTimes DEF SimsFails, Jobs
  <2> QED BY <2>1, <2>2
<1>4. {written', covered', ran'["local"], ran'["sims"]} \subseteq 0 .. clock'
  BY <1>1, <1>2, <1>3
<1>5. ReportTypeOK'
  BY <1>2, <1>4, CountedSets DEF ReportTypes0, RowsCount
<1>6. written' <= ran'["local"]
  BY <1>1, <1>3
<1> QED BY <1>2, <1>3, <1>5, <1>6 DEF NoneLost

LEMMA RunSimsSound ==
  ASSUME ReportAssumption, ReportInv, NoneLost, RunSims
  PROVE  ReportInv' /\ NoneLost'
<1> USE DEF ReportInv
<1>1. /\ ran' \in [Jobs -> Nat] /\ ran'["sims"] = clock /\ ran'["local"] = ran["local"]
  BY BeginTimes DEF RunSims, Jobs
<1>2. /\ kind \in {"summary", "induction", "chute", "code", "sorter"}
      /\ clock \in Nat /\ written \in Nat /\ ran["local"] \in Nat /\ ran["sims"] \in Nat
      /\ written <= clock /\ ran["sims"] <= clock /\ ran["local"] <= clock
      /\ covered \in Nat
      /\ \A r \in localRows : r.counted \subseteq DOMAIN parcels
  BY Periods, CountedSets DEF ReportTypes0, RowsCount, ReportTypeOK, ReportAssumption
<1>3. /\ UNCHANGED <<kind, clock, parcels, unwritten, localRows, written>>
      /\ simsRows' = simsRows \cup SimsReport
      /\ slipped' = (slipped \/ clock - ran["sims"] > SimsPeriod)
      /\ covered' = written
  BY Periods DEF RunSims, Slip
<1>4. /\ \A r \in SimsReport : r.counted \subseteq DOMAIN parcels
      /\ kind \in {"summary", "chute", "code"} =>
           \A s \in RecentRows : \A i \in s.counted : \E r \in SimsReport : i \in r.counted
  BY <1>2, SimsReportCounts
<1>5. ReportInv'
  <2>1. {written', covered', ran'["local"], ran'["sims"]} \subseteq 0 .. clock'
    BY <1>1, <1>2, <1>3
  <2>2. slipped' \in BOOLEAN
    BY <1>3
  <2>3. \A r \in simsRows' : r.counted \subseteq DOMAIN parcels
    BY <1>3, <1>4, CountedSets DEF ReportTypes0, RowsCount
  <2>4. ReportTypeOK'
    BY <1>3, <2>1, <2>2, <2>3, CountedSets DEF ReportTypes0, RowsCount
  <2> QED BY <1>1, <1>3, <2>4
<1>6. ASSUME ~slipped', kind' \in {"summary", "chute", "code"},
             NEW i \in DOMAIN parcels', Counted(i)'
      PROVE  /\ parcels'[i].at < written' => Kept(i)'
             /\ parcels'[i].at < ran'["local"] => (Kept(i)' \/ BeingWritten(i)')
             /\ parcels'[i].at < covered' => InSims(i)'
  <2>1. /\ ~slipped /\ clock - ran["sims"] <= SimsPeriod
        /\ kind \in {"summary", "chute", "code"} /\ i \in DOMAIN parcels /\ Counted(i)
    <3>1. ~slipped /\ ~(clock - ran["sims"] > SimsPeriod)
      BY <1>3, <1>6
    <3>2. /\ kind \in {"summary", "chute", "code"} /\ i \in DOMAIN parcels /\ Counted(i)
      BY <1>3, <1>6 DEF Counted
    <3> QED BY <1>2, <3>1, <3>2, Periods
  <2>2. /\ parcels[i].at < written => Kept(i)
        /\ parcels[i].at < ran["local"] => (Kept(i) \/ BeingWritten(i))
    BY <2>1 DEF NoneLost
  <2>3. Kept(i) => InSims(i)'
    <3>1. \A s \in localRows : s.at >= ran["sims"] => s \in RecentRows
      <4>1. TAKE s \in localRows
      <4>2. s.at \in Nat
        OBVIOUS
      <4> QED BY <1>2, <2>1, <4>2, Periods DEF RecentRows
    <3>2. InSims(i) => InSims(i)'
      BY <1>3 DEF InSims
    <3> QED BY <1>3, <1>4, <2>1, <3>1, <3>2 DEF Kept, InSims
  <2>4. InSims(i)' => Kept(i)'
    BY DEF Kept
  <2>5. BeingWritten(i)' <=> BeingWritten(i)
    BY <1>3 DEF BeingWritten
  <2> QED BY <1>1, <1>3, <2>2, <2>3, <2>4, <2>5
<1> QED BY <1>5, <1>6 DEF NoneLost

\* A new parcel is not older than any job; a later time changes no parcel.
LEMMA SortParcelSound ==
  ASSUME ReportAssumption, ReportInv, NoneLost, NEW data \in ParcelData, SortParcel(data)
  PROVE  ReportInv' /\ NoneLost'
<1> USE DEF ReportInv
<1> DEFINE new == [at |-> clock, induction |-> data.induction,
                   chute |-> data.chute, code |-> data.code]
<1>1. /\ clock \in Nat /\ written \in Nat /\ covered \in Nat /\ ran["local"] \in Nat
      /\ written <= clock /\ covered <= clock /\ ran["local"] <= clock
  BY Periods DEF ReportTypeOK
<1>2. new \in ParcelRow /\ new.at = clock
  BY <1>1 DEF ParcelRow
<1>3. /\ UNCHANGED <<kind, clock, unwritten, localRows, simsRows, due, ran, written, covered,
                     slipped>>
      /\ parcels' = Append(parcels, new) /\ parcels \in Seq(ParcelRow)
  BY DEF SortParcel
<1> HIDE DEF new
<1>4. /\ parcels' \in Seq(ParcelRow) /\ DOMAIN parcels \subseteq DOMAIN parcels'
      /\ \A i \in DOMAIN parcels : parcels'[i] = parcels[i]
      /\ \A i \in DOMAIN parcels' \ DOMAIN parcels : parcels'[i] = new
  BY <1>2, <1>3
<1>5. ReportInv'
  <2>1. ReportTypeOK'
    BY <1>3, <1>4, CountedSets DEF ReportTypes0, RowsCount
  <2>2. \A i \in DOMAIN parcels' : parcels'[i].at <= clock'
    BY <1>1, <1>2, <1>3, <1>4
  <2> QED BY <1>3, <1>4, <2>1, <2>2
<1>6. ASSUME ~slipped', kind' \in {"summary", "chute", "code"},
             NEW i \in DOMAIN parcels', Counted(i)'
      PROVE  /\ parcels'[i].at < written' => Kept(i)'
             /\ parcels'[i].at < ran'["local"] => (Kept(i)' \/ BeingWritten(i)')
             /\ parcels'[i].at < covered' => InSims(i)'
  <2>1. CASE i \in DOMAIN parcels
    <3>1. Counted(i) /\ parcels'[i].at = parcels[i].at
      BY <1>3, <1>4, <1>6, <2>1 DEF Counted
    <3>2. /\ InSims(i)' <=> InSims(i)
          /\ Kept(i)' <=> Kept(i)
          /\ BeingWritten(i)' <=> BeingWritten(i)
      BY <1>3 DEF InSims, Kept, BeingWritten
    <3> QED BY <1>3, <1>6, <2>1, <3>1, <3>2 DEF NoneLost
  <2>2. CASE i \notin DOMAIN parcels
    <3>1. parcels'[i].at = clock
      BY <1>2, <1>4, <2>2
    <3> QED BY <1>1, <1>3, <3>1
  <2> QED BY <2>1, <2>2
<1> QED BY <1>5, <1>6 DEF NoneLost

\* No step but time, or none at all.
LEMMA QuietSound ==
  ASSUME ReportAssumption, ReportInv, NoneLost, ReportTick \/ UNCHANGED reportVars
  PROVE  ReportInv' /\ NoneLost'
<1> USE DEF ReportInv
<1>1. /\ UNCHANGED <<kind, parcels, unwritten, localRows, simsRows, due, ran, written,
                     covered, slipped>>
      /\ clock' = clock \/ (clock < MaxTime /\ clock' = clock + 1)
  BY DEF ReportTick, reportVars
<1>2. clock \in Nat /\ clock' \in 0 .. MaxTime /\ clock <= clock'
  BY <1>1, Periods DEF ReportTypeOK
<1>3. {written', covered', ran'["local"], ran'["sims"]} \subseteq 0 .. clock'
  BY <1>1, <1>2 DEF ReportTypeOK
<1>4. ReportTypeOK'
  BY <1>1, <1>2, <1>3, CountedSets DEF ReportTypes0, RowsCount
<1>5. \A i \in DOMAIN parcels' : parcels'[i].at <= clock'
  <2>1. \A i \in DOMAIN parcels : parcels[i].at \in Nat
    BY ParcelTimes
  <2> QED BY <1>1, <1>2, <2>1
<1>6. NoneLost'
  BY <1>1 DEF NoneLost, Counted, InSims, Kept, BeingWritten
<1> QED BY <1>1, <1>4, <1>5, <1>6

LEMMA ReportStepSound ==
  ASSUME ReportAssumption, ReportInv, NoneLost, [ReportNext]_reportVars
  PROVE  ReportInv' /\ NoneLost'
<1>1. CASE CountLocal
  BY <1>1, CountLocalSound
<1>2. CASE WriteRow
  BY <1>2, WriteRowSound
<1>3. CASE WriteFails \/ SimsFails
  BY <1>3, FailureSound
<1>4. CASE RunSims
  BY <1>4, RunSimsSound
<1>5. CASE \E data \in ParcelData : SortParcel(data)
  BY <1>5, SortParcelSound
<1>6. CASE ReportTick \/ UNCHANGED reportVars
  BY <1>6, QuietSound
<1> QED BY <1>1, <1>2, <1>3, <1>4, <1>5, <1>6 DEF ReportNext

LEMMA ReportInvariant == ReportSpec => [](ReportInv /\ NoneLost)
<1>1. ReportInit => ReportInv /\ NoneLost
  BY ReportAssumption, ReportInitSound
<1>2. (ReportInv /\ NoneLost) /\ [ReportNext]_reportVars => (ReportInv /\ NoneLost)'
  BY ReportAssumption, ReportStepSound
<1> QED BY <1>1, <1>2, PTL DEF ReportSpec

\* The rows of the reports count parcels that are in the database, and no job is
\* recorded later than now (packages/database/src/scheduler/batch-report.processor.ts).
THEOREM ReportTypes == ReportSpec => []ReportTypeOK
<1>1. ReportInv => ReportTypeOK
  BY DEF ReportInv
<1> QED BY <1>1, ReportInvariant, PTL

\* For any periods, delays and parcels, no parcel falls between two reports: the
\* windows of ten and of thirty minutes overlap as long as no job fails or runs
\* more than its period after the one before (batch-report.processor.ts:49, 339).
THEOREM NoParcelFallsBetween == ReportSpec => []ReportsMissNothing
<1>1. NoneLost => ReportsMissNothing
  BY DEF NoneLost, ReportsMissNothing, InSims
<1> QED BY <1>1, ReportInvariant, PTL

(***************************************************************************)
(* The standard software, the channels and the sorter's server             *)
(***************************************************************************)

\* The two plans there are at the start are never replaced, and the plan in force is
\* one of the list.
PlansSound ==
  /\ plans \in Seq(Plan) /\ Len(plans) >= 2
  /\ inForce \in 0 .. Len(plans)
  /\ OneActivePlan

-----------------------------------------------------------------------------
LEMMA PlansInit == ASSUME SortingInit PROVE PlansSound
<1>1. Len(plans) = 2 /\ DOMAIN plans = 1 .. 2 /\ plans \in Seq(Plan) /\ inForce = 1
  BY DEF SortingInit, Plan, PlanStatuses
<1>2. plans[1].status = "ACTIVE" /\ plans[2].status = "DRAFT"
  BY DEF SortingInit
<1>3. ActivePlans = {1}
  BY <1>1, <1>2 DEF ActivePlans
<1> QED BY <1>1, <1>3 DEF PlansSound, OneActivePlan

\* A plan that is created is not ACTIVE; the others stay as they are, but for the one
\* whose id it has, which is gone (sorting.service.ts:155-164).
LEMMA CreateKeepsOne ==
  ASSUME PlansSound, NEW id \in 1 .. MaxPlans, CreatePlan(id) PROVE PlansSound'
<1> DEFINE created == [status |-> "DRAFT", rules |-> <<>>]
           len == Len(plans)
<1>1. /\ plans \in Seq(Plan) /\ DOMAIN plans = 1 .. len /\ len \in Nat /\ len >= 2
      /\ inForce \in 0 .. len
  BY DEF PlansSound
<1>2. id \in 3 .. len + 1 /\ inForce' = IF id = inForce THEN 0 ELSE inForce
  BY DEF CreatePlan
<1>3. plans' = [p \in (1 .. len) \cup {id} |-> IF p = id THEN created ELSE plans[p]]
  BY <1>1 DEF CreatePlan
<1>4. created \in Plan /\ created.status = "DRAFT"
  BY DEF Plan, PlanStatuses
<1> HIDE DEF created, len
<1>5. PICK n \in Nat : n >= len /\ n >= 2 /\ (1 .. len) \cup {id} = 1 .. n /\ id \in 1 .. n
  <2>1. CASE id = len + 1
    <3>1. /\ len + 1 \in Nat /\ len + 1 >= len /\ len + 1 >= 2
          /\ (1 .. len) \cup {id} = 1 .. len + 1 /\ id \in 1 .. len + 1
      BY <1>1, <1>2, <2>1
    <3> QED BY <3>1
  <2>2. CASE id # len + 1
    <3>1. (1 .. len) \cup {id} = 1 .. len /\ id \in 1 .. len
      BY <1>1, <1>2, <2>2
    <3> QED BY <1>1, <3>1
  <2> QED BY <2>1, <2>2
<1>6. /\ DOMAIN plans' = 1 .. n /\ plans'[id] = created
      /\ \A p \in 1 .. len : p # id => plans'[p] = plans[p]
      /\ \A p \in 1 .. n : p # id => p \in 1 .. len
  BY <1>3, <1>5
<1>7. plans' \in Seq(Plan) /\ Len(plans') = n
  <2>1. \A p \in 1 .. n : plans'[p] \in Plan
    BY <1>1, <1>4, <1>6
  <2>2. plans' \in [1 .. n -> Plan]
    BY <1>3, <1>5, <1>6, <2>1
  <2> QED BY <1>5, <2>2
<1>8. ActivePlans' = ActivePlans \ {id}
  <2>1. DOMAIN plans \ {id} = DOMAIN plans' \ {id} /\ plans'[id].status # "ACTIVE"
    BY <1>1, <1>3, <1>4, <1>6
  <2>2. \A p \in DOMAIN plans \ {id} : plans'[p] = plans[p]
    BY <1>1, <1>6
  <2> QED BY <2>1, <2>2 DEF ActivePlans
<1>9. OneActivePlan'
  <2>1. ActivePlans = IF inForce = 0 THEN {} ELSE {inForce}
    BY DEF PlansSound, OneActivePlan
  <2>2. id # 0
    BY <1>2
  <2>3. ActivePlans' = IF inForce' = 0 THEN {} ELSE {inForce'}
    BY <1>2, <1>8, <2>1, <2>2
  <2> QED BY <2>3 DEF OneActivePlan
<1>10. inForce' \in 0 .. n
  BY <1>1, <1>2, <1>5
<1> QED BY <1>5, <1>7, <1>9, <1>10 DEF PlansSound

\* A plan that is activated is the only one then (sorting.service.ts:166-177).
LEMMA ActivateKeepsOne ==
  ASSUME PlansSound, NEW id \in 1 .. MaxPlans, ActivatePlan(id) PROVE PlansSound'
<1>1. plans \in Seq(Plan) /\ DOMAIN plans = 1 .. Len(plans) /\ Len(plans) \in Nat
  BY DEF PlansSound
<1>2. id \in DOMAIN plans /\ plans' = Activated(plans, id) /\ inForce' = id
  BY DEF ActivatePlan
<1>3. \A p \in DOMAIN plans :
        /\ plans[p] \in Plan
        /\ [plans[p] EXCEPT !.status = "ACTIVE"] \in Plan
        /\ [plans[p] EXCEPT !.status = "ARCHIVED"] \in Plan
        /\ [plans[p] EXCEPT !.status = "ACTIVE"].status = "ACTIVE"
        /\ [plans[p] EXCEPT !.status = "ARCHIVED"].status = "ARCHIVED"
  <2>1. SUFFICES ASSUME NEW p \in DOMAIN plans
                 PROVE  /\ plans[p] \in Plan
                        /\ [plans[p] EXCEPT !.status = "ACTIVE"] \in Plan
                        /\ [plans[p] EXCEPT !.status = "ARCHIVED"] \in Plan
                        /\ [plans[p] EXCEPT !.status = "ACTIVE"].status = "ACTIVE"
                        /\ [plans[p] EXCEPT !.status = "ARCHIVED"].status = "ARCHIVED"
    OBVIOUS
  <2>2. plans[p] \in Plan
    BY <1>1
  <2> QED BY <2>2 DEF Plan, PlanStatuses
<1>4. DOMAIN plans' = 1 .. Len(plans)
  BY <1>1, <1>2 DEF Activated
<1>5. /\ plans'[id].status = "ACTIVE"
      /\ \A p \in DOMAIN plans : plans'[p] \in Plan /\ (p # id => plans'[p].status # "ACTIVE")
  <2>1. \A p \in DOMAIN plans :
          plans'[p] = IF p = id THEN [plans[p] EXCEPT !.status = "ACTIVE"]
                      ELSE IF plans[p].status = "ACTIVE"
                             THEN [plans[p] EXCEPT !.status = "ARCHIVED"] ELSE plans[p]
    BY <1>2 DEF Activated
  <2>3. plans'[id].status = "ACTIVE"
    BY <1>2, <1>3, <2>1
  <2>4. SUFFICES ASSUME NEW p \in DOMAIN plans
                 PROVE  plans'[p] \in Plan /\ (p # id => plans'[p].status # "ACTIVE")
    BY <2>3
  <2>5. CASE p = id
    BY <1>3, <2>1, <2>5
  <2>6. CASE p # id /\ plans[p].status = "ACTIVE"
    BY <1>3, <2>1, <2>6
  <2>7. CASE p # id /\ plans[p].status # "ACTIVE"
    BY <1>3, <2>1, <2>7
  <2> QED BY <2>5, <2>6, <2>7
<1>6. plans' \in Seq(Plan) /\ Len(plans') = Len(plans)
  <2>1. plans' \in [1 .. Len(plans) -> Plan]
    BY <1>1, <1>2, <1>4, <1>5 DEF Activated
  <2> QED BY <1>1, <2>1
<1>7. ActivePlans' = {id}
  BY <1>1, <1>2, <1>4, <1>5 DEF ActivePlans
<1>8. OneActivePlan' /\ inForce' \in 0 .. Len(plans')
  <2>1. id # 0 /\ id \in 0 .. Len(plans)
    BY <1>1, <1>2
  <2> QED BY <1>2, <1>6, <1>7, <2>1 DEF OneActivePlan
<1>9. Len(plans') >= 2
  BY <1>6 DEF PlansSound
<1> QED BY <1>6, <1>8, <1>9 DEF PlansSound

\* Only the plan activated last is ACTIVE, and it is unless a plan created with its
\* very id took its place, for any number of plans (sorting.service.ts:155, 166-177).
THEOREM AlwaysOneActivePlan == SortingSpec => []OneActivePlan
<1>1. SortingInit => PlansSound
  BY PlansInit
<1>2. PlansSound /\ [SortingNext]_sortingVars => PlansSound'
  <2>1. PlansSound /\ ((\E b \in Barcodes : ProcessBarcode(b)) \/ ProcessNoBarcode)
        => PlansSound'
    BY DEF ProcessBarcode, ProcessNoBarcode, PlansSound, OneActivePlan, ActivePlans
  <2>2. PlansSound /\ UNCHANGED sortingVars => PlansSound'
    BY DEF sortingVars, PlansSound, OneActivePlan, ActivePlans
  <2> QED BY <2>1, <2>2, CreateKeepsOne, ActivateKeepsOne DEF SortingNext
<1>3. PlansSound => OneActivePlan
  BY DEF PlansSound
<1> QED BY <1>1, <1>2, <1>3, PTL DEF SortingSpec

-----------------------------------------------------------------------------
\* The last id of a range comes RangeSize - 1 after its first, and the ranges of
\* two inductions are apart.
LEMMA RangesApart ==
  ASSUME PidAssumption, NEW r \in Ranges, NEW s \in Ranges
  PROVE  /\ RangeStart(r) \in Nat \ {0} /\ RangeEnd(r) = RangeStart(r) + RangeSize - 1
         /\ r # s => RangeEnd(r) < RangeStart(s) \/ RangeEnd(s) < RangeStart(r)
<1>1. /\ r[1] \in Nat \ {0} /\ s[1] \in Nat \ {0}
      /\ r[2] \in {"auto", "key"} /\ s[2] \in {"auto", "key"}
      /\ r = <<r[1], r[2]>> /\ s = <<s[1], s[2]>>
  <2>1. \A x \in Ranges : x[1] \in Inductions /\ x[2] \in PIDModes /\ x = <<x[1], x[2]>>
    BY DEF Ranges
  <2> QED BY <2>1 DEF PidAssumption, PIDModes
<1>2. RangeSize \in Nat \ {0} /\ Block \in Nat /\ 2 * RangeSize <= Block
  BY DEF PidAssumption
<1>3. r[1] * Block \in Nat /\ s[1] * Block \in Nat
  BY <1>1, <1>2
<1>4. ASSUME NEW a \in Nat, NEW b \in Nat, a < b PROVE a * Block + Block <= b * Block
  <2>1. a + 1 <= b /\ (a + 1) * Block = a * Block + Block
    BY <1>2, <1>4
  <2>2. (a + 1) * Block <= b * Block
    BY <1>2, <2>1
  <2> QED BY <2>1, <2>2
<1>5. RangeStart(r) \in Nat \ {0} /\ RangeEnd(r) = RangeStart(r) + RangeSize - 1
  BY <1>1, <1>2, <1>3 DEF RangeStart, RangeEnd
<1>6. ASSUME NEW x \in Ranges, NEW y \in Ranges, x[1] \in Nat, y[1] \in Nat, x[1] < y[1]
      PROVE  RangeEnd(x) < RangeStart(y)
  <2> DEFINE xb == x[1] * Block
             yb == y[1] * Block
  <2>1. xb + Block <= yb /\ xb \in Nat /\ yb \in Nat
    BY <1>2, <1>4, <1>6
  <2>2. RangeEnd(x) <= xb + 2 * RangeSize
    <3> HIDE DEF yb
    <3> QED BY <1>2, <2>1 DEF RangeStart, RangeEnd
  <2>3. RangeStart(y) >= yb + 1
    BY <1>2, <2>1 DEF RangeStart
  <2>4. RangeEnd(x) \in Int /\ RangeStart(y) \in Int
    BY <1>2, <2>1 DEF RangeStart, RangeEnd
  <2> HIDE DEF xb, yb
  <2> QED BY <1>2, <2>1, <2>2, <2>3, <2>4
<1>7. ASSUME r # s, r[1] = s[1]
      PROVE  RangeEnd(r) < RangeStart(s) \/ RangeEnd(s) < RangeStart(r)
  <2>1. r[2] # s[2]
    BY <1>1, <1>7
  <2> QED BY <1>1, <1>2, <1>3, <1>7, <2>1 DEF RangeStart, RangeEnd
<1> QED BY <1>1, <1>5, <1>6, <1>7

\* The id later comes k after the id earlier, or after a round less.
Apart(earlier, later, k) ==
  \/ later = earlier + k
  \/ later = earlier + k - RangeSize

\* The ids of one range since its reset: each lies in the range, the counter is one
\* past the last, and between two not RangeSize apart the count went round at most once.
Round(r) ==
  LET n == Len(issued[r]) IN
  /\ n = 0 <=> counter[r] = 0
  /\ n > 0 => counter[r] = issued[r][n] + 1
  /\ \A i \in 1 .. n : RangeStart(r) <= issued[r][i] /\ issued[r][i] <= RangeEnd(r)
  /\ \A i, j \in 1 .. n :
       (i <= j /\ j < i + RangeSize) => Apart(issued[r][i], issued[r][j], j - i)

PidInv == PidTypeOK /\ \A r \in Ranges : Round(r)

LEMMA PidInitSound == ASSUME PidInit PROVE PidInv
BY DEF PidInit, PidInv, PidTypeOK, Round

\* The distance of two ids grows by one with the next, less RangeSize if the count goes
\* round.
LEMMA NextDistance ==
  ASSUME NEW size \in Nat \ {0}, NEW start \in Nat, NEW k \in Nat, k + 1 < size,
         NEW earlier \in start .. start + size - 1, NEW last \in start .. start + size - 1,
         NEW next \in Nat,
         last = earlier + k \/ last = earlier + k - size,
         next = last + 1 \/ (next = start /\ last = start + size - 1)
  PROVE  next = earlier + (k + 1) \/ next = earlier + (k + 1) - size
OBVIOUS

\* The next id follows the last one, or is the first of the range after its last
\* (pid.ts:39-49).
LEMMA GenerateSound ==
  ASSUME PidAssumption, PidInv, NEW r \in Ranges, Generate(r) PROVE PidInv'
<1> DEFINE n == Len(issued[r])
           pid == NextPid(r)
           start == RangeStart(r)
           end == RangeEnd(r)
<1>1. /\ start \in Nat \ {0} /\ end = start + RangeSize - 1 /\ RangeSize \in Nat \ {0}
  BY RangesApart DEF PidAssumption
<1>2. /\ counter \in [Ranges -> Nat] /\ issued \in [Ranges -> Seq(Nat)]
      /\ issued[r] \in Seq(Nat) /\ n \in Nat /\ counter[r] \in Nat /\ Round(r)
  BY DEF PidInv, PidTypeOK
<1>3. counter' = [counter EXCEPT ![r] = pid + 1] /\ issued' = [issued EXCEPT ![r] = Append(@, pid)]
  BY DEF Generate
<1>4. pid = IF counter[r] = 0 \/ counter[r] > end THEN start ELSE counter[r]
  BY DEF NextPid
<1> HIDE DEF pid, start, end
<1>5. \A i \in 1 .. n : issued[r][i] \in Nat
  BY <1>2
<1>6. pid \in Nat /\ start <= pid /\ pid <= end /\ end \in Nat
  <2>1. n > 0 => counter[r] = issued[r][n] + 1 /\ start <= issued[r][n]
    BY <1>2, <1>5 DEF Round, start
  <2>2. n = 0 => counter[r] = 0
    BY <1>2 DEF Round
  <2> QED BY <1>1, <1>2, <1>4, <1>5, <2>1, <2>2
<1>7. n > 0 => \/ pid = issued[r][n] + 1
               \/ pid = start /\ issued[r][n] = end
  <2>1. SUFFICES ASSUME n > 0
                 PROVE  \/ pid = issued[r][n] + 1
                        \/ pid = start /\ issued[r][n] = end
    OBVIOUS
  <2>2. counter[r] = issued[r][n] + 1 /\ issued[r][n] <= end /\ issued[r][n] \in Nat
    BY <1>2, <1>5, <2>1 DEF Round, end
  <2> QED BY <1>4, <1>6, <2>2
<1>8. /\ issued'[r] = Append(issued[r], pid) /\ issued'[r] \in Seq(Nat)
      /\ Len(issued'[r]) = n + 1 /\ issued'[r][n + 1] = pid
      /\ \A i \in 1 .. n : issued'[r][i] = issued[r][i]
      /\ counter'[r] = pid + 1
  BY <1>2, <1>3, <1>6
<1>9. ASSUME NEW i \in 1 .. n, n + 1 < i + RangeSize
      PROVE  Apart(issued[r][i], pid, n + 1 - i)
  <2>1. i \in Nat /\ i >= 1 /\ i <= n /\ n \in 1 .. n /\ n < i + RangeSize
    BY <1>1, <1>2, <1>9
  <2>2. Apart(issued[r][i], issued[r][n], n - i)
    BY <1>2, <2>1, <1>9 DEF Round
  <2>3. issued[r][i] \in Nat /\ issued[r][n] \in Nat 
        /\ issued[r][i] <= end /\ start <= issued[r][i]
        /\ issued[r][n] <= end /\ start <= issued[r][n]
    BY <1>2, <1>5, <1>9, <2>1 DEF Round, start, end
  <2>4. pid = issued[r][n] + 1 \/ (pid = start /\ issued[r][n] = end)
    BY <1>7, <2>1
  <2>5. /\ n - i \in Nat /\ n - i + 1 < RangeSize /\ start \in Nat
        /\ issued[r][i] \in start .. start + RangeSize - 1
        /\ issued[r][n] \in start .. start + RangeSize - 1
    BY <1>1, <1>2, <1>9, <2>1, <2>3
  <2>6. Apart(issued[r][i], pid, n - i + 1)
    <3> HIDE DEF n
    <3> QED BY <1>1, <1>6, <2>2, <2>4, <2>5, NextDistance DEF Apart
  <2>7. n - i + 1 = n + 1 - i
    BY <1>2, <2>1
  <2> QED BY <2>6, <2>7
<1>10. Round(r)'
  <2>1. \A i \in 1 .. n + 1 : RangeStart(r) <= issued'[r][i] /\ issued'[r][i] <= RangeEnd(r)
    BY <1>2, <1>6, <1>8 DEF Round, start, end
  <2>2. ASSUME NEW i \in 1 .. n + 1, NEW j \in 1 .. n + 1, i <= j, j < i + RangeSize
        PROVE  Apart(issued'[r][i], issued'[r][j], j - i)
    <3>1. CASE j \in 1 .. n
      <4>1. i \in 1 .. n
        BY <1>2, <2>2, <3>1
      <4> QED BY <1>2, <1>8, <2>2, <3>1, <4>1 DEF Round
    <3>2. CASE j = n + 1 /\ i \in 1 .. n
      BY <1>2, <1>8, <1>9, <2>2, <3>2
    <3>3. CASE j = n + 1 /\ i = n + 1
      <4>1. j - i = 0 /\ issued'[r][j] = issued'[r][i] /\ issued'[r][i] \in Nat
        BY <1>2, <1>6, <1>8, <3>3
      <4> QED BY <4>1 DEF Apart
    <3> QED BY <1>2, <2>2, <3>1, <3>2, <3>3
  <2>3. n + 1 > 0 /\ pid + 1 # 0 /\ n + 1 # 0
    BY <1>2, <1>6
  <2>4. counter'[r] = issued'[r][n + 1] + 1
    BY <1>8
  <2> HIDE DEF n
  <2> QED BY <1>8, <2>1, <2>2, <2>3, <2>4 DEF Round, Apart
<1>11. \A s \in Ranges : s # r => issued'[s] = issued[s] /\ counter'[s] = counter[s]
  BY <1>2, <1>3
<1>12. \A s \in Ranges : Round(s)'
  <2>1. SUFFICES ASSUME NEW s \in Ranges, s # r PROVE Round(s)'
    BY <1>10
  <2>2. issued'[s] = issued[s] /\ counter'[s] = counter[s] /\ Round(s)
    BY <1>11, <2>1 DEF PidInv
  <2> QED BY <2>2 DEF Round
<1>13. PidTypeOK'
  BY <1>2, <1>3, <1>6 DEF PidTypeOK
<1> QED BY <1>12, <1>13 DEF PidInv

\* A reset begins a range anew (pid.ts:51-58).
LEMMA ResetSound ==
  ASSUME PidInv, NEW inductions, ResetPids(inductions) PROVE PidInv'
<1>1. PidTypeOK'
  BY DEF PidInv, PidTypeOK, ResetPids
<1>2. ASSUME NEW r \in Ranges PROVE Round(r)'
  <2>1. CASE r[1] \in inductions
    <3>1. counter'[r] = 0 /\ issued'[r] = <<>>
      BY <2>1 DEF ResetPids
    <3> QED BY <3>1 DEF Round
  <2>2. CASE r[1] \notin inductions
    <3>1. counter'[r] = counter[r] /\ issued'[r] = issued[r]
      BY <2>2 DEF ResetPids
    <3> QED BY <3>1 DEF PidInv, Round
  <2> QED BY <2>1, <2>2
<1> QED BY <1>1, <1>2 DEF PidInv

LEMMA NearIdsDiffer ==
  ASSUME PidAssumption, NEW a \in Nat, NEW b \in Nat, NEW k \in 1 .. RangeSize - 1,
         Apart(a, b, k)
  PROVE  a # b
BY DEF Apart, PidAssumption

LEMMA RoundsDistinct == ASSUME PidAssumption, PidInv PROVE PidsDistinct
<1>1. SUFFICES ASSUME NEW r \in Ranges
               PROVE  /\ \A i \in DOMAIN issued[r] : Resolve(issued[r][i]) = {r}
                      /\ \A i, j \in DOMAIN issued[r] :
                           (i < j /\ j < i + RangeSize) => issued[r][i] # issued[r][j]
  BY DEF PidsDistinct
<1>2. /\ Round(r) /\ issued[r] \in Seq(Nat) /\ DOMAIN issued[r] = 1 .. Len(issued[r])
      /\ Len(issued[r]) \in Nat /\ RangeSize \in Nat \ {0}
  BY DEF PidInv, PidTypeOK, PidAssumption
<1>3. ASSUME NEW i \in DOMAIN issued[r] PROVE Resolve(issued[r][i]) = {r}
  <2>1. issued[r][i] \in Nat /\ RangeStart(r) <= issued[r][i] /\ issued[r][i] <= RangeEnd(r)
    BY <1>2, <1>3 DEF Round
  <2>2. ASSUME NEW s \in Ranges, s # r
        PROVE  ~(RangeStart(s) <= issued[r][i] /\ issued[r][i] <= RangeEnd(s))
    <3>1. /\ RangeStart(r) \in Int /\ RangeStart(s) \in Int
          /\ RangeEnd(r) = RangeStart(r) + RangeSize - 1
          /\ RangeEnd(s) = RangeStart(s) + RangeSize - 1
          /\ RangeEnd(r) < RangeStart(s) \/ RangeEnd(s) < RangeStart(r)
      BY <2>2, RangesApart
    <3> QED BY <1>2, <2>1, <3>1
  <2> QED BY <2>1, <2>2 DEF Resolve
<1>4. ASSUME NEW i \in DOMAIN issued[r], NEW j \in DOMAIN issued[r], i < j, j < i + RangeSize
      PROVE  issued[r][i] # issued[r][j]
  <2>1. i \in 1 .. Len(issued[r]) /\ j \in 1 .. Len(issued[r]) /\ i <= j
    BY <1>2, <1>4
  <2>2. Apart(issued[r][i], issued[r][j], j - i)
    BY <1>2, <1>4, <2>1 DEF Round
  <2>3. issued[r][i] \in Nat /\ issued[r][j] \in Nat
    BY <1>2, <2>1
  <2>4. j - i \in 1 .. RangeSize - 1
    BY <1>2, <1>4, <2>1
  <2> QED BY <2>2, <2>3, <2>4, NearIdsDiffer
<1> QED BY <1>3, <1>4

LEMMA PidInvariant == PidSpec => []PidInv
<1>1. PidInit => PidInv
  BY PidInitSound
<1>2. PidInv /\ [PidNext]_pidVars => PidInv'
  <2>1. PidInv /\ UNCHANGED pidVars => PidInv'
    BY DEF pidVars, PidInv, PidTypeOK, Round
  <2> QED BY <2>1, PidAssumption, GenerateSound, ResetSound DEF PidNext
<1> QED BY <1>1, <1>2, PTL DEF PidSpec

\* The counters and the ids issued keep their types.
LEMMA PidTypes == PidSpec => []PidTypeOK
<1>1. PidInv => PidTypeOK
  BY DEF PidInv
<1> QED BY <1>1, PidInvariant, PTL

\* Every id belongs to the range it was made for and to no other, and among RangeSize
\* ids of a range in a row none is there twice, between two resets (pid.ts:39-58).
THEOREM PidsStayDistinct == PidSpec => []PidsDistinct
<1>1. PidInv => PidsDistinct
  BY PidAssumption, RoundsDistinct
<1> QED BY <1>1, PidInvariant, PTL
-----------------------------------------------------------------------------
(***************************************************************************)
(* Minima                                                                  *)
(***************************************************************************)

\* A nonempty set of naturals has a minimum.
LEMMA LeastOfNaturals ==
  ASSUME NEW S \in SUBSET Nat, S # {}
  PROVE  Min(S) \in S /\ \A x \in S : Min(S) <= x
<1>1. PICK m \in S : \A y \in S : ~ (<<y, m>> \in OpToRel(<, Nat))
  BY NatLessThanWellFounded, WFMin
<1>2. \A y \in S : ~ (y < m)
  BY <1>1, Zenon DEF OpToRel
<1>3. \A y \in S : m <= y
  BY <1>2
<1> QED BY <1>3 DEF Min

\* The minimum of two numbers, as the limits of the lists are written.
LEMMA LesserOfTwo ==
  ASSUME NEW a \in Nat, NEW b \in Nat
  PROVE  Min({a, b}) \in Nat /\ Min({a, b}) = IF a <= b THEN a ELSE b
<1>1. {a, b} \in SUBSET Nat /\ {a, b} # {}
  OBVIOUS
<1>2. Min({a, b}) \in {a, b} /\ \A x \in {a, b} : Min({a, b}) <= x
  BY <1>1, LeastOfNaturals
<1> DEFINE m == Min({a, b})
<1>3. m \in {a, b} /\ m <= a /\ m <= b
  BY <1>2
<1> HIDE DEF m
<1>4. m \in Nat /\ m = IF a <= b THEN a ELSE b
  BY <1>3
<1> QED BY <1>4 DEF m

-----------------------------------------------------------------------------
(***************************************************************************)
(* What the sorting engine records                                         *)
(***************************************************************************)
SortEvents(r) == {i \in DOMAIN sortHistory : sortHistory[i].result = r}

SortInv == PlansSound /\ SortingTypeOK /\ SortingAccounts

LEMMA SortInitSound == ASSUME SortingInit PROVE SortInv
<1>1. PlansSound
  BY PlansInit
<1>2. /\ sortHistory = <<>> /\ commLog = <<>> /\ processedCount = 0 /\ successCount = 0
      /\ rejectCount = 0 /\ barcodeless = 0
  BY DEF SortingInit
<1>3. SortHistoryCap \in Nat /\ CommLogCap \in Nat
  BY SortingAssumption DEF SortingAssumption
<1>4. SortingTypeOK
  BY <1>1, <1>2, <1>3 DEF SortingTypeOK, PlansSound
<1>5. \A r : SortEvents(r) = {}
  BY <1>2 DEF SortEvents
<1>6. Cardinality({}) = 0
  BY FS_EmptySet
<1>7. Min({successCount + rejectCount, SortHistoryCap}) = 0
  BY <1>2, <1>3, LesserOfTwo
<1>8. Len(sortHistory) = 0
  BY <1>2
<1> QED BY <1>1, <1>2, <1>4, <1>5, <1>6, <1>7, <1>8 DEF SortInv, SortingAccounts, SortEvents

\* A barcode is sorted to the chute of one rule of the plan, or to none
\* (sorting.service.ts:256-281).
LEMMA ChuteOfRule ==
  ASSUME plans \in Seq(Plan), NEW zip, AssignedChute(zip) # {}
  PROVE  \E x \in 1 .. 10 : AssignedChute(zip) = {x}
<1> DEFINE active == ActivePlans
           rules == plans[Min(active)].rules
           matching == {r \in DOMAIN rules : rules[r] = SubSeq(zip, 1, Len(rules[r]))}
<1>1. active # {} /\ AssignedChute(zip) = MatchRule(zip, rules)
  BY DEF AssignedChute
<1>2. active \in SUBSET DOMAIN plans /\ DOMAIN plans = 1 .. Len(plans) /\ Len(plans) \in Nat
  BY DEF ActivePlans
<1>3. active \in SUBSET Nat
  BY <1>2
<1>4. Min(active) \in DOMAIN plans
  BY <1>1, <1>2, <1>3, LeastOfNaturals
<1>5. plans[Min(active)] \in Plan
  BY <1>2, <1>4
<1>6. rules \in {<<>>, GeneratedRules}
  BY <1>5 DEF Plan
<1>7. DOMAIN rules \in SUBSET (1 .. 10)
  <2>1. DOMAIN GeneratedRules = 1 .. 10
    BY DEF GeneratedRules
  <2> HIDE DEF rules
  <2> QED BY <1>6, <2>1
<1>8. matching # {} /\ AssignedChute(zip) = {Min(matching)}
  BY <1>1 DEF MatchRule
<1>9. matching \in SUBSET (1 .. 10)
  BY <1>7
<1> HIDE DEF matching
<1>10. matching \in SUBSET Nat
  BY <1>9
<1>11. Min(matching) \in matching
  BY <1>8, <1>10, LeastOfNaturals
<1> QED BY <1>8, <1>9, <1>11

\* An entry is put in front of a list that keeps its limit (sorting.service.ts:303-332).
LEMMA RecordedFacts ==
  ASSUME NEW S, NEW e \in S, NEW list \in Seq(S), NEW cap \in Nat,
         NEW new, new = Recorded(e, list, cap)
  PROVE  /\ CutTo(new, e, list, Len(new), S)
         /\ Len(new) = IF cap <= Len(list) + 1 THEN cap ELSE Len(list) + 1
<1> DEFINE n == Min({cap, Len(list) + 1})
<1>1. Len(list) \in Nat /\ Len(list) + 1 \in Nat
  OBVIOUS
<1>2. n \in Nat /\ n = IF cap <= Len(list) + 1 THEN cap ELSE Len(list) + 1
  BY <1>1, LesserOfTwo
<1>3. new = SubSeq(<<e>> \o list, 1, n)
  BY DEF Recorded
<1> HIDE DEF n
<1>4. n <= Len(list) + 1
  BY <1>1, <1>2
<1>5. CutTo(new, e, list, n, S)
  BY <1>2, <1>3, <1>4, CutFacts
<1> QED BY <1>2, <1>5 DEF CutTo

LEMMA ProcessSound ==
  ASSUME SortInv, NEW b, ProcessBarcode(b) PROVE SortInv'
<1> DEFINE zip == ExtractZipCode(b)
           chute == AssignedChute(zip)
           assigned == IF chute = {} THEN UnsortedChute ELSE Min(chute)
           result == IF chute = {} THEN "REJECT" ELSE "SUCCESS"
           entry == [chute |-> assigned, result |-> result]
<1>1. /\ processedCount' = processedCount + 1
      /\ successCount' = IF chute # {} THEN successCount + 1 ELSE successCount
      /\ rejectCount' = IF chute = {} THEN rejectCount + 1 ELSE rejectCount
      /\ sortHistory' = Recorded(entry, sortHistory, SortHistoryCap)
      /\ commLog' = Recorded(assigned, commLog, CommLogCap)
      /\ UNCHANGED <<plans, inForce, barcodeless>>
  BY DEF ProcessBarcode, Rejected
<1>2. /\ plans \in Seq(Plan) /\ sortHistory \in Seq(SortEvent) /\ Len(sortHistory) <= SortHistoryCap
      /\ commLog \in Seq(1 .. UnsortedChute) /\ Len(commLog) <= CommLogCap
      /\ processedCount \in Nat /\ successCount \in Nat /\ rejectCount \in Nat
      /\ barcodeless \in Nat /\ inForce \in 0 .. Len(plans)
      /\ SortHistoryCap \in Nat /\ CommLogCap \in Nat
  BY SortingAssumption DEF SortInv, SortingTypeOK, SortingAssumption
<1>3. assigned \in 1 .. UnsortedChute
  <2>1. CASE chute = {}
    BY <2>1 DEF UnsortedChute
  <2>2. CASE chute # {}
    <3>1. PICK x \in 1 .. 10 : chute = {x}
      BY <1>2, <2>2, ChuteOfRule
    <3>2. Min({x}) \in {x}
      BY LeastOfNaturals
    <3> HIDE DEF chute
    <3> QED BY <2>2, <3>1, <3>2 DEF UnsortedChute
  <2> QED BY <2>1, <2>2
<1>4. result \in SortResults /\ (result = "REJECT" <=> chute = {})
  BY DEF SortResults
<1>5. entry \in SortEvent /\ entry.result = result
  BY <1>3, <1>4 DEF SortEvent
<1> HIDE DEF chute, assigned, result, entry
<1>6. /\ CutTo(sortHistory', entry, sortHistory, Len(sortHistory'), SortEvent)
      /\ Len(sortHistory') = IF SortHistoryCap <= Len(sortHistory) + 1 THEN SortHistoryCap
                             ELSE Len(sortHistory) + 1
  <2> DEFINE new == sortHistory'
             old == sortHistory
  <2>1. new = Recorded(entry, old, SortHistoryCap) /\ old \in Seq(SortEvent)
        /\ entry \in SortEvent /\ SortHistoryCap \in Nat
    BY <1>1, <1>2, <1>5
  <2> HIDE DEF new, old
  <2>2. /\ CutTo(new, entry, old, Len(new), SortEvent)
        /\ Len(new) = IF SortHistoryCap <= Len(old) + 1 THEN SortHistoryCap ELSE Len(old) + 1
    BY <2>1, RecordedFacts
  <2> QED BY <2>2 DEF new, old
<1>7. /\ CutTo(commLog', assigned, commLog, Len(commLog'), 1 .. UnsortedChute)
      /\ Len(commLog') = IF CommLogCap <= Len(commLog) + 1 THEN CommLogCap ELSE Len(commLog) + 1
  <2> DEFINE new == commLog'
             old == commLog
             T == 1 .. UnsortedChute
  <2>1. new = Recorded(assigned, old, CommLogCap) /\ old \in Seq(T) /\ assigned \in T
        /\ CommLogCap \in Nat
    BY <1>1, <1>2, <1>3
  <2> HIDE DEF new, old, T
  <2>2. /\ CutTo(new, assigned, old, Len(new), T)
        /\ Len(new) = IF CommLogCap <= Len(old) + 1 THEN CommLogCap ELSE Len(old) + 1
    BY <2>1, RecordedFacts
  <2> QED BY <2>2 DEF new, old, T
<1>8. Len(sortHistory) \in Nat /\ Len(commLog) \in Nat /\ Len(sortHistory') \in Nat
  BY <1>2, <1>6
<1>9. SortingTypeOK'
  <2>1. plans' \in Seq(Plan)
    BY <1>1, <1>2
  <2>2. sortHistory' \in Seq(SortEvent) /\ Len(sortHistory') <= SortHistoryCap
    BY <1>2, <1>6, <1>8 DEF CutTo
  <2>3. commLog' \in Seq(1 .. UnsortedChute) /\ Len(commLog') <= CommLogCap
    BY <1>2, <1>7, <1>8 DEF CutTo
  <2>4. /\ processedCount' \in Nat /\ successCount' \in Nat /\ rejectCount' \in Nat
        /\ barcodeless' \in Nat
    BY <1>1, <1>2
  <2>5. inForce' \in 0 .. Len(plans')
    BY <1>1, <1>2
  <2> QED BY <2>1, <2>2, <2>3, <2>4, <2>5 DEF SortingTypeOK
<1>10. ASSUME NEW r \in SortResults
       PROVE  /\ Cardinality(SortEvents(r)') \in Nat /\ Cardinality(SortEvents(r)) \in Nat
              /\ Cardinality(SortEvents(r)') <= Cardinality(SortEvents(r)) + 1
              /\ r # result => Cardinality(SortEvents(r)') <= Cardinality(SortEvents(r))
  <2> DEFINE A == SortEvents(r)'
             B == SortEvents(r)
  <2>1. A \in SUBSET (1 .. Len(sortHistory')) /\ B \in SUBSET (1 .. Len(sortHistory))
    BY <1>2, <1>6 DEF SortEvents, CutTo
  <2>2. \A i \in A : i = 1 \/ i - 1 \in B
    BY <1>2, <1>6 DEF SortEvents, CutTo
  <2>3. r # result => 1 \notin A
    <3>1. 1 \in A => sortHistory'[1] = entry
      BY <1>6, <2>1 DEF CutTo
    <3> QED BY <1>5, <3>1 DEF SortEvents
  <2> HIDE DEF A, B
  <2>4. /\ Cardinality(A) <= Cardinality(B) + 1
        /\ 1 \notin A => Cardinality(A) <= Cardinality(B)
        /\ Cardinality(A) \in Nat /\ Cardinality(B) \in Nat
    BY <1>8, <2>1, <2>2, CountShifted
  <2> QED BY <2>3, <2>4 DEF A, B
<1>11. SortingAccounts'
  <2>1. /\ processedCount = successCount + rejectCount + barcodeless
        /\ Len(sortHistory) = Min({successCount + rejectCount, SortHistoryCap})
        /\ Cardinality(SortEvents("SUCCESS")) <= successCount
        /\ Cardinality(SortEvents("REJECT")) <= rejectCount
    BY DEF SortInv, SortingAccounts, SortEvents
  <2>2. processedCount' = successCount' + rejectCount' + barcodeless'
    BY <1>1, <1>2, <2>1
  <2>3. Len(sortHistory') = Min({successCount' + rejectCount', SortHistoryCap})
    <3> DEFINE kept == successCount + rejectCount
               m == Min({kept, SortHistoryCap})
               k == Min({successCount' + rejectCount', SortHistoryCap})
    <3>5. kept \in Nat /\ kept + 1 \in Nat /\ successCount' + rejectCount' = kept + 1
      BY <1>1, <1>2
    <3> HIDE DEF kept
    <3>1. m = IF kept <= SortHistoryCap THEN kept ELSE SortHistoryCap
      BY <1>2, <3>5, LesserOfTwo
    <3>2. k = IF kept + 1 <= SortHistoryCap THEN kept + 1 ELSE SortHistoryCap
      BY <1>2, <3>5, LesserOfTwo
    <3>3. Len(sortHistory) = m
      BY <2>1 DEF kept
    <3> HIDE DEF m, k
    <3>4. Len(sortHistory') = k
      BY <1>2, <1>6, <1>8, <3>1, <3>2, <3>3, <3>5
    <3> QED BY <3>4 DEF k
  <2>4. Cardinality(SortEvents("SUCCESS")') <= successCount'
    <3>1. "SUCCESS" \in SortResults /\ (result # "SUCCESS" <=> chute = {})
      BY <1>4 DEF SortResults
    <3> QED BY <1>1, <1>2, <1>10, <2>1, <3>1
  <2>5. Cardinality(SortEvents("REJECT")') <= rejectCount'
    <3>1. "REJECT" \in SortResults /\ (result = "REJECT" <=> chute = {})
      BY <1>4 DEF SortResults
    <3> QED BY <1>1, <1>2, <1>10, <2>1, <3>1
  <2> QED BY <2>2, <2>3, <2>4, <2>5 DEF SortingAccounts, SortEvents
<1>12. PlansSound'
  BY <1>1 DEF SortInv, PlansSound, OneActivePlan, ActivePlans
<1> QED BY <1>9, <1>11, <1>12 DEF SortInv

\* A request without a barcode is counted and leaves nothing else (sorting.service.ts:192, 235).
LEMMA NoBarcodeSound == ASSUME SortInv, ProcessNoBarcode PROVE SortInv'
<1>1. /\ processedCount' = processedCount + 1 /\ barcodeless' = barcodeless + 1
      /\ UNCHANGED <<plans, sortHistory, commLog, successCount, rejectCount, inForce>>
  BY DEF ProcessNoBarcode
<1>2. PlansSound'
  BY <1>1 DEF SortInv, PlansSound, OneActivePlan, ActivePlans
<1>3. SortingTypeOK'
  BY <1>1 DEF SortInv, SortingTypeOK
<1>4. processedCount' = successCount' + rejectCount' + barcodeless'
  BY <1>1 DEF SortInv, SortingTypeOK, SortingAccounts
<1>5. SortingAccounts'
  BY <1>1, <1>4 DEF SortInv, SortingAccounts
<1> QED BY <1>2, <1>3, <1>5 DEF SortInv

LEMMA SortStepSound == ASSUME SortInv, [SortingNext]_sortingVars PROVE SortInv'
<1>1. ASSUME PlansSound', UNCHANGED <<sortHistory, commLog, processedCount, successCount, rejectCount, barcodeless>>
      PROVE  SortInv'
  BY <1>1 DEF SortInv, PlansSound, SortingTypeOK, SortingAccounts
<1>2. ASSUME NEW id \in 1 .. MaxPlans, CreatePlan(id) \/ ActivatePlan(id) PROVE SortInv'
  <2>1. PlansSound'
    BY <1>2, CreateKeepsOne, ActivateKeepsOne DEF SortInv
  <2>2. UNCHANGED <<sortHistory, commLog, processedCount, successCount, rejectCount, barcodeless>>
    BY <1>2 DEF CreatePlan, ActivatePlan
  <2> QED BY <1>1, <2>1, <2>2
<1>3. CASE UNCHANGED sortingVars
  <2>1. PlansSound'
    BY <1>3 DEF sortingVars, SortInv, PlansSound, OneActivePlan, ActivePlans
  <2>2. UNCHANGED <<sortHistory, commLog, processedCount, successCount, rejectCount, barcodeless>>
    BY <1>3 DEF sortingVars
  <2> QED BY <1>1, <2>1, <2>2
<1> QED BY <1>2, <1>3, ProcessSound, NoBarcodeSound DEF SortingNext

\* The sorting engine accounts for every request, and its history and its log hold
\* what was sorted, within their limits (sorting.service.ts:191-230, 262).
THEOREM SortingAddsUp == SortingSpec => [](SortingTypeOK /\ SortingAccounts)
<1>1. SortingInit => SortInv
  BY SortInitSound
<1>2. SortInv /\ [SortingNext]_sortingVars => SortInv'
  BY SortStepSound
<1>3. SortInv => SortingTypeOK /\ SortingAccounts
  BY DEF SortInv
<1> QED BY <1>1, <1>2, <1>3, PTL DEF SortingSpec

-----------------------------------------------------------------------------
(***************************************************************************)
(* Keying stations                                                         *)
(***************************************************************************)
KeyedItem == [request : Nat, chute : Buttons]

\* KeyingAccounts in parts, with the requests of the history being there.
StationsAgree == \A s \in Stations : stationProcessed[s] = Cardinality(Completed(s))
HistoryCompleted ==
  \A i \in DOMAIN keyingHistory : /\ keyingHistory[i].request \in DOMAIN requests
                                  /\ requests[keyingHistory[i].request].status = "COMPLETED"
HistoryOnce ==
  \A i, j \in DOMAIN keyingHistory :
    keyingHistory[i].request = keyingHistory[j].request => i = j

KeyingInv == KeyingTypeOK /\ StationsAgree /\ HistoryCompleted /\ HistoryOnce

LEMMA KeyingInitSound == ASSUME KeyingInit PROVE KeyingInv
<1>1. requests = <<>> /\ keyingHistory = <<>> /\ stationProcessed = [s \in Stations |-> 0]
  BY DEF KeyingInit
<1>2. KeyingTypeOK
  BY <1>1, KeyingAssumption DEF KeyingTypeOK, KeyingAssumption
<1>3. \A s \in Stations : Completed(s) = {}
  BY <1>1 DEF Completed
<1>4. StationsAgree
  BY <1>1, <1>3, FS_EmptySet DEF StationsAgree
<1> QED BY <1>1, <1>2, <1>4 DEF KeyingInv, HistoryCompleted, HistoryOnce

LEMMA CompletedFinite ==
  ASSUME requests \in Seq(KeyingRequest), NEW s
  PROVE  IsFiniteSet(Completed(s)) /\ Cardinality(Completed(s)) \in Nat
<1>1. Completed(s) \subseteq 1 .. Len(requests) /\ Len(requests) \in Nat
  BY DEF Completed
<1>2. IsFiniteSet(1 .. Len(requests))
  BY <1>1, FS_Interval
<1>3. IsFiniteSet(Completed(s))
  BY <1>1, <1>2, FS_Subset
<1> QED BY <1>3, FS_CardinalityType

\* A request that is shown is not completed yet (keying.service.ts:96-117).
LEMMA CreateRequestSound ==
  ASSUME KeyingInv, NEW s \in Stations \cup {"unknown"}, CreateRequest(s) PROVE KeyingInv'
<1> DEFINE shown == [station |-> s, status |-> "DISPLAYED"]
           n == Len(requests)
<1>1. requests \in Seq(KeyingRequest) /\ n \in Nat /\ DOMAIN requests = 1 .. n
  BY DEF KeyingInv, KeyingTypeOK
<1>2. /\ requests' = Append(requests, shown)
      /\ keyingHistory' = keyingHistory /\ stationProcessed' = stationProcessed
  BY DEF CreateRequest
<1>3. shown \in KeyingRequest /\ shown.status = "DISPLAYED"
  BY DEF KeyingRequest
<1> HIDE DEF shown
<1>4. /\ requests' \in Seq(KeyingRequest) /\ DOMAIN requests' = 1 .. n + 1
      /\ requests'[n + 1] = shown /\ \A k \in 1 .. n : requests'[k] = requests[k]
  BY <1>1, <1>2, <1>3
<1> HIDE DEF n
<1>5. \A k \in 1 .. n + 1 : k \in 1 .. n \/ k = n + 1
  BY <1>1
<1>6. ASSUME NEW t \in Stations PROVE Completed(t)' = Completed(t)
  <2>1. \A k \in 1 .. n : k \in 1 .. n + 1
    BY <1>1
  <2> QED BY <1>1, <1>3, <1>4, <1>5, <2>1 DEF Completed
<1>7. StationsAgree'
  <2>1. ASSUME NEW t \in Stations PROVE stationProcessed'[t] = Cardinality(Completed(t)')
    <3>1. stationProcessed[t] = Cardinality(Completed(t))
      BY DEF KeyingInv, StationsAgree
    <3> QED BY <1>2, <1>6, <3>1
  <2> QED BY <2>1 DEF StationsAgree
<1>8. HistoryCompleted'
  <2>1. SUFFICES ASSUME NEW i \in DOMAIN keyingHistory
                 PROVE  /\ keyingHistory[i].request \in DOMAIN requests'
                        /\ requests'[keyingHistory[i].request].status = "COMPLETED"
    BY <1>2 DEF HistoryCompleted
  <2>2. /\ keyingHistory[i].request \in 1 .. n
        /\ requests[keyingHistory[i].request].status = "COMPLETED"
    BY <1>1 DEF KeyingInv, HistoryCompleted
  <2> DEFINE k == keyingHistory[i].request
  <2> HIDE DEF k
  <2>3. k \in 1 .. n /\ requests[k].status = "COMPLETED"
    BY <2>2 DEF k
  <2>4. k \in 1 .. n + 1
    BY <1>1, <2>3
  <2>5. k \in DOMAIN requests' /\ requests'[k].status = "COMPLETED"
    BY <1>4, <2>3, <2>4
  <2> QED BY <2>5 DEF k
<1>9. KeyingTypeOK'
  BY <1>2, <1>4 DEF KeyingInv, KeyingTypeOK
<1>10. HistoryOnce'
  BY <1>2 DEF KeyingInv, HistoryOnce
<1> QED BY <1>7, <1>8, <1>9, <1>10 DEF KeyingInv

\* A request whose status is COMPLETED then.
AsCompleted(q) == [q EXCEPT !.status = "COMPLETED"]

LEMMA AsCompletedFields ==
  ASSUME NEW q \in KeyingRequest
  PROVE  /\ AsCompleted(q) \in KeyingRequest /\ AsCompleted(q).station = q.station
         /\ AsCompleted(q).status = "COMPLETED"
BY DEF AsCompleted, KeyingRequest

\* Completing counts a request once, at its own station, and only one that was not
\* completed (keying.service.ts:119-169).
LEMMA CompleteRequestSound ==
  ASSUME KeyingInv, NEW id \in DOMAIN requests, NEW button \in Buttons, CompleteRequest(id, button)
  PROVE  KeyingInv'
<1> DEFINE item == [request |-> id, chute |-> button]
           done == AsCompleted(requests[id])
<1>0. PICK st \in Stations : st = requests[id].station
  BY DEF CompleteRequest, Completable
<1>1. /\ requests \in Seq(KeyingRequest) /\ DOMAIN requests = 1 .. Len(requests)
      /\ Len(requests) \in Nat /\ id \in 1 .. Len(requests) /\ id \in Nat
      /\ requests[id] \in KeyingRequest
      /\ keyingHistory \in Seq(KeyedItem) /\ DOMAIN keyingHistory = 1 .. Len(keyingHistory)
      /\ Len(keyingHistory) \in Nat /\ Len(keyingHistory) <= KeyingHistoryCap
      /\ stationProcessed \in [Stations -> Nat]
  BY DEF KeyingInv, KeyingTypeOK, KeyedItem
<1>2. /\ requests[id].status # "COMPLETED" /\ st \in Stations
      /\ requests' = [requests EXCEPT ![id] = done]
      /\ stationProcessed' = [stationProcessed EXCEPT ![st] = stationProcessed[st] + 1]
      /\ keyingHistory' = Capped(item, keyingHistory, KeyingHistoryCap)
  BY <1>0, <1>1 DEF CompleteRequest, Completable, AsCompleted, Capped
<1>3. done \in KeyingRequest /\ done.station = st /\ done.status = "COMPLETED"
  BY <1>0, <1>1, AsCompletedFields
<1>4. item \in KeyedItem /\ item.request = id /\ KeyingHistoryCap \in Nat
  BY <1>1, KeyingAssumption DEF KeyedItem, KeyingAssumption
<1> HIDE DEF item, done
<1>5. /\ requests' \in Seq(KeyingRequest) /\ DOMAIN requests' = DOMAIN requests
      /\ requests'[id] = done /\ \A k \in DOMAIN requests : k # id => requests'[k] = requests[k]
  BY <1>1, <1>2, <1>3
<1>6. /\ CutTo(keyingHistory', item, keyingHistory, Len(keyingHistory'), KeyedItem)
      /\ Len(keyingHistory') <= KeyingHistoryCap /\ Len(keyingHistory') \in Nat
  <2> DEFINE new == keyingHistory'
             old == keyingHistory
  <2>1. new = Capped(item, old, KeyingHistoryCap) /\ old \in Seq(KeyedItem)
    BY <1>1, <1>2
  <2> HIDE DEF new, old
  <2>2. /\ CutTo(new, item, old, Len(new), KeyedItem)
        /\ Len(new) \in Nat /\ Len(new) <= KeyingHistoryCap
    BY <1>4, <2>1, CapFacts
  <2> QED BY <2>2 DEF new, old
<1>7. Completed(st)' = Completed(st) \cup {id} /\ id \notin Completed(st)
  BY <1>0, <1>1, <1>2, <1>3, <1>5 DEF Completed
<1>8. ASSUME NEW s \in Stations, s # st PROVE Completed(s)' = Completed(s)
  BY <1>0, <1>1, <1>2, <1>3, <1>5, <1>8 DEF Completed
<1>9. StationsAgree'
  <2>1. /\ IsFiniteSet(Completed(st)) /\ Cardinality(Completed(st)) \in Nat
    BY <1>1, CompletedFinite
  <2>2. Cardinality(Completed(st) \cup {id}) = Cardinality(Completed(st)) + 1
    BY <1>7, <2>1, FS_AddElement
  <2>3. stationProcessed[st] = Cardinality(Completed(st))
    BY <1>2 DEF KeyingInv, StationsAgree
  <2>4. stationProcessed'[st] = Cardinality(Completed(st)')
    BY <1>1, <1>2, <1>7, <2>2, <2>3
  <2>5. ASSUME NEW s \in Stations, s # st PROVE stationProcessed'[s] = Cardinality(Completed(s)')
    <3>1. stationProcessed'[s] = stationProcessed[s] /\ stationProcessed[s] = Cardinality(Completed(s))
      BY <1>1, <1>2, <2>5 DEF KeyingInv, StationsAgree
    <3> QED BY <1>8, <2>5, <3>1
  <2> QED BY <2>4, <2>5 DEF StationsAgree
<1>10. ASSUME NEW i \in DOMAIN keyingHistory'
       PROVE  \/ i = 1 /\ keyingHistory'[i] = item
              \/ /\ i # 1 /\ i - 1 \in DOMAIN keyingHistory
                 /\ keyingHistory'[i] = keyingHistory[i - 1]
                 /\ keyingHistory[i - 1].request \in DOMAIN requests
                 /\ requests[keyingHistory[i - 1].request].status = "COMPLETED"
  BY <1>1, <1>6, <1>10 DEF CutTo, KeyingInv, HistoryCompleted
<1>11. HistoryCompleted'
  <2>1. SUFFICES ASSUME NEW i \in DOMAIN keyingHistory'
                 PROVE  /\ keyingHistory'[i].request \in DOMAIN requests'
                        /\ requests'[keyingHistory'[i].request].status = "COMPLETED"
    BY DEF HistoryCompleted
  <2>2. CASE i = 1 /\ keyingHistory'[i] = item
    BY <1>1, <1>3, <1>4, <1>5, <2>2
  <2>3. CASE /\ keyingHistory'[i] = keyingHistory[i - 1]
             /\ keyingHistory[i - 1].request \in DOMAIN requests
             /\ requests[keyingHistory[i - 1].request].status = "COMPLETED"
    <3> DEFINE k == keyingHistory[i - 1].request
    <3>1. keyingHistory'[i].request = k /\ k \in DOMAIN requests /\ requests[k].status = "COMPLETED"
      BY <2>3
    <3> HIDE DEF k
    <3>2. requests'[k].status = "COMPLETED" /\ k \in DOMAIN requests'
      BY <1>3, <1>5, <3>1
    <3> QED BY <3>1, <3>2
  <2> QED BY <1>10, <2>2, <2>3
<1>12. HistoryOnce'
  <2>1. SUFFICES ASSUME NEW i \in DOMAIN keyingHistory', NEW j \in DOMAIN keyingHistory',
                        keyingHistory'[i].request = keyingHistory'[j].request
                 PROVE  i = j
    BY DEF HistoryOnce
  <2>2. i \in Nat /\ j \in Nat
    BY <1>6, <2>1 DEF CutTo
  <2>3. CASE i = 1 /\ j # 1
    BY <1>2, <1>4, <1>10, <2>1, <2>3
  <2>4. CASE i # 1 /\ j = 1
    BY <1>2, <1>4, <1>10, <2>1, <2>4
  <2>5. CASE i # 1 /\ j # 1
    <3>1. i - 1 = j - 1
      BY <1>10, <2>1, <2>5 DEF KeyingInv, HistoryOnce
    <3> QED BY <2>2, <3>1
  <2> QED BY <2>3, <2>4, <2>5
<1>13. KeyingTypeOK'
  <2>1. stationProcessed' \in [Stations -> Nat]
    BY <1>1, <1>2
  <2> QED BY <1>5, <1>6, <2>1 DEF KeyingTypeOK, CutTo, KeyedItem
<1> QED BY <1>9, <1>11, <1>12, <1>13 DEF KeyingInv

\* Every station has counted exactly its completed requests, and the history holds
\* completed requests only, each once (keying.service.ts:134, 142-164).
THEOREM StationsCountTheirRequests == KeyingSpec => [](KeyingTypeOK /\ KeyingAccounts)
<1>1. KeyingInit => KeyingInv
  BY KeyingInitSound
<1>2. KeyingInv /\ [KeyingNext]_keyingVars => KeyingInv'
  <2>1. KeyingInv /\ UNCHANGED keyingVars => KeyingInv'
    BY DEF keyingVars, KeyingInv, KeyingTypeOK, StationsAgree, HistoryCompleted, HistoryOnce, Completed
  <2> QED BY <2>1, CreateRequestSound, CompleteRequestSound DEF KeyingNext
<1>3. KeyingInv => KeyingTypeOK /\ KeyingAccounts
  <2>1. SUFFICES ASSUME KeyingInv PROVE KeyingAccounts
    BY DEF KeyingInv
  <2>2. IsInjective([i \in DOMAIN keyingHistory |-> keyingHistory[i].request])
    BY <2>1 DEF KeyingInv, HistoryOnce, IsInjective
  <2> QED BY <2>1, <2>2 DEF KeyingInv, KeyingAccounts, StationsAgree, HistoryCompleted
<1> QED BY <1>1, <1>2, <1>3, PTL DEF KeyingSpec

-----------------------------------------------------------------------------
(***************************************************************************)
(* Chute displays                                                          *)
(***************************************************************************)

\* A quotient of naturals is one, and that of less than the divisor is 0.
LEMMA Quotients ==
  ASSUME NEW a \in Nat, NEW d \in Nat \ {0}
  PROVE  a \div d \in Nat /\ (a < d => a \div d = 0)
<1> DEFINE q == a \div d
           r == a % d
<1>1. q \in Int /\ r \in 0 .. d - 1
  OBVIOUS
<1>2. r \in Int /\ 0 <= r /\ r < d
  BY <1>1
<1>7. a = (d * q) + r
  OBVIOUS
<1> HIDE DEF q, r
<1>3. ASSUME q < 0 PROVE FALSE
  <2>1. d * q <= d * (-1) /\ d * q \in Int
    BY <1>1, <1>3
  <2> QED BY <1>2, <1>7, <2>1
<1>4. ASSUME a < d, q > 0 PROVE FALSE
  <2>1. d * q >= d * 1 /\ d * q \in Int
    BY <1>1, <1>4
  <2> QED BY <1>2, <1>4, <1>7, <2>1
<1>5. q \in Nat /\ (a < d => q = 0)
  BY <1>1, <1>3, <1>4
<1> QED BY <1>5 DEF q

\* Larger times the same is not less.
LEMMA Times ==
  ASSUME NEW d \in Nat, NEW a \in Int, NEW b \in Int, a <= b
  PROVE  d * a <= d * b
<1>1. d * (b - a) >= 0
  OBVIOUS
<1>2. d * (b - a) = d * b - d * a
  OBVIOUS
<1> QED BY <1>1, <1>2

\* A fill rate is at most half a percent from the percentage, also where floating
\* point rounds a half down (chute-display.service.ts:56, 116).
LEMMA NearestPercent ==
  ASSUME NEW count \in Nat
  PROVE  /\ FillRate(count) \in Nat
         /\ -Capacity <= 2 * (Capacity * FillRate(count) - 100 * count)
         /\ 2 * (Capacity * FillRate(count) - 100 * count) <= Capacity
<1> DEFINE f == FillRate(count)
<1>1. Capacity \in Nat \ {0}
  BY DisplayAssumption DEF DisplayAssumption
<1>2. CASE count \in RoundedDown /\ (200 * count) % (2 * Capacity) = Capacity
  <2> DEFINE a == 100 * count
             r == a % Capacity
             b == 200 * count
             d == 2 * Capacity
             k == b \div d
  <2>1. f = a \div Capacity /\ a \in Nat /\ b \in Nat /\ d \in Nat \ {0}
    BY <1>1, <1>2 DEF FillRate
  <2>2. f \in Nat
    BY <1>1, <2>1, Quotients
  <2>3. a = Capacity * f + r /\ r \in 0 .. Capacity - 1
    <3> HIDE DEF a
    <3> QED BY <1>1, <2>1
  <2>4. b = d * k + Capacity /\ k \in Int
    <3>1. b % d = Capacity
      BY <1>2
    <3> HIDE DEF b, d
    <3>2. b = d * k + (b % d) /\ k \in Int
      BY <2>1
    <3> QED BY <3>1, <3>2
  <2>5. d * k = 2 * (Capacity * k) /\ b = 2 * a
    BY <1>1, <2>4
  <2> HIDE DEF f, r, k
  <2> DEFINE pf == Capacity * f
             pk == Capacity * k
  <2>6. pf \in Int /\ pk \in Int
    BY <1>1, <2>2, <2>4
  <2>7. 2 * pf + 2 * r = 2 * pk + Capacity
    <3> DEFINE dk == d * k
    <3>1. a = pf + r /\ b = dk + Capacity /\ dk = 2 * pk /\ b = 2 * a /\ r \in Int
      BY <2>3, <2>4, <2>5
    <3> HIDE DEF a, b, dk, pf, pk
    <3> QED BY <1>1, <2>6, <3>1
  <2>8. /\ f >= k + 1 => pf >= pk + Capacity
        /\ f <= k - 1 => pf <= pk - Capacity
    <3>1. Capacity * (k + 1) = pk + Capacity /\ Capacity * (k - 1) = pk - Capacity
      BY <1>1, <2>4
    <3> QED BY <1>1, <2>2, <2>4, <3>1, Times
  <2>9. f = k
    <3> HIDE DEF pf, pk
    <3> QED BY <1>1, <2>2, <2>3, <2>4, <2>6, <2>7, <2>8
  <2>10. 2 * r = Capacity
    <3>1. pf = pk
      BY <2>9
    <3> HIDE DEF pf, pk
    <3> QED BY <1>1, <2>3, <2>6, <2>7, <3>1
  <2>11. 2 * (pf - a) = -Capacity
    <3>1. a = pf + r
      BY <2>3
    <3> HIDE DEF pf, a
    <3> QED BY <1>1, <2>3, <2>6, <2>10, <3>1
  <2>12. -Capacity <= 2 * (pf - a) /\ 2 * (pf - a) <= Capacity
    <3> HIDE DEF pf, a
    <3> QED BY <1>1, <2>11
  <2> QED BY <2>2, <2>12 DEF f
<1>3. CASE ~(count \in RoundedDown /\ (200 * count) % (2 * Capacity) = Capacity)
  <2> DEFINE a == 200 * count + Capacity
             d == 2 * Capacity
             r == a % d
  <2>1. f = a \div d /\ a \in Nat /\ d \in Nat \ {0}
    BY <1>1, <1>3 DEF FillRate
  <2>2. a = d * f + r /\ r \in 0 .. d - 1 /\ f \in Nat
    <3> HIDE DEF a, d
    <3>1. f \in Nat
      BY <2>1, Quotients
    <3>2. a = d * (a \div d) + r /\ r \in 0 .. d - 1
      BY <2>1
    <3> QED BY <2>1, <3>1, <3>2
  <2> HIDE DEF f, r
  <2> DEFINE pf == Capacity * f
  <2>3. pf \in Int /\ d * f = 2 * pf
    BY <1>1, <2>2
  <2>4. 200 * count + Capacity = 2 * pf + r /\ r \in 0 .. 2 * Capacity - 1
    BY <2>2, <2>3
  <2>5. -Capacity <= 2 * (pf - 100 * count) /\ 2 * (pf - 100 * count) <= Capacity
    <3> HIDE DEF pf
    <3> QED BY <1>1, <2>3, <2>4
  <2> QED BY <2>2, <2>5 DEF f
<1> QED BY <1>2, <1>3

\* What an entry of the display should look like
Readable(d) ==
  LET error == 2 * (Capacity * d.fillRate - 100 * d.currentCount) IN
    /\ -Capacity <= error /\ error <= Capacity
    /\ d.status = "FULL" <=> d.currentCount >= Capacity
    /\ d.status = "EMPTY" <=> d.currentCount = 0
    /\ d.status = "FULL" => d.fillRate >= 100
    /\ d.status = "NEAR_FULL" => d.fillRate \in 80 .. 100
    /\ d.status \in {"NORMAL", "EMPTY"} => d.fillRate <= 80

LEMMA ShownFacts ==
  ASSUME NEW count \in Nat
  PROVE  Shown(count) \in Entry /\ Shown(count).currentCount = count /\ Readable(Shown(count))
<1> DEFINE f == FillRate(count)
           pf == Capacity * f
           st == CalcStatus(count)
<1>1. Capacity \in Nat /\ Capacity > 0
  BY DisplayAssumption DEF DisplayAssumption
<1>2. /\ f \in Nat /\ -Capacity <= 2 * (pf - 100 * count)
      /\ 2 * (pf - 100 * count) <= Capacity
  BY NearestPercent
<1>3. /\ st \in {"NORMAL", "NEAR_FULL", "FULL", "EMPTY"}
      /\ st = "FULL" <=> count >= Capacity
      /\ st = "EMPTY" <=> count = 0
      /\ st = "NEAR_FULL" => 10 * count >= 8 * Capacity /\ count < Capacity
      /\ st \in {"NORMAL", "EMPTY"} => 10 * count < 8 * Capacity
  BY <1>1 DEF CalcStatus
<1> HIDE DEF f, st
<1>4. pf \in Int
  BY <1>1, <1>2
<1>5. /\ f <= 99 => pf <= Capacity * 99
      /\ f <= 79 => pf <= Capacity * 79
      /\ f >= 101 => pf >= Capacity * 101
      /\ f >= 81 => pf >= Capacity * 81
  BY <1>1, <1>2, Times
<1> HIDE DEF pf
<1>6. st = "FULL" => f >= 100
  BY <1>1, <1>2, <1>3, <1>4, <1>5
<1>7. st = "NEAR_FULL" => f \in 80 .. 100
  BY <1>1, <1>2, <1>3, <1>4, <1>5
<1>8. st \in {"NORMAL", "EMPTY"} => f <= 80
  BY <1>1, <1>2, <1>3, <1>4, <1>5
<1>9. Shown(count) = [currentCount |-> count, fillRate |-> f, status |-> st]
  BY DEF Shown, f, st
<1>10. Shown(count) \in Entry
  BY <1>2, <1>3, <1>9 DEF Entry
<1>11. /\ Shown(count).currentCount = count /\ Shown(count).fillRate = f
       /\ Shown(count).status = st
  BY <1>9
<1>12. Readable(Shown(count))
  <2>1. Capacity * Shown(count).fillRate = pf
    BY <1>11 DEF pf
  <2> QED BY <1>2, <1>3, <1>6, <1>7, <1>8, <1>11, <2>1 DEF Readable
<1> QED BY <1>10, <1>11, <1>12

\* What a plan or a reset writes is what a count of zero shows
\* (chute-display.service.ts:97-135).
LEMMA EmptiedIsShown == Shown(0) = [currentCount |-> 0, fillRate |-> 0, status |-> "EMPTY"]
<1>1. Capacity \in Nat /\ Capacity > 0
  BY DisplayAssumption DEF DisplayAssumption
<1>2. FillRate(0) = 0
  <2> DEFINE a == 200 * 0 + Capacity
             d == 2 * Capacity
  <2>2. (200 * 0) % d # Capacity
    <3>1. d \in Nat \ {0}
      BY <1>1
    <3> HIDE DEF d
    <3>2. 0 % d = 0
      BY <3>1
    <3> QED BY <1>1, <3>2
  <2>1. a \in Nat /\ d \in Nat \ {0} /\ a < d /\ FillRate(0) = a \div d
    BY <1>1, <2>2 DEF FillRate
  <2> HIDE DEF a, d
  <2> QED BY <2>1, Quotients
<1>3. CalcStatus(0) = "EMPTY"
  BY <1>1 DEF CalcStatus
<1> QED BY <1>2, <1>3 DEF Shown

DisplayInv == DisplayTypeOK /\ \A c \in Displays : display[c] = Shown(display[c].currentCount)

LEMMA DisplaysReadable == ASSUME DisplayInv PROVE DisplayTypeOK /\ DisplayTruthful
<1>1. \A c \in Displays : display[c].currentCount \in Nat
  BY DEF DisplayInv, DisplayTypeOK, Entry
<1>2. \A c \in Displays : Readable(display[c])
  BY <1>1, ShownFacts DEF DisplayInv
<1> QED BY <1>2 DEF DisplayInv, DisplayTruthful, Readable

\* Every operation leaves entries that are what their count shows.
LEMMA ShownEverywhere ==
  ASSUME NEW new, \E count \in [Displays -> Nat] : new = [c \in Displays |-> Shown(count[c])]
  PROVE  new \in [Displays -> Entry] /\ \A c \in Displays : new[c] = Shown(new[c].currentCount)
<1>1. PICK count \in [Displays -> Nat] : new = [c \in Displays |-> Shown(count[c])]
  OBVIOUS
<1>2. \A c \in Displays : Shown(count[c]) \in Entry /\ Shown(count[c]).currentCount = count[c]
  BY ShownFacts
<1> QED BY <1>1, <1>2

\* The counts of the displays, as they are and as an operation leaves them.
Counts == [c \in Displays |-> display[c].currentCount]

LEMMA DisplayStepSound == ASSUME DisplayInv, [DisplayNext]_display PROVE DisplayInv'
<1>1. /\ display \in [Displays -> Entry] /\ Counts \in [Displays -> Nat]
      /\ \A c \in Displays : display[c] = Shown(Counts[c])
  <2>1. \A c \in Displays : display[c] \in Entry /\ display[c].currentCount \in Nat
    BY DEF DisplayInv, DisplayTypeOK, Entry
  <2> QED BY <2>1 DEF DisplayInv, DisplayTypeOK, Counts
<1>2. ASSUME NEW new \in [Displays -> Nat], display' = [c \in Displays |-> Shown(new[c])]
      PROVE  DisplayInv'
  <2>1. /\ display' \in [Displays -> Entry]
        /\ \A c \in Displays : display'[c] = Shown(display'[c].currentCount)
    BY <1>2, ShownEverywhere, Zenon
  <2> QED BY <2>1 DEF DisplayInv, DisplayTypeOK
<1>3. ASSUME NEW mapped, ApplyPlan(mapped) PROVE DisplayInv'
  <2> DEFINE new == [c \in Displays |-> IF c \in mapped THEN 0 ELSE Counts[c]]
  <2>1. new \in [Displays -> Nat]
    BY <1>1
  <2>2. display' = [c \in Displays |-> Shown(new[c])]
    BY <1>1, <1>3, EmptiedIsShown DEF ApplyPlan, Emptied
  <2> QED BY <1>2, <2>1, <2>2
<1>4. ASSUME NEW c \in Displays, ResetChute(c) PROVE DisplayInv'
  <2> DEFINE new == [Counts EXCEPT ![c] = 0]
  <2>1. new \in [Displays -> Nat]
    BY <1>1
  <2>2. display' = [d \in Displays |-> Shown(new[d])]
    <3>1. \A d \in Displays : display'[d] = IF d = c THEN Shown(0) ELSE display[d]
      BY <1>1, <1>4, EmptiedIsShown DEF ResetChute, Emptied
    <3> QED BY <1>1, <1>4, <3>1 DEF ResetChute
  <2> QED BY <1>2, <2>1, <2>2
<1>5. ASSUME NEW c \in Displays, IncrementCount(c) PROVE DisplayInv'
  <2> DEFINE new == [Counts EXCEPT ![c] = Counts[c] + 1]
  <2>1. new \in [Displays -> Nat]
    BY <1>1
  <2>2. display' = [d \in Displays |-> Shown(new[d])]
    <3>1. display[c].currentCount = Counts[c]
      BY DEF Counts
    <3>2. display' = [display EXCEPT ![c] = Shown(Counts[c] + 1)]
      BY <1>5, <3>1 DEF IncrementCount
    <3> QED BY <1>1, <3>2
  <2> QED BY <1>2, <2>1, <2>2
<1>6. CASE UNCHANGED display
  BY <1>6 DEF DisplayInv, DisplayTypeOK
<1> QED BY <1>3, <1>4, <1>5, <1>6 DEF DisplayNext

\* What a display shows can be read off whatever the capacity, the count and the way
\* floating point turns halves, after resets and past the capacity, too
\* (chute-display.service.ts:63-69, 116).
THEOREM DisplaysAgree == DisplaySpec => [](DisplayTypeOK /\ DisplayTruthful)
<1>1. DisplayInit => DisplayInv
  <2>1. SUFFICES ASSUME DisplayInit PROVE DisplayInv
    OBVIOUS
  <2>2. PICK counts \in [Displays -> InitialCounts] :
               display = [c \in Displays |-> Shown(counts[c])]
    BY <2>1 DEF DisplayInit
  <2>3. counts \in [Displays -> Nat]
    BY DisplayAssumption DEF DisplayAssumption
  <2> QED BY <2>2, <2>3, ShownEverywhere DEF DisplayInv, DisplayTypeOK
<1>2. DisplayInv /\ [DisplayNext]_display => DisplayInv'
  BY DisplayStepSound
<1> QED BY <1>1, <1>2, DisplaysReadable, PTL DEF DisplaySpec

-----------------------------------------------------------------------------
(***************************************************************************)
(* The alarm board                                                         *)
(***************************************************************************)
WithAlarmStatus(a, status) == [a EXCEPT !.status = status]

BoardInv == BoardTypeOK /\ BoardTruthful

\* A change of one alarm's status that tells the client what it must know.
LEMMA StatusStepSound ==
  ASSUME BoardInv, NEW id \in DOMAIN boardAlarms,
         NEW status \in {"ACTIVE", "ACKNOWLEDGED", "RESOLVED"},
         boardAlarms' = [boardAlarms EXCEPT ![id] = WithAlarmStatus(boardAlarms[id], status)],
         board' = IF status = "RESOLVED" THEN board \ {id} ELSE board \cup {id}
  PROVE  BoardInv'
<1> DEFINE new == WithAlarmStatus(boardAlarms[id], status)
<1>1. /\ boardAlarms \in Seq(BoardAlarm) /\ DOMAIN boardAlarms = 1 .. Len(boardAlarms)
      /\ boardAlarms[id] \in BoardAlarm
  BY DEF BoardInv, BoardTypeOK
<1>2. new \in BoardAlarm /\ new.status = status
  BY <1>1 DEF WithAlarmStatus, BoardAlarm
<1>3. boardAlarms' = [boardAlarms EXCEPT ![id] = new]
  OBVIOUS
<1> HIDE DEF new
<1>4. /\ boardAlarms' \in Seq(BoardAlarm) /\ DOMAIN boardAlarms' = DOMAIN boardAlarms
      /\ boardAlarms'[id] = new
      /\ \A k \in DOMAIN boardAlarms : k # id => boardAlarms'[k] = boardAlarms[k]
  BY <1>1, <1>2, <1>3
<1>5. ASSUME NEW k PROVE k \in board' <=> k \in DOMAIN boardAlarms' /\ boardAlarms'[k].status # "RESOLVED"
  <2>1. k \in board <=> k \in DOMAIN boardAlarms /\ boardAlarms[k].status # "RESOLVED"
    BY DEF BoardInv, BoardTruthful
  <2>2. CASE k = id
    BY <1>2, <1>4, <2>2
  <2>3. CASE k # id
    BY <1>4, <2>1, <2>3
  <2> QED BY <2>2, <2>3
<1>6. BoardTruthful'
  BY <1>5 DEF BoardTruthful
<1>7. board' \subseteq DOMAIN boardAlarms'
  BY <1>5
<1> QED BY <1>4, <1>6, <1>7 DEF BoardInv, BoardTypeOK

LEMMA BoardStepSound == ASSUME BoardInv, [BoardNext]_boardVars PROVE BoardInv'
<1>1. /\ boardAlarms \in Seq(BoardAlarm) /\ DOMAIN boardAlarms = 1 .. Len(boardAlarms)
      /\ Len(boardAlarms) \in Nat
      /\ \A k : k \in board <=> k \in DOMAIN boardAlarms /\ boardAlarms[k].status # "RESOLVED"
  BY DEF BoardInv, BoardTypeOK, BoardTruthful
<1>2. ASSUME NEW severity \in AlarmLevels, BoardRaise(severity) PROVE BoardInv'
  <2> DEFINE raised == [severity |-> severity, status |-> "ACTIVE"]
             n == Len(boardAlarms)
  <2>1. boardAlarms' = Append(boardAlarms, raised) /\ board' = board \cup {n + 1}
    BY <1>2 DEF BoardRaise, Notify
  <2>2. raised \in BoardAlarm /\ raised.status = "ACTIVE"
    BY DEF BoardAlarm
  <2> HIDE DEF raised
  <2>3. /\ boardAlarms' \in Seq(BoardAlarm) /\ DOMAIN boardAlarms' = 1 .. n + 1
        /\ boardAlarms'[n + 1] = raised /\ \A k \in 1 .. n : boardAlarms'[k] = boardAlarms[k]
    BY <1>1, <2>1, <2>2
  <2>4. \A k : k \in 1 .. n + 1 <=> k \in 1 .. n \/ k = n + 1
    BY <1>1
  <2> HIDE DEF n
  <2>6. DOMAIN boardAlarms = 1 .. n
    BY <1>1 DEF n
  <2>5. ASSUME NEW k PROVE k \in board' <=> k \in DOMAIN boardAlarms' /\ boardAlarms'[k].status # "RESOLVED"
    <3>1. CASE k = n + 1
      BY <2>1, <2>2, <2>3, <2>4, <3>1
    <3>2. CASE k # n + 1
      <4>1. k \in board' <=> k \in board
        BY <2>1, <3>2
      <4>2. k \in DOMAIN boardAlarms' <=> k \in DOMAIN boardAlarms
        BY <2>3, <2>4, <2>6, <3>2
      <4> QED BY <1>1, <2>3, <2>6, <4>1, <4>2
    <3> QED BY <3>1, <3>2
  <2> QED BY <2>3, <2>5 DEF BoardInv, BoardTypeOK, BoardTruthful
<1>3. ASSUME NEW id \in DOMAIN boardAlarms, AcknowledgeAlarm(id) PROVE BoardInv'
  <2>1. id \in board
    BY <1>1, <1>3 DEF AcknowledgeAlarm
  <2>2. /\ boardAlarms' = [boardAlarms EXCEPT ![id] = WithAlarmStatus(boardAlarms[id], "ACKNOWLEDGED")]
        /\ board' = board \cup {id}
    BY <1>3, <2>1 DEF AcknowledgeAlarm, WithAlarmStatus
  <2> QED BY <2>2, StatusStepSound
<1>4. ASSUME NEW id \in DOMAIN boardAlarms, ResolveAlarm(id) PROVE BoardInv'
  <2>1. /\ boardAlarms' = [boardAlarms EXCEPT ![id] = WithAlarmStatus(boardAlarms[id], "RESOLVED")]
        /\ board' = board \ {id}
    BY <1>4 DEF ResolveAlarm, Notify, WithAlarmStatus
  <2> QED BY <2>1, StatusStepSound
<1>5. CASE UNCHANGED boardVars
  BY <1>5 DEF boardVars, BoardInv, BoardTypeOK, BoardTruthful
<1> QED BY <1>2, <1>3, <1>4, <1>5 DEF BoardNext

\* A client that follows the stream shows exactly the alarms that are not RESOLVED
\* (monitoring.service.ts:188-226).
THEOREM BoardShowsTheAlarms == BoardSpec => [](BoardTypeOK /\ BoardTruthful)
<1>1. BoardInit => BoardInv
  <2>1. SUFFICES ASSUME BoardInit PROVE BoardInv
    OBVIOUS
  <2> DEFINE one == [severity |-> "WARNING", status |-> "ACTIVE"]
             two == [severity |-> "INFO", status |-> "ACTIVE"]
  <2>2. boardAlarms = <<one, two>> /\ board = {1, 2}
    BY <2>1 DEF BoardInit
  <2>3. one \in BoardAlarm /\ two \in BoardAlarm /\ one.status = "ACTIVE" /\ two.status = "ACTIVE"
    BY BoardAssumption DEF BoardAssumption, BoardAlarm
  <2> HIDE DEF one, two
  <2>4. /\ boardAlarms \in Seq(BoardAlarm) /\ DOMAIN boardAlarms = 1 .. 2
        /\ boardAlarms[1] = one /\ boardAlarms[2] = two
    BY <2>2, <2>3
  <2>5. \A k : k \in 1 .. 2 <=> k = 1 \/ k = 2
    OBVIOUS
  <2> QED BY <2>2, <2>3, <2>4, <2>5 DEF BoardInv, BoardTypeOK, BoardTruthful
<1>2. BoardInv /\ [BoardNext]_boardVars => BoardInv'
  BY BoardStepSound
<1>3. BoardInv => BoardTypeOK /\ BoardTruthful
  BY DEF BoardInv
<1> QED BY <1>1, <1>2, <1>3, PTL DEF BoardSpec

-----------------------------------------------------------------------------
(***************************************************************************)
(* The telegrams of the relay's channels                                   *)
(***************************************************************************)
Telegram == [channel : Channels, direction : {"SEND", "RECEIVE"}]
LoggedOf(c, d) == {i \in DOMAIN telegramLog : telegramLog[i] = [channel |-> c, direction |-> d]}

Accounted ==
  /\ Len(telegramLog) = Plc!Smaller(Plc!Total, TelegramLogCap)
  /\ \A c \in Channels : /\ Cardinality(LoggedOf(c, "SEND")) <= telegramsSent[c]
                         /\ Cardinality(LoggedOf(c, "RECEIVE")) <= telegramsReceived[c]

PlcInv ==
  /\ Plc!TelegramTypeOK /\ Accounted
  /\ IsFiniteSet(Plc!Telegrams(telegramsSent)) /\ IsFiniteSet(Plc!Telegrams(telegramsReceived))

\* The instance counts as the library does.
LEMMA PlcCardinality == \A S : Plc!Cardinality(S) = Cardinality(S)
BY DEF Plc!Cardinality, Cardinality

LEMMA TotalIs ==
  /\ Plc!Total = Cardinality(Plc!Telegrams(telegramsSent)) + Cardinality(Plc!Telegrams(telegramsReceived))
  /\ Plc!Total' = Cardinality(Plc!Telegrams(telegramsSent')) + Cardinality(Plc!Telegrams(telegramsReceived'))
BY PlcCardinality, Zenon DEF Plc!Total

LEMMA AccountedIs == Plc!TelegramsAccounted <=> Accounted
BY PlcCardinality, Zenon DEF Plc!TelegramsAccounted, Accounted, LoggedOf

LEMMA TelegramsOf ==
  ASSUME NEW count \in [Channels -> Nat], NEW x
  PROVE  x \in Plc!Telegrams(count) <=> \E d \in Channels : \E k \in 1 .. count[d] : x = <<d, k>>
<1> DEFINE those == {{c} \X (1 .. count[c]) : c \in Channels}
<1>1. Plc!Telegrams(count) = UNION those
  BY DEF Plc!Telegrams
<1>2. ASSUME x \in UNION those PROVE \E d \in Channels : \E k \in 1 .. count[d] : x = <<d, k>>
  <2>1. PICK d \in Channels : x \in {d} \X (1 .. count[d])
    BY <1>2
  <2> QED BY <2>1
<1>3. ASSUME NEW d \in Channels, NEW k \in 1 .. count[d], x = <<d, k>> PROVE x \in UNION those
  <2>1. x \in {d} \X (1 .. count[d])
    BY <1>3
  <2> QED BY <2>1
<1> QED BY <1>1, <1>2, <1>3

\* A counter that goes up by one numbers one telegram more.
LEMMA OneMoreTelegram ==
  ASSUME NEW count \in [Channels -> Nat], NEW more \in [Channels -> Nat], NEW c \in Channels,
         more[c] = count[c] + 1, \A d \in Channels : d # c => more[d] = count[d],
         IsFiniteSet(Plc!Telegrams(count))
  PROVE  /\ IsFiniteSet(Plc!Telegrams(more))
         /\ Cardinality(Plc!Telegrams(count)) \in Nat
         /\ Cardinality(Plc!Telegrams(more)) = Cardinality(Plc!Telegrams(count)) + 1
<1> DEFINE A == Plc!Telegrams(count)
           B == Plc!Telegrams(more)
           t == <<c, count[c] + 1>>
<1>1. /\ more \in [Channels -> Nat] /\ count[c] \in Nat /\ more[c] = count[c] + 1
      /\ \A d \in Channels : d # c => more[d] = count[d]
  OBVIOUS
<1>2. \A x : x \in A <=> \E d \in Channels : \E k \in 1 .. count[d] : x = <<d, k>>
  BY TelegramsOf
<1>3. \A x : x \in B <=> \E d \in Channels : \E k \in 1 .. more[d] : x = <<d, k>>
  BY <1>1, TelegramsOf
<1> HIDE DEF A, B
<1>4. t \notin A
  <2>1. ASSUME NEW d \in Channels, NEW k \in 1 .. count[d], t = <<d, k>> PROVE FALSE
    <3>1. d = c /\ k = count[c] + 1
      BY <2>1
    <3> QED BY <1>1, <2>1, <3>1
  <2> QED BY <1>2, <2>1
<1>5. B = A \cup {t}
  <2>1. ASSUME NEW x \in B PROVE x \in A \cup {t}
    <3>1. PICK d \in Channels : \E k \in 1 .. more[d] : x = <<d, k>>
      BY <1>3, <2>1
    <3>4. PICK k \in 1 .. more[d] : x = <<d, k>>
      BY <3>1
    <3>2. CASE d = c /\ k = count[c] + 1
      BY <3>2, <3>4 DEF t
    <3>3. CASE ~(d = c /\ k = count[c] + 1)
      <4>1. k \in 1 .. count[d]
        BY <1>1, <3>3, <3>4
      <4> QED BY <1>2, <3>4, <4>1
    <3> QED BY <3>2, <3>3
  <2>2. ASSUME NEW x \in A PROVE x \in B
    <3>1. PICK d \in Channels : \E k \in 1 .. count[d] : x = <<d, k>>
      BY <1>2, <2>2
    <3>3. PICK k \in 1 .. count[d] : x = <<d, k>>
      BY <3>1
    <3>2. k \in 1 .. more[d]
      BY <1>1, <3>3
    <3> QED BY <1>3, <3>2, <3>3
  <2>3. t \in B
    <3>1. count[c] + 1 \in 1 .. more[c]
      BY <1>1
    <3> QED BY <1>3, <3>1
  <2> QED BY <2>1, <2>2, <2>3
<1> HIDE DEF t
<1>6. IsFiniteSet(A)
  BY DEF A
<1>7. /\ IsFiniteSet(B) /\ Cardinality(A) \in Nat /\ Cardinality(B) = Cardinality(A) + 1
  BY <1>4, <1>5, <1>6, FS_AddElement, FS_CardinalityType
<1> QED BY <1>1, <1>7 DEF A, B

LEMMA PlcInitSound == ASSUME Plc!TelegramInit PROVE PlcInv
<1> DEFINE none == [c \in Channels |-> 0]
<1>1. telegramsSent = none /\ telegramsReceived = none /\ telegramLog = <<>>
  BY DEF Plc!TelegramInit
<1>2. none \in [Channels -> Nat] /\ \A c \in Channels : none[c] = 0
  OBVIOUS
<1> HIDE DEF none
<1>3. Plc!Telegrams(none) = {}
  BY <1>2, TelegramsOf
<1>4. IsFiniteSet({}) /\ Cardinality({}) = 0
  BY FS_EmptySet
<1>5. \A c, d : LoggedOf(c, d) = {}
  BY <1>1 DEF LoggedOf
<1>6. Plc!Total = 0
  BY <1>1, <1>3, <1>4, TotalIs
<1>7. Len(telegramLog) = Plc!Smaller(Plc!Total, TelegramLogCap)
  BY <1>1, <1>6, TelegramAssumption DEF Plc!Smaller, TelegramAssumption
<1>8. Accounted
  <2>1. \A c \in Channels : telegramsSent[c] = 0 /\ telegramsReceived[c] = 0
    BY <1>1, <1>2
  <2>2. \A c \in Channels : /\ Cardinality(LoggedOf(c, "SEND")) = 0
                           /\ Cardinality(LoggedOf(c, "RECEIVE")) = 0
    BY <1>4, <1>5, Zenon
  <2> QED BY <1>7, <2>1, <2>2 DEF Accounted
<1>9. Plc!TelegramTypeOK
  BY <1>1, <1>2 DEF Plc!TelegramTypeOK
<1> QED BY <1>1, <1>3, <1>4, <1>8, <1>9 DEF PlcInv

\* A telegram of either direction is counted for its channel and put in front of the
\* log, which keeps its limit (plc-connection.service.ts:141-199).
LEMMA TelegramSound ==
  ASSUME PlcInv, NEW c \in Channels, NEW way \in {"SEND", "RECEIVE"},
         Plc!RecordTelegram(c, way),
         \/ /\ way = "SEND" /\ telegramsSent' = [telegramsSent EXCEPT ![c] = telegramsSent[c] + 1]
            /\ UNCHANGED telegramsReceived
         \/ /\ way = "RECEIVE"
            /\ telegramsReceived' = [telegramsReceived EXCEPT ![c] = telegramsReceived[c] + 1]
            /\ UNCHANGED telegramsSent
  PROVE  PlcInv'
<1> DEFINE e == [channel |-> c, direction |-> way]
           old == telegramLog
           new == telegramLog'
           n == Plc!Smaller(Len(<<e>> \o old), TelegramLogCap)
           S == Plc!Telegrams(telegramsSent)
           R == Plc!Telegrams(telegramsReceived)
           S1 == Plc!Telegrams(telegramsSent')
           R1 == Plc!Telegrams(telegramsReceived')
<1>1. /\ telegramsSent \in [Channels -> Nat] /\ telegramsReceived \in [Channels -> Nat]
      /\ old \in Seq(Telegram) /\ Len(old) \in Nat /\ DOMAIN old = 1 .. Len(old)
      /\ TelegramLogCap \in Nat /\ IsFiniteSet(S) /\ IsFiniteSet(R)
      /\ e \in Telegram
  BY TelegramAssumption DEF PlcInv, Plc!TelegramTypeOK, Telegram, TelegramAssumption
<1>2. new = SubSeq(<<e>> \o old, 1, n)
  BY DEF Plc!RecordTelegram
<1>3. /\ n = (IF Len(old) + 1 <= TelegramLogCap THEN Len(old) + 1 ELSE TelegramLogCap)
      /\ n \in Nat /\ n <= Len(old) + 1
  <2>1. Len(<<e>> \o old) = Len(old) + 1
    BY <1>1
  <2> HIDE DEF e, old
  <2> QED BY <1>1, <2>1 DEF Plc!Smaller
<1>4. Len(old) = Plc!Smaller(Plc!Total, TelegramLogCap)
  BY DEF PlcInv, Accounted
<1> HIDE DEF e, old, new, n, S, R, S1, R1
<1>5. CutTo(new, e, old, n, Telegram)
  BY <1>1, <1>2, <1>3, CutFacts
<1>6. /\ IsFiniteSet(S1) /\ IsFiniteSet(R1)
      /\ telegramsSent' \in [Channels -> Nat] /\ telegramsReceived' \in [Channels -> Nat]
      /\ Cardinality(S) \in Nat /\ Cardinality(R) \in Nat
      /\ Cardinality(S1) + Cardinality(R1) = Cardinality(S) + Cardinality(R) + 1
  <2>1. Cardinality(S) \in Nat /\ Cardinality(R) \in Nat
    BY <1>1, FS_CardinalityType
  <2>2. CASE /\ telegramsSent' = [telegramsSent EXCEPT ![c] = telegramsSent[c] + 1]
             /\ UNCHANGED telegramsReceived
    <3>1. telegramsSent' \in [Channels -> Nat] /\ IsFiniteSet(S1) /\ Cardinality(S1) = Cardinality(S) + 1
      <4> DEFINE count == telegramsSent
                 more == telegramsSent'
      <4>1. /\ count \in [Channels -> Nat] /\ more \in [Channels -> Nat]
            /\ more[c] = count[c] + 1 /\ \A d \in Channels : d # c => more[d] = count[d]
            /\ IsFiniteSet(Plc!Telegrams(count))
        BY <1>1, <2>2 DEF S
      <4> HIDE DEF count, more
      <4>2. /\ more \in [Channels -> Nat] /\ IsFiniteSet(Plc!Telegrams(more))
            /\ Cardinality(Plc!Telegrams(more)) = Cardinality(Plc!Telegrams(count)) + 1
        BY <4>1, OneMoreTelegram
      <4> QED BY <4>2 DEF count, more, S, S1
    <3>2. R1 = R
      BY <2>2 DEF R, R1
    <3>3. telegramsReceived' \in [Channels -> Nat] /\ IsFiniteSet(R1)
      BY <1>1, <2>2, <3>2
    <3> QED BY <2>1, <3>1, <3>2, <3>3
  <2>3. CASE /\ telegramsReceived' = [telegramsReceived EXCEPT ![c] = telegramsReceived[c] + 1]
             /\ UNCHANGED telegramsSent
    <3>1. telegramsReceived' \in [Channels -> Nat] /\ IsFiniteSet(R1) /\ Cardinality(R1) = Cardinality(R) + 1
      <4> DEFINE count == telegramsReceived
                 more == telegramsReceived'
      <4>1. /\ count \in [Channels -> Nat] /\ more \in [Channels -> Nat]
            /\ more[c] = count[c] + 1 /\ \A d \in Channels : d # c => more[d] = count[d]
            /\ IsFiniteSet(Plc!Telegrams(count))
        BY <1>1, <2>3 DEF R
      <4> HIDE DEF count, more
      <4>2. /\ more \in [Channels -> Nat] /\ IsFiniteSet(Plc!Telegrams(more))
            /\ Cardinality(Plc!Telegrams(more)) = Cardinality(Plc!Telegrams(count)) + 1
        BY <4>1, OneMoreTelegram
      <4> QED BY <4>2 DEF count, more, R, R1
    <3>2. S1 = S
      BY <2>3 DEF S, S1
    <3>3. telegramsSent' \in [Channels -> Nat] /\ IsFiniteSet(S1)
      BY <1>1, <2>3, <3>2
    <3> QED BY <2>1, <3>1, <3>2, <3>3
  <2> QED BY <2>2, <2>3
<1>7. Plc!Total = Cardinality(S) + Cardinality(R) /\ Plc!Total' = Cardinality(S1) + Cardinality(R1)
  BY TotalIs DEF S, R, S1, R1
<1>8. Len(new) = Plc!Smaller(Plc!Total', TelegramLogCap)
  <2> DEFINE a == Plc!Total
             b == Plc!Total'
  <2>1. a \in Nat /\ b = a + 1
    BY <1>6, <1>7
  <2>2. Len(new) = n /\ Len(old) = Plc!Smaller(a, TelegramLogCap)
    BY <1>4, <1>5 DEF CutTo
  <2> HIDE DEF a, b
  <2>3. Len(new) = Plc!Smaller(b, TelegramLogCap)
    BY <1>1, <1>3, <2>1, <2>2 DEF Plc!Smaller
  <2> QED BY <2>3 DEF b
<1>9. ASSUME NEW k \in Channels, NEW d \in {"SEND", "RECEIVE"}
      PROVE  /\ Cardinality(LoggedOf(k, d)') <= Cardinality(LoggedOf(k, d)) + 1
             /\ ~(k = c /\ d = way) => Cardinality(LoggedOf(k, d)') <= Cardinality(LoggedOf(k, d))
             /\ Cardinality(LoggedOf(k, d)') \in Nat /\ Cardinality(LoggedOf(k, d)) \in Nat
  <2> DEFINE A == LoggedOf(k, d)'
             B == LoggedOf(k, d)
  <2>1. A \in SUBSET (1 .. n) /\ B \in SUBSET (1 .. Len(old))
    BY <1>1, <1>5 DEF LoggedOf, CutTo, old, new
  <2>2. \A i \in A : i = 1 \/ i - 1 \in B
    BY <1>1, <1>5 DEF LoggedOf, CutTo, old, new
  <2>3. ~(k = c /\ d = way) => 1 \notin A
    <3>1. 1 \in A => new[1] = e
      BY <1>5, <2>1 DEF CutTo
    <3>2. 1 \in A => new[1] = [channel |-> k, direction |-> d]
      BY DEF LoggedOf, new
    <3>3. e = [channel |-> k, direction |-> d] => k = c /\ d = way
      BY DEF e
    <3> QED BY <3>1, <3>2, <3>3
  <2> HIDE DEF A, B
  <2>4. /\ Cardinality(A) <= Cardinality(B) + 1
        /\ 1 \notin A => Cardinality(A) <= Cardinality(B)
        /\ Cardinality(A) \in Nat /\ Cardinality(B) \in Nat
    BY <1>1, <1>3, <2>1, <2>2, CountShifted
  <2> QED BY <2>3, <2>4 DEF A, B
<1>10. ASSUME NEW k \in Channels
       PROVE  /\ Cardinality(LoggedOf(k, "SEND")') <= telegramsSent'[k]
              /\ Cardinality(LoggedOf(k, "RECEIVE")') <= telegramsReceived'[k]
  <2>1. /\ Cardinality(LoggedOf(k, "SEND")) <= telegramsSent[k]
        /\ Cardinality(LoggedOf(k, "RECEIVE")) <= telegramsReceived[k]
    BY DEF PlcInv, Accounted
  <2>2. /\ telegramsSent[k] \in Nat /\ telegramsReceived[k] \in Nat
        /\ telegramsSent'[k] = IF k = c /\ way = "SEND" THEN telegramsSent[k] + 1 ELSE telegramsSent[k]
        /\ telegramsReceived'[k] = IF k = c /\ way = "RECEIVE" THEN telegramsReceived[k] + 1
                                   ELSE telegramsReceived[k]
    BY <1>1
  <2> QED BY <1>9, <2>1, <2>2
<1>11. Accounted'
  BY <1>8, <1>10 DEF Accounted, new
<1>12. Plc!TelegramTypeOK'
  BY <1>5, <1>6 DEF Plc!TelegramTypeOK, CutTo, Telegram, new
<1> QED BY <1>6, <1>11, <1>12 DEF PlcInv, S1, R1

LEMMA PlcStepSound == ASSUME PlcInv, Plc!TelegramNext \/ UNCHANGED plcVars PROVE PlcInv'
<1>1. ASSUME NEW c \in Channels, Plc!SendTelegram(c) PROVE PlcInv'
  BY <1>1, TelegramSound DEF Plc!SendTelegram
<1>2. ASSUME NEW c \in Channels, Plc!ReceiveTelegram(c) PROVE PlcInv'
  BY <1>2, TelegramSound DEF Plc!ReceiveTelegram
<1>3. CASE UNCHANGED plcVars
  BY <1>3 DEF plcVars, PlcInv, Plc!TelegramTypeOK, Accounted, LoggedOf, Plc!Total, Plc!Telegrams
<1> QED BY <1>1, <1>2, <1>3 DEF Plc!TelegramNext

-----------------------------------------------------------------------------
(***************************************************************************)
(* The sending side of a channel of the sorter's server                    *)
(***************************************************************************)

\* Two sets of places of which one is the other, one place further to the back, and
\* perhaps the first place: they count the same but for that.
LEMMA ShiftedExactly ==
  ASSUME NEW n \in Nat, NEW A \in SUBSET (1 .. n), NEW m \in Nat, NEW B \in SUBSET (1 .. m),
         \A i \in Nat \ {0} : i + 1 \in A <=> i \in B
  PROVE  /\ IsFiniteSet(A) /\ IsFiniteSet(B) /\ Cardinality(A) \in Nat /\ Cardinality(B) \in Nat
         /\ 1 \in A => Cardinality(A) = Cardinality(B) + 1
         /\ 1 \notin A => Cardinality(A) = Cardinality(B)
<1>1. IsFiniteSet(1 .. n) /\ IsFiniteSet(1 .. m)
  BY FS_Interval
<1>2. IsFiniteSet(A) /\ IsFiniteSet(B)
  BY <1>1, FS_Subset
<1>3. Cardinality(A) \in Nat /\ Cardinality(B) \in Nat
  BY <1>2, FS_CardinalityType
<1> DEFINE C == A \ {1}
           f == [i \in C |-> i - 1]
<1>4. \A i \in C : i - 1 \in Nat \ {0} /\ (i - 1) + 1 = i
  OBVIOUS
<1>5. f \in [C -> B]
  BY <1>4
<1>6. \A i, j \in C : f[i] = f[j] => i = j
  BY <1>4
<1>7. \A b \in B : b + 1 \in C /\ f[b + 1] = b
  OBVIOUS
<1>8. f \in Bijection(C, B)
  <2> HIDE DEF f, C
  <2> QED BY <1>5, <1>6, <1>7, Zenon DEF Bijection, Injection, Surjection, IsInjective
<1> HIDE DEF f
<1>9. IsFiniteSet(C) /\ Cardinality(C) = Cardinality(B)
  <2>1. IsFiniteSet(C)
    BY <1>2, FS_Subset
  <2> HIDE DEF C
  <2> QED BY <1>8, <2>1, FS_Bijection DEF ExistsBijection
<1>10. Cardinality(C) = IF 1 \in A THEN Cardinality(A) - 1 ELSE Cardinality(A)
  BY <1>2, FS_RemoveElement
<1> QED BY <1>2, <1>3, <1>9, <1>10

\* What is added to a list is added to its rest from any place on.
LEMMA RestGrows ==
  ASSUME NEW S, NEW s \in Seq(S), NEW e \in S, NEW j \in 0 .. Len(s)
  PROVE  Append(SubSeq(s, j + 1, Len(s)), e) = SubSeq(Append(s, e), j + 1, Len(Append(s, e)))
<1> DEFINE n == Len(s)
           t == Append(s, e)
           a == SubSeq(s, j + 1, n)
           b == SubSeq(t, j + 1, n + 1)
<1>1. n \in Nat /\ j \in Nat /\ j <= n /\ \A i \in 1 .. n : s[i] \in S
  OBVIOUS
<1>2. t \in Seq(S) /\ Len(t) = n + 1 /\ t[n + 1] = e /\ \A i \in 1 .. n : t[i] = s[i]
  BY AppendProperties
<1> HIDE DEF t, n
<1>3. /\ a \in Seq(S) /\ Len(a) = n - j
      /\ \A i \in 1 .. n - j : a[i] = s[j + i]
  <2>1. \A i \in j + 1 .. n : s[i] \in S
    BY <1>1
  <2> QED BY <1>1, <2>1
<1>4. /\ b \in Seq(S) /\ Len(b) = n + 1 - j
      /\ \A i \in 1 .. n + 1 - j : b[i] = t[j + i]
  <2>1. \A i \in j + 1 .. n + 1 : t[i] \in S
    BY <1>1, <1>2
  <2> QED BY <1>1, <2>1
<1> HIDE DEF a, b
<1>5. /\ Append(a, e) \in Seq(S) /\ Len(Append(a, e)) = Len(a) + 1
      /\ Append(a, e)[Len(a) + 1] = e /\ \A i \in 1 .. Len(a) : Append(a, e)[i] = a[i]
  BY <1>3, AppendProperties
<1> DEFINE c == Append(a, e)
<1> HIDE DEF c
<1>6. c \in Seq(S) /\ Len(c) = n - j + 1 /\ c[n - j + 1] = e /\ \A i \in 1 .. n - j : c[i] = a[i]
  BY <1>3, <1>5 DEF c
<1>7. \A i \in 1 .. Len(c) : c[i] = b[i]
  <2>1. SUFFICES ASSUME NEW i \in 1 .. n - j + 1 PROVE c[i] = b[i]
    BY <1>6
  <2>2. CASE i = n - j + 1
    BY <1>1, <1>2, <1>4, <1>6, <2>2
  <2>3. CASE i # n - j + 1
    <3>1. i \in 1 .. n - j /\ j + i \in 1 .. n
      BY <1>1, <2>1, <2>3
    <3> QED BY <1>1, <1>2, <1>3, <1>4, <1>6, <3>1
  <2> QED BY <2>2, <2>3
<1>8. Len(c) = Len(b)
  BY <1>1, <1>4, <1>6
<1>9. c = b
  BY <1>4, <1>6, <1>7, <1>8, SeqEqual
<1> QED BY <1>2, <1>9 DEF a, b, c, n, t

LogEntry == [direction : {"TX", "RX", "OTHER"}, no : Nat]

\* The entries of telegrams sent among the newest k of a log
SentOf(log, k) == {i \in 1 .. k : log[i].direction = "TX"}

\* The entries of telegrams sent are the newest of what was sent, in order, and there
\* are no more of them than were sent.
NewestOf(log, sent) ==
  /\ log \in Seq(LogEntry) /\ Cardinality(SentOf(log, Len(log))) <= Len(sent)
  /\ \A i \in SentOf(log, Len(log)) :
       log[i].no = sent[Len(sent) - Cardinality(SentOf(log, i - 1))]

\* Before an entry there are fewer entries sent than in all.
LEMMA SentCounts ==
  ASSUME NEW log \in Seq(LogEntry), NEW k \in 0 .. Len(log)
  PROVE  /\ Cardinality(SentOf(log, k)) \in Nat /\ Cardinality(SentOf(log, Len(log))) \in Nat
         /\ Cardinality(SentOf(log, k)) <= Cardinality(SentOf(log, Len(log)))
         /\ k + 1 \in SentOf(log, Len(log)) =>
              Cardinality(SentOf(log, k)) < Cardinality(SentOf(log, Len(log)))
<1> DEFINE n == Len(log)
           A == SentOf(log, k)
           B == SentOf(log, n)
<1>1. n \in Nat /\ k \in Nat /\ k <= n
  OBVIOUS
<1> HIDE DEF n
<1>2. A \subseteq 1 .. k /\ B \subseteq 1 .. n
  BY DEF SentOf
<1>3. A \subseteq B /\ k + 1 \notin A
  BY <1>1 DEF SentOf
<1>4. IsFiniteSet(1 .. n) /\ IsFiniteSet(1 .. k)
  BY <1>1, FS_Interval
<1> HIDE DEF A, B
<1>5. IsFiniteSet(A) /\ IsFiniteSet(B)
  BY <1>2, <1>4, FS_Subset
<1>6. Cardinality(A) \in Nat /\ Cardinality(B) \in Nat /\ Cardinality(A) <= Cardinality(B)
  BY <1>3, <1>5, FS_CardinalityType, FS_Subset
<1>7. ASSUME k + 1 \in B PROVE Cardinality(A) < Cardinality(B)
  <2> DEFINE C == B \ {k + 1}
  <2>1. IsFiniteSet(C) /\ Cardinality(C) = Cardinality(B) - 1
    BY <1>5, <1>7, FS_RemoveElement
  <2>2. A \subseteq C
    BY <1>3
  <2> HIDE DEF C
  <2>3. Cardinality(A) <= Cardinality(C)
    BY <2>1, <2>2, FS_Subset
  <2> QED BY <1>6, <2>1, <2>3
<1> QED BY <1>6, <1>7 DEF A, B, n

\* An entry that is logged keeps the log right, whether it is of a telegram sent or of
\* any other (tcp-server.service.ts:203).
LEMMA NewestGrows ==
  ASSUME NEW sent \in Seq(Nat), NEW log, NewestOf(log, sent), NEW entry \in LogEntry,
         NEW m \in Nat, m <= Len(log) + 1, NEW new, CutTo(new, entry, log, m, LogEntry),
         NEW more, \/ entry.direction = "TX" /\ more = Append(sent, entry.no)
                   \/ entry.direction # "TX" /\ more = sent
  PROVE  NewestOf(new, more)
<1> DEFINE n == Len(log)
           one == IF entry.direction = "TX" THEN 1 ELSE 0
<1>1. /\ log \in Seq(LogEntry) /\ n \in Nat /\ Len(sent) \in Nat
      /\ entry.no \in Nat /\ one \in {0, 1} /\ (one = 1 <=> entry.direction = "TX")
      /\ Cardinality(SentOf(log, n)) <= Len(sent)
  BY DEF NewestOf, LogEntry
<1> HIDE DEF one
<1>2. /\ Len(more) = Len(sent) + one
      /\ \A i \in 1 .. Len(sent) : more[i] = sent[i]
      /\ one = 1 => more[Len(sent) + 1] = entry.no
  <2>1. CASE entry.direction = "TX"
    <3>1. more = Append(sent, entry.no) /\ one = 1
      BY <1>1, <2>1
    <3> QED BY <1>1, <3>1, AppendProperties
  <2>2. CASE entry.direction # "TX"
    <3>1. more = sent /\ one = 0
      BY <1>1, <2>2
    <3> QED BY <1>1, <3>1
  <2> QED BY <2>1, <2>2
<1>3. /\ new \in Seq(LogEntry) /\ Len(new) = m
      /\ 1 \in 1 .. m => new[1] = entry
      /\ \A i \in 1 .. m : i # 1 => i - 1 \in 1 .. n /\ new[i] = log[i - 1]
  BY DEF CutTo
\* Among the newest k + 1 are the k that were, and the new one.
<1>4. ASSUME NEW k \in Nat, k + 1 <= m
      PROVE  /\ k \in 0 .. n /\ Cardinality(SentOf(log, k)) \in Nat
             /\ Cardinality(SentOf(new, k + 1)) = Cardinality(SentOf(log, k)) + one
  <2> DEFINE A == SentOf(new, k + 1)
             B == SentOf(log, k)
  <2>1. A \in SUBSET (1 .. k + 1) /\ B \in SUBSET (1 .. k) /\ k + 1 \in Nat
    BY <1>4 DEF SentOf
  <2>2. \A i \in Nat \ {0} : i + 1 \in A <=> i \in B
    <3>1. SUFFICES ASSUME NEW i \in Nat \ {0} PROVE i + 1 \in A <=> i \in B
      OBVIOUS
    <3>2. i + 1 \in 1 .. k + 1 <=> i \in 1 .. k
      BY <1>4, <3>1
    <3>3. i \in 1 .. k => i + 1 \in 1 .. m /\ i + 1 # 1 /\ (i + 1) - 1 = i
      BY <1>4, <3>1
    <3>4. i \in 1 .. k => new[i + 1] = log[i]
      BY <1>3, <3>3
    <3> QED BY <3>2, <3>4 DEF SentOf
  <2>3. 1 \in A <=> entry.direction = "TX"
    <3>1. 1 \in 1 .. m /\ 1 \in 1 .. k + 1
      BY <1>4
    <3> QED BY <1>3, <3>1 DEF SentOf
  <2> HIDE DEF A, B
  <2>4. /\ Cardinality(A) \in Nat /\ Cardinality(B) \in Nat
        /\ 1 \in A => Cardinality(A) = Cardinality(B) + 1
        /\ 1 \notin A => Cardinality(A) = Cardinality(B)
    BY <1>4, <2>1, <2>2, ShiftedExactly
  <2>5. Cardinality(A) = Cardinality(B) + one
    BY <1>1, <2>3, <2>4
  <2>6. k \in 0 .. n
    BY <1>1, <1>4
  <2> QED BY <2>4, <2>5, <2>6 DEF A, B
<1>5. Cardinality(SentOf(new, m)) <= Len(more)
  <2>1. CASE m = 0
    <3>1. SentOf(new, m) = {}
      BY <2>1 DEF SentOf
    <3> QED BY <1>1, <1>2, <3>1, FS_EmptySet
  <2>2. CASE m # 0
    <3>1. PICK k \in Nat : k + 1 = m
      <4>1. m - 1 \in Nat /\ (m - 1) + 1 = m
        BY <2>2
      <4> QED BY <4>1
    <3>2. /\ k \in 0 .. n /\ Cardinality(SentOf(log, k)) \in Nat
          /\ Cardinality(SentOf(new, m)) = Cardinality(SentOf(log, k)) + one
      BY <1>4, <3>1
    <3>3. Cardinality(SentOf(log, k)) <= Cardinality(SentOf(log, n)) /\ Cardinality(SentOf(log, n)) \in Nat
      BY <1>1, <3>2, SentCounts
    <3> HIDE DEF n
    <3> QED BY <1>1, <1>2, <3>2, <3>3
  <2> QED BY <2>1, <2>2
<1>6. ASSUME NEW i \in SentOf(new, m)
      PROVE  new[i].no = more[Len(more) - Cardinality(SentOf(new, i - 1))]
  <2>1. i \in 1 .. m /\ new[i].direction = "TX"
    BY DEF SentOf
  <2>2. CASE i = 1
    <3>1. new[i] = entry /\ one = 1
      BY <1>1, <1>3, <2>1, <2>2
    <3>2. SentOf(new, i - 1) = {}
      BY <2>2 DEF SentOf
    <3>4. Cardinality(SentOf(new, i - 1)) = 0
      BY <3>2, FS_EmptySet, Zenon
    <3>3. Len(more) - Cardinality(SentOf(new, i - 1)) = Len(sent) + 1
      BY <1>1, <1>2, <3>1, <3>4
    <3> QED BY <1>2, <3>1, <3>3
  <2>3. CASE i # 1
    <3>1. PICK k \in Nat : i = k + 2
      <4>1. i - 2 \in Nat /\ i = (i - 2) + 2
        BY <2>1, <2>3
      <4> QED BY <4>1
    <3>2. /\ k + 1 <= m /\ i - 1 = k + 1 /\ k + 1 \in 1 .. n /\ new[i] = log[k + 1]
      BY <1>3, <2>1, <2>3, <3>1
    <3>3. k + 1 \in SentOf(log, n) /\ (k + 1) - 1 = k
      BY <2>1, <3>1, <3>2 DEF SentOf
    <3>4. new[i].no = sent[Len(sent) - Cardinality(SentOf(log, k))]
      BY <3>2, <3>3 DEF NewestOf
    <3>5. /\ k \in 0 .. n /\ Cardinality(SentOf(log, k)) \in Nat
          /\ Cardinality(SentOf(new, i - 1)) = Cardinality(SentOf(log, k)) + one
      BY <1>4, <3>1, <3>2
    <3>6. Cardinality(SentOf(log, k)) < Cardinality(SentOf(log, n)) /\ Cardinality(SentOf(log, n)) \in Nat
      BY <1>1, <3>3, <3>5, SentCounts
    <3> DEFINE x == Len(sent) - Cardinality(SentOf(log, k))
    <3>7. /\ Len(more) - Cardinality(SentOf(new, i - 1)) = x
          /\ x \in 1 .. Len(sent)
      <4> DEFINE a == Cardinality(SentOf(log, k))
                 b == Cardinality(SentOf(log, n))
                 c == Cardinality(SentOf(new, i - 1))
                 len == Len(sent)
                 all == Len(more)
      <4>1. /\ a \in Nat /\ b \in Nat /\ a < b /\ b <= len /\ len \in Nat
            /\ c = a + one /\ all = len + one /\ one \in {0, 1}
        BY <1>1, <1>2, <3>5, <3>6
      <4> HIDE DEF a, b, c, len, all
      <4>2. all - c = len - a /\ len - a \in 1 .. len
        BY <4>1
      <4> QED BY <4>2 DEF a, c, len, all
    <3> HIDE DEF x
    <3>8. new[i].no = sent[x]
      BY <3>4 DEF x
    <3> QED BY <1>2, <3>7, <3>8
  <2> QED BY <2>2, <2>3
<1> QED BY <1>3, <1>5, <1>6 DEF NewestOf

\* The counters agree with what was sent, and a client joined before now.
ServerNumbers ==
  /\ socket \in [TcpClients -> {"open", "destroyed", "closed"}]
  /\ got \in [TcpClients -> Seq(Nat)] /\ joined \in [TcpClients -> Nat]
  /\ sends \in Seq(Nat) /\ \A c \in TcpClients : joined[c] <= Len(sends)
  /\ heartbeatNo \in 0 .. MaxHeartbeatNo
  /\ tcpStats \in [sent : Nat, received : Nat] /\ tcpStats.sent = Len(sends)
  /\ tcpStats.sent <= MaxFrames /\ tcpStats.received <= MaxFrames
  /\ others \in 0 .. MaxFrames

GotTheRest ==
  \A c \in TcpClients :
    socket[c] = "open" => got[c] = SubSeq(sends, joined[c] + 1, Len(sends))

ServerInv ==
  /\ ServerNumbers /\ GotTheRest /\ NewestOf(tcpLog, sends)
  /\ Len(tcpLog) = Min({TcpLogCap, tcpStats.sent + tcpStats.received + others})

LEMMA ServerConstants ==
  MaxHeartbeatNo \in Nat /\ MaxHeartbeatNo > 0 /\ TcpLogCap \in Nat /\ MaxFrames \in Nat
BY ServerAssumption DEF ServerAssumption

OneSent(t) == [t EXCEPT !.sent = t.sent + 1]
OneReceived(t) == [t EXCEPT !.received = t.received + 1]

LEMMA StatsCounted ==
  ASSUME NEW t \in [sent : Nat, received : Nat]
  PROVE  /\ OneSent(t) \in [sent : Nat, received : Nat]
         /\ OneSent(t).sent = t.sent + 1 /\ OneSent(t).received = t.received
         /\ OneReceived(t) \in [sent : Nat, received : Nat]
         /\ OneReceived(t).sent = t.sent /\ OneReceived(t).received = t.received + 1
BY DEF OneSent, OneReceived

LEMMA ServerInitSound == ASSUME ServerInit PROVE ServerInv
<1>1. /\ socket = [c \in TcpClients |-> "closed"] /\ got = [c \in TcpClients |-> <<>>]
      /\ joined = [c \in TcpClients |-> 0] /\ heartbeatNo = 0
      /\ tcpStats = [sent |-> 0, received |-> 0] /\ tcpLog = <<>> /\ sends = <<>>
      /\ others = 0
  BY DEF ServerInit
<1>2. ServerNumbers
  BY <1>1, ServerConstants DEF ServerNumbers
<1>3. GotTheRest
  BY <1>1 DEF GotTheRest
<1>4. SentOf(tcpLog, 0) = {} /\ Len(tcpLog) = 0 /\ Len(sends) = 0
      /\ tcpStats.sent + tcpStats.received + others = 0
  BY <1>1 DEF SentOf
<1>5. Min({TcpLogCap, 0}) = 0
  BY ServerConstants, LesserOfTwo
<1>6. Cardinality(SentOf(tcpLog, 0)) = 0
  BY <1>4, FS_EmptySet, Zenon
<1>7. NewestOf(tcpLog, sends)
  BY <1>1, <1>4, <1>6 DEF NewestOf
<1> QED BY <1>2, <1>3, <1>4, <1>5, <1>7 DEF ServerInv

\* A step that sends and receives nothing, and lets no client in.
LEMMA QuietServerStep ==
  ASSUME ServerInv, UNCHANGED <<got, joined, tcpStats, tcpLog, sends, others>>,
         socket' \in [TcpClients -> {"open", "destroyed", "closed"}],
         \A c \in TcpClients : socket'[c] = "open" => socket[c] = "open",
         heartbeatNo' \in 0 .. MaxHeartbeatNo
  PROVE  ServerInv'
<1>1. ServerNumbers'
  BY DEF ServerInv, ServerNumbers
<1>2. GotTheRest'
  BY DEF ServerInv, GotTheRest
<1> QED BY <1>1, <1>2 DEF ServerInv

\* An entry of a telegram is counted and logged (tcp-server.service.ts:162-215).
LEMMA LoggedSound ==
  ASSUME ServerInv, NEW entry \in LogEntry, tcpLog' = Logged(entry),
         tcpStats' \in [sent : Nat, received : Nat],
         \/ /\ entry.direction = "TX" /\ sends' = Append(sends, entry.no)
            /\ tcpStats'.sent = tcpStats.sent + 1 /\ tcpStats'.received = tcpStats.received
            /\ others' = others
         \/ /\ entry.direction = "RX" /\ sends' = sends /\ others' = others
            /\ tcpStats'.sent = tcpStats.sent /\ tcpStats'.received = tcpStats.received + 1
         \/ /\ entry.direction = "OTHER" /\ sends' = sends /\ others' = others + 1
            /\ tcpStats'.sent = tcpStats.sent /\ tcpStats'.received = tcpStats.received
  PROVE  /\ NewestOf(tcpLog', sends')
         /\ Len(tcpLog') = Min({TcpLogCap, tcpStats'.sent + tcpStats'.received + others'})
<1>0. /\ NewestOf(tcpLog, sends) /\ sends \in Seq(Nat)
      /\ Len(tcpLog) = Min({TcpLogCap, tcpStats.sent + tcpStats.received + others})
      /\ tcpStats \in [sent : Nat, received : Nat] /\ others \in Nat
  BY ServerConstants DEF ServerInv, ServerNumbers
<1>8. tcpLog \in Seq(LogEntry)
  BY <1>0 DEF NewestOf
<1>1. /\ NewestOf(tcpLog, sends) /\ tcpLog \in Seq(LogEntry) /\ Len(tcpLog) \in Nat
      /\ sends \in Seq(Nat) /\ tcpStats.sent \in Nat /\ tcpStats.received \in Nat
      /\ others \in Nat /\ TcpLogCap \in Nat
  BY <1>0, <1>8, ServerConstants
<1>2. tcpLog' = Recorded(entry, tcpLog, TcpLogCap)
  BY DEF Logged, Recorded
<1>3. PICK new : new = tcpLog'
  OBVIOUS
<1>4. /\ CutTo(new, entry, tcpLog, Len(new), LogEntry)
      /\ Len(new) = IF TcpLogCap <= Len(tcpLog) + 1 THEN TcpLogCap ELSE Len(tcpLog) + 1
  <2> DEFINE old == tcpLog
  <2>1. /\ old \in Seq(LogEntry) /\ TcpLogCap \in Nat /\ entry \in LogEntry
        /\ new = Recorded(entry, old, TcpLogCap)
    BY <1>1, <1>2, <1>3
  <2> HIDE DEF old
  <2>2. /\ CutTo(new, entry, old, Len(new), LogEntry)
        /\ Len(new) = IF TcpLogCap <= Len(old) + 1 THEN TcpLogCap ELSE Len(old) + 1
    BY ONLY <2>1, RecordedFacts
  <2> QED BY <2>2 DEF old
<1>5. Len(new) \in Nat /\ Len(new) <= Len(tcpLog) + 1
  BY <1>1, <1>4
<1>6. NewestOf(new, sends')
  <2> DEFINE m == Len(new)
             log == tcpLog
             sent == sends
             more == sends'
  <2>1. /\ m \in Nat /\ m <= Len(log) + 1 /\ CutTo(new, entry, log, m, LogEntry)
        /\ NewestOf(log, sent) /\ sent \in Seq(Nat)
        /\ \/ entry.direction = "TX" /\ more = Append(sent, entry.no)
           \/ entry.direction # "TX" /\ more = sent
    BY <1>1, <1>4, <1>5
  <2> HIDE DEF m, log, sent, more
  <2>2. NewestOf(new, more)
    BY <2>1, NewestGrows
  <2> QED BY <2>2 DEF more
<1>7. Len(new) = Min({TcpLogCap, tcpStats'.sent + tcpStats'.received + others'})
  <2> DEFINE a == tcpStats.sent + tcpStats.received + others
             b == tcpStats'.sent + tcpStats'.received + others'
             x == Min({TcpLogCap, a})
             y == Min({TcpLogCap, b})
             n == Len(tcpLog)
  <2>5. a \in Nat /\ b \in Nat /\ b = a + 1
    <3>0. tcpStats.sent \in Nat /\ tcpStats.received \in Nat /\ others \in Nat
      BY <1>1
    <3>1. CASE /\ tcpStats'.sent = tcpStats.sent + 1 /\ tcpStats'.received = tcpStats.received
               /\ others' = others
      BY ONLY <3>0, <3>1
    <3>2. CASE /\ tcpStats'.sent = tcpStats.sent /\ tcpStats'.received = tcpStats.received + 1
               /\ others' = others
      BY ONLY <3>0, <3>2
    <3>3. CASE /\ tcpStats'.sent = tcpStats.sent /\ tcpStats'.received = tcpStats.received
               /\ others' = others + 1
      BY ONLY <3>0, <3>3
    <3> QED BY <3>1, <3>2, <3>3, Zenon
  <2>1. a \in Nat /\ b \in Nat /\ b = a + 1 /\ n = x
    BY <1>0, <2>5
  <2> HIDE DEF a, b
  <2>2. x = IF TcpLogCap <= a THEN TcpLogCap ELSE a
    BY <1>1, <2>1, LesserOfTwo
  <2>3. y = IF TcpLogCap <= b THEN TcpLogCap ELSE b
    BY <1>1, <2>1, LesserOfTwo
  <2> HIDE DEF x, y
  <2>4. Len(new) = y
    BY <1>1, <1>4, <2>1, <2>2, <2>3
  <2> QED BY <2>4 DEF y, b
<1> QED BY <1>3, <1>6, <1>7

LEMMA SendSound == ASSUME ServerInv, SendHeartbeat PROVE ServerInv'
<1>1. /\ socket \in [TcpClients -> {"open", "destroyed", "closed"}]
      /\ got \in [TcpClients -> Seq(Nat)] /\ joined \in [TcpClients -> Nat]
      /\ sends \in Seq(Nat) /\ Len(sends) \in Nat
      /\ \A c \in TcpClients : joined[c] <= Len(sends)
      /\ heartbeatNo \in 0 .. MaxHeartbeatNo
      /\ tcpStats \in [sent : Nat, received : Nat] /\ tcpStats.sent = Len(sends)
      /\ tcpStats.sent <= MaxFrames /\ tcpStats.received <= MaxFrames
      /\ others \in 0 .. MaxFrames
  BY DEF ServerInv, ServerNumbers
<1>2. PICK no \in 0 .. MaxHeartbeatNo : heartbeatNo' = no /\ SendToChannel(no)
  <2> DEFINE next == IF heartbeatNo + 1 > MaxHeartbeatNo THEN 1 ELSE heartbeatNo + 1
  <2>1. next \in 0 .. MaxHeartbeatNo
    BY <1>1, ServerConstants
  <2>2. heartbeatNo' = next /\ SendToChannel(next)
    BY DEF SendHeartbeat
  <2> QED BY <2>1, <2>2
<1>3. CASE ~listening \/ ServerClients = {}
  <2>1. UNCHANGED <<socket, got, joined, tcpStats, tcpLog, sends, others>>
    BY <1>2, <1>3 DEF SendToChannel
  <2> QED BY <1>1, <1>2, <2>1, QuietServerStep
<1>4. CASE ~(~listening \/ ServerClients = {})
  <2> DEFINE entry == [direction |-> "TX", no |-> no]
  <2>1. /\ got' = [c \in TcpClients |-> IF Written(c) THEN Append(got[c], no) ELSE got[c]]
        /\ tcpStats' = OneSent(tcpStats)
        /\ tcpLog' = Logged(entry) /\ sends' = Append(sends, no)
        /\ socket' = socket /\ joined' = joined /\ others' = others
    BY <1>2, <1>4 DEF SendToChannel, OneSent
  <2>2. entry \in LogEntry /\ entry.direction = "TX" /\ entry.no = no /\ no \in Nat
    BY <1>2, ServerConstants DEF LogEntry
  <2>3. /\ tcpStats' \in [sent : Nat, received : Nat]
        /\ tcpStats'.sent = tcpStats.sent + 1 /\ tcpStats'.received = tcpStats.received
    BY <1>1, <2>1, StatsCounted, Zenon
  <2> HIDE DEF entry
  <2>4. /\ NewestOf(tcpLog', sends')
        /\ Len(tcpLog') = Min({TcpLogCap, tcpStats'.sent + tcpStats'.received + others'})
    BY <2>1, <2>2, <2>3, LoggedSound
  <2>5. sends' \in Seq(Nat) /\ Len(sends') = Len(sends) + 1
    BY <1>1, <2>1, <2>2
  <2>6. got' \in [TcpClients -> Seq(Nat)]
    BY <1>1, <2>1, <2>2
  <2>7. tcpStats'.sent <= MaxFrames
    <3>1. Len(sends) < MaxFrames
      BY DEF SendHeartbeat
    <3> QED BY <1>1, <2>3, <3>1, ServerConstants
  <2>8. \A c \in TcpClients : joined'[c] <= Len(sends')
    BY <1>1, <2>1, <2>5
  <2>9. ServerNumbers'
    BY <1>1, <1>2, <2>1, <2>3, <2>5, <2>6, <2>7, <2>8 DEF ServerNumbers
  <2>10. ASSUME NEW c \in TcpClients, socket'[c] = "open"
         PROVE  got'[c] = SubSeq(sends', joined'[c] + 1, Len(sends'))
    <3>1. got[c] = SubSeq(sends, joined[c] + 1, Len(sends)) /\ got'[c] = Append(got[c], no)
      BY <2>1, <2>10 DEF ServerInv, GotTheRest, Written
    <3> DEFINE j == joined[c]
               s == sends
    <3>2. j \in 0 .. Len(s) /\ s \in Seq(Nat)
      BY <1>1
    <3> HIDE DEF j, s
    <3>3. Append(SubSeq(s, j + 1, Len(s)), no) = SubSeq(Append(s, no), j + 1, Len(Append(s, no)))
      BY <2>2, <3>2, RestGrows
    <3> QED BY <2>1, <3>1, <3>3 DEF j, s
  <2>11. GotTheRest'
    BY <2>10 DEF GotTheRest
  <2> QED BY <2>4, <2>9, <2>11 DEF ServerInv
<1> QED BY <1>3, <1>4

LEMMA ServerStepSound == ASSUME ServerInv, [ServerNext]_serverVars PROVE ServerInv'
<1>1. /\ socket \in [TcpClients -> {"open", "destroyed", "closed"}]
      /\ got \in [TcpClients -> Seq(Nat)] /\ joined \in [TcpClients -> Nat]
      /\ sends \in Seq(Nat) /\ Len(sends) \in Nat
      /\ \A c \in TcpClients : joined[c] <= Len(sends)
      /\ heartbeatNo \in 0 .. MaxHeartbeatNo
      /\ tcpStats \in [sent : Nat, received : Nat] /\ tcpStats.sent = Len(sends)
      /\ tcpStats.sent <= MaxFrames /\ tcpStats.received <= MaxFrames
      /\ others \in 0 .. MaxFrames
  BY DEF ServerInv, ServerNumbers
<1>2. CASE ResetHeartbeat
  <2>1. heartbeatNo' \in 0 .. MaxHeartbeatNo
    BY <1>2, ServerConstants DEF ResetHeartbeat
  <2> QED BY <1>1, <1>2, <2>1, QuietServerStep DEF ResetHeartbeat
<1>3. CASE StopAllServers
  <2>1. /\ socket' \in [TcpClients -> {"open", "destroyed", "closed"}]
        /\ \A c \in TcpClients : socket'[c] = "open" => socket[c] = "open"
    BY <1>1, <1>3 DEF StopAllServers
  <2> QED BY <1>1, <1>3, <2>1, QuietServerStep DEF StopAllServers
<1>4. ASSUME NEW c \in TcpClients, SocketFails(c) PROVE ServerInv'
  <2>1. /\ socket' \in [TcpClients -> {"open", "destroyed", "closed"}]
        /\ \A d \in TcpClients : socket'[d] = "open" => socket[d] = "open"
    BY <1>1, <1>4 DEF SocketFails
  <2> QED BY <1>1, <1>4, <2>1, QuietServerStep DEF SocketFails
<1>5. ASSUME NEW c \in TcpClients, SocketCloses(c) PROVE ServerInv'
  <2>1. /\ socket' \in [TcpClients -> {"open", "destroyed", "closed"}]
        /\ \A d \in TcpClients : socket'[d] = "open" => socket[d] = "open"
    BY <1>1, <1>5 DEF SocketCloses
  <2> QED BY <1>1, <1>5, <2>1, QuietServerStep DEF SocketCloses
<1>6. ASSUME NEW c \in TcpClients, AcceptClient(c) PROVE ServerInv'
  <2>1. /\ socket' = [socket EXCEPT ![c] = "open"] /\ got' = [got EXCEPT ![c] = <<>>]
        /\ joined' = [joined EXCEPT ![c] = Len(sends)]
        /\ UNCHANGED <<heartbeatNo, tcpStats, tcpLog, sends, others>>
    BY <1>6 DEF AcceptClient
  <2>2. ServerNumbers'
    <3>1. \A d \in TcpClients : joined'[d] <= Len(sends')
      BY <1>1, <2>1
    <3>2. got' \in [TcpClients -> Seq(Nat)] /\ joined' \in [TcpClients -> Nat]
      BY <1>1, <2>1
    <3>3. socket' \in [TcpClients -> {"open", "destroyed", "closed"}]
      BY <1>1, <2>1
    <3> QED BY <1>1, <2>1, <3>1, <3>2, <3>3 DEF ServerNumbers
  <2>3. SubSeq(sends, Len(sends) + 1, Len(sends)) = <<>>
    BY <1>1, SubSeqEmpty
  <2>4. ASSUME NEW d \in TcpClients, socket'[d] = "open"
        PROVE  got'[d] = SubSeq(sends', joined'[d] + 1, Len(sends'))
    <3>1. CASE d = c
      <4>1. got'[d] = <<>> /\ joined'[d] = Len(sends) /\ sends' = sends
        BY <1>1, <2>1, <3>1
      <4> QED BY <2>3, <4>1
    <3>2. CASE d # c
      <4>1. /\ socket[d] = "open" /\ got'[d] = got[d] /\ joined'[d] = joined[d] /\ sends' = sends
        BY <1>1, <2>1, <2>4, <3>2
      <4> QED BY <4>1 DEF ServerInv, GotTheRest
    <3> QED BY <3>1, <3>2
  <2>5. GotTheRest'
    BY <2>4 DEF GotTheRest
  <2> QED BY <2>1, <2>2, <2>5 DEF ServerInv
<1>7. ASSUME NEW c \in TcpClients, ReceiveFrame(c) PROVE ServerInv'
  <2> DEFINE entry == [direction |-> "RX", no |-> 0]
  <2>1. /\ tcpStats' = OneReceived(tcpStats)
        /\ tcpStats.received + others < MaxFrames /\ tcpLog' = Logged(entry)
        /\ UNCHANGED <<socket, got, joined, heartbeatNo, sends, others>>
    BY <1>7 DEF ReceiveFrame, OneReceived
  <2>2. entry \in LogEntry /\ entry.direction = "RX"
    BY DEF LogEntry
  <2>3. /\ tcpStats' \in [sent : Nat, received : Nat]
        /\ tcpStats'.sent = tcpStats.sent /\ tcpStats'.received = tcpStats.received + 1
    BY <1>1, <2>1, StatsCounted, Zenon
  <2> HIDE DEF entry
  <2>4. /\ NewestOf(tcpLog', sends')
        /\ Len(tcpLog') = Min({TcpLogCap, tcpStats'.sent + tcpStats'.received + others'})
    BY <2>1, <2>2, <2>3, LoggedSound
  <2>5. tcpStats'.received <= MaxFrames
    BY <1>1, <2>1, <2>3, ServerConstants
  <2>6. ServerNumbers'
    BY <1>1, <2>1, <2>3, <2>5 DEF ServerNumbers
  <2>7. GotTheRest'
    BY <2>1 DEF ServerInv, GotTheRest
  <2> QED BY <2>4, <2>6, <2>7 DEF ServerInv
<1>8. CASE OtherChannelLogs
  <2> DEFINE entry == [direction |-> "OTHER", no |-> 0]
  <2>1. /\ others' = others + 1 /\ tcpStats.received + others < MaxFrames
        /\ tcpLog' = Logged(entry)
        /\ UNCHANGED <<socket, got, joined, heartbeatNo, tcpStats, sends>>
    BY <1>8 DEF OtherChannelLogs
  <2>2. entry \in LogEntry /\ entry.direction = "OTHER"
    BY DEF LogEntry
  <2> HIDE DEF entry
  <2>3. /\ NewestOf(tcpLog', sends')
        /\ Len(tcpLog') = Min({TcpLogCap, tcpStats'.sent + tcpStats'.received + others'})
    BY <1>1, <2>1, <2>2, LoggedSound
  <2>4. ServerNumbers'
    BY <1>1, <2>1, ServerConstants DEF ServerNumbers
  <2>5. GotTheRest'
    BY <2>1 DEF ServerInv, GotTheRest
  <2> QED BY <2>3, <2>4, <2>5 DEF ServerInv
<1>9. CASE UNCHANGED serverVars
  <2>1. UNCHANGED <<socket, got, joined, heartbeatNo, tcpStats, tcpLog, sends, others>>
    BY <1>9 DEF serverVars
  <2> QED BY <1>1, <2>1, QuietServerStep
<1> QED BY <1>2, <1>3, <1>4, <1>5, <1>6, <1>7, <1>8, <1>9, SendSound DEF ServerNext

\* Every client that stays got all that was sent since it connected, once and in
\* order, and the log shows the newest of what the counters of the channels count
\* (tcp-server.service.ts:162, 168, 203).
THEOREM ClientsGetEverything == ServerSpec => [](ServerTypeOK /\ ServerTruthful)
<1>1. ServerInit => ServerInv
  BY ServerInitSound
<1>2. ServerInv /\ [ServerNext]_serverVars => ServerInv'
  BY ServerStepSound
<1>3. ServerInv => ServerTypeOK /\ ServerTruthful
  <2>1. SUFFICES ASSUME ServerInv PROVE ServerTypeOK /\ ServerTruthful
    OBVIOUS
  <2>2. /\ tcpStats \in [sent : Nat, received : Nat] /\ tcpStats.sent \in Nat
        /\ tcpStats.received \in Nat /\ tcpStats.sent <= MaxFrames /\ tcpStats.received <= MaxFrames
        /\ others \in 0 .. MaxFrames
    BY <2>1 DEF ServerInv, ServerNumbers
  <2>3. tcpStats \in [sent : 0 .. MaxFrames, received : 0 .. MaxFrames]
    <3>1. tcpStats.sent \in 0 .. MaxFrames /\ tcpStats.received \in 0 .. MaxFrames
      BY <2>2, ServerConstants
    <3> QED BY <2>2, <3>1
  <2>4. Len(tcpLog) <= TcpLogCap
    <3> DEFINE b == tcpStats.sent + tcpStats.received + others
               y == Min({TcpLogCap, b})
    <3>1. b \in Nat
      BY <2>2, ServerConstants
    <3> HIDE DEF b
    <3>2. y = IF TcpLogCap <= b THEN TcpLogCap ELSE b
      BY <3>1, ServerConstants, LesserOfTwo
    <3>3. Len(tcpLog) = y
      BY <2>1 DEF ServerInv, b
    <3> HIDE DEF y
    <3> QED BY <3>1, <3>2, <3>3, ServerConstants
  <2>5. ServerTypeOK
    BY <2>1, <2>3, <2>4 DEF ServerInv, ServerNumbers, ServerTypeOK
  <2>6. \A k : Sent(k) = SentOf(tcpLog, k)
    BY DEF Sent, SentOf
  <2>7. \A i \in Sent(Len(tcpLog)) : tcpLog[i].no = sends[Len(sends) - Cardinality(Sent(i - 1))]
    BY <2>1, <2>6, Zenon DEF ServerInv, NewestOf
  <2>8. ServerTruthful
    BY <2>1, <2>7 DEF ServerInv, ServerNumbers, GotTheRest, ServerTruthful
  <2> QED BY <2>5, <2>8
<1> QED BY <1>1, <1>2, <1>3, PTL DEF ServerSpec

-----------------------------------------------------------------------------
(***************************************************************************)
(* The link to SIMS and KPLAS                                              *)
(***************************************************************************)
SyncJob == [system : SyncSystems, at : Nat, status : {"SUCCESS"}, recordsSynced : Nat]

JobsOf(jobs, s) == {i \in DOMAIN jobs : jobs[i].system = s}

\* The time of a system's newest job, 0 if it has none
NewestAt(jobs, s) == IF JobsOf(jobs, s) = {} THEN 0 ELSE jobs[Min(JobsOf(jobs, s))].at

LinkInv ==
  /\ syncTime \in 0 .. MaxSyncTime
  /\ linkJobs \in Seq(SyncJob) /\ \A i \in DOMAIN linkJobs : linkJobs[i].at <= syncTime
  /\ lastSync \in [SyncSystems -> 0 .. syncTime]
  /\ \A s \in SyncSystems : lastSync[s] = NewestAt(linkJobs, s)
  /\ \A s \in SyncSystems :
       nextSync[s] = SyncInterval[s] + IF linkJobs = <<>> THEN 0 ELSE linkJobs[1].at

\* A job that is put in front is the newest of its system, and the newest one of every
\* other system is what it was, one place further to the back (info-link.service.ts:80-113).
LEMMA JobInFront ==
  ASSUME NEW jobs \in Seq(SyncJob), NEW job \in SyncJob, NEW new, new = <<job>> \o jobs,
         NEW s \in SyncSystems
  PROVE  NewestAt(new, s) = IF job.system = s THEN job.at ELSE NewestAt(jobs, s)
<1> DEFINE A == JobsOf(new, s)
           B == JobsOf(jobs, s)
           n == Len(jobs)
<1>1. /\ n \in Nat /\ DOMAIN jobs = 1 .. n /\ DOMAIN new = 1 .. n + 1
      /\ new[1] = job /\ \A i \in 1 .. n : new[i + 1] = jobs[i]
  OBVIOUS
<1> HIDE DEF n
<1>2. /\ \A i : i \in B <=> i \in 1 .. n /\ jobs[i].system = s
      /\ \A i : i \in A <=> i \in 1 .. n + 1 /\ new[i].system = s
  BY <1>1 DEF JobsOf
<1> HIDE DEF A, B
<1>3. A \in SUBSET Nat /\ B \in SUBSET Nat
  BY <1>1, <1>2
<1>4. CASE job.system = s
  <2>1. 1 \in A
    BY <1>1, <1>2, <1>4
  <2>2. Min(A) \in A /\ Min(A) <= 1
    BY <1>3, <2>1, LeastOfNaturals
  <2> DEFINE m == Min(A)
  <2>3. m \in 1 .. n + 1 /\ m <= 1
    BY <1>2, <2>2
  <2> HIDE DEF m
  <2>4. m = 1
    BY <1>1, <2>3
  <2> QED BY <1>1, <1>4, <2>1, <2>4 DEF NewestAt, A, m
<1>5. CASE job.system # s
  <2>1. /\ 1 \notin A
        /\ \A i \in 1 .. n : i + 1 \in A <=> i \in B
    <3>1. 1 \notin A
      BY <1>1, <1>2, <1>5
    <3>2. ASSUME NEW i \in 1 .. n PROVE i + 1 \in A <=> i \in B
      <4>1. i + 1 \in 1 .. n + 1 /\ new[i + 1] = jobs[i]
        BY <1>1
      <4>2. i + 1 \in A <=> new[i + 1].system = s
        BY <1>2, <4>1
      <4> QED BY <1>2, <4>1, <4>2
    <3> QED BY <3>1, <3>2
  <2>2. \A i \in A : i - 1 \in 1 .. n /\ (i - 1) + 1 = i
    <3>1. \A i \in A : i \in 1 .. n + 1 /\ i # 1
      BY <1>2, <2>1
    <3> QED BY <1>1, <3>1
  <2>3. \A i \in A : i - 1 \in B
    BY <2>1, <2>2
  <2>4. CASE B = {}
    <3>1. A = {}
      BY <2>3, <2>4
    <3> QED BY <1>5, <2>4, <3>1 DEF NewestAt, A, B
  <2>5. CASE B # {}
    <3> DEFINE m == Min(B)
               k == Min(A)
    <3>1. m \in B /\ \A i \in B : m <= i
      BY <1>3, <2>5, LeastOfNaturals
    <3>2. m \in 1 .. n
      BY <1>2, <3>1
    <3>3. m + 1 \in A /\ A # {}
      BY <2>1, <3>1, <3>2
    <3>4. k \in A /\ \A i \in A : k <= i
      BY <1>3, <3>3, LeastOfNaturals
    <3> HIDE DEF m, k
    <3>5. k \in Nat /\ m \in Nat /\ k - 1 \in B
      BY <1>3, <2>3, <3>2, <3>4
    <3>6. k = m + 1
      BY <3>1, <3>3, <3>4, <3>5
    <3>7. new[k] = jobs[m]
      BY <1>1, <3>2, <3>6
    <3> QED BY <1>5, <2>5, <3>3, <3>7 DEF NewestAt, A, B, m, k
  <2> QED BY <2>4, <2>5
<1> QED BY <1>4, <1>5

LEMMA LinkConstants ==
  /\ MaxSyncTime \in Nat /\ \A s \in SyncSystems : SyncInterval[s] \in Nat
BY LinkAssumption DEF LinkAssumption

LEMMA LinkInitSound == ASSUME LinkInit PROVE LinkInv
<1>1. /\ syncTime = 0 /\ linkJobs = <<>> /\ lastSync = [s \in SyncSystems |-> 0]
      /\ nextSync = [s \in SyncSystems |-> syncTime + SyncInterval[s]]
  BY DEF LinkInit, SchedulerTimes
<1>2. \A s \in SyncSystems : NewestAt(linkJobs, s) = 0
  BY <1>1 DEF NewestAt, JobsOf
<1>3. \A s \in SyncSystems : nextSync[s] = SyncInterval[s] + 0 /\ lastSync[s] = 0
  BY <1>1, LinkConstants
<1> QED BY <1>1, <1>2, <1>3, LinkConstants DEF LinkInv

LEMMA SyncSound ==
  ASSUME LinkInv, NEW system \in SyncSystems, SyncSystem(system) PROVE LinkInv'
<1> DEFINE job == [system |-> system, at |-> syncTime, status |-> "SUCCESS",
                   recordsSynced |-> RecordsSynced[system]]
<1>1. /\ syncTime \in 0 .. MaxSyncTime /\ syncTime \in Nat /\ linkJobs \in Seq(SyncJob)
      /\ Len(linkJobs) \in Nat /\ DOMAIN linkJobs = 1 .. Len(linkJobs)
      /\ \A i \in DOMAIN linkJobs : linkJobs[i].at <= syncTime
      /\ lastSync \in [SyncSystems -> 0 .. syncTime]
      /\ \A s \in SyncSystems : lastSync[s] = NewestAt(linkJobs, s)
  BY LinkConstants DEF LinkInv
<1>2. /\ linkJobs' = <<job>> \o linkJobs
      /\ lastSync' = [lastSync EXCEPT ![system] = syncTime]
      /\ nextSync' = [s \in SyncSystems |-> syncTime + SyncInterval[s]]
      /\ syncTime' = syncTime
  BY DEF SyncSystem, SchedulerTimes
<1>3. job \in SyncJob /\ job.system = system /\ job.at = syncTime
  <2>1. RecordsSynced[system] \in Nat
    BY DEF SyncSystems, RecordsSynced
  <2> QED BY <1>1, <2>1 DEF SyncJob
<1> HIDE DEF job
<1>4. /\ linkJobs' \in Seq(SyncJob) /\ DOMAIN linkJobs' = 1 .. Len(linkJobs) + 1
      /\ linkJobs' # <<>> /\ linkJobs'[1] = job
      /\ \A i \in 1 .. Len(linkJobs) : linkJobs'[i + 1] = linkJobs[i]
  BY <1>1, <1>2, <1>3
<1>5. \A i \in DOMAIN linkJobs' : linkJobs'[i].at <= syncTime'
  <2>1. SUFFICES ASSUME NEW i \in 1 .. Len(linkJobs) + 1 PROVE linkJobs'[i].at <= syncTime
    BY <1>2, <1>4
  <2>2. CASE i = 1
    BY <1>1, <1>3, <1>4, <2>2
  <2>3. CASE i # 1
    <3>1. i - 1 \in 1 .. Len(linkJobs) /\ (i - 1) + 1 = i
      BY <1>1, <2>1, <2>3
    <3> QED BY <1>1, <1>4, <3>1
  <2> QED BY <2>2, <2>3
<1>6. lastSync' \in [SyncSystems -> 0 .. syncTime']
  BY <1>1, <1>2
<1>7. ASSUME NEW s \in SyncSystems PROVE lastSync'[s] = NewestAt(linkJobs', s)
  <2> DEFINE old == linkJobs
             new == linkJobs'
  <2>1. old \in Seq(SyncJob) /\ new = <<job>> \o old /\ job \in SyncJob
    BY <1>1, <1>2, <1>3
  <2> HIDE DEF old, new
  <2>2. NewestAt(new, s) = IF job.system = s THEN job.at ELSE NewestAt(old, s)
    BY <2>1, JobInFront
  <2>3. NewestAt(linkJobs', s) = IF system = s THEN syncTime ELSE NewestAt(linkJobs, s)
    BY <1>3, <2>2 DEF old, new
  <2> QED BY <1>1, <1>2, <2>3
<1>8. ASSUME NEW s \in SyncSystems
      PROVE nextSync'[s] = SyncInterval[s] + IF linkJobs' = <<>> THEN 0 ELSE linkJobs'[1].at
  BY <1>1, <1>2, <1>3, <1>4, LinkConstants
<1> QED BY <1>1, <1>2, <1>4, <1>5, <1>6, <1>7, <1>8 DEF LinkInv

LEMMA LinkStepSound == ASSUME LinkInv, [LinkNext]_linkVars PROVE LinkInv'
<1>1. CASE LinkTick
  <2>1. /\ syncTime' = syncTime + 1 /\ syncTime' \in 0 .. MaxSyncTime
        /\ UNCHANGED <<linkJobs, lastSync, nextSync>>
    BY <1>1, LinkConstants DEF LinkTick, LinkInv
  <2>2. lastSync' \in [SyncSystems -> 0 .. syncTime']
    <3>1. \A s \in SyncSystems : lastSync[s] \in 0 .. syncTime + 1
      BY LinkConstants DEF LinkInv
    <3> QED BY <2>1, <3>1 DEF LinkInv
  <2>3. \A i \in DOMAIN linkJobs : linkJobs[i].at <= syncTime + 1
    <3>1. SUFFICES ASSUME NEW i \in DOMAIN linkJobs PROVE linkJobs[i].at <= syncTime + 1
      OBVIOUS
    <3>2. linkJobs[i] \in SyncJob /\ linkJobs[i].at <= syncTime
      BY DEF LinkInv
    <3>3. linkJobs[i].at \in Nat /\ syncTime \in Nat
      BY <3>2, LinkConstants DEF SyncJob, LinkInv
    <3> QED BY <3>2, <3>3
  <2> QED BY <2>1, <2>2, <2>3 DEF LinkInv
<1>2. CASE UNCHANGED linkVars
  BY <1>2 DEF linkVars, LinkInv
<1> QED BY <1>1, <1>2, SyncSound DEF LinkNext

\* A code that is looked up is found exactly if the three first digits of one that is
\* kept are its own (info-link.service.ts:134-147).
LEMMA LookedUpFound ==
  ASSUME NEW zip \in LookedUp
  PROVE  LookupDestination(zip) = 0 <=>
           \A i \in DOMAIN ZipCodes : SubSeq(ZipCodes[i], 1, 3) # SubSeq(zip, 1, 3)
<1> DEFINE p == SubSeq(zip, 1, Min({3, Len(zip)}))
           same == {i \in DOMAIN ZipCodes : ZipCodes[i] = zip}
           near == {i \in DOMAIN ZipCodes : IsPrefix(p, ZipCodes[i])}
<1>1. /\ zip \in Seq(0 .. 9) /\ Len(zip) \in Nat /\ Len(zip) >= 3
      /\ DOMAIN ZipCodes \in SUBSET (Nat \ {0})
      /\ \A i \in DOMAIN ZipCodes : ZipCodes[i] \in Seq(0 .. 9) /\ Len(ZipCodes[i]) >= 3
  <2>1. ZipCodes \in Seq(Seq(0 .. 9)) /\ LookedUp \subseteq Seq(0 .. 9)
        /\ (\A i \in DOMAIN ZipCodes : Len(ZipCodes[i]) >= 3) /\ Len(zip) >= 3
    BY LinkAssumption DEF LinkAssumption
  <2>2. DOMAIN ZipCodes = 1 .. Len(ZipCodes) /\ Len(ZipCodes) \in Nat
    BY <2>1
  <2> QED BY <2>1, <2>2
<1>2. Min({3, Len(zip)}) = 3
  BY <1>1, LesserOfTwo
<1>3. p = SubSeq(zip, 1, 3)
  BY <1>2
<1>4. p \in Seq(0 .. 9) /\ Len(p) = 3
  <2>1. \A i \in 1 .. 3 : zip[i] \in 0 .. 9
    BY <1>1
  <2>2. SubSeq(zip, 1, 3) \in Seq(0 .. 9) /\ Len(SubSeq(zip, 1, 3)) = 3
    BY <2>1, SubSeqProperties
  <2> HIDE DEF p
  <2> QED BY <1>3, <2>2
<1>5. LookupDestination(zip) = IF same # {} THEN Min(same) ELSE IF near # {} THEN Min(near) ELSE 0
  BY DEF LookupDestination
<1> HIDE DEF p
<1>6. SubSeq(p, 1, 3) = p
  BY <1>4, SubSeqFull
<1>7. ASSUME NEW i \in DOMAIN ZipCodes
      PROVE  i \in near <=> SubSeq(ZipCodes[i], 1, 3) = p
  BY <1>1, <1>4, <1>6 DEF IsPrefix
<1>8. same # {} => Min(same) \in same
  BY <1>1, LeastOfNaturals
<1>9. near # {} => Min(near) \in near
  BY <1>1, LeastOfNaturals
<1>10. same \subseteq near
  <2>1. ASSUME NEW i \in same PROVE i \in near
    <3>1. i \in DOMAIN ZipCodes /\ ZipCodes[i] = zip
      BY <2>1
    <3> QED BY <1>3, <1>7, <3>1
  <2> QED BY <2>1
<1>11. LookupDestination(zip) = 0 <=> near = {}
  <2>1. same \subseteq Nat \ {0} /\ near \subseteq Nat \ {0}
    BY <1>1
  <2> HIDE DEF same, near
  <2> QED BY <1>5, <1>8, <1>9, <1>10, <2>1
<1>12. near = {} <=> \A i \in DOMAIN ZipCodes : SubSeq(ZipCodes[i], 1, 3) # p
  BY <1>7
<1> QED BY <1>3, <1>11, <1>12

\* The scheduler's times are those of the jobs, and a code is found if the digits it
\* begins with are kept (info-link.service.ts:108-113, 134).
THEOREM LinkFollowsItsJobs == LinkSpec => [](LinkTypeOK /\ LinkTruthful)
<1>1. LinkInit => LinkInv
  BY LinkInitSound
<1>2. LinkInv /\ [LinkNext]_linkVars => LinkInv'
  BY LinkStepSound
<1>3. LinkInv => LinkTypeOK /\ LinkTruthful
  <2>1. SUFFICES ASSUME LinkInv PROVE LinkTypeOK /\ LinkTruthful
    OBVIOUS
  <2>2. \A i \in DOMAIN linkJobs : linkJobs[i].at \in 0 .. syncTime
    <3>1. SUFFICES ASSUME NEW i \in DOMAIN linkJobs PROVE linkJobs[i].at \in 0 .. syncTime
      OBVIOUS
    <3>2. linkJobs[i] \in SyncJob /\ linkJobs[i].at <= syncTime
      BY <2>1 DEF LinkInv
    <3>3. linkJobs[i].at \in Nat /\ syncTime \in Nat
      BY <2>1, <3>2, LinkConstants DEF SyncJob, LinkInv
    <3> QED BY <3>2, <3>3
  <2>3. LinkTypeOK
    BY <2>1, <2>2 DEF LinkInv, LinkTypeOK
  <2>4. \A s \in SyncSystems :
          /\ lastSync[s] = NewestAt(linkJobs, s)
          /\ nextSync[s] = SyncInterval[s] + IF linkJobs = <<>> THEN 0 ELSE linkJobs[1].at
    BY <2>1 DEF LinkInv
  <2>5. LinkTruthful
    BY <2>4, LookedUpFound, Zenon DEF LinkTruthful, NewestAt, JobsOf
  <2> QED BY <2>3, <2>5
<1> QED BY <1>1, <1>2, <1>3, PTL DEF LinkSpec

-----------------------------------------------------------------------------
(***************************************************************************)
(* The services together                                                   *)
(***************************************************************************)

\* The first state of every service is one of its own.
LEMMA MailInitParts ==
  ASSUME MailInit
  PROVE  /\ service \in MailServices
         /\ Init /\ SortingInit /\ KeyingInit /\ BoardInit /\ ReadersInit /\ PidInit
         /\ LifecycleInit /\ DisplayInit /\ ReportInit /\ Plc!TelegramInit /\ ServerInit
         /\ InspectionsInit /\ LinkInit /\ SimulatorInit
BY Zenon DEF MailInit

\* A step of the mail centre is a step of one service, or none, for every service.
MailParts ==
  /\ UNCHANGED service /\ [Next]_vars /\ [SortingNext]_sortingVars
  /\ [KeyingNext]_keyingVars /\ [DisplayNext]_display /\ [BoardNext]_boardVars
  /\ [ReadersNext]_readerVars /\ [PidNext]_pidVars /\ [ReportNext]_reportVars
  /\ [LifecycleNext]_lifecycleVars /\ (Plc!TelegramNext \/ UNCHANGED plcVars)
  /\ [ServerNext]_serverVars /\ [InspectionsNext]_inspectionVars /\ [LinkNext]_linkVars
  /\ [SimulatorNext]_simulatorVars

LEMMA MailStepParts == ASSUME [MailNext]_mailVars PROVE MailParts
<1>1. CASE UNCHANGED service /\ RelayStep
  BY <1>1, Zenon DEF MailParts, RelayStep
<1>2. CASE UNCHANGED service /\ PlcStep
  <2>1. CASE Plc!TelegramNext /\ UNCHANGED vars
    BY <1>2, <2>1, Zenon DEF MailParts, PlcStep
  <2>2. CASE /\ \E c \in Channels : ConnectChannel(c) \/ DisconnectChannel(c)
             /\ UNCHANGED plcVars
    <3>1. Next
      BY <2>2, Zenon DEF Next
    <3> QED BY <1>2, <2>2, <3>1, Zenon DEF MailParts, PlcStep
  <2> QED BY <1>2, <2>1, <2>2, Zenon DEF PlcStep, TelegramStep
<1>3. CASE UNCHANGED service /\ SoftwareStep
  BY <1>3, Zenon DEF MailParts, SoftwareStep
<1>4. CASE UNCHANGED service /\ OtherStep
  BY <1>4, Zenon DEF MailParts, OtherStep
<1>5. CASE UNCHANGED mailVars
  BY <1>5, Zenon DEF MailParts, mailVars
<1> QED BY <1>1, <1>2, <1>3, <1>4, <1>5, Zenon DEF MailNext

\* Every service of the mail centre behaves as it does alone, so that what is proved
\* of one alone holds of it in the mail centre.
THEOREM MailServicesRunAsAlone ==
  MailSpec => /\ Spec /\ SortingSpec /\ KeyingSpec /\ DisplaySpec /\ BoardSpec
              /\ ReadersSpec /\ PidSpec /\ ReportSpec /\ LifecycleSpec
              /\ ServerSpec /\ InspectionsSpec /\ LinkSpec /\ SimulatorSpec
<1>1. MailInit => /\ Init /\ SortingInit /\ KeyingInit /\ DisplayInit /\ BoardInit
                  /\ ReadersInit /\ PidInit /\ ReportInit /\ LifecycleInit
                  /\ ServerInit /\ InspectionsInit /\ LinkInit /\ SimulatorInit
  BY MailInitParts
<1>2. [MailNext]_mailVars =>
        /\ [Next]_vars /\ [SortingNext]_sortingVars
        /\ [KeyingNext]_keyingVars /\ [DisplayNext]_display /\ [BoardNext]_boardVars
        /\ [ReadersNext]_readerVars /\ [PidNext]_pidVars /\ [ReportNext]_reportVars
        /\ [LifecycleNext]_lifecycleVars
        /\ [ServerNext]_serverVars /\ [InspectionsNext]_inspectionVars
        /\ [LinkNext]_linkVars /\ [SimulatorNext]_simulatorVars
  BY MailStepParts, Zenon DEF MailParts
<1> QED
  BY <1>1, <1>2, PTL
  DEF MailSpec, Spec, SortingSpec, KeyingSpec, DisplaySpec, BoardSpec, ReadersSpec, PidSpec,
      ReportSpec, LifecycleSpec, ServerSpec, InspectionsSpec, LinkSpec, SimulatorSpec

\* Whatever the services of a mail centre do beside each other: the mode is switched
\* safely and hands the line over, the relay's alarm list tells the truth, one plan
\* sorts, parcel ids do not repeat early, no parcel falls between two reports, and what
\* is kept long enough is backed up before it is deleted (operation.service.ts:98-138,
\* sorting.service.ts:166, pid.ts:39, batch-report.processor.ts:49, backup.processor.ts).
THEOREM MailCenterSafe ==
  MailSpec =>
    /\ [](AlarmListAccurate /\ OneActivePlan /\ PidsDistinct /\ ReportsMissNothing)
    /\ SwitchIsSafe /\ SwitchHandsOver /\ BackedUpBeforeDeleted
BY MailServicesRunAsAlone, AlarmListIsAccurate, AlwaysOneActivePlan, PidsStayDistinct,
   NoParcelFallsBetween, SwitchesAreSafe, SwitchesHandOver, RowsAreBackedUp, PTL

\* The telegrams of the channels stay accounted for while the channels change.
LEMMA MailTelegrams == MailSpec => [](Plc!TelegramTypeOK /\ Plc!TelegramsAccounted)
<1>1. MailInit => PlcInv
  BY MailInitParts, PlcInitSound
<1>2. PlcInv /\ [MailNext]_mailVars => PlcInv'
  BY MailStepParts, PlcStepSound DEF MailParts
<1>3. PlcInv => Plc!TelegramTypeOK /\ Plc!TelegramsAccounted
  BY AccountedIs DEF PlcInv
<1> QED BY <1>1, <1>2, <1>3, PTL DEF MailSpec

LEMMA MailServiceFixed == MailSpec => [](service \in MailServices)
<1>1. MailInit => service \in MailServices
  BY MailInitParts
<1>2. service \in MailServices /\ [MailNext]_mailVars => (service \in MailServices)'
  BY MailStepParts DEF MailParts
<1> QED BY <1>1, <1>2, PTL DEF MailSpec

\* The variables of every service keep their types, and lists their limits, whatever
\* the services do beside each other.
THEOREM MailTypes == MailSpec => []MailTypeOK
<1>1. /\ service \in MailServices /\ TypeOK /\ SortingTypeOK /\ KeyingTypeOK
      /\ DisplayTypeOK /\ BoardTypeOK /\ ReadersTypeOK /\ PidTypeOK /\ ReportTypeOK
      /\ LifecycleTypeOK /\ Plc!TelegramTypeOK /\ ServerTypeOK /\ InspectionsTypeOK
      /\ LinkTypeOK /\ SimulatorTypeOK
      => MailTypeOK
  BY Zenon DEF MailTypeOK
<1> QED
  BY <1>1, MailServicesRunAsAlone, MailServiceFixed, MailTelegrams, TypeCorrect, SortingAddsUp,
     StationsCountTheirRequests, DisplaysAgree, BoardShowsTheAlarms,
     ReadersCountTheirReadings, PidTypes, ReportTypes, LifecycleTypes,
     ClientsGetEverything, ReportsStayHonest, LinkFollowsItsJobs, ItemsGoByTheirRule, PTL

\* Whatever the services do beside each other and whatever the sizes and limits: the
\* counters agree with the lists (sorting.service.ts:191, keying.service.ts:142,
\* ips.service.ts:102, plc-connection.service.ts:186), who is connected has been told
\* everything (tcp-server.service.ts:162, monitoring.service.ts:216), and the screens
\* agree with what happened (simulator.service.ts:51, 148, operation.service.ts:76,
\* chute-display.service.ts:63).
THEOREM MailScreens == MailSpec => [](AccountsAgree /\ ClientsServed /\ ScreensTruthful)
<1>1. /\ SortingAccounts /\ KeyingAccounts /\ ReadersTruthful /\ Plc!TelegramsAccounted
      => AccountsAgree
  BY Zenon DEF AccountsAgree
<1>2. ServerTruthful /\ BoardTruthful => ClientsServed
  BY Zenon DEF ClientsServed
<1>3. ItemsConsecutive /\ ItemsFollowRules /\ HistoryIsChain /\ DisplayTruthful
      => ScreensTruthful
  BY Zenon DEF ScreensTruthful
<1> QED
  BY <1>1, <1>2, <1>3, MailServicesRunAsAlone, MailTelegrams, HistoryAndItems, SortingAddsUp,
     StationsCountTheirRequests, DisplaysAgree, BoardShowsTheAlarms,
     ReadersCountTheirReadings, ClientsGetEverything, ItemsGoByTheirRule, PTL
=============================================================================
