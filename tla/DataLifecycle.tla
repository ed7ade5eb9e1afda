---------------------------- MODULE DataLifecycle ----------------------------
(***************************************************************************)
(* Deletion and backup of the data lifecycle scheduler                     *)
(* (packages/database/src/scheduler): every day rows past the retention of *)
(* their class are deleted, every Sunday the two schemas are dumped.  The  *)
(* jobs of a day may run in any order, late, or not at all.                *)
(***************************************************************************)
EXTENDS Integers, FiniteSets

CONSTANTS
  Week,                                        \* days between two backups (7)
  StatDays, SimsDays, RegiDays, ResultDays,    \* retentionDays (60, 3, 7, 14)
  BackupDays,                                  \* age at which a dump is deleted (30)
  MaxDay, MaxRows                              \* bounds of the model

ASSUME LifecycleAssumption ==
  /\ Week \in Nat \ {0}
  /\ {StatDays, SimsDays, RegiDays, ResultDays, BackupDays, MaxDay, MaxRows} \subseteq Nat

VARIABLES
  day,          \* today, counted from a Sunday
  rows,         \* the rows in the database: the class, the day of createdAt and its half
  dumps,        \* the files in the backup directory
  backupOver,   \* today's backup has run or failed
  inserted,     \* rows ever inserted
  missed,       \* history: Sundays in a row without a backup
  worstMissed   \* history: the most of them

lifecycleVars == <<day, rows, dumps, backupOver, inserted, missed, worstMissed>>

\* scheduleDeleteJobs()
Retention == [localStats |-> StatDays, machineState |-> StatDays, sortData |-> StatDays,
              simsStats |-> SimsDays, regiInfo |-> RegiDays, sortResult |-> ResultDays]
Classes == DOMAIN Retention

Schemas == {"psm_operation", "psm_reginfo"}
SchemaOf(class) ==
  IF class \in {"simsStats", "sortResult"} THEN "psm_reginfo" ELSE "psm_operation"

\* scheduleBackupJob()
Sunday == day % Week = 0

LifecycleInit ==
  /\ day = 0 /\ rows = {} /\ dumps = {} /\ backupOver = FALSE
  /\ inserted = 0 /\ missed = 0 /\ worstMissed = 0

-----------------------------------------------------------------------------
\* Faulty variant, for the mutant checks: a day less is kept.
CutoffDayEarly(class) == day - Retention[class] + 1
-----------------------------------------------------------------------------
Insert(class) ==
  LET row == [class |-> class, created |-> day, afterBackup |-> backupOver] IN
  /\ inserted < MaxRows /\ row \notin rows
  /\ rows' = rows \cup {row}
  /\ inserted' = inserted + 1
  /\ UNCHANGED <<day, dumps, backupOver, missed, worstMissed>>

\* getCutoffDate(): the midnight that begins that day.
CutoffDay(class) == day - Retention[class]

Delete(class) ==
  /\ rows' = {r \in rows : r.class # class \/ r.created >= CutoffDay(class)}
  /\ UNCHANGED <<day, dumps, backupOver, inserted, missed, worstMissed>>

DeleteLocalStats == Delete("localStats")
DeleteMachineState == Delete("machineState")
DeleteSortData == Delete("sortData")
DeleteSimsStats == Delete("simsStats")
DeleteRegiInfo == Delete("regiInfo")
DeleteSortResult == Delete("sortResult")

Dump(schema) == [made |-> day, schema |-> schema,
                 rows |-> {r \in rows : SchemaOf(r.class) = schema}]

\* cleanupOldBackups()
CleanedUp(files) == {f \in files : f.made >= day - BackupDays}

\* backupDatabase(): both schemas, then the cleanup.
BackupDatabase ==
  /\ Sunday /\ ~backupOver
  /\ dumps' = CleanedUp(dumps \cup {Dump(s) : s \in Schemas})
  /\ backupOver' = TRUE /\ missed' = 0
  /\ UNCHANGED <<day, rows, inserted, worstMissed>>

Missing ==
  /\ missed' = missed + 1
  /\ worstMissed' = IF missed + 1 > worstMissed THEN missed + 1 ELSE worstMissed

\* A dump fails, the first or the second: what follows it is skipped.
BackupFails ==
  /\ Sunday /\ ~backupOver
  /\ \E made \in {{}, {"psm_operation"}} : dumps' = dumps \cup {Dump(s) : s \in made}
  /\ backupOver' = TRUE /\ Missing
  /\ UNCHANGED <<day, rows, inserted>>

\* At midnight; a Sunday may pass with the scheduler down.
NextDay ==
  /\ day < MaxDay
  /\ day' = day + 1 /\ backupOver' = FALSE
  /\ IF Sunday /\ ~backupOver THEN Missing ELSE UNCHANGED <<missed, worstMissed>>
  /\ UNCHANGED <<rows, dumps, inserted>>

LifecycleNext ==
  \/ \E class \in Classes : Insert(class)
  \/ DeleteLocalStats \/ DeleteMachineState \/ DeleteSortData
  \/ DeleteSimsStats \/ DeleteRegiInfo \/ DeleteSortResult
  \/ BackupDatabase \/ BackupFails \/ NextDay

LifecycleSpec == LifecycleInit /\ [][LifecycleNext]_lifecycleVars

-----------------------------------------------------------------------------
StoredRow == [class : Classes, created : 0 .. MaxDay, afterBackup : BOOLEAN]

LifecycleTypeOK ==
  /\ day \in 0 .. MaxDay /\ backupOver \in BOOLEAN
  /\ rows \subseteq StoredRow /\ inserted \in 0 .. MaxRows
  /\ dumps \subseteq [made : 0 .. day, schema : Schemas, rows : SUBSET StoredRow]
  /\ missed \in Nat /\ worstMissed \in Nat /\ missed <= worstMissed

\* A row that is kept for at least as many weeks as backups failed in a row, and
\* one more, is in a dump on disk when it is deleted, in whatever order the jobs
\* of a day run.  The SIMS statistics, kept for three days, are not promised it
\* (index.ts:219-237, batch-delete.processor.ts:21).
BackedUpBeforeDeleted ==
  [][\A r \in rows \ rows' :
       Retention[r.class] >= Week * (worstMissed + 1) =>
         \E f \in dumps : r \in f.rows]_lifecycleVars
=============================================================================
