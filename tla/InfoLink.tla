------------------------------ MODULE InfoLink ------------------------------
(***************************************************************************)
(* The link of the standard software to SIMS and KPLAS                     *)
(* (apps/standard-sw/src/info-link/info-link.service.ts): a request starts *)
(* a sync that is complete at once and sets the times of the scheduler,    *)
(* which no timer reads; and the look-up of a postal code.                 *)
(***************************************************************************)
EXTENDS Integers, SequencesExt

CONSTANTS
  SyncInterval,  \* simsInterval, kplasInterval: 10 and 30 minutes, by system
  ZipCodes,      \* the postal codes with a record, in the order they are kept
  LookedUp,      \* codes looked up
  MaxSyncTime    \* bound of the model: time, which bounds the jobs too

SyncSystems == {"SIMS", "KPLAS"}

ASSUME LinkAssumption ==
  /\ SyncInterval \in [SyncSystems -> Nat] /\ MaxSyncTime \in Nat
  /\ ZipCodes \in Seq(Seq(0 .. 9)) /\ \A i \in DOMAIN ZipCodes : Len(ZipCodes[i]) >= 3
  /\ LookedUp \subseteq Seq(0 .. 9) /\ \A zip \in LookedUp : Len(zip) >= 3

VARIABLES
  syncTime,      \* the clock
  linkJobs,      \* syncJobs, newest first
  lastSync,      \* lastSimsSync, lastKplasSync, 0 for none
  nextSync       \* nextSimsSync, nextKplasSync

linkVars == <<syncTime, linkJobs, lastSync, nextSync>>

\* updateSchedulerTimes(): both, whichever system has just been synchronised
SchedulerTimes == [s \in SyncSystems |-> syncTime + SyncInterval[s]]

\* onModuleInit()
LinkInit ==
  /\ syncTime = 0 /\ linkJobs = <<>>
  /\ lastSync = [s \in SyncSystems |-> 0]
  /\ nextSync = SchedulerTimes

\* sync(): the counts of records are fixed.
RecordsSynced == [SIMS |-> 150, KPLAS |-> 80]

SyncSystem(system) ==
  /\ linkJobs' = <<[system |-> system, at |-> syncTime, status |-> "SUCCESS",
                    recordsSynced |-> RecordsSynced[system]]>> \o linkJobs
  /\ lastSync' = [lastSync EXCEPT ![system] = syncTime]
  /\ nextSync' = SchedulerTimes
  /\ UNCHANGED syncTime

LinkTick ==
  /\ syncTime < MaxSyncTime
  /\ syncTime' = syncTime + 1
  /\ UNCHANGED <<linkJobs, lastSync, nextSync>>

\* Jobs are bounded by the model only.
LinkNext == LinkTick \/ \E s \in SyncSystems : Len(linkJobs) <= MaxSyncTime /\ SyncSystem(s)

LinkSpec == LinkInit /\ [][LinkNext]_linkVars

-----------------------------------------------------------------------------
\* lookupDestination(): the record of the code, or else the first one that has its
\* three leading digits; codes are sequences of digits, 0 stands for "not found".
LookupDestination(zip) ==
  LET same == {i \in DOMAIN ZipCodes : ZipCodes[i] = zip}
      near == {i \in DOMAIN ZipCodes : IsPrefix(SubSeq(zip, 1, Min({3, Len(zip)})), ZipCodes[i])}
  IN  IF same # {} THEN Min(same) ELSE IF near # {} THEN Min(near) ELSE 0

LinkTypeOK ==
  /\ syncTime \in 0 .. MaxSyncTime
  /\ \A s \in SyncSystems : lastSync[s] \in 0 .. syncTime
  /\ \A i \in DOMAIN linkJobs : linkJobs[i].at \in 0 .. syncTime

\* The scheduler's times are those of the jobs: the last of a system is that of its
\* newest job and the next of both that of the newest job of any; and a code that is
\* looked up is found if one of its first three digits is kept
\* (info-link.service.ts:108-113, 134).
LinkTruthful ==
  /\ \A s \in SyncSystems :
       LET mine == {i \in DOMAIN linkJobs : linkJobs[i].system = s} IN
       /\ lastSync[s] = IF mine = {} THEN 0 ELSE linkJobs[Min(mine)].at
       /\ nextSync[s] = SyncInterval[s] + IF linkJobs = <<>> THEN 0 ELSE linkJobs[1].at
  /\ \A zip \in LookedUp : LookupDestination(zip) = 0 <=>
       \A i \in DOMAIN ZipCodes : SubSeq(ZipCodes[i], 1, 3) # SubSeq(zip, 1, 3)
=============================================================================
