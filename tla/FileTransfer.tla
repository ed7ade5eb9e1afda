---------------------------- MODULE FileTransfer ----------------------------
(***************************************************************************)
(* Distribution of files to the centres                                    *)
(* (apps/central-relay/src/ftp/ftp.service.ts): a request transfers to one *)
(* centre after the other; a transfer tries again after a growing delay,   *)
(* fails for good after MaxRetries, and can then be started anew by hand.  *)
(*                                                                         *)
(* The upload and the comparison of checksums are stubs of code to come;   *)
(* the model lets each succeed or fail.  Names, sizes and checksums of the *)
(* files decide nothing and are left out.                                  *)
(***************************************************************************)
EXTENDS Integers, Sequences, Functions

CONSTANTS
  Requests,           \* names for the requests under way; the code has no limit
  MaxRetries,         \* MAX_RETRIES (3)
  TransferHistoryCap, \* entries of the history kept (500)
  MaxTransfers        \* bound of the model: transfers ever started

ASSUME FtpAssumption ==
  MaxRetries \in Nat /\ TransferHistoryCap \in Nat /\ MaxTransfers \in Nat

VARIABLES
  transfers,       \* the records, in the order of their ids
  centersLeft,     \* centres a request has not come to yet
  transferHistory  \* settled transfers, newest first

transferVars == <<transfers, centersLeft, transferHistory>>

\* status and retryCount as in the code; at is the await its execution has
\* reached, request the loop that awaits it.
TransferRecord ==
  [status : {"TRANSFERRING", "VALIDATING", "COMPLETED", "FAILED"},
   retryCount : 0 .. MaxRetries + 1,
   at : {"upload", "validation", "delay", "end"},
   request : Requests \cup {"retry"}]

ArchiveEntry == [id : Nat, status : {"COMPLETED", "FAILED"}]

\* Faulty variant, for the mutant checks: the failures so far are forgotten.
AttemptAfresh(t) == [t EXCEPT !.status = "TRANSFERRING", !.at = "upload", !.retryCount = 0]

\* The head of the while loop's body, up to the first await.
Attempt(t) == [t EXCEPT !.status = "TRANSFERRING", !.at = "upload"]

NewTransfer(r) ==
  Attempt([status |-> "TRANSFERRING", retryCount |-> 0, at |-> "upload", request |-> r])

Busy(r) == \E i \in DOMAIN transfers : transfers[i].request = r /\ transfers[i].at # "end"

FtpInit == transfers = <<>> /\ centersLeft = [r \in Requests |-> 0] /\ transferHistory = <<>>

-----------------------------------------------------------------------------
\* Faulty variant, for the mutant checks.
RetriableIfSettled(i) == transfers[i].status \in {"FAILED", "COMPLETED"}
-----------------------------------------------------------------------------
\* distributeAddressDB(), distributeMLFFile(), distributeSortingPlan(): the
\* first of n centres; a request that names none has nothing to do.
Distribute(r, n) ==
  IF n = 0 THEN UNCHANGED transferVars ELSE
  /\ ~Busy(r)
  /\ Len(transfers) + n + FoldFunction(+, 0, centersLeft) <= MaxTransfers
  /\ transfers' = Append(transfers, NewTransfer(r))
  /\ centersLeft' = [centersLeft EXCEPT ![r] = n - 1]
  /\ UNCHANGED transferHistory

\* archiveTransfer()
Archive(i, status) ==
  LET grown == <<[id |-> i, status |-> status]>> \o transferHistory
  IN  transferHistory' = IF Len(grown) > TransferHistoryCap
                           THEN SubSeq(grown, 1, TransferHistoryCap) ELSE grown

\* Transfer i settles, and the request that awaits it goes on to its next centre.
Settle(i, t) ==
  LET r == t.request
      settled == [transfers EXCEPT ![i] = [t EXCEPT !.at = "end"]]
  IN  /\ Archive(i, t.status)
      /\ IF r # "retry" /\ centersLeft[r] > 0
           THEN /\ transfers' = Append(settled, NewTransfer(r))
                /\ centersLeft' = [centersLeft EXCEPT ![r] = @ - 1]
           ELSE /\ transfers' = settled
                /\ UNCHANGED centersLeft

UploadSucceeds(i) ==
  /\ transfers[i].at = "upload"
  /\ transfers' = [transfers EXCEPT ![i].status = "VALIDATING", ![i].at = "validation"]
  /\ UNCHANGED <<centersLeft, transferHistory>>

ValidationSucceeds(i) ==
  /\ transfers[i].at = "validation"
  /\ Settle(i, [transfers[i] EXCEPT !.status = "COMPLETED"])

\* The catch clause: the upload or the validation has failed.
AttemptFails(i) ==
  LET t == [transfers[i] EXCEPT !.retryCount = @ + 1] IN
  /\ transfers[i].at \in {"upload", "validation"}
  /\ IF t.retryCount > MaxRetries
       THEN Settle(i, [t EXCEPT !.status = "FAILED"])
       ELSE /\ transfers' = [transfers EXCEPT ![i] = [t EXCEPT !.at = "delay"]]
            /\ UNCHANGED <<centersLeft, transferHistory>>

\* The delay of retryCount seconds is over; the status is that of the attempt.
DelayEnds(i) ==
  /\ transfers[i].at = "delay"
  /\ transfers' = [transfers EXCEPT ![i] = Attempt(@)]
  /\ UNCHANGED <<centersLeft, transferHistory>>

Retriable(i) == transfers[i].status = "FAILED"

\* retryTransfer()
RetryTransfer(i) ==
  /\ Retriable(i)
  /\ transfers' = [transfers EXCEPT ![i] =
                     Attempt([@ EXCEPT !.retryCount = 0, !.request = "retry"])]
  /\ UNCHANGED <<centersLeft, transferHistory>>

Execute(i) == UploadSucceeds(i) \/ ValidationSucceeds(i) \/ AttemptFails(i) \/ DelayEnds(i)

FtpNext ==
  \/ \E r \in Requests, n \in 0 .. MaxTransfers : Distribute(r, n)
  \/ \E i \in DOMAIN transfers : Execute(i) \/ RetryTransfer(i)

FtpSpec == FtpInit /\ [][FtpNext]_transferVars

\* Uploads and comparisons end, well or not; timers fire.
FtpFairness ==
  \A i \in 1 .. MaxTransfers : WF_transferVars(i \in DOMAIN transfers /\ Execute(i))

-----------------------------------------------------------------------------
FtpTypeOK ==
  /\ transfers \in Seq(TransferRecord)
  /\ centersLeft \in [Requests -> 0 .. MaxTransfers]
  /\ transferHistory \in Seq(ArchiveEntry)
  /\ Len(transferHistory) <= TransferHistoryCap

\* A transfer archived as COMPLETED stays so and is archived so once, however
\* distributions and retries by hand overlap (ftp.service.ts:187, 266).
CompletedForGood ==
  \A i \in DOMAIN transferHistory :
    transferHistory[i].status = "COMPLETED" =>
      /\ transfers[transferHistory[i].id].status = "COMPLETED"
      /\ \A j \in DOMAIN transferHistory :
           j # i => transferHistory[j] # transferHistory[i]

\* Every request comes to its end, even if no attempt to any of its centres
\* ever succeeds (ftp.service.ts:167, 200).
EveryRequestEnds == \A r \in Requests : Busy(r) ~> ~Busy(r) /\ centersLeft[r] = 0
=============================================================================
