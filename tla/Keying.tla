------------------------------- MODULE Keying -------------------------------
(***************************************************************************)
(* Keying by hand of mail that was not read                                *)
(* (apps/standard-sw/src/keying/keying.service.ts): requests shown at a    *)
(* station and completed by one of its buttons, in any order.              *)
(***************************************************************************)
EXTENDS Integers, Sequences, FiniteSets, Functions

CONSTANTS
  Stations,         \* ids of the keying stations (KST-01, KST-02)
  Buttons,          \* buttons of a station (16)
  KeyingHistoryCap, \* MAX_HISTORY (500)
  MaxRequests       \* bound of the model: requests ever made

ASSUME KeyingAssumption == KeyingHistoryCap \in Nat /\ "unknown" \notin Stations

VARIABLES
  requests,         \* station and status of each request, by id
  keyingHistory,    \* completed requests, newest first
  stationProcessed  \* processedCount of each station

keyingVars == <<requests, keyingHistory, stationProcessed>>

\* A request may name a station that does not exist.
KeyingRequest == [station : Stations \cup {"unknown"},
                  status : {"DISPLAYED", "COMPLETED"}]

KeyingInit ==
  /\ requests = <<>> /\ keyingHistory = <<>>
  /\ stationProcessed = [s \in Stations |-> 0]

-----------------------------------------------------------------------------
\* Faulty variant, for the mutant checks: a double press completes twice.
CompletableTwice(id) == requests[id].station \in Stations
-----------------------------------------------------------------------------
\* createRequest(): the request is DISPLAYED before anything else can see it.
CreateRequest(s) ==
  /\ Len(requests) < MaxRequests
  /\ requests' = Append(requests, [station |-> s, status |-> "DISPLAYED"])
  /\ UNCHANGED <<keyingHistory, stationProcessed>>

Completable(id) == requests[id].status # "COMPLETED" /\ requests[id].station \in Stations

\* completeRequest(), refused for a button the station does not have.
CompleteRequest(id, button) ==
  LET grown == <<[request |-> id, chute |-> button]>> \o keyingHistory IN
  /\ Completable(id) /\ button \in Buttons
  /\ requests' = [requests EXCEPT ![id].status = "COMPLETED"]
  /\ stationProcessed' = [stationProcessed EXCEPT ![requests[id].station] = @ + 1]
  /\ keyingHistory' = IF Len(grown) > KeyingHistoryCap
                        THEN SubSeq(grown, 1, KeyingHistoryCap) ELSE grown

KeyingNext ==
  \/ \E s \in Stations \cup {"unknown"} : CreateRequest(s)
  \/ \E id \in DOMAIN requests, button \in Buttons : CompleteRequest(id, button)

KeyingSpec == KeyingInit /\ [][KeyingNext]_keyingVars

-----------------------------------------------------------------------------
KeyingTypeOK ==
  /\ requests \in Seq(KeyingRequest)
  /\ keyingHistory \in Seq([request : Nat, chute : Buttons])
  /\ Len(keyingHistory) <= KeyingHistoryCap
  /\ stationProcessed \in [Stations -> Nat]

Completed(s) == {id \in DOMAIN requests :
                   requests[id].station = s /\ requests[id].status = "COMPLETED"}

\* Every station has counted exactly its completed requests, and the history
\* holds completed requests only, each once: no request is completed twice
\* (keying.service.ts:134, 142-164).
KeyingAccounts ==
  /\ \A s \in Stations : stationProcessed[s] = Cardinality(Completed(s))
  /\ \A i \in DOMAIN keyingHistory : requests[keyingHistory[i].request].status = "COMPLETED"
  /\ IsInjective([i \in DOMAIN keyingHistory |-> keyingHistory[i].request])
=============================================================================
