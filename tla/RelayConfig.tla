----------------------------- MODULE RelayConfig -----------------------------
(***************************************************************************)
(* The settings of the central relay                                       *)
(* (apps/central-relay/src/config/relay-config.service.ts): sections of    *)
(* values, and the list of centres.  No other service reads them yet.  A   *)
(* section's values count as one; a centre has its id, whether it is       *)
(* enabled, and its other values as one.                                   *)
(***************************************************************************)
EXTENDS Integers, Sequences, FiniteSetsExt

CONSTANTS
  Sections,      \* of "sims", "db2db", "ftp", "socket", "receptionInfo", ...
  CenterIds,     \* the ids of the centres, in their order
  UnknownCenter, \* an id that no centre has at the start
  Values         \* what a request may set

VARIABLES
  sections,      \* config.sims, config.protocol and config.sync
  centers        \* config.centers

configVars == <<sections, centers>>

\* getDefaultConfig()
DefaultConfig ==
  /\ sections = [s \in Sections |-> "default"]
  /\ centers = [i \in DOMAIN CenterIds |->
                  [centerId |-> CenterIds[i], enabled |-> TRUE, values |-> "default"]]

\* The first centre of that id, the one every operation finds.
Found(id) == {i \in DOMAIN centers : centers[i].centerId = id}
CenterOf(id) == Min(Found(id))

-----------------------------------------------------------------------------
\* updateConfig(): the sections named are changed, and the centres named that exist.
\* A request names each centre once.
UpdateRelayConfig(named, ids, value, enabled) ==
  /\ sections' = [s \in Sections |-> IF s \in named THEN value ELSE sections[s]]
  /\ centers' = [i \in DOMAIN centers |->
       IF centers[i].centerId \in ids /\ i = CenterOf(centers[i].centerId)
         THEN [centers[i] EXCEPT !.enabled = enabled, !.values = value]
         ELSE centers[i]]

\* updateCenterConfig(): whatever the request holds is assigned, an id too.
UpdateCenterConfig(id, newId, value, enabled) ==
  IF Found(id) = {} THEN UNCHANGED configVars ELSE
  /\ centers' = [centers EXCEPT ![CenterOf(id)] =
                   [centerId |-> newId, enabled |-> enabled, values |-> value]]
  /\ UNCHANGED sections

\* getActiveCenters()
ActiveCenters == {i \in DOMAIN centers : centers[i].enabled}

RequestIds == {CenterIds[i] : i \in DOMAIN CenterIds} \cup {UnknownCenter}

ConfigNext ==
  \/ \E named \in SUBSET Sections, ids \in SUBSET RequestIds,
       value \in Values, enabled \in BOOLEAN : UpdateRelayConfig(named, ids, value, enabled)
  \/ \E id, newId \in RequestIds, value \in Values, enabled \in BOOLEAN :
       UpdateCenterConfig(id, newId, value, enabled)

-----------------------------------------------------------------------------
\* Sections and centres keep their number and types, and the active centres are
\* some of them (relay-config.service.ts:155-201, 213-215).
ConfigTypeOK ==
  /\ sections \in [Sections -> Values \cup {"default"}]
  /\ centers \in [DOMAIN CenterIds ->
       [centerId : RequestIds, enabled : BOOLEAN, values : Values \cup {"default"}]]
  /\ ActiveCenters \subseteq DOMAIN CenterIds
=============================================================================
