-------------------------- MODULE LocalRelayProofs --------------------------
(***************************************************************************)
(* Proofs about LocalRelay and the services of the local relay beside it   *)
(* (Readers, SimulatorRules, Inspections), for every choice of their       *)
(* constants.                                                              *)
(***************************************************************************)
EXTENDS LocalRelay, Readers, SimulatorRules, Inspections, SequenceTheorems,
        FiniteSetTheorems, TLAPS

(***************************************************************************)
(* Bounded lists, newest entry first                                       *)
(***************************************************************************)

\* t is s with x in front, cut to its first cap entries.
IsNewest(t, x, s, cap, S) ==
  /\ t \in Seq(S)
  /\ Len(t) = IF Len(s) < cap THEN Len(s) + 1 ELSE cap
  /\ t[1] = x
  /\ \A i \in 2 .. Len(t) : t[i] = s[i - 1]

\* Newest() puts the new entry first, moves the others back and keeps at most
\* cap of them (unshift() and slice(), equipment-monitor.service.ts:125-126).
LEMMA NewestFacts ==
  ASSUME NEW S, NEW x \in S, NEW s \in Seq(S), NEW cap \in Nat \ {0}
  PROVE  IsNewest(Newest(x, s, cap), x, s, cap, S)
<1> DEFINE t == <<x>> \o s
           n == IF Len(s) < cap THEN Len(s) + 1 ELSE cap
<1>1. t \in Seq(S) /\ Len(t) = Len(s) + 1 /\ t[1] = x
  OBVIOUS
<1>2. \A i \in 2 .. Len(t) : t[i] = s[i - 1]
  OBVIOUS
<1>3. n \in 1 .. Len(t)
  BY <1>1
<1>4. Newest(x, s, cap) = SubSeq(t, 1, n)
  BY DEF Newest
<1>5. /\ SubSeq(t, 1, n) \in Seq(S) /\ Len(SubSeq(t, 1, n)) = n
      /\ \A i \in 1 .. n : SubSeq(t, 1, n)[i] = t[i]
  <2> HIDE DEF t, n
  <2> QED BY <1>1, <1>3
<1> QED BY <1>1, <1>2, <1>3, <1>4, <1>5 DEF IsNewest

\* Putting an entry in front of a list moves the others back by one.
LEMMA PrependFacts ==
  ASSUME NEW S, NEW x \in S, NEW s \in Seq(S)
  PROVE  /\ <<x>> \o s \in Seq(S)
         /\ Len(<<x>> \o s) = Len(s) + 1
         /\ (<<x>> \o s)[1] = x
         /\ \A i \in 2 .. Len(s) + 1 : (<<x>> \o s)[i] = s[i - 1]
OBVIOUS

\* new is the list with e in front, cut to its first n entries.
CutTo(new, e, list, n, S) ==
  /\ new \in Seq(S) /\ Len(new) = n /\ DOMAIN new = 1 .. n
  /\ \A i \in 1 .. n : i = 1 => new[i] = e
  /\ \A i \in 1 .. n : i # 1 => i - 1 \in 1 .. Len(list) /\ new[i] = list[i - 1]

LEMMA CutFacts ==
  ASSUME NEW S, NEW e \in S, NEW list \in Seq(S), NEW n \in Nat, n <= Len(list) + 1,
         NEW new, new = SubSeq(<<e>> \o list, 1, n)
  PROVE  CutTo(new, e, list, n, S)
<1> DEFINE grown == <<e>> \o list
<1>0. Len(list) \in Nat
  OBVIOUS
<1>1. /\ grown \in Seq(S) /\ Len(grown) = Len(list) + 1
      /\ \A k \in 1 .. Len(grown) : grown[k] = IF k = 1 THEN e ELSE list[k - 1]
  OBVIOUS
<1>2. new = SubSeq(grown, 1, n)
  OBVIOUS
<1> HIDE DEF grown
<1>3. n <= Len(grown)
  BY <1>0, <1>1
<1>4. new \in Seq(S) /\ Len(new) = n /\ \A k \in 1 .. n : new[k] = grown[k]
  BY <1>1, <1>2, <1>3
<1>5. \A k \in 1 .. n : k \in 1 .. Len(grown)
  BY <1>0, <1>1, <1>3
<1>6. \A k \in 1 .. n : k # 1 => k - 1 \in 1 .. Len(list)
  BY <1>0
<1>7. DOMAIN new = 1 .. n
  BY <1>4
<1> QED BY <1>1, <1>4, <1>5, <1>6, <1>7 DEF CutTo

\* A list that is cut only when it grows past a limit.
Capped(e, list, cap) ==
  IF Len(<<e>> \o list) > cap THEN SubSeq(<<e>> \o list, 1, cap) ELSE <<e>> \o list

LEMMA CapFacts ==
  ASSUME NEW S, NEW e \in S, NEW list \in Seq(S), NEW cap \in Nat,
         NEW new, new = Capped(e, list, cap)
  PROVE  /\ CutTo(new, e, list, Len(new), S)
         /\ Len(new) \in Nat /\ Len(new) <= cap
<1> DEFINE grown == <<e>> \o list
           n == IF Len(list) + 1 > cap THEN cap ELSE Len(list) + 1
<1>1. Len(list) \in Nat /\ Len(grown) = Len(list) + 1 /\ grown \in Seq(S)
  OBVIOUS
<1>2. n \in Nat /\ n <= Len(list) + 1 /\ n <= cap
  BY <1>1
<1>3. new = SubSeq(grown, 1, n)
  <2>1. CASE Len(list) + 1 > cap
    BY <1>1, <2>1 DEF Capped
  <2>2. CASE ~(Len(list) + 1 > cap)
    <3>1. new = grown /\ n = Len(grown)
      BY <1>1, <2>2 DEF Capped
    <3> HIDE DEF grown, n
    <3> QED BY <1>1, <3>1
  <2> QED BY <2>1, <2>2
<1> HIDE DEF n
<1>4. CutTo(new, e, list, n, S)
  BY <1>2, <1>3, CutFacts
<1>5. Len(new) = n
  BY <1>4 DEF CutTo
<1> QED BY <1>2, <1>4, <1>5

\* Of the entries that are counted, those but the first were counted before, one
\* place further to the front.
LEMMA CountShifted ==
  ASSUME NEW n \in Nat, NEW A \in SUBSET (1 .. n), NEW m \in Nat, NEW B \in SUBSET (1 .. m),
         \A i \in A : i = 1 \/ i - 1 \in B
  PROVE  /\ IsFiniteSet(A) /\ IsFiniteSet(B) /\ Cardinality(A) \in Nat /\ Cardinality(B) \in Nat
         /\ Cardinality(A) <= Cardinality(B) + 1
         /\ 1 \notin A => Cardinality(A) <= Cardinality(B)
<1>1. IsFiniteSet(1 .. n) /\ IsFiniteSet(1 .. m)
  BY FS_Interval
<1>2. IsFiniteSet(A) /\ IsFiniteSet(B)
  BY <1>1, FS_Subset
<1>3. Cardinality(A) \in Nat /\ Cardinality(B) \in Nat
  BY <1>2, FS_CardinalityType
<1> DEFINE C == A \ {1}
           f == [i \in C |-> i - 1]
<1>4. f \in [C -> B]
  OBVIOUS
<1>5. \A i, j \in C : f[i] = f[j] => i = j
  OBVIOUS
<1>6. f \in Injection(C, B)
  <2> HIDE DEF f
  <2> QED BY <1>4, <1>5, Zenon DEF Injection, IsInjective
<1> HIDE DEF f
<1>7. Cardinality(C) <= Cardinality(B)
  BY <1>2, <1>6, FS_Injection
<1>8. Cardinality(C) = IF 1 \in A THEN Cardinality(A) - 1 ELSE Cardinality(A)
  BY <1>2, FS_RemoveElement
<1> QED BY <1>2, <1>3, <1>7, <1>8

\* The entries of a list of alarms have numbers.
LEMMA AlarmIds ==
  ASSUME alarms \in Seq(Alarm)
  PROVE  /\ \A i \in DOMAIN alarms : alarms[i].id \in Nat
         /\ \A i \in 1 .. Len(alarms) : alarms[i].id \in Nat
<1>1. DOMAIN alarms = 1 .. Len(alarms)
  OBVIOUS
<1>2. \A i \in 1 .. Len(alarms) : alarms[i] \in Alarm
  BY ElementOfSeq
<1>3. \A a \in Alarm : a.id \in Nat
  BY DEF Alarm
<1> QED BY <1>1, <1>2, <1>3

(***************************************************************************)
(* The inductive invariant                                                 *)
(***************************************************************************)

\* The list holds the last alarms, newest first, as many as the cap allows.
AlarmNumbers ==
  /\ Len(alarms) = IF alarmCounter < AlarmCap THEN alarmCounter ELSE AlarmCap
  /\ \A i \in DOMAIN alarms : alarms[i].id + i = alarmCounter + 1

\* A listed alarm is active and CRITICAL just when it is open.
AlarmFlags ==
  \A i \in DOMAIN alarms :
    (alarms[i].active /\ alarms[i].severity = "CRITICAL") <=> alarms[i].id \in openCritical

IInv == TypeOK /\ AlarmNumbers /\ AlarmFlags /\ HistoryIsChain /\ ItemsConsecutive

LEMMA InitIInv == Init => IInv
<1> SUFFICES ASSUME Init PROVE IInv
  OBVIOUS
<1> USE LocalRelayAssumption DEF LocalRelayAssumption
<1>1. TypeOK
  <2>1. /\ modeHistory \in Seq(Switch) /\ items \in Seq(1 .. MaxItems) /\ alarms \in Seq(Alarm)
        /\ Len(alarms) = 0
    BY EmptySeq DEF Init
  <2>2. /\ mode \in Modes /\ running \in BOOLEAN /\ pidCounter \in 0 .. MaxItems
        /\ alarmCounter \in 0 .. MaxAlarms /\ openCritical \subseteq 1 .. alarmCounter
    <3>1. {} \subseteq 1 .. alarmCounter /\ 0 \in 0 .. MaxItems /\ 0 \in 0 .. MaxAlarms
      OBVIOUS
    <3> QED BY <3>1 DEF Init, Modes
  <2>3. /\ channel \in [Channels -> {"CONNECTED", "DISCONNECTED"}]
        /\ equipment \in [Equipment -> Statuses]
    BY DEF Init
  <2> QED BY <2>1, <2>2, <2>3 DEF TypeOK
<1>2. AlarmNumbers /\ AlarmFlags /\ HistoryIsChain /\ ItemsConsecutive
  BY DEF Init, AlarmNumbers, AlarmFlags, HistoryIsChain, ItemsConsecutive
<1> QED BY <1>1, <1>2 DEF IInv

\* A switch extends the history by one entry that starts at the current mode.
LEMMA SwitchIInv ==
  ASSUME IInv, NEW target \in Modes, SwitchMode(target)
  PROVE  IInv'
<1> USE LocalRelayAssumption
<1>1. [from |-> mode, to |-> target] \in Switch /\ modeHistory \in Seq(Switch)
  BY DEF IInv, TypeOK, Switch
<1>2. /\ modeHistory' \in Seq(Switch) /\ Len(modeHistory') = Len(modeHistory) + 1
      /\ modeHistory'[1] = [from |-> mode, to |-> target]
      /\ \A i \in 2 .. Len(modeHistory) + 1 : modeHistory'[i] = modeHistory[i - 1]
  BY <1>1, PrependFacts DEF SwitchMode, RecordSwitch
<1>3. TypeOK'
  BY <1>2 DEF IInv, TypeOK, SwitchMode, HandOver, alarmVars
<1>4. HistoryIsChain'
  <2>1. mode' = target /\ modeHistory'[1].to = target
    BY <1>2 DEF SwitchMode
  <2>2. modeHistory'[Len(modeHistory')].from = "SIMULATOR"
    <3>1. CASE Len(modeHistory) = 0
      BY <3>1, <1>2 DEF IInv, HistoryIsChain
    <3>2. CASE Len(modeHistory) > 0
      BY <3>2, <1>1, <1>2 DEF IInv, HistoryIsChain
    <3> QED BY <3>1, <3>2, <1>1
  <2>3. ASSUME NEW i \in 1 .. Len(modeHistory') - 1
        PROVE  modeHistory'[i].from = modeHistory'[i + 1].to
    <3>1. CASE i = 1
      BY <3>1, <1>1, <1>2 DEF IInv, HistoryIsChain
    <3>2. CASE i > 1
      <4>1. i - 1 \in 1 .. Len(modeHistory) - 1 /\ i \in 2 .. Len(modeHistory) + 1
            /\ i + 1 \in 2 .. Len(modeHistory) + 1
        BY <3>2, <1>1, <1>2
      <4>2. modeHistory'[i] = modeHistory[i - 1] /\ modeHistory'[i + 1] = modeHistory[i]
        BY <4>1, <1>1, <1>2
      <4>3. modeHistory[i - 1].from = modeHistory[(i - 1) + 1].to
        BY <4>1 DEF IInv, HistoryIsChain
      <4> QED BY <4>2, <4>3
    <3> QED BY <3>1, <3>2
  <2> QED BY <2>1, <2>2, <2>3, <1>1, <1>2 DEF HistoryIsChain
<1>5. (AlarmNumbers /\ AlarmFlags /\ ItemsConsecutive)'
  BY DEF IInv, AlarmNumbers, AlarmFlags, ItemsConsecutive, SwitchMode, alarmVars
<1> QED BY <1>3, <1>4, <1>5 DEF IInv

\* The simulator's handlers renumber or extend the items, nothing else.
LEMMA ItemsIInv ==
  ASSUME IInv, SimReset \/ GenerateItem \/ SimulateOne
  PROVE  IInv'
<1> USE LocalRelayAssumption DEF LocalRelayAssumption
<1>1. items \in Seq(1 .. MaxItems) /\ pidCounter \in 0 .. MaxItems
  BY DEF IInv, TypeOK
<1>2. /\ items' \in Seq(1 .. MaxItems) /\ pidCounter' \in 0 .. MaxItems
      /\ running' \in BOOLEAN
      /\ ItemsConsecutive'
  <2>1. CASE SimReset
    <3>1. items' = <<>> /\ pidCounter' = 0 /\ running' = FALSE
      BY <2>1 DEF SimReset
    <3>2. <<>> \in Seq(1 .. MaxItems)
      BY EmptySeq
    <3>3. DOMAIN items' = {}
      BY <3>1
    <3>4. 0 \in 0 .. MaxItems
      OBVIOUS
    <3> QED BY <3>1, <3>2, <3>3, <3>4 DEF ItemsConsecutive
  <2>2. CASE GenerateItem
    <3>1. pidCounter + 1 \in 1 .. MaxItems /\ pidCounter' = pidCounter + 1
          /\ items' = Newest(pidCounter + 1, items, ItemCap)
      BY <1>1, <2>2 DEF GenerateItem
    <3>2. /\ items' \in Seq(1 .. MaxItems)
          /\ Len(items') = IF Len(items) < ItemCap THEN Len(items) + 1 ELSE ItemCap
          /\ items'[1] = pidCounter + 1
          /\ \A i \in 2 .. Len(items') : items'[i] = items[i - 1]
      <4>1. /\ pidCounter + 1 \in 1 .. MaxItems /\ items \in Seq(1 .. MaxItems)
            /\ ItemCap \in Nat \ {0}
        BY <1>1, <3>1
      <4>2. IsNewest(Newest(pidCounter + 1, items, ItemCap), pidCounter + 1, items, ItemCap,
                     1 .. MaxItems)
        BY <4>1, NewestFacts
      <4> QED BY <3>1, <4>2 DEF IsNewest
    <3>3. ASSUME NEW i \in DOMAIN items' PROVE items'[i] + i = pidCounter' + 1
      <4>1. CASE i = 1
        BY <1>1, <3>1, <3>2, <4>1
      <4>2. CASE i # 1
        <5>0. Len(items) \in Nat /\ Len(items') \in Nat /\ i \in 1 .. Len(items')
          BY <1>1, <3>2
        <5>1. i \in 2 .. Len(items') /\ i - 1 \in DOMAIN items /\ i \in Nat
          BY <3>2, <4>2, <5>0
        <5>2. items[i - 1] + (i - 1) = pidCounter + 1 /\ items[i - 1] \in 1 .. MaxItems
          BY <1>1, <5>1, ElementOfSeq DEF IInv, ItemsConsecutive
        <5>3. items'[i] = items[i - 1] /\ pidCounter' = pidCounter + 1
          BY <3>1, <3>2, <5>1
        <5>4. /\ items[i - 1] \in Nat /\ pidCounter \in Nat
          BY <1>1, <5>2
        <5>5. PICK y \in Nat : y = items[i - 1]
          BY <5>4
        <5>6. y + (i - 1) = pidCounter + 1
          BY <5>2, <5>5
        <5>7. y + i = pidCounter' + 1
          BY <5>1, <5>3, <5>4, <5>6
        <5> QED BY <5>3, <5>5, <5>7
      <4> QED BY <4>1, <4>2
    <3> QED BY <1>1, <2>2, <3>1, <3>2, <3>3 DEF ItemsConsecutive, GenerateItem, IInv, TypeOK
  <2>3. CASE SimulateOne
    <3>1. pidCounter + 1 \in 1 .. MaxItems /\ pidCounter' = pidCounter + 1
          /\ items' = <<pidCounter + 1>> \o items
      BY <1>1, <2>3 DEF SimulateOne
    <3>2. /\ items' \in Seq(1 .. MaxItems)
          /\ Len(items') = Len(items) + 1
          /\ items'[1] = pidCounter + 1
          /\ \A i \in 2 .. Len(items) + 1 : items'[i] = items[i - 1]
      BY <1>1, <3>1, PrependFacts
    <3>3. ASSUME NEW i \in DOMAIN items' PROVE items'[i] + i = pidCounter' + 1
      <4>1. CASE i = 1
        BY <1>1, <3>1, <3>2, <4>1
      <4>2. CASE i # 1
        <5>0. Len(items) \in Nat /\ Len(items') \in Nat /\ i \in 1 .. Len(items')
          BY <1>1, <3>2
        <5>1. i \in 2 .. Len(items) + 1 /\ i - 1 \in DOMAIN items /\ i \in Nat
          BY <3>2, <4>2, <5>0
        <5>2. items[i - 1] + (i - 1) = pidCounter + 1 /\ items[i - 1] \in 1 .. MaxItems
          BY <1>1, <5>1, ElementOfSeq DEF IInv, ItemsConsecutive
        <5>3. items'[i] = items[i - 1] /\ pidCounter' = pidCounter + 1
          BY <3>1, <3>2, <5>1
        <5>4. /\ items[i - 1] \in Nat /\ pidCounter \in Nat
          BY <1>1, <5>2
        <5>5. PICK y \in Nat : y = items[i - 1]
          BY <5>4
        <5>6. y + (i - 1) = pidCounter + 1
          BY <5>2, <5>5
        <5>7. y + i = pidCounter' + 1
          BY <5>1, <5>3, <5>4, <5>6
        <5> QED BY <5>3, <5>5, <5>7
      <4> QED BY <4>1, <4>2
    <3> QED BY <1>1, <2>3, <3>1, <3>2, <3>3 DEF ItemsConsecutive, SimulateOne, IInv, TypeOK
  <2> QED BY <2>1, <2>2, <2>3
<1>3. UNCHANGED <<opVars, channel, equipment, alarmVars>>
  BY DEF SimReset, GenerateItem, SimulateOne
<1>4. (AlarmNumbers /\ AlarmFlags /\ HistoryIsChain)'
  BY <1>3 DEF IInv, AlarmNumbers, AlarmFlags, HistoryIsChain, opVars, alarmVars
<1>5. TypeOK'
  BY <1>2, <1>3 DEF IInv, TypeOK, opVars, alarmVars
<1> QED BY <1>2, <1>4, <1>5 DEF IInv

\* A raised alarm takes the next number and the head of the list.
LEMMA RaiseIInv ==
  ASSUME IInv, NEW e, NEW severity \in Severities, RaiseAlarm(e, severity)
  PROVE  IInv'
<1> USE LocalRelayAssumption DEF LocalRelayAssumption
<1> DEFINE new == [id |-> alarmCounter + 1, severity |-> severity, active |-> TRUE]
<1>1. /\ alarms \in Seq(Alarm) /\ Len(alarms) \in Nat /\ Len(alarms) <= AlarmCap
      /\ alarmCounter \in 0 .. MaxAlarms
      /\ openCritical \subseteq 1 .. alarmCounter
      /\ new \in Alarm
  BY DEF IInv, TypeOK, Alarm
<1>2. /\ alarmCounter' = alarmCounter + 1 /\ alarmCounter' \in 0 .. MaxAlarms
      /\ alarms' = Newest(new, alarms, AlarmCap)
      /\ openCritical' = IF severity = "CRITICAL" THEN openCritical \cup {alarmCounter + 1}
                                                  ELSE openCritical
      /\ equipment' \in [Equipment -> Statuses]
  BY <1>1 DEF RaiseAlarm, IInv, TypeOK
<1>3. /\ alarms' \in Seq(Alarm)
      /\ Len(alarms') = IF Len(alarms) < AlarmCap THEN Len(alarms) + 1 ELSE AlarmCap
      /\ alarms'[1] = new
      /\ \A i \in 2 .. Len(alarms') : alarms'[i] = alarms[i - 1]
  <2>1. AlarmCap \in Nat \ {0} /\ new \in Alarm /\ alarms \in Seq(Alarm)
        /\ alarms' = Newest(new, alarms, AlarmCap)
    BY <1>1, <1>2
  <2> HIDE DEF new
  <2>2. IsNewest(Newest(new, alarms, AlarmCap), new, alarms, AlarmCap, Alarm)
    BY <2>1, NewestFacts
  <2> QED BY <2>1, <2>2 DEF IsNewest
<1>4. TypeOK'
  <2>1. openCritical' \subseteq 1 .. alarmCounter'
    BY <1>1, <1>2
  <2>2. Len(alarms') <= AlarmCap
    BY <1>1, <1>3
  <2> QED BY <1>2, <1>3, <2>1, <2>2 DEF RaiseAlarm, IInv, TypeOK, opVars, simVars
<1>8. \A i \in DOMAIN alarms : alarms[i].id \in Nat
  BY <1>1, AlarmIds
<1>5. ASSUME NEW i \in DOMAIN alarms'
      PROVE  /\ alarms'[i].id + i = alarmCounter' + 1
             /\ (alarms'[i].active /\ alarms'[i].severity = "CRITICAL")
                  <=> alarms'[i].id \in openCritical'
  <2>1. CASE i = 1
    <3>1. new.id = alarmCounter + 1 /\ new.active /\ new.severity = severity
      OBVIOUS
    <3>2. alarmCounter + 1 \notin openCritical
      BY <1>1
    <3> HIDE DEF new
    <3> QED BY <1>1, <1>2, <1>3, <2>1, <3>1, <3>2
  <2>2. CASE i # 1
    <3>1. i \in 2 .. Len(alarms') /\ i - 1 \in DOMAIN alarms /\ i \in Nat
      BY <1>1, <1>3, <2>2
    <3>2. alarms'[i] = alarms[i - 1] /\ alarms[i - 1].id \in Nat
      BY <1>3, <3>1, <1>8
    <3>3. alarms[i - 1].id + (i - 1) = alarmCounter + 1
      BY <3>1 DEF IInv, AlarmNumbers
    <3>4. alarms[i - 1].id # alarmCounter + 1
      BY <1>1, <3>1, <3>2, <3>3
    <3>5. (alarms[i - 1].active /\ alarms[i - 1].severity = "CRITICAL")
             <=> alarms[i - 1].id \in openCritical
      BY <3>1 DEF IInv, AlarmFlags
    <3>6. alarms[i - 1].id \in openCritical' <=> alarms[i - 1].id \in openCritical
      BY <1>2, <3>4
    <3>7. alarms'[i].id + i = alarmCounter' + 1
      BY <1>1, <1>2, <3>1, <3>2, <3>3
    <3> QED BY <3>2, <3>5, <3>6, <3>7
  <2> QED BY <2>1, <2>2
<1>6. Len(alarms') = IF alarmCounter' < AlarmCap THEN alarmCounter' ELSE AlarmCap
  BY <1>1, <1>2, <1>3 DEF IInv, AlarmNumbers
<1>7. (HistoryIsChain /\ ItemsConsecutive)'
  BY DEF RaiseAlarm, IInv, HistoryIsChain, ItemsConsecutive, opVars, simVars
<1> QED BY <1>4, <1>5, <1>6, <1>7 DEF IInv, AlarmNumbers, AlarmFlags

\* Clearing an entry closes the alarm of that number and no other.
LEMMA ClearIInv ==
  ASSUME IInv, NEW k \in DOMAIN alarms, ClearAlarm(k)
  PROVE  IInv'
<1> USE LocalRelayAssumption DEF LocalRelayAssumption
<1>1. alarms \in Seq(Alarm) /\ Len(alarms) \in Nat /\ alarmCounter \in Nat
  BY DEF IInv, TypeOK
<1>2. /\ alarms' = [alarms EXCEPT ![k].active = FALSE]
      /\ openCritical' = openCritical \ {alarms[k].id} /\ alarmCounter' = alarmCounter
  BY DEF ClearAlarm
<1>3. /\ alarms' \in Seq(Alarm) /\ Len(alarms') = Len(alarms) /\ DOMAIN alarms' = DOMAIN alarms
      /\ \A i \in DOMAIN alarms : /\ alarms'[i].id = alarms[i].id
                                  /\ alarms'[i].severity = alarms[i].severity
                                  /\ i # k => alarms'[i].active = alarms[i].active
      /\ alarms'[k].active = FALSE
  <2>1. \A i \in DOMAIN alarms : alarms[i] \in Alarm
    BY <1>1, ElementOfSeq
  <2>2. [alarms[k] EXCEPT !.active = FALSE] \in Alarm
    BY <2>1 DEF Alarm
  <2>3. alarms' = [alarms EXCEPT ![k] = [alarms[k] EXCEPT !.active = FALSE]]
    BY <1>2
  <2>4. alarms' \in Seq(Alarm) /\ Len(alarms') = Len(alarms) /\ DOMAIN alarms' = DOMAIN alarms
    BY <1>1, <2>2, <2>3
  <2>5. ASSUME NEW i \in DOMAIN alarms
        PROVE  /\ alarms'[i].id = alarms[i].id
               /\ alarms'[i].severity = alarms[i].severity
               /\ i # k => alarms'[i].active = alarms[i].active
               /\ i = k => alarms'[i].active = FALSE
    BY <1>1, <2>1, <2>3 DEF Alarm
  <2> QED BY <2>4, <2>5
<1>8. \A i \in DOMAIN alarms : alarms[i].id \in Nat
  BY <1>1, AlarmIds
<1>4. TypeOK'
  BY <1>2, <1>3 DEF ClearAlarm, IInv, TypeOK, opVars, simVars
<1>5. AlarmNumbers'
  BY <1>2, <1>3 DEF IInv, AlarmNumbers
<1>6. AlarmFlags'
  <2> SUFFICES ASSUME NEW i \in DOMAIN alarms
               PROVE  (alarms'[i].active /\ alarms'[i].severity = "CRITICAL")
                        <=> alarms'[i].id \in openCritical'
    BY <1>3 DEF AlarmFlags
  <2>1. CASE i = k
    <3>1. ~alarms'[i].active /\ alarms'[i].id = alarms[k].id /\ alarms[k].id \notin openCritical'
      BY <1>2, <1>3, <2>1
    <3> QED BY <3>1
  <2>2. CASE i # k
    <3>1. alarms[i].id # alarms[k].id
      <4>1. /\ alarms[i].id + i = alarmCounter + 1 /\ alarms[k].id + k = alarmCounter + 1
            /\ alarms[i].id \in Nat /\ alarms[k].id \in Nat /\ i \in Nat /\ k \in Nat
        BY <1>1, <1>8 DEF IInv, AlarmNumbers
      <4> QED BY <1>1, <2>2, <4>1
    <3>2. (alarms[i].active /\ alarms[i].severity = "CRITICAL") <=> alarms[i].id \in openCritical
      BY DEF IInv, AlarmFlags
    <3> QED BY <1>2, <1>3, <2>2, <3>1, <3>2
  <2> QED BY <2>1, <2>2
<1>7. (HistoryIsChain /\ ItemsConsecutive)'
  BY DEF ClearAlarm, IInv, HistoryIsChain, ItemsConsecutive, opVars, simVars
<1> QED BY <1>4, <1>5, <1>6, <1>7 DEF IInv

LEMMA NextIInv == IInv /\ [Next]_vars => IInv'
<1> SUFFICES ASSUME IInv, [Next]_vars PROVE IInv'
  OBVIOUS
<1> USE LocalRelayAssumption DEF LocalRelayAssumption
<1>1. ASSUME NEW target \in Modes, SwitchMode(target) PROVE IInv'
  BY <1>1, SwitchIInv
<1>2. CASE SimReset \/ GenerateItem \/ SimulateOne
  BY <1>2, ItemsIInv
<1>3. CASE SimStart \/ SimStop
  BY <1>3 DEF SimStart, SimStop, IInv, TypeOK, AlarmNumbers, AlarmFlags, HistoryIsChain,
              ItemsConsecutive, opVars, alarmVars
<1>4. ASSUME NEW c \in Channels, ConnectChannel(c) \/ DisconnectChannel(c) PROVE IInv'
  BY <1>4 DEF ConnectChannel, DisconnectChannel, IInv, TypeOK, AlarmNumbers, AlarmFlags,
              HistoryIsChain, ItemsConsecutive, opVars, simVars, alarmVars
<1>5. ASSUME NEW e \in Equipment, NEW s \in Statuses, UpdateStatus(e, s) PROVE IInv'
  BY <1>5 DEF UpdateStatus, IInv, TypeOK, AlarmNumbers, AlarmFlags, HistoryIsChain,
              ItemsConsecutive, opVars, simVars, alarmVars
<1>6. ASSUME NEW e, NEW s \in Severities, RaiseAlarm(e, s) PROVE IInv'
  BY <1>6, RaiseIInv
<1>7. ASSUME NEW i \in DOMAIN alarms, ClearAlarm(i) PROVE IInv'
  BY <1>7, ClearIInv
<1>8. CASE UNCHANGED vars
  BY <1>8 DEF vars, IInv, TypeOK, AlarmNumbers, AlarmFlags, HistoryIsChain, ItemsConsecutive,
              opVars, simVars, alarmVars
<1> QED BY <1>1, <1>2, <1>3, <1>4, <1>5, <1>6, <1>7, <1>8 DEF Next

(***************************************************************************)
(* Theorems                                                                *)
(***************************************************************************)

\* The alarm list shows exactly the open CRITICAL alarms within its reach.
LEMMA IInvAccurate == IInv => AlarmListAccurate
<1> SUFFICES ASSUME IInv PROVE AlarmListAccurate
  OBVIOUS
<1> USE LocalRelayAssumption DEF LocalRelayAssumption
<1>1. /\ alarms \in Seq(Alarm) /\ Len(alarms) \in Nat /\ alarmCounter \in Nat
      /\ Len(alarms) = IF alarmCounter < AlarmCap THEN alarmCounter ELSE AlarmCap
      /\ openCritical \subseteq 1 .. alarmCounter
  BY DEF IInv, TypeOK, AlarmNumbers
<1>8. \A i \in 1 .. Len(alarms) : alarms[i].id \in Nat
  BY <1>1, AlarmIds
<1>2. ASSUME NEW i \in ActiveCritical
      PROVE  alarms[i].id \in openCritical /\ alarms[i].id + AlarmCap > alarmCounter
  <2>1. i \in 1 .. Len(alarms) /\ alarms[i].id \in Nat
    BY <1>1, <1>8 DEF ActiveCritical
  <2>2. alarms[i].id + i = alarmCounter + 1 /\ alarms[i].id \in openCritical
    BY DEF ActiveCritical, IInv, AlarmNumbers, AlarmFlags
  <2> QED BY <1>1, <2>1, <2>2
<1>3. ASSUME NEW id \in openCritical, id + AlarmCap > alarmCounter
      PROVE  \E i \in ActiveCritical : alarms[i].id = id
  <2> DEFINE i == alarmCounter + 1 - id
  <2>1. id \in 1 .. alarmCounter
    BY <1>1
  <2>2. i \in 1 .. Len(alarms) /\ i + id = alarmCounter + 1
    BY <1>1, <1>3, <2>1
  <2> HIDE DEF i
  <2>3. alarms[i].id + i = alarmCounter + 1 /\ alarms[i].id \in Nat
    BY <1>1, <1>8, <2>2 DEF IInv, AlarmNumbers
  <2>4. alarms[i].id = id
    BY <1>1, <2>1, <2>2, <2>3
  <2>5. i \in ActiveCritical
    BY <1>1, <2>2, <2>4 DEF ActiveCritical, IInv, AlarmFlags
  <2> QED BY <2>4, <2>5
<1> QED BY <1>2, <1>3 DEF AlarmListAccurate

\* The variables keep their types and the alarm list its cap.
THEOREM TypeCorrect == Spec => []TypeOK
<1>1. IInv => TypeOK
  BY DEF IInv
<1> QED BY <1>1, InitIInv, NextIInv, PTL DEF Spec

\* The alarm list is accurate within its reach.
THEOREM AlarmListIsAccurate == Spec => []AlarmListAccurate
BY IInvAccurate, InitIInv, NextIInv, PTL DEF Spec

\* The switch history is an unbroken chain, and the items an unbroken run of pids.
THEOREM HistoryAndItems == Spec => [](HistoryIsChain /\ ItemsConsecutive)
<1>1. IInv => HistoryIsChain /\ ItemsConsecutive
  BY DEF IInv
<1> QED BY <1>1, InitIInv, NextIInv, PTL DEF Spec

\* No mode switch while a CRITICAL alarm within the list's reach is open or
\* equipment is in ERROR.
THEOREM SwitchesAreSafe == Spec => SwitchIsSafe
<1> DEFINE Safe == /\ \A id \in openCritical : id + AlarmCap <= alarmCounter
                   /\ \A e \in Equipment : equipment[e] # "ERROR"
<1>1. IInv /\ [Next]_vars => [mode' # mode => Safe]_vars
  <2> SUFFICES ASSUME IInv, Next, mode' # mode PROVE Safe
    OBVIOUS
  <2>1. PICK target \in Modes : SwitchMode(target)
    BY DEF Next, SimStart, SimStop, SimReset, GenerateItem, SimulateOne, ConnectChannel,
           DisconnectChannel, UpdateStatus, RaiseAlarm, ClearAlarm, opVars
  <2>2. ActiveCritical = {} /\ \A e \in Equipment : equipment[e] # "ERROR"
    BY <2>1 DEF SwitchMode, SafetyCheck
  <2>3. \A id \in openCritical : ~(id + AlarmCap > alarmCounter)
    BY <2>2, IInvAccurate DEF AlarmListAccurate
  <2>4. /\ openCritical \subseteq 1 .. alarmCounter /\ alarmCounter \in Nat /\ AlarmCap \in Nat
    BY LocalRelayAssumption DEF LocalRelayAssumption, IInv, TypeOK
  <2> QED BY <2>2, <2>3, <2>4
<1> QED BY <1>1, InitIInv, NextIInv, PTL DEF Spec, SwitchIsSafe

\* A switch hands the line over whole: to the hardware with the simulator
\* stopped, or away from it with no channel left connected.
THEOREM SwitchesHandOver == Spec => SwitchHandsOver
<1>1. [Next]_vars =>
        [mode' # mode =>
           IF mode' = "OPERATION"
             THEN ~running' /\ \A c \in Channels : channel'[c] = "CONNECTED"
             ELSE \A c \in Channels : channel'[c] = "DISCONNECTED"]_vars
  <2> SUFFICES ASSUME Next, mode' # mode
               PROVE  IF mode' = "OPERATION"
                        THEN ~running' /\ \A c \in Channels : channel'[c] = "CONNECTED"
                        ELSE \A c \in Channels : channel'[c] = "DISCONNECTED"
    OBVIOUS
  <2>1. PICK target \in Modes : SwitchMode(target)
    BY DEF Next, SimStart, SimStop, SimReset, GenerateItem, SimulateOne, ConnectChannel,
           DisconnectChannel, UpdateStatus, RaiseAlarm, ClearAlarm, opVars
  <2> QED BY <2>1 DEF SwitchMode, HandOver
<1> QED BY <1>1, PTL DEF Spec, SwitchHandsOver
-----------------------------------------------------------------------------
(***************************************************************************)
(* The readers of the inductions                                           *)
(***************************************************************************)

\* The readings of a device the history holds, those that succeeded or the others
Readings(d, ok) == {i \in DOMAIN readHistory :
  readHistory[i].device = d /\ ok = (readHistory[i].status = "SUCCESS")}

Reading == [device : Devices \cup {"unknown"}, status : ReadStatuses]

ReadersInv == ReadersTypeOK /\ ReadersTruthful

LEMMA ReadersInitSound == ASSUME ReadersInit PROVE ReadersInv
<1> DEFINE idle == [status |-> "ONLINE", totalReads |-> 0, successReads |-> 0,
                    failedReads |-> 0, alarms |-> 0]
<1>1. idle \in Device /\ idle.totalReads = 0 /\ idle.successReads = 0 /\ idle.failedReads = 0
  BY DEF Device, DeviceStatuses
<1>2. device = [d \in Devices |-> idle] /\ readHistory = <<>>
  BY DEF ReadersInit
<1> HIDE DEF idle
<1>3. ReadersTypeOK
  BY <1>1, <1>2, ReadersAssumption DEF ReadersTypeOK, ReadersAssumption
<1>4. \A d \in Devices, ok \in BOOLEAN : Readings(d, ok) = {}
  BY <1>2 DEF Readings
<1>5. Cardinality({}) = 0
  BY FS_EmptySet
<1> QED BY <1>1, <1>2, <1>3, <1>4, <1>5 DEF ReadersInv, ReadersTruthful, Readings

\* A device whose counts stay keeps them true, whatever becomes of its state.
LEMMA DeviceStateSound ==
  ASSUME ReadersInv, UNCHANGED readHistory, device' \in [Devices -> Device],
         \A d \in Devices : /\ device'[d].totalReads = device[d].totalReads
                            /\ device'[d].successReads = device[d].successReads
                            /\ device'[d].failedReads = device[d].failedReads
  PROVE  ReadersInv'
BY DEF ReadersInv, ReadersTypeOK, ReadersTruthful

\* Each of the three counts of a reading is a field of its own.
WithReading(t, ok) ==
  [t EXCEPT !.totalReads = @ + 1,
            !.successReads = IF ok THEN @ + 1 ELSE @,
            !.failedReads = IF ok THEN @ ELSE @ + 1]

LEMMA CountedReading ==
  ASSUME NEW t \in Device, NEW ok \in BOOLEAN, NEW u, u = WithReading(t, ok)
  PROVE  /\ u \in Device /\ u.totalReads = t.totalReads + 1
         /\ u.successReads = IF ok THEN t.successReads + 1 ELSE t.successReads
         /\ u.failedReads = IF ok THEN t.failedReads ELSE t.failedReads + 1
<1>1. t.totalReads + 1 \in Nat /\ t.successReads + 1 \in Nat /\ t.failedReads + 1 \in Nat
  BY DEF Device
<1>2. CASE ok
  <2>1. u = [t EXCEPT !.totalReads = @ + 1, !.successReads = @ + 1]
    BY <1>2 DEF Device, WithReading
  <2> QED BY <1>1, <1>2, <2>1 DEF Device
<1>3. CASE ~ok
  <2>1. u = [t EXCEPT !.totalReads = @ + 1, !.failedReads = @ + 1]
    BY <1>3 DEF Device, WithReading
  <2> QED BY <1>1, <1>3, <2>1 DEF Device
<1> QED BY <1>2, <1>3

\* ips.service.ts:85-116
LEMMA ProcessReadSound ==
  ASSUME ReadersInv, NEW d \in Devices \cup {"unknown"}, NEW barcodes \in 0 .. 2,
         NEW confident \in BOOLEAN, ProcessRead(d, barcodes, confident)
  PROVE  ReadersInv'
<1> DEFINE status == ReadStatus(barcodes, confident)
           ok == (status = "SUCCESS")
           e == [device |-> d, status |-> status]
<1>1. status \in ReadStatuses
  BY DEF ReadStatus, ReadStatuses
<1>2. /\ readHistory' = IF Len(<<e>> \o readHistory) > ReadHistoryCap
                          THEN SubSeq(<<e>> \o readHistory, 1, ReadHistoryCap)
                          ELSE <<e>> \o readHistory
      /\ device' = IF d \notin Devices THEN device ELSE
           [device EXCEPT ![d].totalReads = @ + 1,
                          ![d].successReads = IF ok THEN @ + 1 ELSE @,
                          ![d].failedReads = IF ok THEN @ ELSE @ + 1]
  BY DEF ProcessRead
<1>3. e \in Reading /\ e.device = d /\ e.status = status
  BY <1>1 DEF Reading
<1>4. /\ readHistory \in Seq(Reading) /\ device \in [Devices -> Device]
      /\ Len(readHistory) <= ReadHistoryCap /\ ReadHistoryCap \in Nat
      /\ Len(readHistory) \in Nat /\ DOMAIN readHistory = 1 .. Len(readHistory)
  BY ReadersAssumption DEF ReadersInv, ReadersTypeOK, Reading, ReadersAssumption
<1> HIDE DEF status, e
<1>5. /\ CutTo(readHistory', e, readHistory, Len(readHistory'), Reading)
      /\ Len(readHistory') <= ReadHistoryCap /\ Len(readHistory') \in Nat
  <2> DEFINE new == readHistory'
             old == readHistory
  <2>1. new = Capped(e, old, ReadHistoryCap)
    BY <1>2 DEF Capped
  <2>2. old \in Seq(Reading)
    BY <1>4
  <2> HIDE DEF new, old
  <2>3. /\ CutTo(new, e, old, Len(new), Reading)
        /\ Len(new) \in Nat /\ Len(new) <= ReadHistoryCap
    BY <1>3, <1>4, <2>1, <2>2, CapFacts
  <2> QED BY <2>3 DEF new, old
<1>6. /\ device' \in [Devices -> Device]
      /\ \A k \in Devices : k # d => device'[k] = device[k]
      /\ d \in Devices =>
           /\ device'[d].totalReads = device[d].totalReads + 1
           /\ device'[d].successReads = IF ok THEN device[d].successReads + 1
                                              ELSE device[d].successReads
           /\ device'[d].failedReads = IF ok THEN device[d].failedReads
                                             ELSE device[d].failedReads + 1
  <2>1. CASE d \notin Devices
    BY <1>2, <1>4, <2>1
  <2>2. CASE d \in Devices
    <3> DEFINE t == device[d]
               u == WithReading(t, ok)
    <3>1. t \in Device /\ ok \in BOOLEAN
      BY <1>4, <2>2
    <3>2. device' = [device EXCEPT ![d] = u]
      BY <1>2, <1>4, <2>2 DEF WithReading
    <3>4. u = WithReading(t, ok)
      OBVIOUS
    <3> HIDE DEF ok, t, u
    <3>3. /\ u \in Device /\ u.totalReads = t.totalReads + 1
          /\ u.successReads = IF ok THEN t.successReads + 1 ELSE t.successReads
          /\ u.failedReads = IF ok THEN t.failedReads ELSE t.failedReads + 1
      BY <3>1, <3>4, CountedReading
    <3> QED BY <1>4, <2>2, <3>2, <3>3 DEF t
  <2> QED BY <2>1, <2>2
<1>7. ASSUME NEW k \in Devices, NEW which \in BOOLEAN
      PROVE  /\ Cardinality(Readings(k, which)') <= Cardinality(Readings(k, which)) + 1
             /\ ~(k = d /\ which = ok) => Cardinality(Readings(k, which)') <= Cardinality(Readings(k, which))
             /\ Cardinality(Readings(k, which)') \in Nat /\ Cardinality(Readings(k, which)) \in Nat
  <2> DEFINE A == Readings(k, which)'
             B == Readings(k, which)
  <2>1. A \in SUBSET (1 .. Len(readHistory')) /\ B \in SUBSET (1 .. Len(readHistory))
    BY <1>4, <1>5 DEF Readings, CutTo
  <2>2. \A i \in A : i = 1 \/ i - 1 \in B
    BY <1>4, <1>5 DEF Readings, CutTo
  <2>3. ~(k = d /\ which = ok) => 1 \notin A
    <3>1. 1 \in A => readHistory'[1] = e
      BY <1>5, <2>1 DEF CutTo
    <3> QED BY <1>3, <3>1 DEF Readings
  <2> HIDE DEF A, B
  <2>4. /\ Cardinality(A) <= Cardinality(B) + 1
        /\ 1 \notin A => Cardinality(A) <= Cardinality(B)
        /\ Cardinality(A) \in Nat /\ Cardinality(B) \in Nat
    BY <1>4, <1>5, <2>1, <2>2, CountShifted
  <2> QED BY <2>3, <2>4 DEF A, B
<1>8. ReadersTypeOK'
  BY <1>5, <1>6 DEF ReadersTypeOK, CutTo, Reading
<1>9. ASSUME NEW k \in Devices
      PROVE  /\ device'[k].totalReads = device'[k].successReads + device'[k].failedReads
             /\ Cardinality(Readings(k, TRUE)') <= device'[k].successReads
             /\ Cardinality(Readings(k, FALSE)') <= device'[k].failedReads
  <2>1. /\ device[k].totalReads = device[k].successReads + device[k].failedReads
        /\ Cardinality(Readings(k, TRUE)) <= device[k].successReads
        /\ Cardinality(Readings(k, FALSE)) <= device[k].failedReads
    BY DEF ReadersInv, ReadersTruthful, Readings
  <2>2. /\ device[k].totalReads \in Nat /\ device[k].successReads \in Nat
        /\ device[k].failedReads \in Nat
    BY <1>4 DEF Device
  <2> DEFINE a == Cardinality(Readings(k, TRUE))
             b == Cardinality(Readings(k, FALSE))
             a1 == Cardinality(Readings(k, TRUE)')
             b1 == Cardinality(Readings(k, FALSE)')
  <2>3. /\ a \in Nat /\ b \in Nat /\ a1 \in Nat /\ b1 \in Nat
        /\ a1 <= a + 1 /\ b1 <= b + 1
        /\ ~(k = d /\ ok) => a1 <= a
        /\ ~(k = d /\ ~ok) => b1 <= b
    BY <1>7
  <2>4. a <= device[k].successReads /\ b <= device[k].failedReads
    BY <2>1
  <2> HIDE DEF a, b, a1, b1, ok
  <2>5. CASE k = d
    <3>1. CASE ok
      <4>1. /\ device'[k].totalReads = device[k].totalReads + 1
            /\ device'[k].successReads = device[k].successReads + 1
            /\ device'[k].failedReads = device[k].failedReads
        BY <1>6, <2>5, <3>1
      <4>2. a1 <= device'[k].successReads /\ b1 <= device'[k].failedReads
        BY <2>2, <2>3, <2>4, <3>1, <4>1
      <4>3. device'[k].totalReads = device'[k].successReads + device'[k].failedReads
        BY <2>1, <2>2, <4>1
      <4> QED BY <4>2, <4>3 DEF a1, b1
    <3>2. CASE ~ok
      <4>1. /\ device'[k].totalReads = device[k].totalReads + 1
            /\ device'[k].successReads = device[k].successReads
            /\ device'[k].failedReads = device[k].failedReads + 1
        BY <1>6, <2>5, <3>2
      <4>2. a1 <= device'[k].successReads /\ b1 <= device'[k].failedReads
        BY <2>2, <2>3, <2>4, <3>2, <4>1
      <4>3. device'[k].totalReads = device'[k].successReads + device'[k].failedReads
        BY <2>1, <2>2, <4>1
      <4> QED BY <4>2, <4>3 DEF a1, b1
    <3> QED BY <3>1, <3>2
  <2>6. CASE k # d
    <3>1. device'[k] = device[k]
      BY <1>6, <2>6
    <3>2. a1 <= device[k].successReads /\ b1 <= device[k].failedReads
      BY <2>2, <2>3, <2>4, <2>6
    <3> QED BY <2>1, <3>1, <3>2 DEF a1, b1
  <2> QED BY <2>5, <2>6
<1>10. ReadersTruthful'
  BY <1>9 DEF ReadersTruthful, Readings
<1> QED BY <1>8, <1>10 DEF ReadersInv

\* The other fields of a reader: its alarms and its state
WithState(t, a, s) == [t EXCEPT !.alarms = a, !.status = s]

LEMMA DeviceState ==
  ASSUME NEW t \in Device, NEW a \in Nat, NEW s \in DeviceStatuses
  PROVE  /\ WithState(t, a, s) \in Device
         /\ WithState(t, a, s).totalReads = t.totalReads
         /\ WithState(t, a, s).successReads = t.successReads
         /\ WithState(t, a, s).failedReads = t.failedReads
BY DEF Device, WithState

LEMMA ReadersStepSound == ASSUME ReadersInv, [ReadersNext]_readerVars PROVE ReadersInv'
<1>0. device \in [Devices -> Device]
  BY DEF ReadersInv, ReadersTypeOK
<1>1. ASSUME NEW d \in Devices, NEW a \in Nat, NEW s \in DeviceStatuses,
             device' = [device EXCEPT ![d] = WithState(device[d], a, s)], UNCHANGED readHistory
      PROVE  ReadersInv'
  <2> DEFINE u == WithState(device[d], a, s)
  <2>1. /\ u \in Device /\ u.totalReads = device[d].totalReads
        /\ u.successReads = device[d].successReads /\ u.failedReads = device[d].failedReads
    BY <1>0, DeviceState
  <2>2. device' = [device EXCEPT ![d] = u]
    BY <1>1
  <2> HIDE DEF u
  <2> QED BY <1>0, <1>1, <2>1, <2>2, DeviceStateSound
<1>a. \A d \in Devices : device[d].alarms \in Nat /\ device[d].status \in DeviceStatuses
  BY <1>0 DEF Device
<1>2. ASSUME NEW d \in Devices, AddDeviceAlarm(d) PROVE ReadersInv'
  <2> DEFINE a == device[d].alarms + 1
             s == "ERROR"
  <2>1. device' = [device EXCEPT ![d] = WithState(device[d], a, s)] /\ UNCHANGED readHistory
    BY <1>0, <1>2 DEF AddDeviceAlarm, WithState, Device
  <2>2. a \in Nat /\ s \in DeviceStatuses
    BY <1>a DEF DeviceStatuses
  <2> HIDE DEF a, s
  <2> QED BY <1>1, <2>1, <2>2
<1>3. ASSUME NEW d \in Devices, ClearDeviceAlarms(d) PROVE ReadersInv'
  <2> DEFINE s == IF device[d].status = "ERROR" THEN "ONLINE" ELSE device[d].status
  <2>1. device' = [device EXCEPT ![d] = WithState(device[d], 0, s)] /\ UNCHANGED readHistory
    BY <1>0, <1>3 DEF ClearDeviceAlarms, WithState, Device
  <2>2. s \in DeviceStatuses
    BY <1>a DEF DeviceStatuses
  <2> HIDE DEF s
  <2> QED BY <1>1, <2>1, <2>2
<1>4. ASSUME NEW d \in Devices, NEW s \in DeviceStatuses, SetDeviceStatus(d, s)
      PROVE  ReadersInv'
  <2> DEFINE a == device[d].alarms
  <2>1. device' = [device EXCEPT ![d] = WithState(device[d], a, s)] /\ UNCHANGED readHistory
    BY <1>0, <1>4 DEF SetDeviceStatus, WithState, Device
  <2>2. a \in Nat
    BY <1>a
  <2> HIDE DEF a
  <2> QED BY <1>1, <2>1, <2>2
<1>5. ASSUME UNCHANGED readerVars PROVE ReadersInv'
  BY <1>0, <1>5, DeviceStateSound DEF readerVars
<1> QED BY <1>2, <1>3, <1>4, <1>5, ProcessReadSound DEF ReadersNext

\* For any readers and readings, the counts of a reader add up and cover what the
\* history holds of it (ips.service.ts:102-113).
THEOREM ReadersCountTheirReadings == ReadersSpec => [](ReadersTypeOK /\ ReadersTruthful)
<1>1. ReadersInv => ReadersTypeOK /\ ReadersTruthful
  BY DEF ReadersInv
<1> QED BY <1>1, ReadersInitSound, ReadersStepSound, PTL DEF ReadersSpec

-----------------------------------------------------------------------------
(***************************************************************************)
(* Inspections and test runs                                               *)
(***************************************************************************)

\* Reports as the services write them: they are over, and say what they counted.
InspectionReport ==
  {r \in [type : InspectionTypes, status : {"COMPLETED", "FAILED"}, passed : Nat, failed : Nat] :
     r.status = "COMPLETED" <=> r.passed = InspectionItems(r.type)}

TestReport ==
  {r \in [type : TestTypes \cup {"UNKNOWN"}, status : {"COMPLETED", "FAILED"},
          total : Nat, passed : Nat, failed : Nat] :
     /\ r.passed + r.failed = TestCases(r.type)
     /\ r.status = "COMPLETED" <=> r.failed = 0}

InspectionsInv == inspections \in Seq(InspectionReport) /\ tests \in Seq(TestReport)

\* maintenance.service.ts:137-145
LEMMA RunInspectionSound ==
  ASSUME InspectionsInv, NEW type \in InspectionTypes, RunInspection(type)
  PROVE  InspectionsInv'
<1>1. InspectionItems(type) \in Nat
  BY InspectionsAssumption
  DEF InspectionItems, InspectionTypes, HWCheckItems, InspectionsAssumption
<1>2. PICK failed \in 0 .. InspectionItems(type) :
        /\ inspections' = Append(inspections,
             [type |-> type, status |-> Verdict(failed),
              passed |-> InspectionItems(type) - failed, failed |-> failed])
        /\ UNCHANGED tests
  BY DEF RunInspection
<1> DEFINE r == [type |-> type, status |-> Verdict(failed),
                 passed |-> InspectionItems(type) - failed, failed |-> failed]
<1>3. /\ failed \in Nat /\ InspectionItems(type) - failed \in Nat
      /\ Verdict(failed) \in {"COMPLETED", "FAILED"}
      /\ Verdict(failed) = "COMPLETED" <=> InspectionItems(type) - failed = InspectionItems(type)
  BY <1>1 DEF Verdict
<1>4. r \in InspectionReport
  <2> DEFINE passed == InspectionItems(type) - failed
             status == Verdict(failed)
  <2>1. r = [type |-> type, status |-> status, passed |-> passed, failed |-> failed]
    OBVIOUS
  <2>2. /\ failed \in Nat /\ passed \in Nat /\ status \in {"COMPLETED", "FAILED"}
        /\ status = "COMPLETED" <=> passed = InspectionItems(type)
    BY <1>3
  <2> HIDE DEF r, passed, status
  <2> QED BY <2>1, <2>2 DEF InspectionReport
<1>5. inspections' = Append(inspections, r) /\ tests' = tests
  BY <1>2
<1> HIDE DEF r
<1> QED BY <1>4, <1>5 DEF InspectionsInv

\* test-runner.service.ts:93-124
LEMMA RunTestSound ==
  ASSUME InspectionsInv, NEW type \in TestTypes \cup {"UNKNOWN"}, RunTest(type)
  PROVE  InspectionsInv'
<1> DEFINE cases == TestCases(type)
<1>1. cases \in Nat
  BY DEF TestCases, TestTypes
<1>2. PICK run \in ExecutedTestCases(type) :
        /\ tests' = Append(tests, [type |-> type, status |-> Verdict(run.failed),
                                   total |-> run.total, passed |-> run.passed,
                                   failed |-> run.failed])
        /\ UNCHANGED inspections
  BY DEF RunTest
<1>3. PICK failed \in 0 .. cases :
        run = [total |-> cases, passed |-> cases - failed, failed |-> failed]
  BY DEF ExecutedTestCases
<1>4. run.total = cases /\ run.passed = cases - failed /\ run.failed = failed
  BY <1>3
<1> DEFINE r == [type |-> type, status |-> Verdict(run.failed), total |-> run.total,
                 passed |-> run.passed, failed |-> run.failed]
<1>5. r \in TestReport
  <2> DEFINE passed == run.passed
             status == Verdict(run.failed)
  <2>1. r = [type |-> type, status |-> status, total |-> cases, passed |-> passed,
             failed |-> failed]
    BY <1>4
  <2>2. /\ failed \in Nat /\ passed \in Nat /\ passed + failed = cases
        /\ status \in {"COMPLETED", "FAILED"}
        /\ status = "COMPLETED" <=> failed = 0
    <3> HIDE DEF cases
    <3> QED BY <1>1, <1>4 DEF Verdict
  <2> HIDE DEF r, passed, status
  <2> QED BY <1>1, <2>1, <2>2 DEF TestReport
<1>6. tests' = Append(tests, r) /\ inspections' = inspections
  BY <1>2
<1> HIDE DEF r
<1> QED BY <1>5, <1>6 DEF InspectionsInv

LEMMA InspectionsStepSound ==
  ASSUME InspectionsInv, [InspectionsNext]_inspectionVars PROVE InspectionsInv'
<1>1. ASSUME UNCHANGED inspectionVars PROVE InspectionsInv'
  BY <1>1 DEF inspectionVars, InspectionsInv
<1>2. ASSUME NEW i \in 1 .. MaxReports, CancelTest(i) PROVE InspectionsInv'
  <2>1. i \in DOMAIN tests => tests[i].status # "RUNNING"
    <3>1. SUFFICES ASSUME i \in DOMAIN tests PROVE tests[i].status # "RUNNING"
      OBVIOUS
    <3>2. tests[i] \in TestReport
      BY <3>1 DEF InspectionsInv
    <3> QED BY <3>2 DEF TestReport
  <2> QED BY <1>1, <1>2, <2>1 DEF CancelTest
<1> QED BY <1>1, <1>2, RunInspectionSound, RunTestSound DEF InspectionsNext

\* For any number of conveyors, a report that says COMPLETED has seen every item pass,
\* and a cancellation changes no report, since none is ever RUNNING when a request
\* comes (maintenance.service.ts:143, test-runner.service.ts:93, 182).
THEOREM ReportsStayHonest == InspectionsSpec => [](InspectionsTypeOK /\ ReportsHonest)
<1>1. InspectionsInit => InspectionsInv
  BY DEF InspectionsInit, InspectionsInv
<1>2. InspectionsInv => InspectionsTypeOK /\ ReportsHonest
  <2> SUFFICES ASSUME InspectionsInv PROVE InspectionsTypeOK /\ ReportsHonest
    OBVIOUS
  <2>1. \A i \in DOMAIN inspections : inspections[i] \in InspectionReport
    BY DEF InspectionsInv
  <2>2. \A i \in DOMAIN tests : tests[i] \in TestReport
    BY DEF InspectionsInv
  <2> QED BY <2>1, <2>2 DEF InspectionsTypeOK, ReportsHonest, InspectionReport, TestReport
<1> QED BY <1>1, <1>2, InspectionsStepSound, PTL DEF InspectionsSpec

-----------------------------------------------------------------------------
(***************************************************************************)
(* The rules of the simulator                                              *)
(***************************************************************************)

Outcome == {NotRead, ToReject} \cup {SortedTo(chute) : chute \in 1 .. 10 \cup {15}}

\* What the rule's description sorts the code or the pid to
FollowsRule(o, rule, code, pid) ==
  /\ o \in Outcome
  /\ o.result = "SUCCESS" =>
       /\ rule = "ODD_EVEN" /\ code # NotANumber => o.chute = IF code % 2 = 1 THEN 1 ELSE 2
       /\ rule = "DIVISIBLE" => code % 3 = 0 /\ o.chute = 3
       /\ rule = "RANGE" => code \in 30000 .. 39999 /\ o.chute = 15
       /\ rule = "MODULO" => o.chute = (pid % 10) + 1

SimItem ==
  {r \in [pid : Nat, code : GeneratedCodes \cup GivenCodes \cup {NotANumber}, rule : SimRules,
          result : {"SUCCESS", "REJECT", "NO_READ"}, assignedChute : Nat] :
     FollowsRule([result |-> r.result, chute |-> r.assignedChute], r.rule, r.code, r.pid)}

SimulatorInv ==
  activeRule \in SimRules /\ simulatedPid \in 0 .. MaxSimulated /\ simulated \in Seq(SimItem)

LEMMA SimulatorConstants ==
  /\ SimulatedCap \in Nat /\ MaxSimulated \in Nat
  /\ \A code \in GeneratedCodes : code \in Nat
BY SimulatorAssumption DEF SimulatorAssumption

LEMMA OutcomeFields ==
  /\ NotRead.result = "NO_READ" /\ NotRead.chute = 0
  /\ ToReject.result = "REJECT" /\ ToReject.chute = 99
  /\ \A c : SortedTo(c).result = "SUCCESS" /\ SortedTo(c).chute = c
BY DEF NotRead, ToReject, SortedTo

\* simulator.service.ts:101-131, 166-177
LEMMA RulesFollowed ==
  ASSUME SimulatorInv, NEW pid \in Nat, NEW code
  PROVE  /\ FollowsRule(NotRead, activeRule, code, pid)
         /\ code \in GeneratedCodes => FollowsRule(Generated(code, pid), activeRule, code, pid)
         /\ FollowsRule(Simulated(code, pid), activeRule, code, pid)
<1> USE OutcomeFields
<1>1. FollowsRule(NotRead, activeRule, code, pid)
  BY DEF FollowsRule, Outcome
<1>2. \A c \in 1 .. 10 \cup {15} : SortedTo(c) \in Outcome
  BY DEF Outcome
<1>3. (pid % 10) + 1 \in 1 .. 10
  OBVIOUS
<1>4. /\ ByParity(code) \in Outcome /\ ByParity(code).result = "SUCCESS"
      /\ ByPid(pid) \in Outcome /\ ByPid(pid).result = "SUCCESS"
      /\ ByPid(pid).chute = (pid % 10) + 1
  BY <1>2, <1>3 DEF ByParity, ByPid
<1>5. ToReject \in Outcome
  BY DEF Outcome
<1>6. activeRule \in {"ODD_EVEN", "DIVISIBLE", "RANGE", "MODULO"}
  BY DEF SimulatorInv, SimRules
<1>7. code \in GeneratedCodes => code \in Nat
  BY SimulatorConstants
<1>11. code # NotANumber => ByParity(code).chute = IF code % 2 = 1 THEN 1 ELSE 2
  BY DEF ByParity
<1>8. CASE activeRule = "ODD_EVEN"
  <2>1. Generated(code, pid) = ByParity(code) /\ Simulated(code, pid) = ByParity(code)
    BY <1>8 DEF Generated, Simulated
  <2> QED BY <1>1, <1>4, <1>8, <1>11, <2>1 DEF FollowsRule
<1>9. CASE activeRule = "MODULO"
  <2>1. Generated(code, pid) = ByPid(pid) /\ Simulated(code, pid) = ByPid(pid)
    BY <1>9 DEF Generated, Simulated
  <2> QED BY <1>1, <1>4, <1>9, <2>1 DEF FollowsRule
<1>10. CASE activeRule \in {"DIVISIBLE", "RANGE"}
  <2>1. Simulated(code, pid) = ToReject
    BY <1>10 DEF Simulated
  <2>2. \/ Generated(code, pid) = ToReject
        \/ activeRule = "DIVISIBLE" /\ code % 3 = 0 /\ Generated(code, pid) = SortedTo(3)
        \/ /\ activeRule = "RANGE" /\ code >= 30000 /\ code <= 39999
           /\ Generated(code, pid) = SortedTo(15)
    BY <1>10 DEF Generated
  <2>3. SortedTo(3) \in Outcome /\ SortedTo(15) \in Outcome
    BY <1>2
  <2>4. FollowsRule(ToReject, activeRule, code, pid)
    BY <1>5 DEF FollowsRule
  <2>5. activeRule = "DIVISIBLE" /\ code % 3 = 0 => FollowsRule(SortedTo(3), activeRule, code, pid)
    BY <2>3 DEF FollowsRule
  <2>6. /\ activeRule = "RANGE" /\ code \in Nat /\ code >= 30000 /\ code <= 39999
        => FollowsRule(SortedTo(15), activeRule, code, pid)
    BY <2>3 DEF FollowsRule
  <2> QED BY <1>1, <1>7, <2>1, <2>2, <2>4, <2>5, <2>6
<1> QED BY <1>6, <1>8, <1>9, <1>10

LEMMA ItemSound ==
  ASSUME SimulatorInv, NEW o, NEW code \in GeneratedCodes \cup GivenCodes \cup {NotANumber},
         FollowsRule(o, activeRule, code, simulatedPid + 1)
  PROVE  SimulatedItem(code, o) \in SimItem
<1>1. simulatedPid + 1 \in Nat /\ activeRule \in SimRules
  BY SimulatorConstants DEF SimulatorInv
<1>2. o \in Outcome
  BY DEF FollowsRule
<1>3. /\ o = [result |-> o.result, chute |-> o.chute]
      /\ o.result \in {"SUCCESS", "REJECT", "NO_READ"} /\ o.chute \in Nat
  BY <1>2 DEF Outcome, NotRead, ToReject, SortedTo
<1> DEFINE r == [pid |-> simulatedPid + 1, code |-> code, rule |-> activeRule,
                 result |-> o.result, assignedChute |-> o.chute]
<1>4. /\ r \in [pid : Nat, code : GeneratedCodes \cup GivenCodes \cup {NotANumber},
                rule : SimRules, result : {"SUCCESS", "REJECT", "NO_READ"}, assignedChute : Nat]
      /\ r.pid = simulatedPid + 1 /\ r.code = code /\ r.rule = activeRule
      /\ r.result = o.result /\ r.assignedChute = o.chute
  BY <1>1, <1>3
<1>5. FollowsRule([result |-> r.result, chute |-> r.assignedChute], r.rule, r.code, r.pid)
  BY <1>3, <1>4
<1>6. SimulatedItem(code, o) = r
  BY DEF SimulatedItem
<1> HIDE DEF r
<1> QED BY <1>4, <1>5, <1>6 DEF SimItem

LEMMA SimulatorStepSound ==
  ASSUME SimulatorInv, [SimulatorNext]_simulatorVars PROVE SimulatorInv'
<1>1. /\ simulatedPid \in Nat /\ simulatedPid + 1 \in Nat /\ MaxSimulated \in Nat
      /\ SimulatedCap \in Nat /\ simulated \in Seq(SimItem) /\ Len(simulated) \in Nat
  BY SimulatorConstants DEF SimulatorInv
<1>2. CASE AutoItem
  <2>1. PICK item \in {SimulatedItem(NotANumber, NotRead)} \cup
             {SimulatedItem(c, Generated(c, simulatedPid + 1)) : c \in GeneratedCodes} :
          /\ simulatedPid < MaxSimulated
          /\ simulated' = SubSeq(Listed(item), 1, IF Len(simulated) < SimulatedCap
                                                   THEN Len(simulated) + 1 ELSE SimulatedCap)
          /\ simulatedPid' = simulatedPid + 1
          /\ UNCHANGED activeRule
    BY <1>2 DEF AutoItem
  <2>2. item \in SimItem
    BY <1>1, RulesFollowed, ItemSound
  <2> DEFINE n == IF Len(simulated) < SimulatedCap THEN Len(simulated) + 1 ELSE SimulatedCap
             new == simulated'
  <2>3. n \in Nat /\ n <= Len(simulated) + 1
    BY <1>1
  <2>4. new = SubSeq(<<item>> \o simulated, 1, n)
    BY <2>1 DEF Listed
  <2> HIDE DEF n, new
  <2>5. CutTo(new, item, simulated, n, SimItem)
    BY <1>1, <2>2, <2>3, <2>4, CutFacts
  <2>6. simulated' \in Seq(SimItem)
    BY <2>5 DEF CutTo, new
  <2> QED BY <1>1, <2>1, <2>6 DEF SimulatorInv
<1>3. CASE ManualItem
  <2>1. PICK item \in {SimulatedItem(NotANumber, NotRead)} \cup
             {SimulatedItem(c, Simulated(c, simulatedPid + 1)) : c \in GivenCodes} :
          /\ simulatedPid < MaxSimulated
          /\ simulated' = Listed(item)
          /\ simulatedPid' = simulatedPid + 1
          /\ UNCHANGED activeRule
    BY <1>3 DEF ManualItem
  <2>2. item \in SimItem
    BY <1>1, RulesFollowed, ItemSound
  <2>3. simulated' \in Seq(SimItem)
    BY <1>1, <2>1, <2>2 DEF Listed
  <2> QED BY <1>1, <2>1, <2>3 DEF SimulatorInv
<1>4. CASE \E rule \in SimRules \cup {"UNKNOWN"} : SetRule(rule)
  BY <1>4 DEF SetRule, SimulatorInv
<1>5. CASE ResetSimulated
  BY <1>1, <1>5 DEF ResetSimulated, SimulatorInv
<1>6. CASE UNCHANGED simulatorVars
  BY <1>6 DEF simulatorVars, SimulatorInv
<1> QED BY <1>2, <1>3, <1>4, <1>5, <1>6 DEF SimulatorNext

LEMMA SimulatorItemsSound ==
  ASSUME SimulatorInv PROVE SimulatorTypeOK /\ ItemsFollowRules
<1> DEFINE o(i) == [result |-> simulated[i].result, chute |-> simulated[i].assignedChute]
<1>1. \A i \in DOMAIN simulated :
        /\ simulated[i] \in SimItem
        /\ FollowsRule(o(i), simulated[i].rule, simulated[i].code, simulated[i].pid)
        /\ o(i).result = simulated[i].result /\ o(i).chute = simulated[i].assignedChute
        /\ simulated[i].rule \in {"ODD_EVEN", "DIVISIBLE", "RANGE", "MODULO"}
  <2>1. \A i \in DOMAIN simulated : simulated[i] \in SimItem
    BY DEF SimulatorInv
  <2> QED BY <2>1 DEF SimItem, SimRules
<1>2. SimulatorTypeOK
  BY <1>1 DEF SimulatorTypeOK, SimulatorInv, FollowsRule, Outcome
<1> HIDE DEF o
<1>3. ASSUME NEW i \in DOMAIN simulated
      PROVE  LET s == simulated[i] IN
        s.result = "SUCCESS" =>
          /\ s.rule = "ODD_EVEN" /\ s.code # NotANumber =>
               s.assignedChute = IF s.code % 2 = 1 THEN 1 ELSE 2
          /\ s.rule = "DIVISIBLE" => s.code % 3 = 0 /\ s.assignedChute = 3
          /\ s.rule = "RANGE" => s.code \in 30000 .. 39999 /\ s.assignedChute = 15
          /\ s.rule = "MODULO" => s.assignedChute = (s.pid % 10) + 1
  <2> DEFINE s == simulated[i]
             q == o(i)
  <2>1. /\ FollowsRule(q, s.rule, s.code, s.pid)
        /\ q.result = s.result /\ q.chute = s.assignedChute
    BY <1>1
  <2> HIDE DEF s, q
  <2>2. s.result = "SUCCESS" =>
          /\ s.rule = "ODD_EVEN" /\ s.code # NotANumber =>
               s.assignedChute = IF s.code % 2 = 1 THEN 1 ELSE 2
          /\ s.rule = "DIVISIBLE" => s.code % 3 = 0 /\ s.assignedChute = 3
          /\ s.rule = "RANGE" => s.code \in 30000 .. 39999 /\ s.assignedChute = 15
          /\ s.rule = "MODULO" => s.assignedChute = (s.pid % 10) + 1
    BY ONLY <2>1 DEF FollowsRule
  <2> QED BY <2>2 DEF s
<1>4. ASSUME NEW i \in DOMAIN simulated, NEW j \in DOMAIN simulated,
             simulated[i].result = "SUCCESS", simulated[i].rule = "MODULO",
             simulated[j].result = "SUCCESS", simulated[j].rule = "MODULO"
      PROVE  simulated[j].assignedChute = simulated[i].assignedChute
               <=> simulated[j].pid % 10 = simulated[i].pid % 10
  <2> DEFINE a == simulated[i].pid % 10
             b == simulated[j].pid % 10
  <2>1. a \in Int /\ b \in Int
    <3>1. \A r \in SimItem : r.pid \in Nat
      BY DEF SimItem
    <3>2. simulated[i].pid \in Nat /\ simulated[j].pid \in Nat
      BY <1>1, <3>1, Zenon
    <3> QED BY ONLY <3>2
  <2>2. simulated[i].assignedChute = a + 1 /\ simulated[j].assignedChute = b + 1
    BY <1>3, <1>4
  <2> HIDE DEF a, b
  <2>3. simulated[j].assignedChute = simulated[i].assignedChute <=> b = a
    BY <2>1, <2>2
  <2> QED BY <2>3 DEF a, b
<1>5. ItemsFollowRules
  BY <1>3, <1>4 DEF ItemsFollowRules
<1> QED BY <1>2, <1>5

\* For any codes, an item that is sorted goes to the chute the description of the rule
\* it bears names, or under MODULO shares one with the pids of its last digit, whatever rule is in force by now (simulator.service.ts:51-54, 112-173).
THEOREM ItemsGoByTheirRule == SimulatorSpec => [](SimulatorTypeOK /\ ItemsFollowRules)
<1>1. SimulatorInit => SimulatorInv
  BY SimulatorConstants DEF SimulatorInit, SimulatorInv, SimRules
<1> QED BY <1>1, SimulatorStepSound, SimulatorItemsSound, PTL DEF SimulatorSpec
=============================================================================
