--------------------------- MODULE MonitorsProofs ---------------------------
(* Proofs about the director's periodic work: one inductive invariant for each   *)
(* part, together the safety of Monitors; the badge of a device and the mails    *)
(* about it; the audit's per-day figures.                                        *)
EXTENDS Monitors, FiniteSetTheorems, WellFoundedInduction, TLAPS

-----------------------------------------------------------------------------
(* Ages.                                                                   *)

LEMMA OlderIs ==
  ASSUME NEW cap \in Nat, NEW age \in 0..cap \cup {Never}
  PROVE  /\ Older(age, cap) \in 0..cap \cup {Never}
         /\ Older(age, cap) = Never <=> age = Never
         /\ age # Never => Older(age, cap) = IF age = cap THEN cap ELSE age + 1
BY NotifyAssumption DEF Older

-----------------------------------------------------------------------------
(* The device monitor.                                                     *)

\* The monitor has seen no flow of a device that is newer than the newest one stored.
DevInv ==
  /\ DevTypeOK
  /\ \A d \in DOMAIN health :
       health[d].lastFlow # Never => flowAt[d] # Never /\ flowAt[d] <= health[d].lastFlow

LEMMA CapIs == AgeCap \in Nat \ {0} /\ Lookback < AgeCap
BY DeviceMonitorAssumption DEF AgeCap

LEMMA DevInitInv == DevInit => DevInv
<1>. SUFFICES ASSUME DevInit PROVE DevInv
  OBVIOUS
<1>1. DOMAIN health = {}
  BY DEF DevInit
<1>2. Never \in DevAges
  BY DEF DevAges
<1>. QED BY <1>1, <1>2 DEF DevInit, DevInv, DevTypeOK

Old(d) == IF d \in DOMAIN health THEN health[d] ELSE NewState

LEMMA OldIs ==
  ASSUME DevInv, NEW d \in Devices
  PROVE  /\ Old(d) \in HealthState /\ flowAt[d] \in DevAges
         /\ Old(d).lastFlow # Never => flowAt[d] # Never /\ flowAt[d] <= Old(d).lastFlow
<1>1. NewState \in HealthState /\ NewState.lastFlow = Never
  BY DEF NewState, HealthState, DevAges
<1>. QED BY <1>1 DEF Old, DevInv, DevTypeOK

LEMMA RatchetIs ==
  ASSUME DevInv, NEW d \in Devices
  PROVE  LET st == Ratchet(Old(d), d) IN
         /\ st \in HealthState /\ st.status = Old(d).status
         /\ st.lastFlow # Never => flowAt[d] # Never /\ flowAt[d] <= st.lastFlow
         /\ LastSeen(d) # Never => st.lastFlow = LastSeen(d)
<1>. DEFINE o == Old(d)
            ls == LastSeen(d)
<1>0. o \in HealthState /\ flowAt[d] \in DevAges
  BY OldIs
<1>1. o.lastFlow \in DevAges /\ (o.lastFlow # Never => flowAt[d] # Never /\ flowAt[d] <= o.lastFlow)
  BY OldIs DEF HealthState
<1>2. ls \in DevAges /\ (ls # Never => ls = flowAt[d])
  BY <1>0 DEF LastSeen, DevAges
<1>3. Ratchet(o, d) = IF After(ls, o.lastFlow) THEN [o EXCEPT !.lastFlow = ls] ELSE o
  BY DEF Ratchet
<1>4. After(ls, o.lastFlow) <=> ls # Never /\ (o.lastFlow = Never \/ ls < o.lastFlow)
  BY DEF After
<1>5. \A x \in DevAges : x # Never => x \in 0..AgeCap
  BY DEF DevAges
<1>. HIDE DEF o, ls
<1>6. CASE After(ls, o.lastFlow)
  <2>1. Ratchet(o, d) \in HealthState /\ Ratchet(o, d).status = o.status /\ Ratchet(o, d).lastFlow = ls
    BY <1>0, <1>2, <1>3, <1>6 DEF HealthState
  <2>2. ls # Never /\ ls = flowAt[d] /\ ls \in 0..AgeCap
    BY <1>2, <1>4, <1>5, <1>6
  <2>. QED BY <2>1, <2>2, CapIs DEF o, ls
<1>7. CASE ~After(ls, o.lastFlow)
  <2>1. Ratchet(o, d) = o
    BY <1>3, <1>7
  <2>2. ASSUME ls # Never PROVE o.lastFlow = ls
    <3>1. o.lastFlow # Never /\ ~(ls < o.lastFlow) /\ ls = flowAt[d] /\ flowAt[d] <= o.lastFlow
      BY <1>1, <1>2, <1>4, <1>7, <2>2
    <3>2. o.lastFlow \in 0..AgeCap /\ ls \in 0..AgeCap
      BY <1>1, <1>2, <1>5, <2>2, <3>1
    <3>. QED BY <3>1, <3>2, CapIs
  <2>. QED BY <1>0, <1>1, <2>1, <2>2 DEF o, ls
<1>. QED BY <1>6, <1>7

Alert == [d : Devices, recovered : BOOLEAN]

\* evalTransitions for one device: only an age of the last flow decides on silence.
LEMMA TransitionIs ==
  ASSUME DevInv, NEW d \in Devices
  PROVE  /\ Transition(d).st \in HealthState /\ Transition(d).alert \subseteq Alert
         /\ Transition(d).st.lastFlow = Ratchet(Old(d), d).lastFlow
         /\ Ratchet(Old(d), d).lastFlow # Never =>
              (Transition(d).st.status = "silent" <=> Silent(Ratchet(Old(d), d).lastFlow))
<1>1. PICK st : st = Ratchet(Old(d), d)
  OBVIOUS
<1>2. st \in HealthState
  BY <1>1, RatchetIs
<1>. DEFINE quiet(s) == [st |-> s, alert |-> {}]
            alarm(s, rec) == [st |-> s, alert |-> {[d |-> d, recovered |-> rec]}]
<1>3. Transition(d) =
      CASE st.lastFlow = Never -> quiet(st)
        [] Silent(st.lastFlow) /\ Due(st) ->
             alarm([st EXCEPT !.status = "silent", !.lastAlertAt = 0], FALSE)
        [] Silent(st.lastFlow) /\ ~Due(st) -> quiet(st)
        [] st.lastFlow # Never /\ ~Silent(st.lastFlow) /\ st.status = "silent" ->
             alarm([st EXCEPT !.status = "healthy"], TRUE)
        [] OTHER -> quiet([st EXCEPT !.status = "healthy"])
  BY <1>1 DEF Transition, Old
<1>4. 0 \in DevAges
  BY CapIs DEF DevAges
<1>5. /\ [st EXCEPT !.status = "silent", !.lastAlertAt = 0] \in HealthState
      /\ [st EXCEPT !.status = "silent", !.lastAlertAt = 0].lastFlow = st.lastFlow
      /\ [st EXCEPT !.status = "silent", !.lastAlertAt = 0].status = "silent"
      /\ [st EXCEPT !.status = "healthy"] \in HealthState
      /\ [st EXCEPT !.status = "healthy"].lastFlow = st.lastFlow
      /\ [st EXCEPT !.status = "healthy"].status = "healthy"
  BY <1>2, <1>4 DEF HealthState
<1>6. ~Due(st) => st.status = "silent"
  BY DEF Due
<1>7. PICK a, b : a = [st EXCEPT !.status = "silent", !.lastAlertAt = 0] /\ b = [st EXCEPT !.status = "healthy"]
  OBVIOUS
<1>8. ~Silent(Never)
  BY DEF Silent
<1>9. CASE st.lastFlow = Never
  <2>1. Transition(d) = quiet(st)
    BY <1>3, <1>8, <1>9
  <2>. QED BY <1>1, <1>2, <1>9, <2>1
<1>10. CASE st.lastFlow # Never /\ Silent(st.lastFlow) /\ Due(st)
  <2>1. Transition(d) = alarm(a, FALSE)
    BY <1>3, <1>7, <1>10
  <2>2. Transition(d).st = a /\ Transition(d).alert = {[d |-> d, recovered |-> FALSE]}
    BY <2>1
  <2>. QED BY <1>1, <1>5, <1>7, <1>10, <2>2 DEF Alert
<1>11. CASE st.lastFlow # Never /\ Silent(st.lastFlow) /\ ~Due(st)
  <2>1. Transition(d) = quiet(st)
    BY <1>3, <1>11
  <2>. QED BY <1>1, <1>2, <1>6, <1>11, <2>1
<1>12. CASE st.lastFlow # Never /\ ~Silent(st.lastFlow) /\ st.status = "silent"
  <2>1. Transition(d) = alarm(b, TRUE)
    BY <1>3, <1>7, <1>12
  <2>2. Transition(d).st = b /\ Transition(d).alert = {[d |-> d, recovered |-> TRUE]}
    BY <2>1
  <2>. QED BY <1>1, <1>5, <1>7, <1>12, <2>2 DEF Alert
<1>13. CASE st.lastFlow # Never /\ ~Silent(st.lastFlow) /\ st.status # "silent"
  <2>1. Transition(d) = quiet(b)
    BY <1>3, <1>7, <1>13
  <2>2. Transition(d).st = b /\ Transition(d).alert = {}
    BY <2>1
  <2>. QED BY <1>1, <1>5, <1>7, <1>13, <2>2
<1>. QED BY <1>9, <1>10, <1>11, <1>12, <1>13

LEMMA DevNextInv ==
  ASSUME DevInv, DevNext PROVE DevInv'
<1>0. /\ enabled \subseteq Devices /\ flowAt \in [Devices -> DevAges] /\ signalAt \in [Devices -> DevAges]
      /\ DOMAIN health \subseteq Devices /\ (\A d \in DOMAIN health : health[d] \in HealthState)
      /\ outbox \subseteq Alert /\ told \in [Devices -> {"nothing", "down", "recovered"}]
  BY DEF DevInv, DevTypeOK, Alert
<1>a. \A x \in DevAges : x # Never => x \in Nat
  BY CapIs DEF DevAges
<1>1. ASSUME runHealthCheck PROVE DevInv'
  <2>1. /\ health' = [d \in enabled |-> Transition(d).st] /\ outbox' = UNION {Transition(d).alert : d \in enabled}
        /\ UNCHANGED <<enabled, flowAt, signalAt, told>>
    BY <1>1 DEF runHealthCheck
  <2>2. ASSUME NEW d \in enabled
        PROVE  /\ Transition(d).st \in HealthState /\ Transition(d).alert \subseteq Alert
               /\ Transition(d).st.lastFlow # Never => flowAt[d] # Never /\ flowAt[d] <= Transition(d).st.lastFlow
    <3>1. d \in Devices
      BY <1>0
    <3>. QED BY <3>1, TransitionIs, RatchetIs
  <2>3. outbox' \subseteq Alert
    BY <2>1, <2>2
  <2>4. DOMAIN health' = enabled /\ \A d \in enabled : health'[d] = Transition(d).st
    BY <2>1
  <2>. QED BY <1>0, <2>1, <2>2, <2>3, <2>4 DEF DevInv, DevTypeOK, Alert
<1>2. ASSUME NEW p \in outbox, NEW o \in Outcomes, sendDeviceAlert(p, o) PROVE DevInv'
  <2>1. UNCHANGED <<enabled, flowAt, signalAt, health>> /\ outbox' \subseteq outbox
    BY <1>2 DEF sendDeviceAlert
  <2>2. told' \in [Devices -> {"nothing", "down", "recovered"}]
    BY <1>0, <1>2 DEF sendDeviceAlert
  <2>. QED BY <1>0, <2>1, <2>2 DEF DevInv, DevTypeOK, Alert
<1>3. ASSUME NEW d \in Devices, StoreFlow(d) PROVE DevInv'
  <2>1. /\ flowAt' = [flowAt EXCEPT ![d] = 0] /\ told' = [told EXCEPT ![d] = "nothing"]
        /\ UNCHANGED <<enabled, signalAt, health, outbox>>
    BY <1>3 DEF StoreFlow
  <2>2. 0 \in DevAges /\ 0 # Never
    BY CapIs, NotifyAssumption DEF DevAges
  <2>3. flowAt' \in [Devices -> DevAges] /\ told' \in [Devices -> {"nothing", "down", "recovered"}]
    BY <1>0, <2>1, <2>2
  <2>4. ASSUME NEW x \in DOMAIN health, health[x].lastFlow # Never
        PROVE  flowAt'[x] # Never /\ flowAt'[x] <= health[x].lastFlow
    <3>1. x \in Devices /\ health[x].lastFlow \in Nat
      BY <1>0, <1>a, <2>4 DEF HealthState
    <3>. QED BY <1>0, <2>1, <2>2, <2>4, <3>1 DEF DevInv
  <2>. QED BY <1>0, <2>1, <2>3, <2>4 DEF DevInv, DevTypeOK, Alert
<1>4. ASSUME NEW d \in Devices, DropFlow(d) PROVE DevInv'
  <2>1. signalAt' = [signalAt EXCEPT ![d] = 0] /\ UNCHANGED <<enabled, flowAt, health, outbox, told>>
    BY <1>4 DEF DropFlow
  <2>2. signalAt' \in [Devices -> DevAges]
    BY <1>0, <2>1, CapIs DEF DevAges
  <2>. QED BY <2>1, <2>2 DEF DevInv, DevTypeOK
<1>5. ASSUME NEW d \in Devices, EditDevice(d) PROVE DevInv'
  BY <1>5 DEF EditDevice, DevInv, DevTypeOK
<1>6. ASSUME DevMinute PROVE DevInv'
  <2>1. /\ flowAt' = [d \in Devices |-> Older(flowAt[d], AgeCap)]
        /\ signalAt' = [d \in Devices |-> Older(signalAt[d], AgeCap)]
        /\ health' = [d \in DOMAIN health |->
                  [health[d] EXCEPT !.lastFlow = Older(@, AgeCap), !.lastAlertAt = Older(@, AgeCap)]]
        /\ UNCHANGED <<enabled, outbox, told>>
    BY <1>6 DEF DevMinute
  <2>2. \A a \in DevAges : Older(a, AgeCap) \in DevAges
    BY CapIs, OlderIs DEF DevAges
  <2>3. flowAt' \in [Devices -> DevAges] /\ signalAt' \in [Devices -> DevAges]
    BY <1>0, <2>1, <2>2
  <2>4. ASSUME NEW d \in DOMAIN health
        PROVE  health'[d] \in HealthState /\ health'[d].lastFlow = Older(health[d].lastFlow, AgeCap)
    <3>1. health[d] \in HealthState
      BY <1>0
    <3>2. Older(health[d].lastFlow, AgeCap) \in DevAges /\ Older(health[d].lastAlertAt, AgeCap) \in DevAges
      BY <2>2, <3>1 DEF HealthState
    <3>3. health'[d] = [health[d] EXCEPT !.lastFlow = Older(health[d].lastFlow, AgeCap),
                                         !.lastAlertAt = Older(health[d].lastAlertAt, AgeCap)]
      BY <2>1
    <3>. QED BY <3>1, <3>2, <3>3 DEF HealthState
  <2>5. ASSUME NEW d \in DOMAIN health, health'[d].lastFlow # Never
        PROVE  flowAt'[d] # Never /\ flowAt'[d] <= health'[d].lastFlow
    <3>1. PICK f, l : f = flowAt[d] /\ l = health[d].lastFlow
      OBVIOUS
    <3>2. d \in Devices /\ f \in DevAges /\ l \in DevAges
      BY <1>0, <3>1 DEF HealthState
    <3>3. flowAt'[d] = Older(f, AgeCap) /\ health'[d].lastFlow = Older(l, AgeCap)
      BY <2>1, <2>4, <3>1, <3>2
    <3>4. l # Never
      BY <2>5, <3>2, <3>3, CapIs, OlderIs DEF DevAges
    <3>5. f # Never /\ f <= l
      BY <3>1, <3>4 DEF DevInv
    <3>6. f \in 0..AgeCap /\ l \in 0..AgeCap
      BY <3>2, <3>4, <3>5 DEF DevAges
    <3>7. Older(f, AgeCap) # Never /\ Older(f, AgeCap) = (IF f = AgeCap THEN AgeCap ELSE f + 1)
          /\ Older(l, AgeCap) = (IF l = AgeCap THEN AgeCap ELSE l + 1)
      BY <3>4, <3>5, <3>6, CapIs, OlderIs
    <3>. QED BY <3>3, <3>5, <3>6, <3>7, CapIs
  <2>6. DOMAIN health' = DOMAIN health
    BY <2>1
  <2>. QED BY <1>0, <2>1, <2>3, <2>4, <2>5, <2>6 DEF DevInv, DevTypeOK, Alert
<1>7. ASSUME DevRestart PROVE DevInv'
  <2>1. DOMAIN health' = {} /\ outbox' = {} /\ UNCHANGED <<enabled, flowAt, signalAt, told>>
    BY <1>7 DEF DevRestart
  <2>. QED BY <1>0, <2>1 DEF DevInv, DevTypeOK
<1>8. ASSUME DevSave PROVE DevInv'
  BY <1>8 DEF DevSave, devVars, DevInv, DevTypeOK
<1>. QED BY <1>1, <1>2, <1>3, <1>4, <1>5, <1>6, <1>7, <1>8 DEF DevNext

LEMMA CheckAgrees ==
  ASSUME DevInv, runHealthCheck, NEW d \in enabled, LastSeen(d) # Never, ~After(signalAt[d], LastSeen(d))
  PROVE  (Badge(d) = "silent") <=> (health'[d].status = "silent")
<1>1. d \in Devices
  BY DEF DevInv, DevTypeOK
<1>2. health'[d] = Transition(d).st
  BY DEF runHealthCheck
<1>3. Ratchet(Old(d), d).lastFlow = LastSeen(d)
  BY <1>1, RatchetIs
<1>4. Transition(d).st.status = "silent" <=> Silent(LastSeen(d))
  BY <1>1, <1>3, TransitionIs
<1>5. Badge(d) = "silent" <=> Silent(LastSeen(d))
  BY DEF Badge
<1>. QED BY <1>2, <1>4, <1>5

-----------------------------------------------------------------------------
(* The ingest monitor.                                                     *)

DBs == [up : BOOLEAN, dbDown : BOOLEAN, lastDBAlert : IngAges, told : {"nothing", "down", "up"}]
FlowStates == [work : {"idle", "stored", "stuck"}, havePrev : BOOLEAN, stalled : 0..StallTicks,
               alerted : BOOLEAN, lastAlert : IngAges, told : {"nothing", "stalled", "resumed"}]
PartStates == [now : 0..MaxParts, broken : 0..MaxParts, lastBrokenAlert : IngAges, told : 0..MaxParts]

LEMMA IngAgesAre == Never \in IngAges /\ 0 \in IngAges /\ \A a \in IngAges : Older(a, Remind) \in IngAges
BY OlderIs, IngestMonitorAssumption DEF IngAges

LEMMA IngTypes == IngTypeOK <=> db \in DBs /\ flows \in FlowStates /\ parts \in PartStates
BY DEF IngTypeOK, DBs, FlowStates, PartStates

LEMMA IngInitInv == IngInit => IngTypeOK
<1>. SUFFICES ASSUME IngInit PROVE db \in DBs /\ flows \in FlowStates /\ parts \in PartStates
  BY IngTypes
<1>1. db \in DBs
  BY IngAgesAre DEF IngInit, DBs
<1>2. flows \in FlowStates
  BY IngAgesAre, IngestMonitorAssumption DEF IngInit, FlowStates
<1>3. parts \in PartStates
  BY IngAgesAre, IngestMonitorAssumption DEF IngInit, PartStates
<1>. QED BY <1>1, <1>2, <1>3

LEMMA DBNextInv ==
  ASSUME db \in DBs, DBNext PROVE db' \in DBs
<1>0. db.lastDBAlert \in IngAges
  BY DEF DBs
<1>1. ASSUME NEW o \in Outcomes, DBRecovered(o) PROVE db' \in DBs
  BY <1>1 DEF DBRecovered, DBs
<1>2. ASSUME NEW o \in Outcomes, DBDown(o) PROVE db' \in DBs
  BY <1>2, IngAgesAre DEF DBDown, DBs
<1>3. ASSUME NEW up \in BOOLEAN, ClickHouse(up) PROVE db' \in DBs
  BY <1>3 DEF ClickHouse, DBs
<1>4. ASSUME DBMinute PROVE db' \in DBs
  <2>1. Older(db.lastDBAlert, Remind) \in IngAges
    BY <1>0, IngAgesAre
  <2>. QED BY <1>4, <2>1 DEF DBMinute, DBs
<1>. QED BY <1>1, <1>2, <1>3, <1>4 DEF DBNext, clickHouseHealthCheck

LEMMA FlowsNextInv ==
  ASSUME flows \in FlowStates, FlowsNext PROVE flows' \in FlowStates
<1>0. flows.lastAlert \in IngAges /\ flows.stalled \in 0..StallTicks /\ 0 \in 0..StallTicks
  BY IngestMonitorAssumption DEF FlowStates
<1>1. ASSUME Baseline PROVE flows' \in FlowStates
  BY <1>0, <1>1 DEF Baseline, FlowStates
<1>2. ASSUME NEW o \in Outcomes, Stalled(o) PROVE flows' \in FlowStates
  <2>. DEFINE n == IF flows.stalled < StallTicks THEN flows.stalled + 1 ELSE StallTicks
              t == IF alerting /\ Delivered(o) THEN "stalled" ELSE flows.told
  <2>1. n \in 0..StallTicks
    BY <1>0, IngestMonitorAssumption
  <2>2. t \in {"nothing", "stalled", "resumed"}
    BY DEF FlowStates
  <2>3. \/ flows' = [flows EXCEPT !.stalled = n, !.alerted = TRUE, !.lastAlert = 0, !.told = t]
        \/ flows' = [flows EXCEPT !.stalled = n]
    BY <1>2 DEF Stalled
  <2>. HIDE DEF n, t
  <2>. QED BY <2>1, <2>2, <2>3, IngAgesAre DEF FlowStates
<1>3. ASSUME NEW o \in Outcomes, Resumed(o) PROVE flows' \in FlowStates
  BY <1>0, <1>3 DEF Resumed, FlowStates
<1>4. ASSUME NEW w \in {"idle", "stored", "stuck"}, Work(w) PROVE flows' \in FlowStates
  BY <1>4 DEF Work, FlowStates
<1>5. ASSUME FlowsMinute PROVE flows' \in FlowStates
  <2>1. Older(flows.lastAlert, Remind) \in IngAges
    BY <1>0, IngAgesAre
  <2>. QED BY <1>5, <2>1 DEF FlowsMinute, FlowStates
<1>. QED BY <1>1, <1>2, <1>3, <1>4, <1>5 DEF FlowsNext, ingestTick

LEMMA PartsNextInv ==
  ASSUME parts \in PartStates, PartsNext PROVE parts' \in PartStates
<1>0. parts.lastBrokenAlert \in IngAges /\ parts.now \in 0..MaxParts /\ parts.broken \in 0..MaxParts /\ parts.told \in 0..MaxParts
  BY DEF PartStates
<1>1. ASSUME NEW o \in Outcomes, brokenPartsCheck(o) PROVE parts' \in PartStates
  BY <1>0, <1>1, IngAgesAre DEF brokenPartsCheck, PartStates
<1>2. ASSUME NEW n \in 0..MaxParts, BrokenParts(n) PROVE parts' \in PartStates
  BY <1>0, <1>2 DEF BrokenParts, PartStates
<1>3. ASSUME PartsMinute PROVE parts' \in PartStates
  <2>1. Older(parts.lastBrokenAlert, Remind) \in IngAges
    BY <1>0, IngAgesAre
  <2>. QED BY <1>3, <2>1 DEF PartsMinute, PartStates
<1>. QED BY <1>1, <1>2, <1>3 DEF PartsNext

LEMMA IngRestartInv ==
  ASSUME IngTypeOK, IngRestart PROVE IngTypeOK'
<1>1. db \in DBs /\ flows \in FlowStates /\ parts \in PartStates
  BY IngTypes
<1>2. db' \in DBs
  BY <1>1, IngAgesAre DEF IngRestart, DBs
<1>z. 0 \in 0..StallTicks /\ 0 \in 0..MaxParts
  BY IngestMonitorAssumption
<1>3. flows' \in FlowStates
  <2>1. flows' = [flows EXCEPT !.havePrev = FALSE, !.stalled = 0, !.alerted = FALSE, !.lastAlert = Never]
    BY DEF IngRestart
  <2>. QED BY <1>1, <1>z, <2>1, IngAgesAre DEF FlowStates
<1>4. parts' \in PartStates
  <2>1. parts' = [parts EXCEPT !.broken = 0, !.lastBrokenAlert = Never]
    BY DEF IngRestart
  <2>. QED BY <1>1, <1>z, <2>1, IngAgesAre DEF PartStates
<1>. QED BY <1>2, <1>3, <1>4 DEF IngTypeOK, DBs, FlowStates, PartStates, IngAges

-----------------------------------------------------------------------------
(* The compliance audit.                                                   *)

Entries == [state : States, firstSeen : CompAges, lastAlert : CompAges]

LEMMA WindowIs ==
  ASSUME NEW w \in Windows \cup {Quiet}
  PROVE  /\ w.translated \in Nat /\ w.noNATField \in Nat /\ w.sameAsSrc \in Nat /\ w.withPort \in Nat /\ w.dropped \in Nat
         /\ w.withPort <= w.translated
<1>1. CASE w \in Windows
  <2>1. w \in TranslationStats
    BY <1>1, ComplianceAssumption
  <2>. QED BY <2>1 DEF TranslationStats
<1>2. CASE w = Quiet
  BY <1>2 DEF Quiet
<1>. QED BY <1>1, <1>2

\* gradeDevice of an enabled device.
LEMMA GradeIs ==
  ASSUME NEW w \in Windows \cup {Quiet}
  PROVE  /\ gradeDevice(TRUE, w) \in States
         /\ answerable(gradeDevice(TRUE, w)) <=> w.withPort > 0
         /\ gradeDevice(TRUE, w) = "silent" <=> Flows(w) + w.dropped = 0
<1>1. /\ w.translated \in Nat /\ w.noNATField \in Nat /\ w.sameAsSrc \in Nat /\ w.withPort \in Nat /\ w.dropped \in Nat
      /\ w.withPort <= w.translated
  BY WindowIs
<1>2. PICK t, f, c, p, x, n : /\ t = w.translated /\ f = w.noNATField /\ c = w.sameAsSrc /\ p = w.withPort
                              /\ x = w.dropped /\ n = Flows(w)
  OBVIOUS
<1>3. /\ t \in Nat /\ f \in Nat /\ c \in Nat /\ p \in Nat /\ x \in Nat /\ p <= t
      /\ n \in Nat /\ n = t + f + c
  BY <1>1, <1>2 DEF Flows
<1>4. PICK g : g = gradeDevice(TRUE, w)
  OBVIOUS
<1>5. g = CASE ~TRUE -> "disabled"
            [] TRUE /\ n = 0 /\ x > 0 -> "no_nat_fields"
            [] TRUE /\ n = 0 /\ x = 0 -> "silent"
            [] TRUE /\ n > 0 /\ t = 0 -> IF f >= c THEN "no_nat_fields" ELSE "no_translation"
            [] TRUE /\ t > 0 -> IF p = 0 THEN "no_port" ELSE IF p < t THEN "partial_port" ELSE "ok"
  BY <1>2, <1>4 DEF gradeDevice
<1>6. /\ n = 0 /\ x > 0 => g = "no_nat_fields"
      /\ n = 0 /\ x = 0 => g = "silent"
      /\ n > 0 /\ t = 0 => g \in {"no_nat_fields", "no_translation"}
      /\ t > 0 => g = IF p = 0 THEN "no_port" ELSE IF p < t THEN "partial_port" ELSE "ok"
  BY <1>3, <1>5
<1>7. g \in States /\ (answerable(g) <=> p > 0) /\ (g = "silent" <=> n + x = 0)
  BY <1>3, <1>6 DEF States, answerable
<1>. QED BY <1>2, <1>4, <1>7

LEMMA GradesSound ==
  ASSUME CompTypeOK PROVE GradeSound
<1>. SUFFICES ASSUME NEW d \in active
              PROVE  /\ answerable(Grade(d)) <=> window[d].withPort > 0
                     /\ Grade(d) = "silent" <=> Flows(window[d]) + window[d].dropped = 0
  BY DEF GradeSound
<1>1. window[d] \in Windows \cup {Quiet}
  BY DEF CompTypeOK
<1>2. Grade(d) = gradeDevice(TRUE, window[d])
  BY DEF Grade
<1>. QED BY <1>1, <1>2, GradeIs

LEMMA CompAgesAre == Never \in CompAges /\ 0 \in CompAges /\ \A a \in CompAges : Older(a, CompCap) \in CompAges
<1>1. CompCap \in Nat
  BY ComplianceAssumption DEF CompCap
<1>. QED BY <1>1, OlderIs DEF CompAges

LEMMA CompInitInv == CompInit => CompTypeOK
<1>. SUFFICES ASSUME CompInit PROVE CompTypeOK
  OBVIOUS
<1>1. DOMAIN seen = {}
  BY DEF CompInit
<1>. QED BY <1>1, ComplianceAssumption DEF CompInit, CompTypeOK

LEMMA NotedIs ==
  ASSUME CompTypeOK, NEW d \in active PROVE Noted(d) \in Entries
<1>1. Grade(d) \in States
  <2>1. window[d] \in Windows \cup {Quiet} /\ Grade(d) = gradeDevice(TRUE, window[d])
    BY DEF CompTypeOK, Grade
  <2>. QED BY <2>1, GradeIs
<1>2. CASE d \notin DOMAIN seen
  BY <1>1, <1>2, CompAgesAre DEF Noted, Entries
<1>3. CASE d \in DOMAIN seen
  <2>1. seen[d] \in Entries
    BY <1>3 DEF CompTypeOK, Entries
  <2>2. PICK g : g = Grade(d)
    OBVIOUS
  <2>3. /\ [seen[d] EXCEPT !.state = g, !.lastAlert = Never] \in Entries
        /\ [seen[d] EXCEPT !.state = g, !.lastAlert = 0] \in Entries
        /\ [seen[d] EXCEPT !.state = g] \in Entries
    BY <1>1, <2>1, <2>2, CompAgesAre DEF Entries
  <2>. QED BY <1>3, <2>2, <2>3 DEF Noted
<1>. QED BY <1>2, <1>3

LEMMA CompNextInv ==
  ASSUME CompTypeOK, CompNext PROVE CompTypeOK'
<1>0. /\ active \subseteq Exporters /\ window \in [Exporters -> Windows \cup {Quiet}] /\ DOMAIN seen \subseteq Exporters
      /\ (\A d \in DOMAIN seen : seen[d] \in Entries) /\ faults \in 0..MaxFaults /\ warned \subseteq Exporters
  BY DEF CompTypeOK, Entries
<1>1. ASSUME NEW devs \in SUBSET active, NEW o \in Outcomes, Tick(devs, o), faults' \in 0..MaxFaults PROVE CompTypeOK'
  <2>1. seen' = [d \in devs |-> Noted(d)] /\ UNCHANGED <<active, window>>
    BY <1>1 DEF Tick
  <2>2. DOMAIN seen' = devs /\ \A d \in devs : seen'[d] \in Entries
    BY <2>1, NotedIs
  <2>3. warned' \subseteq Exporters
    BY <1>0, <1>1 DEF Tick, Alerts
  <2>. QED BY <1>0, <1>1, <2>1, <2>2, <2>3 DEF CompTypeOK, Entries
<1>2. ASSUME NEW o \in Outcomes, complianceTick(o) PROVE CompTypeOK'
  BY <1>0, <1>1, <1>2 DEF complianceTick
<1>3. ASSUME complianceTickFailed PROVE CompTypeOK'
  <2>1. faults' \in 0..MaxFaults
    BY <1>0, <1>3, ComplianceAssumption DEF complianceTickFailed
  <2>. QED BY <1>1, <1>3, <2>1 DEF complianceTickFailed
<1>4. ASSUME NEW d \in Exporters, SwitchDevice(d) PROVE CompTypeOK'
  BY <1>4 DEF SwitchDevice, CompTypeOK
<1>5. ASSUME NEW d \in Exporters, NEW w \in Windows \cup {Quiet}, Export(d, w) PROVE CompTypeOK'
  <2>1. window' = [window EXCEPT ![d] = w] /\ warned' \subseteq warned /\ UNCHANGED <<active, seen, faults>>
    BY <1>5 DEF Export
  <2>2. window' \in [Exporters -> Windows \cup {Quiet}]
    BY <1>0, <2>1
  <2>. QED BY <1>0, <2>1, <2>2 DEF CompTypeOK, Entries
<1>6. ASSUME AuditPause PROVE CompTypeOK'
  <2>1. /\ seen' = [d \in DOMAIN seen |->
                [seen[d] EXCEPT !.firstSeen = Older(@, CompCap), !.lastAlert = Older(@, CompCap)]]
        /\ UNCHANGED <<active, window, faults, warned>>
    BY <1>6 DEF AuditPause
  <2>2. ASSUME NEW d \in DOMAIN seen PROVE seen'[d] \in Entries
    <3>1. seen[d] \in Entries
      BY <1>0
    <3>2. Older(seen[d].firstSeen, CompCap) \in CompAges /\ Older(seen[d].lastAlert, CompCap) \in CompAges
      BY <3>1, CompAgesAre DEF Entries
    <3>3. seen'[d] = [seen[d] EXCEPT !.firstSeen = Older(seen[d].firstSeen, CompCap),
                                     !.lastAlert = Older(seen[d].lastAlert, CompCap)]
      BY <2>1
    <3>. QED BY <3>1, <3>2, <3>3 DEF Entries
  <2>3. DOMAIN seen' = DOMAIN seen
    BY <2>1
  <2>. QED BY <1>0, <2>1, <2>2, <2>3 DEF CompTypeOK, Entries
<1>7. ASSUME CompRestart PROVE CompTypeOK'
  <2>1. DOMAIN seen' = {} /\ UNCHANGED <<active, window, faults, warned>>
    BY <1>7 DEF CompRestart
  <2>. QED BY <1>0, <2>1 DEF CompTypeOK
<1>8. ASSUME CompSave PROVE CompTypeOK'
  BY <1>8 DEF CompSave, compVars, CompTypeOK
<1>. QED BY <1>2, <1>3, <1>4, <1>5, <1>6, <1>7, <1>8 DEF CompNext

-----------------------------------------------------------------------------
(* The daily summary.                                                      *)

\* The mail that today's marker, saved or about to be, stands for.
Marked == IF marker = today \/ unsaved = today THEN 1 ELSE 0

\* Beyond that one, today's mails are mishaps; a marker still to be saved is not older
\* than the saved one, so saving it never loses today's.
SumInv ==
  /\ SumTypeOK /\ DailyOnce
  /\ marker <= today /\ unsaved <= today /\ (unsaved # 0 => marker <= unsaved)
  /\ \A d \in 1..Days : d > today => mails[d] = 0
  /\ mails[today] <= mishaps[today] + Marked

LEMMA SumInitInv == SumInit => SumInv
<1>. SUFFICES ASSUME SumInit PROVE SumInv
  OBVIOUS
<1>0. Days \in Nat \ {0} /\ 0 \in 0..MaxMishaps /\ 0 \in 0..Days /\ 1 \in 1..Days
  BY DailySummaryAssumption
<1>1. SumTypeOK /\ today = 1
  BY <1>0 DEF SumInit, SumTypeOK
<1>4. Marked = 0
  BY DEF SumInit, Marked
<1>2. \A d \in 1..Days : mails[d] = 0 /\ mishaps[d] = 0
  BY DEF SumInit
<1>3. marker = 0 /\ unsaved = 0
  BY DEF SumInit
<1>. QED BY <1>0, <1>1, <1>2, <1>3, <1>4 DEF SumInv, DailyOnce

LEMMA MishapIs ==
  ASSUME SumInv, NEW d \in 1..Days, Mishap(d)
  PROVE  /\ mishaps' \in [1..Days -> 0..MaxMishaps] /\ mishaps'[d] = mishaps[d] + 1
         /\ \A x \in 1..Days \ {d} : mishaps'[x] = mishaps[x]
<1>1. mishaps \in [1..Days -> 0..MaxMishaps] /\ mishaps[d] < MaxMishaps /\ mishaps' = [mishaps EXCEPT ![d] = mishaps[d] + 1]
  BY DEF Mishap, SumInv, SumTypeOK
<1>2. mishaps[d] + 1 \in 0..MaxMishaps
  BY <1>1, DailySummaryAssumption
<1>. QED BY <1>1, <1>2

LEMMA SumNextInv ==
  ASSUME SumInv, SumNext PROVE SumInv'
<1>0. /\ today \in 1..Days /\ dueHour \in BOOLEAN /\ marker \in 0..Days /\ unsaved \in 0..Days
      /\ mails \in [1..Days -> Nat] /\ mishaps \in [1..Days -> 0..MaxMishaps] /\ Days \in Nat /\ MaxMishaps \in Nat
  BY DailySummaryAssumption DEF SumInv, SumTypeOK
<1>1. ASSUME NEW readOK \in BOOLEAN, NEW o \in Outcomes, runDailySummary(readOK, o) PROVE SumInv'
  <2>1. /\ unsaved = 0 /\ ~(readOK /\ marker = today) /\ UNCHANGED <<today, dueHour, marker>>
        /\ (mails' = [mails EXCEPT ![today] = @ + 1] \/ mails' = mails)
        /\ unsaved' = IF Failed(o) THEN 0 ELSE today
    BY <1>1 DEF runDailySummary
  <2>2. /\ mails' \in [1..Days -> Nat] /\ mails'[today] <= mails[today] + 1
        /\ \A x \in 1..Days \ {today} : mails'[x] = mails[x]
    <3>1. mails[today] \in Nat
      BY <1>0
    <3>2. CASE mails' = mails
      BY <1>0, <3>1, <3>2
    <3>3. CASE mails' = [mails EXCEPT ![today] = @ + 1]
      BY <1>0, <3>1, <3>3
    <3>. QED BY <2>1, <3>2, <3>3
  <2>3. \/ UNCHANGED mishaps /\ readOK /\ (Failed(o) => mails' = mails)
        \/ Mishap(today)
    BY <1>1 DEF runDailySummary
  <2>4. unsaved' \in {0, today}
    BY <2>1
  <2>5. CASE UNCHANGED mishaps /\ readOK /\ (Failed(o) => mails' = mails)
    <3>1. marker # today /\ mails[today] <= mishaps[today]
      BY <1>0, <2>1, <2>5 DEF SumInv, Marked
    <3>2. mails'[today] <= mishaps[today] + Marked'
      <4>1. CASE Failed(o)
        BY <1>0, <2>1, <2>5, <3>1, <4>1 DEF Marked
      <4>2. CASE ~Failed(o)
        <5>1. Marked' = 1
          BY <2>1, <4>2 DEF Marked
        <5>. QED BY <1>0, <2>2, <3>1, <5>1
      <4>. QED BY <4>1, <4>2
    <3>3. mails'[today] <= 1 + mishaps[today]
      BY <1>0, <2>2, <3>1
    <3>4. \A d \in 1..Days : mails'[d] <= 1 + mishaps[d]
      BY <2>2, <3>3 DEF SumInv, DailyOnce
    <3>. QED BY <1>0, <2>1, <2>2, <2>4, <2>5, <3>2, <3>4 DEF SumInv, SumTypeOK, DailyOnce
  <2>6. CASE Mishap(today)
    <3>1. /\ mishaps' \in [1..Days -> 0..MaxMishaps] /\ mishaps'[today] = mishaps[today] + 1
          /\ \A x \in 1..Days \ {today} : mishaps'[x] = mishaps[x]
      BY <1>0, <2>6, MishapIs
    <3>2. Marked \in {0, 1} /\ Marked' \in {0, 1} /\ Marked <= Marked'
      BY <1>0, <2>1 DEF Marked
    <3>a. PICK k, l, m : k = mails'[today] /\ l = mails[today] /\ m = mishaps[today]
      OBVIOUS
    <3>b. k \in Nat /\ l \in Nat /\ m \in Nat /\ k <= l + 1 /\ l <= m + Marked /\ l <= 1 + m
      BY <1>0, <2>2, <3>a DEF SumInv, DailyOnce
    <3>3. mails'[today] <= mishaps'[today] + Marked'
      BY <3>1, <3>2, <3>a, <3>b
    <3>c. mails'[today] <= 1 + mishaps'[today]
      BY <3>1, <3>a, <3>b
    <3>4. ASSUME NEW d \in 1..Days PROVE mails'[d] <= 1 + mishaps'[d]
      BY <2>2, <3>1, <3>c DEF SumInv, DailyOnce
    <3>5. SumTypeOK'
      <4>1. today' \in 1..Days /\ dueHour' \in BOOLEAN /\ marker' \in 0..Days
        BY <1>0, <2>1
      <4>2. unsaved' \in 0..Days
        BY <1>0, <2>4
      <4>. QED BY <2>2, <3>1, <4>1, <4>2 DEF SumTypeOK
    <3>6. marker' <= today' /\ unsaved' <= today' /\ (unsaved' # 0 => marker' <= unsaved')
      BY <1>0, <2>1, <2>4 DEF SumInv
    <3>7. \A d \in 1..Days : d > today' => mails'[d] = 0
      BY <1>0, <2>1, <2>2 DEF SumInv
    <3>. QED BY <2>1, <3>3, <3>4, <3>5, <3>6, <3>7 DEF SumInv, DailyOnce
  <2>. QED BY <2>3, <2>5, <2>6
<1>2. ASSUME unsaved # 0, unsaved' = 0, Mishap(unsaved), UNCHANGED <<today, dueHour, marker, mails>> PROVE SumInv'
  <2>1. unsaved \in 1..Days
    BY <1>0, <1>2
  <2>2. /\ mishaps' \in [1..Days -> 0..MaxMishaps] /\ mishaps'[unsaved] = mishaps[unsaved] + 1
        /\ \A x \in 1..Days \ {unsaved} : mishaps'[x] = mishaps[x]
    BY <1>2, <2>1, MishapIs
  <2>3. ASSUME NEW x \in 1..Days PROVE mishaps[x] <= mishaps'[x] /\ mishaps[x] \in Nat /\ mishaps'[x] \in Nat
    <3>1. mishaps[x] \in 0..MaxMishaps /\ mishaps'[x] \in 0..MaxMishaps
      BY <1>0, <2>2
    <3>2. mishaps'[x] \in {mishaps[x], mishaps[x] + 1}
      BY <2>2
    <3>. QED BY <1>0, <3>1, <3>2
  <2>4. mails[today] <= mishaps'[today] + Marked'
    <3>1. CASE unsaved = today
      BY <1>0, <1>2, <2>2, <3>1 DEF SumInv, Marked
    <3>2. CASE unsaved # today
      BY <1>0, <1>2, <2>2, <3>2 DEF SumInv, Marked
    <3>. QED BY <3>1, <3>2
  <2>5. ASSUME NEW d \in 1..Days PROVE mails[d] <= 1 + mishaps'[d]
    <3>1. mails[d] \in Nat /\ mails[d] <= 1 + mishaps[d]
      BY <1>0 DEF SumInv, DailyOnce
    <3>2. mishaps[d] <= mishaps'[d] /\ mishaps[d] \in Nat /\ mishaps'[d] \in Nat
      BY <2>3
    <3>. QED BY <3>1, <3>2
  <2>. QED BY <1>0, <1>2, <2>2, <2>4, <2>5 DEF SumInv, SumTypeOK, DailyOnce
<1>3. ASSUME NEW ok \in BOOLEAN, SaveMarker(ok) PROVE SumInv'
  <2>1. CASE ok
    <3>1. unsaved # 0 /\ unsaved' = 0 /\ marker' = unsaved /\ UNCHANGED <<today, dueHour, mails, mishaps>>
      BY <1>3, <2>1 DEF SaveMarker
    <3>2. Marked' = Marked
      BY <1>0, <3>1 DEF Marked, SumInv
    <3>. QED BY <1>0, <3>1, <3>2 DEF SumInv, SumTypeOK, DailyOnce
  <2>2. CASE ~ok
    BY <1>2, <1>3, <2>2 DEF SaveMarker
  <2>. QED BY <2>1, <2>2
<1>4. ASSUME SumRestart PROVE SumInv'
  BY <1>2, <1>4 DEF SumRestart
<1>5. ASSUME Hour PROVE SumInv'
  <2>1. UNCHANGED <<marker, unsaved, mails, mishaps>>
    BY <1>5 DEF Hour
  <2>2. CASE dueHour
    <3>1. today < Days /\ today' = today + 1 /\ dueHour' = FALSE
      BY <1>5, <2>2 DEF Hour
    <3>2. today' \in 1..Days /\ mails[today'] = 0 /\ mishaps[today'] \in Nat /\ Marked' = 0
      BY <1>0, <2>1, <3>1 DEF SumInv, Marked
    <3>3. SumTypeOK'
      BY <1>0, <2>1, <3>1, <3>2 DEF SumTypeOK
    <3>4. marker' <= today' /\ unsaved' <= today' /\ (unsaved' # 0 => marker' <= unsaved')
      BY <1>0, <2>1, <3>1 DEF SumInv
    <3>5. \A d \in 1..Days : d > today' => mails'[d] = 0
      BY <1>0, <2>1, <3>1 DEF SumInv
    <3>6. mails'[today'] <= mishaps'[today'] + Marked'
      BY <2>1, <3>2
    <3>. QED BY <2>1, <3>3, <3>4, <3>5, <3>6 DEF SumInv, DailyOnce
  <2>3. CASE ~dueHour
    <3>1. today' = today /\ dueHour' = TRUE
      BY <1>5, <2>3 DEF Hour
    <3>2. Marked' = Marked
      BY <2>1, <3>1 DEF Marked
    <3>. QED BY <1>0, <2>1, <3>1, <3>2 DEF SumInv, SumTypeOK, DailyOnce
  <2>. QED BY <1>0, <2>2, <2>3
<1>6. ASSUME SumSave PROVE SumInv'
  BY <1>6 DEF SumSave, sumVars, SumInv, SumTypeOK, DailyOnce, Marked
<1>. QED BY <1>1, <1>3, <1>4, <1>5, <1>6 DEF SumNext

-----------------------------------------------------------------------------
(* The per-day figures.                                                    *)

Figures == {f \in [flows : Nat, translated : Nat] : f.translated <= f.flows}
Counts == {<<>>} \cup [DayNos -> Nat]
Passes == [step : {"idle", "counted", "measure"}, counts : Counts, work : SUBSET DayNos]

\* A stored figure counts no more rows than its day has, and as many only if they are
\* the same rows: rows are added and not taken away, unless the day is dropped.
DayInv ==
  /\ live \in [DayNos -> Figures] /\ stored \in [DayNos -> Figures]
  /\ pass \in Passes /\ Cardinality(pass.work) <= DayBudget
  /\ \A d \in DayNos \ droppedDays :
       /\ stored[d].flows <= live[d].flows
       /\ stored[d].flows = live[d].flows => stored[d].translated = live[d].translated

LEMMA DaysFinite == IsFiniteSet(DayNos) /\ \A S \in SUBSET DayNos : IsFiniteSet(S) /\ Cardinality(S) \in Nat
<1>1. IsFiniteSet(DayNos)
  BY IPDRAssumption, FS_Interval DEF DayNos
<1>2. ASSUME NEW S \in SUBSET DayNos PROVE IsFiniteSet(S) /\ Cardinality(S) \in Nat
  BY <1>1, FS_Subset, FS_CardinalityType
<1>. QED BY <1>1, <1>2

\* The newest few of any days are no more than the budget.
LEMMA WorkBounded ==
  ASSUME NEW S \in SUBSET DayNos
  PROVE  NeedingWork(S) \in SUBSET DayNos /\ Cardinality(NeedingWork(S)) <= DayBudget
<1>. DEFINE T == NeedingWork(S)
<1>a. T \subseteq S
  BY DEF NeedingWork
<1>b. DayNos \subseteq Nat
  BY IPDRAssumption DEF DayNos
<1>1. T \in SUBSET DayNos /\ T \in SUBSET S /\ T \in SUBSET Nat
  BY <1>a, <1>b
<1>2. CASE T = {}
  BY <1>2, FS_EmptySet, IPDRAssumption
<1>3. CASE T # {}
  <2>1. PICK m \in T : \A y \in T : ~(<<y, m>> \in OpToRel(<, Nat))
    BY <1>1, <1>3, NatLessThanWellFounded, WFMin
  <2>2. PICK G : G = {e \in S : e > m}
    OBVIOUS
  <2>3. G \in SUBSET DayNos /\ Cardinality(G) < DayBudget
    BY <2>1, <2>2 DEF NeedingWork
  <2>4. T \ {m} \subseteq G
    <3>. SUFFICES ASSUME NEW y \in T, y # m PROVE y \in G
      OBVIOUS
    <3>1. y \in Nat /\ m \in Nat /\ y \in S
      BY <1>1, <2>1
    <3>2. ~(y < m)
      BY <2>1, <3>1 DEF OpToRel
    <3>. QED BY <2>2, <3>1, <3>2
  <2>5. IsFiniteSet(T) /\ IsFiniteSet(G) /\ Cardinality(T) \in Nat /\ Cardinality(G) \in Nat
    BY <1>1, <2>3, DaysFinite
  <2>6. Cardinality(T \ {m}) = Cardinality(T) - 1
    BY <2>1, <2>5, FS_RemoveElement
  <2>7. Cardinality(T \ {m}) <= Cardinality(G)
    BY <2>4, <2>5, FS_Subset
  <2>. QED BY <1>1, <2>3, <2>5, <2>6, <2>7, IPDRAssumption
<1>. QED BY <1>1, <1>2, <1>3

LEMMA PassIdleIs == PassIdle \in Passes /\ Cardinality(PassIdle.work) <= DayBudget
<1>1. PassIdle \in Passes /\ PassIdle.work = {}
  BY DEF PassIdle, Passes, Counts
<1>. QED BY <1>1, FS_EmptySet, IPDRAssumption

LEMMA DayInitInv == DayInit => DayInv
<1>. SUFFICES ASSUME DayInit PROVE DayInv
  OBVIOUS
<1>1. NoFigure \in Figures
  BY DEF NoFigure, Figures
<1>2. live \in [DayNos -> Figures] /\ stored = live /\ pass = PassIdle
  BY <1>1 DEF DayInit
<1>3. \A d \in DayNos : live[d].flows \in Nat
  BY <1>2 DEF Figures
<1>. QED BY <1>2, <1>3, PassIdleIs DEF DayInv

LEMMA PassOnInv ==
  ASSUME DayInv, PassOn PROVE pass' \in Passes /\ Cardinality(pass'.work) <= DayBudget
<1>. DEFINE left == pass.work \ {Newest(pass.work)}
<1>1. pass \in Passes /\ pass.work \in SUBSET DayNos /\ Cardinality(pass.work) <= DayBudget
  BY DEF DayInv, Passes
<1>2. left \in SUBSET DayNos /\ Cardinality(left) <= Cardinality(pass.work)
  BY <1>1, DaysFinite, FS_Subset
<1>3. Cardinality(left) <= DayBudget
  BY <1>1, <1>2, DaysFinite, IPDRAssumption
<1>4. pass' = IF left = {} THEN PassIdle ELSE [pass EXCEPT !.work = left]
  BY DEF PassOn
<1>. HIDE DEF left
<1>5. [pass EXCEPT !.work = left] \in Passes /\ [pass EXCEPT !.work = left].work = left
  BY <1>1, <1>2 DEF Passes
<1>. QED BY <1>3, <1>4, <1>5, PassIdleIs

LEMMA DayNextInv ==
  ASSUME DayInv, DayNext PROVE DayInv'
<1>0. /\ live \in [DayNos -> Figures] /\ stored \in [DayNos -> Figures] /\ pass \in Passes
      /\ Cardinality(pass.work) <= DayBudget
  BY DEF DayInv
<1>1. ASSUME UNCHANGED <<live, stored, droppedDays>>, pass' \in Passes, Cardinality(pass'.work) <= DayBudget PROVE DayInv'
  BY <1>1 DEF DayInv
<1>2. ASSUME dayFlowCounts PROVE DayInv'
  <2>. DEFINE c == [d \in DayNos |-> live[d].flows]
  <2>1. c \in Counts
    BY <1>0 DEF Counts, Figures
  <2>2. pass' = [PassIdle EXCEPT !.step = "counted", !.counts = c] /\ UNCHANGED <<live, stored, droppedDays>>
    BY <1>2 DEF dayFlowCounts
  <2>. HIDE DEF c
  <2>3. pass' \in Passes /\ pass'.work = PassIdle.work
    BY <2>1, <2>2, PassIdleIs DEF Passes, PassIdle
  <2>. QED BY <1>1, <2>2, <2>3, PassIdleIs
<1>3. ASSUME ipdrDaysNeedingWork PROVE DayInv'
  <2>1. PICK W : W = NeedingWork({d \in DayNos : Stale(pass.counts, d)})
    OBVIOUS
  <2>2. pass' = [pass EXCEPT !.step = "measure", !.counts = <<>>, !.work = W] /\ UNCHANGED <<live, stored, droppedDays>>
    BY <1>3, <2>1 DEF ipdrDaysNeedingWork
  <2>3. W \in SUBSET DayNos /\ Cardinality(W) <= DayBudget
    BY <2>1, WorkBounded
  <2>4. pass' \in Passes /\ pass'.work = W
    BY <1>0, <2>2, <2>3 DEF Passes, Counts
  <2>. QED BY <1>1, <2>2, <2>3, <2>4
<1>4. ASSUME NEW d \in DayNos, computeIPDRDay(d) PROVE DayInv'
  <2>1. /\ stored' = IF live[d].flows = 0 THEN stored ELSE [stored EXCEPT ![d] = live[d]]
        /\ UNCHANGED <<live, droppedDays>> /\ PassOn
    BY <1>4 DEF computeIPDRDay
  <2>2. pass' \in Passes /\ Cardinality(pass'.work) <= DayBudget
    BY <2>1, PassOnInv
  <2>3. stored' \in [DayNos -> Figures]
    BY <1>0, <2>1
  <2>4. ASSUME NEW x \in DayNos \ droppedDays
        PROVE  /\ stored'[x].flows <= live[x].flows
               /\ stored'[x].flows = live[x].flows => stored'[x].translated = live[x].translated
    <3>1. stored'[x] = stored[x] \/ stored'[x] = live[x]
      BY <1>0, <2>1
    <3>2. live[x].flows \in Nat
      BY <1>0 DEF Figures
    <3>. QED BY <3>1, <3>2 DEF DayInv
  <2>. QED BY <1>0, <2>1, <2>2, <2>3, <2>4 DEF DayInv
<1>5. ASSUME DayNotMeasured PROVE DayInv'
  BY <1>1, <1>5, PassOnInv DEF DayNotMeasured
<1>6. ASSUME PassEnds PROVE DayInv'
  BY <1>1, <1>6, PassIdleIs DEF PassEnds
<1>7. ASSUME NEW d \in DayNos, DropDay(d) PROVE DayInv'
  <2>1. live' = [live EXCEPT ![d] = NoFigure] /\ droppedDays' = droppedDays \cup {d} /\ UNCHANGED <<stored, pass>>
    BY <1>7 DEF DropDay
  <2>2. NoFigure \in Figures
    BY DEF NoFigure, Figures
  <2>3. live' \in [DayNos -> Figures] /\ \A x \in DayNos \ droppedDays' : live'[x] = live[x] /\ x \notin droppedDays
    BY <1>0, <2>1, <2>2
  <2>. QED BY <1>0, <2>1, <2>3 DEF DayInv
<1>8. ASSUME NEW d \in DayNos, NEW tr \in BOOLEAN, ArriveFlow(d, tr) PROVE DayInv'
  <2>. DEFINE f == [flows |-> live[d].flows + 1, translated |-> IF tr THEN live[d].translated + 1 ELSE live[d].translated]
  <2>1. live[d] \in Figures /\ live[d].flows \in Nat /\ live[d].translated \in Nat /\ live[d].translated <= live[d].flows
    BY <1>0 DEF Figures
  <2>2. f \in Figures /\ f.flows = live[d].flows + 1
    BY <2>1 DEF Figures
  <2>4. live' = [live EXCEPT ![d] = f] /\ UNCHANGED <<stored, pass, droppedDays>>
    BY <1>8 DEF ArriveFlow
  <2>. HIDE DEF f
  <2>5. live' \in [DayNos -> Figures] /\ live'[d] = f /\ \A x \in DayNos \ {d} : live'[x] = live[x]
    BY <1>0, <2>2, <2>4
  <2>6. ASSUME NEW x \in DayNos \ droppedDays
        PROVE  /\ stored[x].flows <= live'[x].flows
               /\ stored[x].flows = live'[x].flows => stored[x].translated = live'[x].translated
    <3>1. CASE x = d
      <4>1. stored[d].flows \in Nat /\ stored[d].flows <= live[d].flows
        BY <1>0, <2>6, <3>1 DEF DayInv, Figures
      <4>. QED BY <2>1, <2>2, <2>5, <3>1, <4>1
    <3>2. CASE x # d
      BY <2>5, <3>2 DEF DayInv
    <3>. QED BY <3>1, <3>2
  <2>. QED BY <1>0, <2>4, <2>5, <2>6 DEF DayInv
<1>. QED BY <1>2, <1>3, <1>4, <1>5, <1>6, <1>7, <1>8 DEF DayNext, Measure

LEMMA DaysAreRight ==
  ASSUME DayInv PROVE DayTypeOK /\ NoneTranslated
<1>1. DayTypeOK
  BY DEF DayInv, DayTypeOK, Figures, Passes
<1>2. NoneTranslated
  BY DEF DayInv, NoneTranslated, unanswerableDays, TranslatedKnown
<1>. QED BY <1>1, <1>2

-----------------------------------------------------------------------------
(* The RADIUS cache.                                                       *)

RadInv == RadTypeOK /\ begun \in 0..MaxSessions

LEMMA NoSessionIs == NoSession \in [session : 0..MaxSessions, age : 0..(SessionTTL + 1)]
BY RadiusAssumption DEF NoSession

LEMMA RadInitInv == RadInit => RadInv
BY NoSessionIs, RadiusAssumption DEF RadInit, RadInv, RadTypeOK

LEMMA RadNextInv ==
  ASSUME RadInv, RadNext PROVE RadInv'
<1>0. /\ holder \in 0..MaxSessions /\ begun \in 0..MaxSessions /\ MaxSessions \in Nat /\ SessionTTL \in Nat
      /\ byIP \in [session : 0..MaxSessions, age : 0..(SessionTTL + 1)]
      /\ wire \subseteq [type : {"start", "interim", "stop"}, session : 1..MaxSessions]
  BY RadiusAssumption DEF RadInv, RadTypeOK
<1>1. ASSUME NEW t \in {"start", "interim", "stop"}, NEW s \in 1..MaxSessions, Send(t, s)
      PROVE  wire' \subseteq [type : {"start", "interim", "stop"}, session : 1..MaxSessions]
  BY <1>0, <1>1 DEF Send
<1>2. ASSUME BeginSession PROVE RadInv'
  <2>1. begun + 1 \in 1..MaxSessions
    BY <1>0, <1>2 DEF BeginSession
  <2>2. wire' \subseteq [type : {"start", "interim", "stop"}, session : 1..MaxSessions]
    BY <1>1, <1>2, <2>1 DEF BeginSession
  <2>. QED BY <1>0, <1>2, <2>1, <2>2 DEF BeginSession, RadInv, RadTypeOK
<1>3. ASSUME InterimUpdate PROVE RadInv'
  <2>1. holder \in 1..MaxSessions
    BY <1>0, <1>3 DEF InterimUpdate
  <2>2. wire' \subseteq [type : {"start", "interim", "stop"}, session : 1..MaxSessions]
    BY <1>1, <1>3, <2>1 DEF InterimUpdate
  <2>. QED BY <1>0, <1>3, <2>2 DEF InterimUpdate, RadInv, RadTypeOK
<1>4. ASSUME EndSession PROVE RadInv'
  <2>1. holder \in 1..MaxSessions
    BY <1>0, <1>4 DEF EndSession
  <2>2. wire' \subseteq [type : {"start", "interim", "stop"}, session : 1..MaxSessions]
    BY <1>1, <1>4, <2>1 DEF EndSession
  <2>. QED BY <1>0, <1>4, <2>2 DEF EndSession, RadInv, RadTypeOK
<1>5. ASSUME LookupExpired PROVE RadInv'
  BY <1>5 DEF LookupExpired, RadInv, RadTypeOK
<1>6. ASSUME LookupDelete PROVE RadInv'
  BY <1>6, NoSessionIs DEF LookupDelete, RadInv, RadTypeOK
<1>7. ASSUME RadHour PROVE RadInv'
  <2>1. byIP.age \in 0..(SessionTTL + 1) /\ byIP.age <= SessionTTL
    BY <1>0, <1>7 DEF RadHour
  <2>2. byIP.age + 1 \in 0..(SessionTTL + 1)
    BY <1>0, <2>1
  <2>. QED BY <1>0, <1>7, <2>2 DEF RadHour, RadInv, RadTypeOK
<1>8. ASSUME NEW p \in wire, Lose(p) PROVE RadInv'
  BY <1>8 DEF Lose, RadInv, RadTypeOK
<1>9. ASSUME NEW p \in wire, NEW again \in BOOLEAN, handle(p, again) PROVE RadInv'
  <2>1. apply(p) /\ wire' \subseteq wire /\ UNCHANGED <<holder, begun>>
    BY <1>9 DEF handle
  <2>2. p.session \in 1..MaxSessions
    BY <1>0
  <2>3. [session |-> p.session, age |-> 0] \in [session : 0..MaxSessions, age : 0..(SessionTTL + 1)]
    BY <1>0, <2>2
  <2>4. byIP' \in [session : 0..MaxSessions, age : 0..(SessionTTL + 1)]
    BY <1>0, <2>1, <2>3, NoSessionIs DEF apply
  <2>. QED BY <1>0, <2>1, <2>4 DEF RadInv, RadTypeOK
<1>. QED BY <1>2, <1>3, <1>4, <1>5, <1>6, <1>7, <1>8, <1>9 DEF RadNext

-----------------------------------------------------------------------------
(* Side by side.                                                           *)

MonInv ==
  /\ DevInv /\ IngTypeOK /\ CompTypeOK /\ SumInv /\ DayInv /\ RadInv
  /\ alerting \in BOOLEAN

LEMMA MonInit == Init => MonInv
BY DevInitInv, IngInitInv, CompInitInv, SumInitInv, DayInitInv, RadInitInv DEF Init, MonInv

\* A part that rests keeps its invariant.
LEMMA Rests ==
  /\ DevInv /\ UNCHANGED devVars => DevInv'
  /\ IngTypeOK /\ UNCHANGED ingVars => IngTypeOK'
  /\ CompTypeOK /\ UNCHANGED compVars => CompTypeOK'
  /\ SumInv /\ UNCHANGED sumVars => SumInv'
  /\ DayInv /\ UNCHANGED dayVars => DayInv'
  /\ RadInv /\ UNCHANGED radVars => RadInv'
<1>1. DevInv /\ UNCHANGED devVars => DevInv'
  BY DEF devVars, DevInv, DevTypeOK
<1>2. IngTypeOK /\ UNCHANGED ingVars => IngTypeOK'
  BY DEF ingVars, IngTypeOK
<1>3. CompTypeOK /\ UNCHANGED compVars => CompTypeOK'
  BY DEF compVars, CompTypeOK
<1>4. SumInv /\ UNCHANGED sumVars => SumInv'
  BY DEF sumVars, SumInv, SumTypeOK, DailyOnce, Marked
<1>5. DayInv /\ UNCHANGED dayVars => DayInv'
  BY DEF dayVars, DayInv
<1>6. RadInv /\ UNCHANGED radVars => RadInv'
  BY DEF radVars, RadInv, RadTypeOK
<1>. QED BY <1>1, <1>2, <1>3, <1>4, <1>5, <1>6

\* Only a saved setting changes alerting.
LEMMA AlertingIs ==
  ASSUME alerting \in BOOLEAN, alerting' = alerting \/ SaveNotifications PROVE alerting' \in BOOLEAN
BY DEF SaveNotifications

LEMMA MonNext ==
  ASSUME MonInv, [Next]_monVars PROVE MonInv'
<1>0. DevInv /\ IngTypeOK /\ CompTypeOK /\ SumInv /\ DayInv /\ RadInv /\ alerting \in BOOLEAN
  BY DEF MonInv
<1>1. ASSUME Dev, DevNext PROVE MonInv'
  <2>1. DevInv'
    BY <1>0, <1>1, DevNextInv
  <2>2. alerting' = alerting \/ SaveNotifications
    BY <1>1 DEF DevNext, runHealthCheck, sendDeviceAlert, StoreFlow, DropFlow, EditDevice, DevMinute, DevRestart,
                DevSave, Restarted, notifyVars
  <2>. QED BY <1>0, <1>1, <2>1, <2>2, Rests, AlertingIs DEF Dev, MonInv
<1>2. ASSUME Ing, IngTypeOK', alerting' = alerting \/ SaveNotifications PROVE MonInv'
  BY <1>0, <1>2, Rests, AlertingIs DEF Ing, MonInv
<1>3. ASSUME DB, DBNext PROVE MonInv'
  <2>1. db' \in DBs /\ flows' \in FlowStates /\ parts' \in PartStates
    BY <1>0, <1>3, DBNextInv, IngTypes DEF DB
  <2>2. IngTypeOK'
    BY <2>1 DEF IngTypeOK, DBs, FlowStates, PartStates, IngAges
  <2>. QED BY <1>2, <1>3, <2>2 DEF DB, notifyVars
<1>4. ASSUME Inserts, FlowsNext PROVE MonInv'
  <2>1. db' \in DBs /\ flows' \in FlowStates /\ parts' \in PartStates
    BY <1>0, <1>4, FlowsNextInv, IngTypes DEF Inserts
  <2>2. IngTypeOK'
    BY <2>1 DEF IngTypeOK, DBs, FlowStates, PartStates, IngAges
  <2>. QED BY <1>2, <1>4, <2>2 DEF Inserts, notifyVars
<1>5. ASSUME Parts, PartsNext PROVE MonInv'
  <2>1. db' \in DBs /\ flows' \in FlowStates /\ parts' \in PartStates
    BY <1>0, <1>5, PartsNextInv, IngTypes DEF Parts
  <2>2. IngTypeOK'
    BY <2>1 DEF IngTypeOK, DBs, FlowStates, PartStates, IngAges
  <2>. QED BY <1>2, <1>5, <2>2 DEF Parts, notifyVars
<1>6. ASSUME Ing, IngRestart \/ IngSave PROVE MonInv'
  <2>1. IngTypeOK'
    BY <1>0, <1>6, IngRestartInv, Rests DEF IngSave
  <2>. QED BY <1>2, <1>6, <2>1 DEF IngRestart, IngSave, Restarted
<1>7. ASSUME Comp, CompNext PROVE MonInv'
  <2>1. CompTypeOK'
    BY <1>0, <1>7, CompNextInv
  <2>2. alerting' = alerting \/ SaveNotifications
    BY <1>7 DEF CompNext, complianceTick, complianceTickFailed, Tick, SwitchDevice, Export, AuditPause, CompRestart,
                CompSave, Restarted, notifyVars
  <2>. QED BY <1>0, <1>7, <2>1, <2>2, Rests, AlertingIs DEF Comp, MonInv
<1>8. ASSUME Sum, SumNext PROVE MonInv'
  <2>1. SumInv'
    BY <1>0, <1>8, SumNextInv
  <2>2. alerting' = alerting \/ SaveNotifications
    BY <1>8 DEF SumNext, runDailySummary, SaveMarker, SumRestart, Hour, SumSave, Restarted, notifyVars
  <2>. QED BY <1>0, <1>8, <2>1, <2>2, Rests, AlertingIs DEF Sum, MonInv
<1>9. ASSUME Day, DayNext PROVE MonInv'
  BY <1>0, <1>9, DayNextInv, Rests, AlertingIs DEF Day, MonInv, notifyVars
<1>10. ASSUME Rad, RadNext PROVE MonInv'
  BY <1>0, <1>10, RadNextInv, Rests, AlertingIs DEF Rad, MonInv, notifyVars
<1>11. CASE UNCHANGED monVars
  BY <1>0, <1>11, Rests, AlertingIs DEF monVars, notifyVars, MonInv
<1>. QED BY <1>1, <1>3, <1>4, <1>5, <1>6, <1>7, <1>8, <1>9, <1>10, <1>11 DEF Next

LEMMA MonAlways == Spec => []MonInv
BY MonInit, MonNext, PTL DEF Spec

\* Whatever is stored, lost, delivered or restarted: a device is graded answerable
\* exactly when some translation of it has its port (compliance.go, gradeDevice), and
\* every daily mail beyond the first has a failure of its own (monitor.go,
\* runDailySummary); no day with a translated row is called unanswerable, whatever
\* arrives between count, scan and audit (compliance.go, unanswerableDays).
THEOREM MonitorsStaySound == Spec => []MonitorsSound
<1>1. MonInv => MonitorsSound
  <2>. SUFFICES ASSUME MonInv PROVE MonitorsSound
    OBVIOUS
  <2>1. TypeOK
    BY DaysAreRight DEF MonInv, TypeOK, DevInv, SumInv, RadInv
  <2>2. GradeSound /\ DailyOnce
    BY GradesSound DEF MonInv, SumInv
  <2>3. NoneTranslated
    BY DaysAreRight DEF MonInv
  <2>. QED BY <2>1, <2>2, <2>3 DEF MonitorsSound
<1>. QED BY <1>1, MonAlways, PTL

\* A check takes a device with stored flows, and no newer dropped ones, for silent
\* exactly when the console's badge says so (monitor.go, evalTransitions and
\* deviceHealthMap): the safety half of DeviceReported.
THEOREM BadgesAgree == Spec => BadgeAgrees
<1>1. MonInv => [runHealthCheck =>
       \A d \in enabled : LastSeen(d) # Never /\ ~After(signalAt[d], LastSeen(d)) =>
          ((Badge(d) = "silent") <=> (health'[d].status = "silent"))]_<<devVars, notifyVars>>
  BY CheckAgrees DEF MonInv
<1>. QED BY <1>1, MonAlways, PTL DEF BadgeAgrees
=============================================================================
