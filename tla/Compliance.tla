----------------------------- MODULE Compliance -----------------------------
(* The IPDR compliance audit and its monitor, internal/director/compliance.go:  *)
(* how a device is graded from a day's counters, and when a device that cannot  *)
(* answer a lawful request is reported.                                         *)
EXTENDS Notify

CONSTANTS
  Exporters,    \* registered devices
  Windows,      \* what the exporters log in an audit window
  Grace,        \* complianceGrace, in audit ticks
  AuditRemind,  \* remindInterval, in audit ticks
  MaxFaults     \* bound: audits whose device list or statistics query fails

\* TranslationStats, and the drop counter of the device: every stored flow is a
\* translation, has no post-NAT address, or has its source as that address.
TranslationStats ==
  {w \in [translated : Nat, noNATField : Nat, sameAsSrc : Nat, withPort : Nat, dropped : Nat] :
     w.withPort <= w.translated}
Quiet == [translated |-> 0, noNATField |-> 0, sameAsSrc |-> 0, withPort |-> 0, dropped |-> 0]

ASSUME ComplianceAssumption ==
  /\ Grace \in Nat /\ AuditRemind \in Nat \ {0} /\ MaxFaults \in Nat
  /\ \A w \in Windows : w \in TranslationStats

VARIABLES
  active,   \* the devices that are enabled
  window,   \* DeviceFlowStats and DeviceSignal of each device
  seen,     \* the monitor's memory between ticks, of the devices it remembers
  faults,   \* failed audits so far
  warned    \* the devices whose present trouble the operator has been told of

compVars == <<active, window, seen, faults, warned>>

Flows(w) == w.translated + w.noNATField + w.sameAsSrc

\* gradeDevice
gradeDevice(on, w) ==
  CASE ~on -> "disabled"
    [] on /\ Flows(w) = 0 /\ w.dropped > 0 -> "no_nat_fields"
    [] on /\ Flows(w) = 0 /\ w.dropped = 0 -> "silent"
    [] on /\ Flows(w) > 0 /\ w.translated = 0 ->
         IF w.noNATField >= w.sameAsSrc THEN "no_nat_fields" ELSE "no_translation"
    [] on /\ w.translated > 0 ->
         IF w.withPort = 0 THEN "no_port"
         ELSE IF w.withPort < w.translated THEN "partial_port" ELSE "ok"
answerable(s) == s \in {"ok", "partial_port"}

States == {"ok", "no_port", "partial_port", "no_nat_fields", "no_translation", "silent"}
CompCap == IF Grace > AuditRemind THEN Grace ELSE AuditRemind
CompAges == 0..CompCap \cup {Never}

CompTypeOK ==
  /\ active \subseteq Exporters /\ window \in [Exporters -> Windows \cup {Quiet}]
  /\ DOMAIN seen \subseteq Exporters
  /\ \A d \in DOMAIN seen : seen[d] \in [state : States, firstSeen : CompAges, lastAlert : CompAges]
  /\ faults \in 0..MaxFaults /\ warned \subseteq Exporters

CompInit ==
  /\ active = Exporters /\ window = [d \in Exporters |-> Quiet]
  /\ seen = <<>> /\ faults = 0 /\ warned = {}

-----------------------------------------------------------------------------
(* complianceTick                                                            *)

Grade(d) == gradeDevice(d \in active, window[d])

\* Mutant: no reminder follows the first alert.
AlertDueOnce(d) ==
  seen[d].state # Grade(d) \/ (seen[d].lastAlert = Never /\ seen[d].firstSeen >= Grace)

\* A state change, the end of the grace period, or the reminder interval.
AlertDue(d) ==
  LET st == seen[d] IN
  \/ st.state # Grade(d)
  \/ IF st.lastAlert = Never THEN st.firstSeen >= Grace ELSE st.lastAlert >= AuditRemind
Alerts(devs) == {d \in devs \cap DOMAIN seen : ~answerable(Grade(d)) /\ AlertDue(d)}

\* The entry of a device after the tick: one met for the first time is only noted.
Noted(d) ==
  IF d \notin DOMAIN seen THEN [state |-> Grade(d), firstSeen |-> 0, lastAlert |-> Never]
  ELSE IF answerable(Grade(d)) THEN [seen[d] EXCEPT !.state = Grade(d), !.lastAlert = Never]
  ELSE IF AlertDue(d) THEN [seen[d] EXCEPT !.state = Grade(d), !.lastAlert = 0]
  ELSE [seen[d] EXCEPT !.state = Grade(d)]

\* One tick over the devices of the report: what the report does not list is
\* forgotten, and all alerts go out in one mail whose loss changes nothing.
Tick(devs, o) ==
  /\ seen' = [d \in devs |-> Noted(d)]
  /\ warned' = IF alerting /\ Delivered(o) THEN warned \cup Alerts(devs) ELSE warned
  /\ UNCHANGED <<active, window, notifyVars>>

complianceTick(o) == Tick(active, o) /\ UNCHANGED faults

\* computeComplianceAudit when ListDevices or TranslationStats fails: the report
\* is available and lists no device.
complianceTickFailed ==
  /\ faults < MaxFaults
  /\ faults' = faults + 1
  /\ \E o \in Outcomes : Tick({}, o)

-----------------------------------------------------------------------------
(* The world around it.                                                      *)

\* The device exports something else; answerable records end its trouble.
Export(d, w) ==
  /\ window' = [window EXCEPT ![d] = w]
  /\ warned' = IF answerable(gradeDevice(TRUE, w)) THEN warned \ {d} ELSE warned
  /\ UNCHANGED <<active, seen, faults, notifyVars>>

SwitchDevice(d) ==
  /\ active' = IF d \in active THEN active \ {d} ELSE active \cup {d}
  /\ UNCHANGED <<window, seen, faults, warned, notifyVars>>

AuditPause ==
  /\ seen' = [d \in DOMAIN seen |->
                [seen[d] EXCEPT !.firstSeen = Older(@, CompCap), !.lastAlert = Older(@, CompCap)]]
  /\ UNCHANGED <<active, window, faults, warned, notifyVars>>

\* The monitor's memory is the goroutine's own.
CompRestart ==
  /\ Restarted
  /\ seen' = <<>>
  /\ UNCHANGED <<active, window, faults, warned>>

CompSave == SaveNotifications /\ UNCHANGED compVars

CompNext ==
  \/ \E o \in Outcomes : complianceTick(o)
  \/ complianceTickFailed
  \/ \E d \in Exporters : SwitchDevice(d) \/ \E w \in Windows \cup {Quiet} : Export(d, w)
  \/ AuditPause \/ CompRestart \/ CompSave

TickDelivers(d) ==
  d \in Alerts(active) /\ alerting /\ \E o \in Outcomes : Delivered(o) /\ complianceTick(o)

-----------------------------------------------------------------------------
\* "grades every device on whether the records it is producing can actually
\* answer a lawful request" (compliance.go:13-14): exactly the devices that logged
\* some translation with its port, and silence is told from traffic without NAT.
GradeSound ==
  \A d \in active :
    /\ answerable(Grade(d)) <=> window[d].withPort > 0
    /\ Grade(d) = "silent" <=> Flows(window[d]) + window[d].dropped = 0

\* A device that stays unable to answer is reported in the end, through lost
\* mails, the grace period, reminders, restarts and failed audits, both of which
\* begin the grace period again.
Failing(d) == watched = "compliance" /\ alerting /\ d \in active /\ ~answerable(Grade(d))
CompliancePaged == \A d \in Exporters : Failing(d) ~> (d \in warned \/ ~Failing(d))
=============================================================================
