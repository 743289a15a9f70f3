--------------------------- MODULE DeviceMonitor ----------------------------
(* Device-liveness alerting, internal/director/monitor.go: the check that runs  *)
(* every minute, its per-device state, the mails it sends outside the lock and  *)
(* the badge the console shows.                                                 *)
EXTENDS Notify

CONSTANTS
  Devices,      \* exporters, one key of (isp, exporter address) each
  Silence,      \* SilenceMins, in ticks
  Lookback,     \* healthLookbackDays, in ticks
  DeviceRemind  \* RemindHours, in ticks; 0 means no reminders

ASSUME DeviceMonitorAssumption ==
  /\ Silence \in Nat \ {0} /\ Lookback \in Nat /\ Silence < Lookback
  /\ DeviceRemind \in Nat

VARIABLES
  enabled,   \* the devices that are registered and enabled
  flowAt,    \* age of the newest stored flow of a device
  signalAt,  \* age of the newest flow that was dropped for lack of a translation
  health,    \* s.health: state per device, of the devices it has an entry for
  outbox,    \* the alerts of the running check that are still to be sent
  told       \* what the operator knows about the present state of a device

devVars == <<enabled, flowAt, signalAt, health, outbox, told>>

AgeCap == IF Lookback + 1 > DeviceRemind THEN Lookback + 1 ELSE DeviceRemind
DevAges == 0..AgeCap \cup {Never}

\* devHealthState
HealthState == [lastFlow : DevAges, status : {"init", "healthy", "silent"}, lastAlertAt : DevAges]
NewState == [lastFlow |-> Never, status |-> "init", lastAlertAt |-> Never]

DevTypeOK ==
  /\ enabled \subseteq Devices
  /\ flowAt \in [Devices -> DevAges] /\ signalAt \in [Devices -> DevAges]
  /\ DOMAIN health \subseteq Devices /\ \A d \in DOMAIN health : health[d] \in HealthState
  /\ outbox \subseteq [d : Devices, recovered : BOOLEAN]
  /\ told \in [Devices -> {"nothing", "down", "recovered"}]

DevInit ==
  /\ enabled = Devices
  /\ flowAt = [d \in Devices |-> Never] /\ signalAt = [d \in Devices |-> Never]
  /\ health = <<>> /\ outbox = {}
  /\ told = [d \in Devices |-> "nothing"]

-----------------------------------------------------------------------------
(* The check.                                                                *)

\* LastSeenByExporter: stored flows of the look-back window only.
LastSeen(d) == IF flowAt[d] # Never /\ flowAt[d] <= Lookback THEN flowAt[d] ELSE Never

\* now.Sub(t) > silence, of a time that is not zero
Silent(age) == age # Never /\ age > Silence

\* evalTransitions for one live device: the new state, and the alert if one is due.
Ratchet(st, d) ==
  IF After(LastSeen(d), st.lastFlow) THEN [st EXCEPT !.lastFlow = LastSeen(d)] ELSE st

\* Mutant: an outage is announced once, without reminders.
DueOnce(st) == st.status # "silent"

Due(st) ==
  \/ st.status # "silent"
  \/ DeviceRemind > 0 /\ st.lastAlertAt >= DeviceRemind
Transition(d) ==
  LET st == Ratchet(IF d \in DOMAIN health THEN health[d] ELSE NewState, d)
      quiet(s) == [st |-> s, alert |-> {}]
      alarm(s, rec) == [st |-> s, alert |-> {[d |-> d, recovered |-> rec]}]
  IN  CASE st.lastFlow = Never -> quiet(st)
        [] Silent(st.lastFlow) /\ Due(st) ->
             alarm([st EXCEPT !.status = "silent", !.lastAlertAt = 0], FALSE)
        [] Silent(st.lastFlow) /\ ~Due(st) -> quiet(st)
        [] st.lastFlow # Never /\ ~Silent(st.lastFlow) /\ st.status = "silent" ->
             alarm([st EXCEPT !.status = "healthy"], TRUE)
        [] OTHER -> quiet([st EXCEPT !.status = "healthy"])

\* runHealthCheck up to its sends: state of devices that are gone is forgotten.
\* A failed query returns before anything changes, and so does a check while
\* alerting is off.
runHealthCheck ==
  /\ alerting /\ outbox = {}
  /\ health' = [d \in enabled |-> Transition(d).st]
  /\ outbox' = UNION {Transition(d).alert : d \in enabled}
  /\ UNCHANGED <<enabled, flowAt, signalAt, told, notifyVars>>

\* sendDeviceAlert: the state advanced already, whatever becomes of the mail.
sendDeviceAlert(p, o) ==
  /\ p \in outbox
  /\ outbox' = outbox \ {p}
  /\ told' = IF alerting /\ Delivered(o)
             THEN [told EXCEPT ![p.d] = IF p.recovered THEN "recovered" ELSE "down"]
             ELSE told
  /\ UNCHANGED <<enabled, flowAt, signalAt, health, notifyVars>>

\* deviceHealthMap: what the console shows for a device.
Badge(d) ==
  LET ls == IF After(signalAt[d], LastSeen(d)) THEN signalAt[d] ELSE LastSeen(d)
  IN  IF ls = Never THEN "nodata" ELSE IF Silent(ls) THEN "silent" ELSE "online"

-----------------------------------------------------------------------------
(* The world around it.                                                      *)

\* A flow of d is stored; a new flow ends the outage the operator knew about.
StoreFlow(d) ==
  /\ flowAt' = [flowAt EXCEPT ![d] = 0]
  /\ told' = [told EXCEPT ![d] = "nothing"]
  /\ UNCHANGED <<enabled, signalAt, health, outbox, notifyVars>>

\* A flow of d without a translation is dropped before storage.
DropFlow(d) ==
  /\ signalAt' = [signalAt EXCEPT ![d] = 0]
  /\ UNCHANGED <<enabled, flowAt, health, outbox, told, notifyVars>>

\* The director enables, disables, registers or deletes a device.
EditDevice(d) ==
  /\ enabled' = IF d \in enabled THEN enabled \ {d} ELSE enabled \cup {d}
  /\ UNCHANGED <<flowAt, signalAt, health, outbox, told, notifyVars>>

DevMinute ==
  /\ flowAt' = [d \in Devices |-> Older(flowAt[d], AgeCap)]
  /\ signalAt' = [d \in Devices |-> Older(signalAt[d], AgeCap)]
  /\ health' = [d \in DOMAIN health |->
                  [health[d] EXCEPT !.lastFlow = Older(@, AgeCap), !.lastAlertAt = Older(@, AgeCap)]]
  /\ UNCHANGED <<enabled, outbox, told, notifyVars>>

\* The process restarts: the state map and the unsent alerts are gone.
DevRestart ==
  /\ Restarted
  /\ health' = <<>> /\ outbox' = {}
  /\ UNCHANGED <<enabled, flowAt, signalAt, told>>

DevSave == SaveNotifications /\ UNCHANGED devVars

DevNext ==
  \/ runHealthCheck
  \/ \E p \in outbox, o \in Outcomes : sendDeviceAlert(p, o)
  \/ \E d \in Devices : StoreFlow(d) \/ DropFlow(d) \/ EditDevice(d)
  \/ DevMinute \/ DevRestart \/ DevSave

SendAny == \E p \in outbox, o \in Outcomes : sendDeviceAlert(p, o)
SendDelivers(d) ==
  alerting /\ \E p \in outbox, o \in Outcomes : p.d = d /\ Delivered(o) /\ sendDeviceAlert(p, o)

-----------------------------------------------------------------------------
\* A device that has stopped sending, and that the monitor has ever seen, is in
\* the end reported down: the alert state advances before the mail goes out
\* (monitor.go:247-252), so a lost mail is made up for by the reminder only.
InTrouble(d) ==
  alerting /\ d \in enabled /\ d \in DOMAIN health /\ Silent(health[d].lastFlow) /\ Silent(flowAt[d])
DevicePaged ==
  DeviceRemind > 0 => \A d \in Devices : InTrouble(d) ~> (told[d] = "down" \/ ~InTrouble(d))

\* "the badge and the emails agree" (monitor.go:59-60): at the moment of a check,
\* a device with stored flows and no newer dropped ones has been taken for silent
\* exactly when its badge says so.
BadgeAgrees ==
  [][runHealthCheck =>
       \A d \in enabled : LastSeen(d) # Never /\ ~After(signalAt[d], LastSeen(d)) =>
          ((Badge(d) = "silent") <=> (health'[d].status = "silent"))]_<<devVars, notifyVars>>

\* Mails and badge tell the operator of a silent device.
DeviceReported == DevicePaged /\ BadgeAgrees
=============================================================================
