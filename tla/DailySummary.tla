---------------------------- MODULE DailySummary ----------------------------
(* The daily summary mail, runDailySummary of internal/director/monitor.go.     *)
EXTENDS Notify

CONSTANTS
  Days,        \* bound: days observed
  MaxMishaps   \* bound: failures of one day that may each repeat its mail

ASSUME DailySummaryAssumption == Days \in Nat \ {0} /\ MaxMishaps \in Nat

VARIABLES
  today,     \* the day the summary is about is the day before, numbered alike
  dueHour,   \* the clock shows DailyHourIST
  marker,    \* the setting daily_summary_last; 0 when there is none
  unsaved,   \* the day whose mail was accepted while its marker is not saved yet; 0 if none
  mails,     \* mails that reached someone, per day
  mishaps    \* failed reads and writes of the marker, mails delivered with an error, and
             \* restarts between mail and marker, per day

sumVars == <<today, dueHour, marker, unsaved, mails, mishaps>>

SumTypeOK ==
  /\ today \in 1..Days /\ dueHour \in BOOLEAN /\ marker \in 0..Days
  /\ unsaved \in 0..Days /\ mails \in [1..Days -> Nat] /\ mishaps \in [1..Days -> 0..MaxMishaps]

SumInit ==
  /\ today = 1 /\ dueHour = FALSE /\ marker = 0 /\ unsaved = 0
  /\ mails = [d \in 1..Days |-> 0] /\ mishaps = [d \in 1..Days |-> 0]

Mishap(d) == mishaps[d] < MaxMishaps /\ mishaps' = [mishaps EXCEPT ![d] = @ + 1]

\* Mutant: the marker is not looked at.
runDailySummaryAgain(readOK, o) ==
  /\ alerting /\ dueHour /\ unsaved = 0
  /\ mails' = IF Delivered(o) THEN [mails EXCEPT ![today] = @ + 1] ELSE mails
  /\ unsaved' = IF Failed(o) THEN 0 ELSE today
  /\ IF readOK /\ ~(Failed(o) /\ Delivered(o)) THEN UNCHANGED mishaps ELSE Mishap(today)
  /\ UNCHANGED <<today, dueHour, marker, notifyVars>>

\* runDailySummary up to the notifier's answer.  A marker that cannot be read does
\* not stop the mail, a failed query or a refused mail is tried again by the next tick.
runDailySummary(readOK, o) ==
  /\ alerting /\ dueHour /\ unsaved = 0
  /\ ~(readOK /\ marker = today)
  /\ mails' = IF Delivered(o) THEN [mails EXCEPT ![today] = @ + 1] ELSE mails
  /\ unsaved' = IF Failed(o) THEN 0 ELSE today
  /\ IF readOK /\ ~(Failed(o) /\ Delivered(o)) THEN UNCHANGED mishaps ELSE Mishap(today)
  /\ UNCHANGED <<today, dueHour, marker, notifyVars>>

\* PutSetting of the marker
SaveMarker(ok) ==
  /\ unsaved # 0 /\ unsaved' = 0
  /\ IF ok THEN marker' = unsaved /\ UNCHANGED mishaps ELSE Mishap(unsaved) /\ UNCHANGED marker
  /\ UNCHANGED <<today, dueHour, mails, notifyVars>>

\* The process dies and comes back; only between mail and marker does it matter.
SumRestart ==
  /\ Restarted
  /\ unsaved # 0 /\ unsaved' = 0 /\ Mishap(unsaved)
  /\ UNCHANGED <<today, dueHour, marker, mails>>

\* The hour strikes, passes, and the next day comes.
Hour ==
  /\ IF dueHour THEN today < Days /\ today' = today + 1 /\ dueHour' = FALSE
     ELSE dueHour' = TRUE /\ UNCHANGED today
  /\ UNCHANGED <<marker, unsaved, mails, mishaps, notifyVars>>

SumSave == SaveNotifications /\ UNCHANGED sumVars

SumNext ==
  \/ \E readOK \in BOOLEAN, o \in Outcomes : runDailySummary(readOK, o)
  \/ \E ok \in BOOLEAN : SaveMarker(ok)
  \/ SumRestart \/ Hour \/ SumSave

-----------------------------------------------------------------------------
\* "The sent day is persisted so a service restart cannot duplicate an email"
\* (monitor.go:122-124): every mail beyond a day's first is the doing of a failure
\* of its own, between the mail and its marker or in reading the marker.
DailyOnce == \A d \in 1..Days : mails[d] <= 1 + mishaps[d]
=============================================================================
