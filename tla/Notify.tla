------------------------------- MODULE Notify -------------------------------
(* The alert transport shared by the director's monitors: the notifier that    *)
(* cmd/natlog/main.go installs and the two channels of internal/notify.        *)
EXTENDS Naturals

CONSTANTS
  Channels,  \* the channels the settings configure, of "smtp" and "webhook"
  Never,     \* the zero time.Time
  MaxRestarts \* bound: restarts of the process

ASSUME NotifyAssumption ==
  Channels \subseteq {"smtp", "webhook"} /\ MaxRestarts \in Nat /\ Never \notin Nat

VARIABLES
  alerting,  \* a notifier is installed and Notifications.Enabled
  restarts,  \* restarts of the process so far
  watched    \* the monitor this behaviour is about; the others rest (Monitors)

notifyVars == <<alerting, restarts>>

\* What one call of the notifier can do.  A channel that did not deliver says so;
\* SMTP may also report an error for a message the relay took (the last QUIT).
Outcomes ==
  {o \in [reached : SUBSET Channels, errs : SUBSET Channels] :
     Channels \ o.reached \subseteq o.errs}

\* The notifier's result: one failed channel makes the whole call an error.
Failed(o) == o.errs # {}
Delivered(o) == o.reached # {}

\* The operator saves the notification settings.
SaveNotifications == alerting' = ~alerting /\ UNCHANGED restarts

\* The process dies and starts again.
Restarted == restarts < MaxRestarts /\ restarts' = restarts + 1 /\ UNCHANGED alerting

\* A time is kept as its age in ticks of the monitor's clock, up to the age from
\* which no comparison tells it apart.
Older(age, cap) == IF age = Never \/ age >= cap THEN age ELSE age + 1

\* t.After(u) on ages: t is a time, and u is an earlier one or the zero time.
After(t, u) == t # Never /\ (u = Never \/ t < u)
=============================================================================
