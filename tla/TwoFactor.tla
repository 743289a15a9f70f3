----------------------------- MODULE TwoFactor ------------------------------
(* Two-factor enrolment of one login, internal/director/totp.go.  Its handlers   *)
(* read the user's row, decide, and write both TOTP columns back unconditionally *)
(* (UpdateUserTOTP); the management gateway does not serialize them.             *)
EXTENDS Naturals

CONSTANTS
  Tabs,       \* requests of the account's owner in flight
  MaxSecrets  \* bound: keys ever made

ASSUME TwoFactorAssumption == MaxSecrets \in Nat

VARIABLES
  totp,     \* totp_secret (0 for none; a key is the number of its making) and totp_enabled
  made,     \* keys made so far
  app,      \* keys the owner's authenticator holds: setup's answer shows them
  proven,   \* keys a code has been accepted for
  tab       \* the requests: [op, got]: the row the handler read, or the key it made

tfVars == <<totp, made, app, proven, tab>>

Closed == [op |-> "none"]
TFInit ==
  /\ totp = [secret |-> 0, enabled |-> FALSE] /\ made = 0
  /\ app = {} /\ proven = {} /\ tab = [t \in Tabs |-> Closed]

TFTypeOK ==
  /\ totp \in [secret : 0..MaxSecrets, enabled : BOOLEAN] /\ made \in 0..MaxSecrets
  /\ app \subseteq 1..MaxSecrets /\ proven \subseteq 1..MaxSecrets

\* Each handler in two steps: read and decide, then UpdateUserTOTP.
Read(t, op, got) == tab[t] = Closed /\ tab' = [tab EXCEPT ![t] = [op |-> op, got |-> got]]
UpdateUserTOTP(t, op, secret, on) ==
  /\ tab[t].op = op
  /\ totp' = [secret |-> secret, enabled |-> on]
  /\ tab' = [tab EXCEPT ![t] = Closed]

\* handleTOTPSetup: refused while two-factor is enabled; the answer shows the key.
TOTPSetup(t) ==
  /\ ~totp.enabled /\ made < MaxSecrets
  /\ made' = made + 1 /\ Read(t, "setup", made + 1)
  /\ UNCHANGED <<totp, app, proven>>
TOTPSetupSave(t) ==
  /\ UpdateUserTOTP(t, "setup", tab[t].got, FALSE)
  /\ app' = app \cup {tab[t].got}
  /\ UNCHANGED <<made, proven>>

\* handleTOTPConfirm: the code must be right for the key that was read.
TOTPConfirm(t) ==
  /\ totp.secret \in app
  /\ Read(t, "confirm", totp.secret)
  /\ proven' = proven \cup {totp.secret}
  /\ UNCHANGED <<totp, made, app>>

\* Mutant: confirming only switches the flag on and leaves the key as it is by now.
TOTPConfirmSaveFlag(t) == UpdateUserTOTP(t, "confirm", totp.secret, TRUE) /\ UNCHANGED <<made, app, proven>>

TOTPConfirmSave(t) == UpdateUserTOTP(t, "confirm", tab[t].got, TRUE) /\ UNCHANGED <<made, app, proven>>

\* handleTOTPDisable: the password and a code for the key that was read.
TOTPDisable(t) ==
  /\ totp.secret \in app
  /\ Read(t, "disable", totp.secret)
  /\ UNCHANGED <<totp, made, app, proven>>
TOTPDisableSave(t) == UpdateUserTOTP(t, "disable", 0, FALSE) /\ UNCHANGED <<made, app, proven>>

\* The database is not reachable: the request ends without a write.
TOTPFails(t) ==
  /\ tab[t] # Closed /\ tab' = [tab EXCEPT ![t] = Closed]
  /\ UNCHANGED <<totp, made, app, proven>>

TFNext ==
  \E t \in Tabs :
    \/ TOTPSetup(t) \/ TOTPSetupSave(t) \/ TOTPConfirm(t) \/ TOTPConfirmSave(t)
    \/ TOTPDisable(t) \/ TOTPDisableSave(t) \/ TOTPFails(t)

-----------------------------------------------------------------------------
\* Whatever order the handlers' reads and writes take, a login that asks for a
\* code (server.go:367) asks for one of a key the owner holds and has proved to
\* hold: nobody is locked out of their account by two tabs.
NeverLockedOut == totp.enabled => totp.secret \in app \cap proven
=============================================================================
