------------------------------- MODULE Login --------------------------------
(* Signing in: LoginThrottle (internal/director/auth_throttle.go) under the      *)
(* login handlers of server.go and console.go, for one key of client address     *)
(* and login name.  Attempts in flight interleave between Check and Record.      *)
EXTENDS Naturals, FiniteSets

CONSTANTS
  Attempts,     \* attempts in flight with the key
  MaxAttempts,  \* maxAttempts
  Window,       \* window, in ticks
  Lockout       \* lockoutTime, in ticks

ASSUME LoginAssumption ==
  MaxAttempts \in Nat \ {0} /\ Window \in Nat \ {0} /\ Lockout \in Nat \ {0} /\ IsFiniteSet(Attempts)

VARIABLES
  entry,   \* the key's loginAttempt: its count, the age of firstTry, and what is left of the
           \* lockout (0: lockoutAt has passed; Unlocked: none set); NoEntry when absent
  phase,   \* of each attempt: idle, or past Check and verifying the password
  signedIn \* a session has been given out

loginVars == <<entry, phase, signedIn>>

Unlocked == Lockout + 1
NoEntry == [count |-> 0, age |-> 0, lock |-> Unlocked]

LoginInit == entry = NoEntry /\ phase = [a \in Attempts |-> "idle"] /\ signedIn = FALSE

LoginTypeOK ==
  /\ entry \in [count : Nat, age : 0..(Window + 1), lock : 0..Unlocked]
  /\ phase \in [Attempts -> {"idle", "verify"}] /\ signedIn \in BOOLEAN

Locked == entry.lock \in 1..Lockout

\* Mutant: an expired lockout is noticed, a running one is not.
CheckOpen(a) ==
  /\ phase[a] = "idle" /\ phase' = [phase EXCEPT ![a] = "verify"]
  /\ entry' = IF entry.lock = 0 \/ (entry.lock = Unlocked /\ entry.age > Window) THEN NoEntry ELSE entry
  /\ UNCHANGED signedIn

\* Check: a locked key is turned away with 429, an expired entry is removed.
Check(a) ==
  /\ phase[a] = "idle" /\ ~Locked
  /\ phase' = [phase EXCEPT ![a] = "verify"]
  /\ entry' = IF entry.lock = 0 \/ entry.age > Window THEN NoEntry ELSE entry
  /\ UNCHANGED signedIn

\* A wrong password or code: RecordFailure.  An entry past its window is begun
\* again, lockout and all.
RecordFailure(a) ==
  LET n == IF entry.count = 0 \/ entry.age > Window THEN 1 ELSE entry.count + 1
      e == IF n = 1 THEN [NoEntry EXCEPT !.count = 1] ELSE [entry EXCEPT !.count = n]
  IN
  /\ phase[a] = "verify" /\ phase' = [phase EXCEPT ![a] = "idle"]
  /\ entry' = IF n >= MaxAttempts THEN [e EXCEPT !.lock = Lockout] ELSE e
  /\ UNCHANGED signedIn

\* The tenant is disabled: neither a failure nor a success.
ispLoginRefused(a) ==
  /\ phase[a] = "verify" /\ phase' = [phase EXCEPT ![a] = "idle"]
  /\ UNCHANGED <<entry, signedIn>>

\* RecordSuccess and the session cookie.
RecordSuccess(a) ==
  /\ phase[a] = "verify" /\ phase' = [phase EXCEPT ![a] = "idle"]
  /\ entry' = NoEntry /\ signedIn' = TRUE

LoginMinute ==
  /\ entry.count > 0
  /\ entry' = [entry EXCEPT !.age = IF @ > Window THEN @ ELSE @ + 1,
                            !.lock = IF @ \in 1..Lockout THEN @ - 1 ELSE @]
  /\ UNCHANGED <<phase, signedIn>>

LoginNext ==
  \/ \E a \in Attempts : Check(a) \/ RecordFailure(a) \/ ispLoginRefused(a) \/ RecordSuccess(a)
  \/ LoginMinute

-----------------------------------------------------------------------------
\* LoginThrottle "guards login endpoints against brute-force password guessing"
\* (auth_throttle.go:14) though its check and its record are two critical sections:
\* an entry counts at most as many failures beyond the limit as attempts were
\* already past the check when the limit was reached, and one that counts the limit
\* is locked or its lockout has been served.
Verifying == Cardinality({a \in Attempts : phase[a] = "verify"})
GuessesBounded ==
  /\ entry.count + Verifying <= MaxAttempts - 1 + Cardinality(Attempts)
  /\ entry.count >= MaxAttempts => entry.lock # Unlocked
=============================================================================
