---------------------------- MODULE ConsoleProofs ---------------------------
(***************************************************************************)
(* Proofs about the parts of Console, for any numbers of requests, tabs,   *)
(* attempts, writers, viewers and rows.  A behaviour of Console moves one  *)
(* part and leaves the others alone, so that an inductive invariant of a   *)
(* part is one of Console.                                                 *)
(***************************************************************************)
EXTENDS Console, FiniteSetTheorems, TLAPS

\* Every step of Console is a step of each part or leaves the part alone.
LEMMA PartSteps ==
  ASSUME [Next]_consoleVars
  PROVE  /\ [AccNext]_accVars /\ [PolNext]_polVars /\ [TFNext]_tfVars
         /\ [LoginNext]_loginVars /\ [CRMNext]_crmVars /\ [AuditNext]_auditVars
         /\ [SetNext]_setVars /\ [ExpNext]_expVars /\ [RollNext]_rollVars
         /\ [DashNext]_dashVars
BY DEF Next, consoleVars

-----------------------------------------------------------------------------
(* Two-factor enrolment.                                                   *)

\* A key that a confirmation is about to enable is one the owner holds and
\* has proved to hold.
TabType == {Closed} \cup [op : {"setup", "confirm", "disable"}, got : 1..MaxSecrets]
TFInv ==
  /\ TFTypeOK
  /\ tab \in [Tabs -> TabType]
  /\ \A t \in Tabs : tab[t].op = "confirm" => tab[t].got \in app \cap proven
  /\ NeverLockedOut

LEMMA TFInitInv == TFInit => TFInv
BY TwoFactorAssumption DEF TFInit, TFInv, TFTypeOK, TabType, Closed, NeverLockedOut

LEMMA TFNextInv ==
  ASSUME TFInv, [TFNext]_tfVars PROVE TFInv'
<1>. USE TwoFactorAssumption DEF TFInv, TFTypeOK, TabType, Closed, NeverLockedOut
<1>1. ASSUME NEW t \in Tabs, TOTPSetup(t) PROVE TFInv'
  BY <1>1 DEF TOTPSetup, Read
<1>2. ASSUME NEW t \in Tabs, TOTPSetupSave(t) PROVE TFInv'
  <2>1. tab[t].op = "setup" /\ tab[t].got \in 1..MaxSecrets
    BY <1>2 DEF TOTPSetupSave, UpdateUserTOTP
  <2>2. totp' \in [secret : 0..MaxSecrets, enabled : BOOLEAN] /\ totp'.enabled = FALSE
    BY <1>2, <2>1 DEF TOTPSetupSave, UpdateUserTOTP
  <2>. QED BY <1>2, <2>1, <2>2 DEF TOTPSetupSave, UpdateUserTOTP
<1>3. ASSUME NEW t \in Tabs, TOTPConfirm(t) PROVE TFInv'
  BY <1>3 DEF TOTPConfirm, Read
<1>4. ASSUME NEW t \in Tabs, TOTPConfirmSave(t) PROVE TFInv'
  BY <1>4 DEF TOTPConfirmSave, UpdateUserTOTP
<1>5. ASSUME NEW t \in Tabs, TOTPDisable(t) PROVE TFInv'
  BY <1>5 DEF TOTPDisable, Read
<1>6. ASSUME NEW t \in Tabs, TOTPDisableSave(t) PROVE TFInv'
  BY <1>6 DEF TOTPDisableSave, UpdateUserTOTP
<1>7. ASSUME NEW t \in Tabs, TOTPFails(t) PROVE TFInv'
  BY <1>7 DEF TOTPFails
<1>8. CASE UNCHANGED tfVars
  BY <1>8 DEF tfVars
<1>. QED BY <1>1, <1>2, <1>3, <1>4, <1>5, <1>6, <1>7, <1>8 DEF TFNext

\* Whatever the tabs of an account's owner do, a login that asks for a code asks
\* for one of a key the owner holds and has proved to hold (totp.go, server.go:367).
THEOREM NobodyLockedOut == Spec => []NeverLockedOut
<1>1. Init => TFInv
  BY TFInitInv DEF Init
<1>2. TFInv /\ [Next]_consoleVars => TFInv'
  BY TFNextInv, PartSteps
<1>3. TFInv => NeverLockedOut
  BY DEF TFInv
<1>. QED BY <1>1, <1>2, <1>3, PTL DEF Spec

-----------------------------------------------------------------------------
(* Signing in.                                                             *)

LoginInv == LoginTypeOK /\ GuessesBounded

\* At most all attempts are past the check; one that ends is one less.
LEMMA VerifyingType ==
  /\ Verifying \in Nat /\ Cardinality(Attempts) \in Nat /\ Verifying <= Cardinality(Attempts)
  /\ Verifying' \in Nat /\ Verifying' <= Cardinality(Attempts)
<1>1. ASSUME NEW V \in SUBSET Attempts
      PROVE  Cardinality(V) \in Nat /\ Cardinality(V) <= Cardinality(Attempts)
  BY LoginAssumption, FS_Subset, FS_CardinalityType
<1>. QED BY <1>1, LoginAssumption, FS_CardinalityType DEF Verifying

LEMMA VerifyingEnds ==
  ASSUME LoginTypeOK, NEW a \in Attempts, phase[a] = "verify", phase' = [phase EXCEPT ![a] = "idle"]
  PROVE  Verifying' = Verifying - 1 /\ Verifying >= 1
<1>. DEFINE V == {x \in Attempts : phase[x] = "verify"}
<1>1. IsFiniteSet(V) /\ a \in V
  BY LoginAssumption, FS_Subset
<1>2. {x \in Attempts : phase'[x] = "verify"} = V \ {a}
  BY DEF LoginTypeOK
<1>3. Cardinality(V \ {a}) = Cardinality(V) - 1 /\ Cardinality(V) # 0 /\ Cardinality(V) \in Nat
  BY <1>1, FS_RemoveElement, FS_EmptySet, FS_CardinalityType
<1>. QED BY <1>2, <1>3 DEF Verifying

LEMMA LoginInitInv == LoginInit => LoginInv
<1>. SUFFICES ASSUME LoginInit PROVE LoginInv
  OBVIOUS
<1>. USE LoginAssumption
<1>1. LoginTypeOK
  <2>1. NoEntry \in [count : Nat, age : 0..(Window + 1), lock : 0..Unlocked]
    <3>1. 0 \in 0..(Window + 1) /\ Lockout + 1 \in 0..(Lockout + 1)
      OBVIOUS
    <3>. QED BY <3>1 DEF NoEntry, Unlocked
  <2>2. phase \in [Attempts -> {"idle", "verify"}] /\ signedIn \in BOOLEAN
    BY DEF LoginInit
  <2>. QED BY <2>1, <2>2 DEF LoginInit, LoginTypeOK
<1>2. Verifying <= Cardinality(Attempts) /\ Cardinality(Attempts) \in Nat /\ Verifying \in Nat
  BY <1>1, VerifyingType
<1>3. GuessesBounded
  BY <1>2 DEF LoginInit, GuessesBounded, NoEntry
<1>. QED BY <1>1, <1>3 DEF LoginInv

LEMMA LoginNextInv ==
  ASSUME LoginInv, [LoginNext]_loginVars PROVE LoginInv'
<1>. USE LoginAssumption DEF LoginInv
<1>n. Verifying \in Nat /\ Cardinality(Attempts) \in Nat
  BY VerifyingType
<1>e. entry \in [count : Nat, age : 0..(Window + 1), lock : 0..Unlocked] /\ Unlocked = Lockout + 1
  BY DEF LoginTypeOK, Unlocked
<1>1. ASSUME NEW a \in Attempts, Check(a) PROVE LoginInv'
  <2>1. LoginTypeOK'
    BY <1>1 DEF Check, LoginTypeOK, NoEntry, Unlocked
  <2>2. Verifying' \in Nat /\ Verifying' <= Cardinality(Attempts)
    BY VerifyingType
  <2>3. entry'.count < MaxAttempts /\ entry'.count \in Nat
    BY <1>1, <1>e DEF Check, GuessesBounded, Locked, NoEntry
  <2>4. GuessesBounded'
    BY <1>n, <2>2, <2>3 DEF GuessesBounded
  <2>. QED BY <2>1, <2>4
<1>2. ASSUME NEW a \in Attempts, RecordFailure(a) PROVE LoginInv'
  <2>. DEFINE n == IF entry.count = 0 \/ entry.age > Window THEN 1 ELSE entry.count + 1
              e == IF n = 1 THEN [NoEntry EXCEPT !.count = 1] ELSE [entry EXCEPT !.count = n]
  <2>1. /\ phase[a] = "verify" /\ phase' = [phase EXCEPT ![a] = "idle"] /\ signedIn' = signedIn
        /\ entry' = IF n >= MaxAttempts THEN [e EXCEPT !.lock = Lockout] ELSE e
    BY <1>2 DEF RecordFailure
  <2>2. n \in Nat /\ n >= 1 /\ (n = 1 \/ n = entry.count + 1)
    BY <1>e
  <2>3. /\ e \in [count : Nat, age : 0..(Window + 1), lock : 0..Unlocked] /\ e.count = n
    BY <1>e, <2>2 DEF NoEntry
  <2>4. /\ entry' \in [count : Nat, age : 0..(Window + 1), lock : 0..Unlocked] /\ entry'.count = n
        /\ n >= MaxAttempts => entry'.lock = Lockout
    BY <1>e, <2>1, <2>2, <2>3
  <2>5. LoginTypeOK'
    BY <2>1, <2>4 DEF LoginTypeOK, Unlocked
  <2>6. Verifying' = Verifying - 1 /\ Verifying >= 1
    BY <2>1, VerifyingEnds
  <2>7. n + Verifying' <= MaxAttempts - 1 + Cardinality(Attempts)
    <3>1. Verifying <= Cardinality(Attempts)
      BY VerifyingType
    <3>. QED BY <1>n, <1>e, <2>2, <2>6, <3>1 DEF GuessesBounded
  <2>8. GuessesBounded'
    BY <1>e, <2>4, <2>7 DEF GuessesBounded, Unlocked
  <2>. QED BY <2>5, <2>8
<1>3. ASSUME NEW a \in Attempts, ispLoginRefused(a) PROVE LoginInv'
  <2>1. LoginTypeOK' /\ entry' = entry
    BY <1>3 DEF ispLoginRefused, LoginTypeOK, Unlocked
  <2>2. Verifying' = Verifying - 1
    BY <1>3, VerifyingEnds DEF ispLoginRefused
  <2>. QED BY <1>n, <1>e, <2>1, <2>2 DEF GuessesBounded, Unlocked
<1>4. ASSUME NEW a \in Attempts, RecordSuccess(a) PROVE LoginInv'
  <2>1. LoginTypeOK' /\ entry'.count = 0
    BY <1>4 DEF RecordSuccess, LoginTypeOK, NoEntry, Unlocked
  <2>2. Verifying' \in Nat /\ Verifying' <= Cardinality(Attempts)
    BY VerifyingType
  <2>. QED BY <1>n, <2>1, <2>2 DEF GuessesBounded
<1>5. CASE LoginMinute
  <2>1. /\ entry' \in [count : Nat, age : 0..(Window + 1), lock : 0..Unlocked]
        /\ entry'.count = entry.count /\ (entry.lock # Unlocked => entry'.lock # Unlocked)
    <3>. DEFINE g == IF entry.age > Window THEN entry.age ELSE entry.age + 1
                l == IF entry.lock \in 1..Lockout THEN entry.lock - 1 ELSE entry.lock
    <3>1. entry' = [entry EXCEPT !.age = g, !.lock = l]
      BY <1>5 DEF LoginMinute
    <3>2. g \in 0..(Window + 1) /\ l \in 0..Unlocked /\ (entry.lock # Unlocked => l # Unlocked)
      BY <1>e
    <3>. QED BY <1>e, <3>1, <3>2
  <2>2. UNCHANGED <<phase, signedIn>> /\ Verifying' = Verifying
    BY <1>5 DEF LoginMinute, Verifying
  <2>. QED BY <2>1, <2>2 DEF LoginTypeOK, GuessesBounded, Unlocked
<1>6. CASE UNCHANGED loginVars
  BY <1>6 DEF loginVars, LoginTypeOK, GuessesBounded, Verifying, Unlocked
<1>. QED BY <1>1, <1>2, <1>3, <1>4, <1>5, <1>6 DEF LoginNext

\* However the checks and records of attempts on one key interleave, failures exceed
\* the limit by at most the attempts that were past the check when it was reached,
\* and a key at the limit is locked or has served its lockout (auth_throttle.go).
THEOREM GuessesStayBounded == Spec => []GuessesBounded
<1>1. Init => LoginInv
  BY LoginInitInv DEF Init
<1>2. LoginInv /\ [Next]_consoleVars => LoginInv'
  BY LoginNextInv, PartSteps
<1>3. LoginInv => GuessesBounded
  BY DEF LoginInv
<1>. QED BY <1>1, <1>2, <1>3, PTL DEF Spec

-----------------------------------------------------------------------------
(* The audit chain.                                                        *)

\* A set of numbers up to N has a greatest one: N minus the smallest distance to N,
\* which exists because < is well-founded.
LEMMA GreatestExists ==
  ASSUME NEW N \in Nat, NEW S \in SUBSET (0..N), S # {}
  PROVE  \E m \in S : \A k \in S : k <= m
<1>. DEFINE T == {N - x : x \in S}
<1>0. \A x \in S : x \in Nat /\ x <= N
  OBVIOUS
<1>1. T \subseteq Nat /\ T # {}
  <2>1. \A x \in S : N - x \in Nat
    BY <1>0
  <2>. QED BY <2>1
<1>2. PICK d \in T : \A y \in T : ~(<<y, d>> \in OpToRel(<, Nat))
  BY <1>1, NatLessThanWellFounded, WFMin
<1>3. \A y \in T : ~(y < d)
  BY <1>1, <1>2 DEF OpToRel
<1>4. PICK m \in S : d = N - m
  OBVIOUS
<1>5. ASSUME NEW k \in S PROVE k <= m
  <2>1. ~(N - k < N - m)
    BY <1>3, <1>4
  <2>. QED BY <1>0, <2>1
<1>. QED BY <1>5

\* The greatest element, named as the model names it.
LEMMA GreatestIs ==
  ASSUME NEW N \in Nat, NEW S \in SUBSET (0..N), NEW m \in S, \A k \in S : k <= m
  PROVE  m = CHOOSE j \in S : \A k \in S : k <= j
<1>. DEFINE c == CHOOSE j \in S : \A k \in S : k <= j
<1>1. c \in S /\ \A k \in S : k <= c
  OBVIOUS
<1>. HIDE DEF c
<1>2. m <= c /\ c <= m
  BY <1>1
<1>3. m \in Nat /\ c \in Nat
  BY <1>1
<1>4. m = c
  BY <1>2, <1>3
<1>. QED BY <1>4 DEF c

LogType == [step : {"idle", "read", "insert"}, prev : Nat, blind : BOOLEAN, id : 0..MaxRows]

\* A writer that could read the last hash holds a lock from then on, so the chain ends
\* where it read it; an id it has taken is beyond every row of the table.  Ids are
\* given out once.
LocksOK ==
  /\ \A w \in Writers : w \in locks <=> log[w].step # "idle" /\ ~log[w].blind
  /\ \A w \in locks : log[w].prev = Last
  /\ \A w \in locks : log[w].step = "insert" => \A j \in DOMAIN audit : j < log[w].id
IdsOK ==
  /\ nextRow \in 1..(MaxRows + 1) /\ DOMAIN audit \subseteq 1..(nextRow - 1)
  /\ \A w \in Writers : log[w].step = "insert" =>
       log[w].id \in 1..(nextRow - 1) /\ log[w].id \notin DOMAIN audit
  /\ \A v, w \in Writers : v # w /\ log[v].step = "insert" /\ log[w].step = "insert" => log[v].id # log[w].id
AuditInv == AuditTypeOK /\ log \in [Writers -> LogType] /\ LocksOK /\ IdsOK /\ ChainVerifies

\* The part of ChainVerifies that concerns row i.
RowOK(i) == Linked(i) \/ i \in blind \/ \E j \in blind : j < i /\ \A k \in Before(i) : k <= j

\* Of the table, the chain depends on the rows and the blind ids only.
LEMMA ChainFrame ==
  ASSUME ChainVerifies, UNCHANGED <<audit, blind>> PROVE ChainVerifies'
BY DEF ChainVerifies, Linked, Before

LEMMA LastFrame ==
  ASSUME UNCHANGED audit PROVE Last' = Last
BY DEF Last

LEMMA AuditInitInv == AuditInit => AuditInv
<1>. SUFFICES ASSUME AuditInit PROVE AuditInv
  OBVIOUS
<1>. USE AuditAssumption DEF AuditInit, NoLog
<1>1. DOMAIN audit = {}
  OBVIOUS
<1>2. log \in [Writers -> LogType] /\ \A w \in Writers : log[w].step = "idle"
  BY DEF LogType
<1>3. AuditTypeOK /\ ChainVerifies
  BY <1>1, <1>2 DEF AuditTypeOK, ChainVerifies
<1>4. LocksOK /\ IdsOK
  BY <1>1, <1>2 DEF LocksOK, IdsOK
<1>. QED BY <1>2, <1>3, <1>4 DEF AuditInv

\* A row of a writer that read the last hash extends the chain at its end.
LEMMA CommitLinked ==
  ASSUME AuditInv, NEW w \in Writers, Commit(w), ~log[w].blind PROVE ChainVerifies'
<1>0. PICK n : n = log[w].id
  OBVIOUS
<1>1. /\ DOMAIN audit' = DOMAIN audit \cup {n} /\ audit'[n].prev = log[w].prev /\ blind' = blind
      /\ \A i \in DOMAIN audit : i # n => audit'[i] = audit[i]
  BY <1>0 DEF Commit
<1>2. /\ w \in locks /\ log[w].step = "insert" /\ n \in Nat /\ DOMAIN audit \subseteq Nat
      /\ log[w].prev = Last /\ \A j \in DOMAIN audit : j < n
  BY <1>0 DEF AuditInv, LocksOK, IdsOK, Commit
<1>3. Before(n)' = DOMAIN audit
  BY <1>1, <1>2 DEF Before
<1>4. Linked(n)'
  BY <1>1, <1>2, <1>3 DEF Linked, Last
<1>5. ASSUME NEW i \in DOMAIN audit PROVE RowOK(i)'
  <2>1. Before(i)' = Before(i) /\ audit'[i] = audit[i]
    BY <1>1, <1>2 DEF Before
  <2>2. RowOK(i)
    BY DEF AuditInv, ChainVerifies, RowOK
  <2>. QED BY <1>1, <2>1, <2>2 DEF RowOK, Linked
<1>. QED BY <1>1, <1>4, <1>5 DEF ChainVerifies, RowOK

\* A blind row breaks the chain at most at itself and right after itself, wherever
\* between the others its id has put it.
LEMMA CommitBlind ==
  ASSUME AuditInv, NEW w \in Writers, Commit(w), log[w].blind PROVE ChainVerifies'
<1>. USE AuditAssumption
<1>0. PICK n : n = log[w].id
  OBVIOUS
<1>1. /\ DOMAIN audit' = DOMAIN audit \cup {n} /\ blind' = blind \cup {n}
      /\ \A i \in DOMAIN audit : i # n => audit'[i] = audit[i]
  BY <1>0 DEF Commit
<1>2. /\ n \in 1..MaxRows /\ n \notin DOMAIN audit /\ DOMAIN audit \subseteq 1..MaxRows
      /\ blind \subseteq 1..MaxRows
  BY <1>0 DEF AuditInv, AuditTypeOK, LocksOK, IdsOK, Commit
<1>3. ASSUME NEW i \in DOMAIN audit PROVE RowOK(i)'
  <2>1. RowOK(i) /\ i # n /\ audit'[i] = audit[i]
    BY <1>1, <1>2 DEF AuditInv, ChainVerifies, RowOK
  <2>2. Before(i)' = Before(i) \cup {x \in {n} : x < i}
    BY <1>1 DEF Before
  <2>3. CASE ~(n < i)
    BY <1>1, <2>1, <2>2, <2>3 DEF RowOK, Linked
  <2>4. CASE n < i /\ \A k \in Before(i) : k <= n
    BY <1>1, <1>2, <2>2, <2>4 DEF RowOK
  <2>5. CASE n < i /\ \E k \in Before(i) : ~(k <= n)
    <3>1. PICK k \in Before(i) : n < k
      BY <1>2, <2>5 DEF Before
    <3>2. Before(i) \in SUBSET (0..MaxRows) /\ Before(i)' \in SUBSET (0..MaxRows)
      BY <1>1, <1>2 DEF Before
    <3>3. PICK m \in Before(i) : \A x \in Before(i) : x <= m
      BY <3>1, <3>2, GreatestExists
    <3>4. n < m
      BY <1>2, <3>1, <3>2, <3>3
    <3>5. m \in Before(i)' /\ \A x \in Before(i)' : x <= m
      BY <1>2, <2>2, <3>2, <3>3, <3>4
    <3>6. m = (CHOOSE j \in Before(i) : \A x \in Before(i) : x <= j)
      BY <3>2, <3>3, GreatestIs
    <3>7. m = (CHOOSE j \in Before(i)' : \A x \in Before(i)' : x <= j)
      BY <3>2, <3>5, GreatestIs
    <3>8. Linked(i) => Linked(i)'
      BY <2>1, <3>1, <3>5, <3>6, <3>7 DEF Linked
    <3>9. ASSUME NEW j \in blind, j < i, \A x \in Before(i) : x <= j
          PROVE  \A x \in Before(i)' : x <= j
      BY <1>2, <2>2, <3>1, <3>2, <3>9
    <3>. QED BY <1>1, <2>1, <3>8, <3>9 DEF RowOK
  <2>. QED BY <2>3, <2>4, <2>5
<1>. QED BY <1>1, <1>3 DEF ChainVerifies, RowOK

LEMMA AuditNextInv ==
  ASSUME AuditInv, [AuditNext]_auditVars PROVE AuditInv'
<1>. USE AuditAssumption DEF AuditInv
<1>1. ASSUME NEW w \in Writers, SelectLast(w) PROVE AuditInv'
  <2>1. UNCHANGED <<audit, nextRow, blind>> /\ locks' = locks \cup {w}
        /\ log' = [log EXCEPT ![w] = [NoLog EXCEPT !.step = "read", !.prev = Last]]
    BY <1>1 DEF SelectLast
  <2>2. Last \in Nat
    <3>1. DOMAIN audit \in SUBSET (0..MaxRows)
      BY DEF AuditTypeOK
    <3>2. ASSUME DOMAIN audit # {} PROVE Last \in DOMAIN audit
      <4>1. \E m \in DOMAIN audit : \A k \in DOMAIN audit : k <= m
        BY <3>1, <3>2, GreatestExists
      <4>. QED BY <3>2, <4>1 DEF Last
    <3>3. CASE DOMAIN audit = {}
      BY <3>3 DEF Last
    <3>4. CASE DOMAIN audit # {}
      <4>1. PICK m \in 0..MaxRows : m = Last
        BY <3>1, <3>2, <3>4
      <4>. QED BY <4>1
    <3>. QED BY <3>3, <3>4
  <2>3. log' \in [Writers -> LogType]
    <3>0. 0 \in 0..MaxRows
      OBVIOUS
    <3>1. [NoLog EXCEPT !.step = "read", !.prev = Last] \in LogType
      BY <2>2, <3>0, Zenon DEF LogType, NoLog
    <3>. QED BY <2>1, <3>1
  <2>4. AuditTypeOK'
    BY <2>1, <2>3 DEF AuditTypeOK, LogType
  <2>5. LocksOK'
    BY <2>1, <2>3, LastFrame DEF LocksOK, NoLog, AuditTypeOK, LogType
  <2>6. IdsOK'
    BY <2>1, <2>3 DEF IdsOK, NoLog, LogType
  <2>. QED BY <2>1, <2>3, <2>4, <2>5, <2>6, ChainFrame
<1>2. ASSUME NEW w \in Writers, SelectFails(w) PROVE AuditInv'
  <2>1. UNCHANGED <<audit, nextRow, locks, blind>> /\ log[w].step = "idle"
        /\ log' = [log EXCEPT ![w] = [NoLog EXCEPT !.step = "read", !.blind = TRUE]]
    BY <1>2 DEF SelectFails
  <2>2. log' \in [Writers -> LogType]
    <3>0. 0 \in 0..MaxRows /\ 0 \in Nat
      OBVIOUS
    <3>1. [NoLog EXCEPT !.step = "read", !.blind = TRUE] \in LogType
      BY <3>0, Zenon DEF LogType, NoLog
    <3>. QED BY <2>1, <3>1
  <2>3. AuditTypeOK'
    BY <2>1, <2>2 DEF AuditTypeOK, LogType
  <2>4. LocksOK'
    BY <2>1, <2>2, LastFrame DEF LocksOK, NoLog, AuditTypeOK, LogType
  <2>5. IdsOK'
    BY <2>1, <2>2 DEF IdsOK, NoLog, LogType
  <2>. QED BY <2>1, <2>2, <2>3, <2>4, <2>5, ChainFrame
<1>3. ASSUME NEW w \in Writers, InsertRow(w) PROVE AuditInv'
  <2>1. /\ UNCHANGED <<audit, locks, blind>> /\ log[w].step = "read" /\ nextRow <= MaxRows
        /\ nextRow' = nextRow + 1 /\ nextRow \in 1..MaxRows
        /\ log' = [log EXCEPT ![w].step = "insert", ![w].id = nextRow]
    BY <1>3 DEF InsertRow, IdsOK
  <2>2. log' \in [Writers -> LogType]
    <3>0. nextRow \in 0..MaxRows
      BY <2>1
    <3>1. [log[w] EXCEPT !.step = "insert", !.id = nextRow] \in LogType
      BY <3>0, Zenon DEF LogType
    <3>2. log' = [log EXCEPT ![w] = [log[w] EXCEPT !.step = "insert", !.id = nextRow]]
      BY <2>1
    <3>. QED BY <3>1, <3>2
  <2>3. AuditTypeOK'
    BY <2>1, <2>2 DEF AuditTypeOK, LogType
  <2>4. LocksOK'
    BY <2>1, <2>2, LastFrame DEF LocksOK, IdsOK, AuditTypeOK, LogType
  <2>5. IdsOK'
    BY <2>1, <2>2 DEF IdsOK, LogType
  <2>. QED BY <2>1, <2>2, <2>3, <2>4, <2>5, ChainFrame
<1>4. ASSUME NEW w \in Writers, Commit(w) PROVE AuditInv'
  <2>1. /\ log[w].step = "insert" /\ locks \subseteq {w} /\ locks' = {} /\ nextRow' = nextRow
        /\ DOMAIN audit' = DOMAIN audit \cup {log[w].id}
        /\ blind' \subseteq blind \cup {log[w].id} /\ log' = [log EXCEPT ![w] = NoLog]
    BY <1>4 DEF Commit
  <2>2. log' \in [Writers -> LogType]
    BY <2>1 DEF LogType, NoLog
  <2>3. AuditTypeOK'
    BY <2>1, <2>2 DEF AuditTypeOK, LogType, IdsOK
  <2>4. LocksOK'
    BY <2>1, <2>2 DEF LocksOK, NoLog, LogType
  <2>5. IdsOK'
    BY <2>1, <2>2 DEF IdsOK, NoLog, LogType
  <2>. QED BY <1>4, <2>2, <2>3, <2>4, <2>5, CommitLinked, CommitBlind
<1>5. ASSUME NEW w \in Writers, Rollback(w) PROVE AuditInv'
  <2>1. UNCHANGED <<audit, nextRow, blind>> /\ log' = [log EXCEPT ![w] = NoLog] /\ locks' = locks \ {w}
    BY <1>5 DEF Rollback
  <2>2. log' \in [Writers -> LogType]
    BY <2>1 DEF LogType, NoLog
  <2>3. AuditTypeOK'
    BY <2>1, <2>2 DEF AuditTypeOK, LogType
  <2>4. LocksOK'
    BY <2>1, <2>2, LastFrame DEF LocksOK, NoLog, AuditTypeOK, LogType
  <2>5. IdsOK'
    BY <2>1, <2>2 DEF IdsOK, NoLog, LogType
  <2>. QED BY <2>1, <2>2, <2>3, <2>4, <2>5, ChainFrame
<1>6. CASE UNCHANGED auditVars
  BY <1>6, ChainFrame, LastFrame DEF auditVars, AuditTypeOK, LocksOK, IdsOK
<1>. QED BY <1>1, <1>2, <1>3, <1>4, <1>5, <1>6 DEF AuditNext

\* Concurrent searches, rolled back transactions and lost reads leave a chain that
\* VerifyAuditChain finds broken at most at a row written blind or right after one,
\* whatever ids the rows got (store/mysql.go, LogQuery).
THEOREM AuditChainVerifies == Spec => []ChainVerifies
<1>1. Init => AuditInv
  BY AuditInitInv DEF Init
<1>2. AuditInv /\ [Next]_consoleVars => AuditInv'
  BY AuditNextInv, PartSteps
<1>3. AuditInv => ChainVerifies
  BY DEF AuditInv
<1>. QED BY <1>1, <1>2, <1>3, PTL DEF Spec

-----------------------------------------------------------------------------
(* The rollup.  Rows up to a limit are in the sums: the watermark, or before  *)
(* there is one the cutoff of the backfill.                                   *)

Ensuring == {"backfill", "backfillSubs", "seed"}
RollJobs == [step : Ensuring \cup {"ensure", "idle", "hourly", "subs"}, lo : 0..Horizon, hi : 0..Horizon]
RollTypes ==
  /\ clock \in 1..Horizon /\ late \subseteq Flows /\ watermark \subseteq 0..Horizon /\ gap \subseteq 0..Horizon
  /\ flow \in [Flows -> [created : 0..Horizon, visible : BOOLEAN]]
  /\ hourly \in [Flows -> Nat] /\ subs \in [Flows -> Nat] /\ job \in RollJobs
  /\ unsure \in BOOLEAN /\ breaks \in Nat
Top(w) == w \in watermark /\ \A u \in watermark : u <= w

\* Where the job is and what its window is.
JobOK ==
  /\ job.step \in Ensuring => watermark = {} /\ job.lo = 0 /\ job.hi <= Cutoff
  /\ job.step \in {"idle", "hourly", "subs"} => watermark # {}
  /\ job.step \in {"ensure", "idle"} => job.lo = 0 /\ job.hi = 0
  /\ job.step \in {"hourly", "subs"} => Top(job.hi) /\ job.lo < job.hi
  /\ watermark # {} => \E w \in watermark : Top(w) /\ w <= Cutoff

\* Nothing above the limit was summed.
Limit == IF watermark # {} THEN Greatest(watermark)
         ELSE IF job.step = "ensure" THEN Cutoff ELSE job.hi
Below(f) == hourly[f] > 0 \/ subs[f] > 0 => flow[f].visible /\ flow[f].created <= Limit
Shown(f) == flow[f].visible => flow[f].created > 0

\* What a step of the job finds summed, of a row that showed in time.
InSums(f) ==
  LET c == flow[f].created
      due == flow[f].visible /\ c \notin gap
  IN
  /\ hourly[f] <= 1 /\ subs[f] <= 1
  /\ watermark = {} => subs[f] <= hourly[f]
  /\ job.step = "backfill" => hourly[f] = 0
  /\ job.step = "backfillSubs" => subs[f] = 0 /\ (flow[f].visible /\ c <= job.hi => hourly[f] = 1)
  /\ job.step = "seed" /\ due /\ c <= job.hi => hourly[f] = 1 /\ subs[f] = 1
  /\ job.step \in {"ensure", "idle"} /\ watermark # {} /\ due /\ c <= Greatest(watermark) =>
       hourly[f] = 1 /\ subs[f] = 1
  /\ job.step = "hourly" => /\ c > job.lo => hourly[f] = 0 /\ subs[f] = 0
                            /\ due /\ c <= job.lo => hourly[f] = 1 /\ subs[f] = 1
  /\ job.step = "subs" => /\ c > job.lo => subs[f] = 0
                          /\ due /\ c <= job.hi => hourly[f] = 1
                          /\ due /\ c <= job.lo => subs[f] = 1

RollInv ==
  /\ RollTypes /\ JobOK
  /\ \A f \in Flows : Below(f) /\ Shown(f)
  /\ unsure \/ \A f \in Flows \ late : InSums(f)

LEMMA GreatestTop ==
  ASSUME RollTypes, NEW w, Top(w) PROVE Greatest(watermark) = w
<1>1. w \in watermark /\ watermark # {} /\ watermark \subseteq Nat
  BY RollupAssumption DEF RollTypes, Top
<1>2. \A v \in watermark : (\A u \in watermark : u <= v) => v = w
  BY <1>1 DEF Top
<1>3. PICK g : g = CHOOSE t \in watermark : \A u \in watermark : u <= t
  OBVIOUS
<1>4. g \in watermark /\ \A u \in watermark : u <= g
  BY <1>1, <1>3 DEF Top
<1>5. g = w
  BY <1>2, <1>4
<1>. QED BY <1>1, <1>3, <1>5 DEF Greatest

LEMMA CutoffIs ==
  ASSUME RollTypes
  PROVE  /\ Cutoff \in 0..Horizon /\ Cutoff <= clock
         /\ \A c \in 1..Horizon : clock < c + Settle => c > Cutoff
<1>1. clock \in Nat /\ clock >= 1 /\ clock <= Horizon /\ Settle \in Nat /\ Horizon \in Nat
  BY RollupAssumption DEF RollTypes
<1>2. CASE clock > Settle
  BY <1>1, <1>2 DEF Cutoff
<1>3. CASE ~(clock > Settle)
  BY <1>1, <1>3 DEF Cutoff
<1>. QED BY <1>2, <1>3

\* A window of the sums: what is in it, and what summing it does.
LEMMA SumRow ==
  ASSUME RollTypes, NEW sum \in [Flows -> Nat], NEW lo \in 0..Horizon, NEW hi \in 0..Horizon, NEW f \in Flows
  PROVE  /\ Summed(sum, lo, hi) \in [Flows -> Nat]
         /\ Summed(sum, lo, hi)[f] =
              IF flow[f].visible /\ lo < flow[f].created /\ flow[f].created <= hi THEN sum[f] + 1 ELSE sum[f]
<1>1. \A g \in Flows : flow[g].created \in 0..Horizon
  BY DEF RollTypes
<1>2. flow[f].created \in Between(lo, hi) <=> lo < flow[f].created /\ flow[f].created <= hi
  BY <1>1, RollupAssumption DEF Between
<1>. QED BY <1>2 DEF Summed

LEMMA JobFields ==
  ASSUME NEW step, NEW lo, NEW hi
  PROVE  Job(step, lo, hi).step = step /\ Job(step, lo, hi).lo = lo /\ Job(step, lo, hi).hi = hi
BY DEF Job

LEMMA JobTypes ==
  ASSUME NEW step \in Ensuring \cup {"ensure", "idle", "hourly", "subs"}, NEW lo \in 0..Horizon, NEW hi \in 0..Horizon
  PROVE  Job(step, lo, hi) \in RollJobs
BY DEF Job, RollJobs

LEMMA RollInitInv == RollInit => RollInv
<1>. SUFFICES ASSUME RollInit PROVE RollInv
  OBVIOUS
<1>0. 1 \in 1..Horizon /\ 0 \in 0..Horizon
  BY RollupAssumption
<1>1. job \in RollJobs /\ job.step = "ensure" /\ job.lo = 0 /\ job.hi = 0
  BY <1>0, JobTypes, JobFields DEF RollInit, Ensuring
<1>2. RollTypes
  BY <1>0, <1>1 DEF RollInit, RollTypes
<1>3. JobOK
  BY <1>1 DEF RollInit, JobOK, Ensuring
<1>4. \A f \in Flows : hourly[f] = 0 /\ subs[f] = 0 /\ flow[f].visible = FALSE
  BY DEF RollInit
<1>5. \A f \in Flows : Below(f) /\ Shown(f) /\ InSums(f)
  BY <1>1, <1>4 DEF Below, Shown, InSums, RollInit
<1>. QED BY <1>2, <1>3, <1>5 DEF RollInv

\* The writers and the clock.
LEMMA RollWriters ==
  ASSUME RollInv, (\E f \in Flows : WriteFlow(f) \/ ShowFlow(f)) \/ PassTime \/ UNCHANGED rollVars
  PROVE  RollInv'
<1>. USE DEF RollInv
<1>1. job' = job /\ watermark' = watermark /\ hourly' = hourly /\ subs' = subs /\ gap' = gap /\ unsure' = unsure
  BY DEF WriteFlow, ShowFlow, PassTime, rollVars
<1>2. Cutoff \in Nat /\ Cutoff' \in Nat /\ Cutoff <= Cutoff' /\ RollTypes'
  <2>1. ASSUME NEW f \in Flows, WriteFlow(f) PROVE RollTypes' /\ Cutoff' = Cutoff
    BY <2>1, RollupAssumption DEF WriteFlow, RollTypes, Cutoff
  <2>2. ASSUME NEW f \in Flows, ShowFlow(f) PROVE RollTypes' /\ Cutoff' = Cutoff
    BY <2>2 DEF ShowFlow, RollTypes, Cutoff
  <2>3. ASSUME PassTime PROVE RollTypes' /\ Cutoff <= Cutoff' /\ Cutoff' \in Nat
    <3>1. clock' = clock + 1 /\ clock' \in 1..Horizon
      BY <2>3, RollupAssumption DEF PassTime, RollTypes
    <3>2. RollTypes'
      BY <2>3, <3>1 DEF PassTime, RollTypes
    <3>. QED BY <3>1, <3>2, RollupAssumption DEF RollTypes, Cutoff
  <2>4. CASE UNCHANGED rollVars
    BY <2>4, CutoffIs, RollupAssumption DEF rollVars, RollTypes, Cutoff
  <2>5. Cutoff \in Nat
    BY CutoffIs, RollupAssumption
  <2>. QED BY <2>1, <2>2, <2>3, <2>4, <2>5
<1>3. JobOK'
  <2>1. job.hi \in Nat /\ \A w \in watermark : w \in Nat
    BY RollupAssumption DEF RollTypes, RollJobs
  <2>2. \A w : Top(w)' <=> Top(w)
    BY <1>1 DEF Top
  <2>. QED BY <1>1, <1>2, <2>1, <2>2 DEF JobOK
<1>4. Limit \in Nat /\ Limit' \in Nat /\ Limit <= Limit' /\ Limit' <= Cutoff'
  <2>1. job.hi \in Nat /\ job.step \in Ensuring \cup {"ensure", "idle", "hourly", "subs"}
    BY RollupAssumption DEF RollTypes, RollJobs
  <2>2. CASE watermark # {}
    <3>1. PICK w \in watermark : Top(w) /\ w <= Cutoff
      BY <2>2 DEF JobOK
    <3>2. w \in Nat /\ Greatest(watermark) = w
      BY <3>1, GreatestTop, RollupAssumption DEF RollTypes
    <3>. QED BY <1>1, <1>2, <2>2, <3>1, <3>2 DEF Limit
  <2>3. CASE watermark = {} /\ job.step = "ensure"
    BY <1>1, <1>2, <2>3 DEF Limit
  <2>4. CASE watermark = {} /\ job.step # "ensure"
    BY <1>1, <1>2, <2>1, <2>4 DEF Limit, JobOK
  <2>. QED BY <2>2, <2>3, <2>4
<1>5. ASSUME NEW f \in Flows PROVE Below(f)' /\ Shown(f)' /\ (f \notin late' /\ ~unsure => InSums(f)')
  <2>0. /\ flow[f] \in [created : 0..Horizon, visible : BOOLEAN] /\ hourly[f] \in Nat /\ subs[f] \in Nat
        /\ flow'[f] \in [created : 0..Horizon, visible : BOOLEAN]
    BY <1>2 DEF RollTypes
  <2>1. CASE flow'[f] = flow[f]
    <3>1. f \notin late' => f \notin late
      BY DEF WriteFlow, ShowFlow, PassTime, rollVars
    <3>2. Below(f)'
      BY <1>1, <1>4, <2>0, <2>1, RollupAssumption DEF Below
    <3>3. f \notin late' /\ ~unsure => InSums(f)'
      BY <1>1, <2>1, <3>1 DEF InSums
    <3>. QED BY <2>1, <3>2, <3>3 DEF Shown
  <2>2. CASE WriteFlow(f)
    <3>1. flow'[f].created = clock /\ flow'[f].visible = flow[f].visible /\ flow[f].created = 0
      BY <2>2 DEF WriteFlow, RollTypes
    <3>2. ~flow[f].visible /\ hourly[f] = 0 /\ subs[f] = 0
      BY <2>0, <3>1 DEF Shown, Below
    <3>3. Below(f)' /\ Shown(f)'
      BY <1>1, <3>1, <3>2 DEF Below, Shown
    <3>4. f \notin late' /\ ~unsure => InSums(f)'
      <4>1. late' = late
        BY <2>2 DEF WriteFlow
      <4>. QED BY <1>1, <3>1, <3>2, <4>1 DEF InSums
    <3>. QED BY <3>3, <3>4
  <2>3. CASE ShowFlow(f)
    <3>1. flow'[f].created = flow[f].created /\ flow'[f].visible = TRUE /\ flow[f].created # 0 /\ ~flow[f].visible
      BY <2>3 DEF ShowFlow, RollTypes
    <3>2. hourly[f] = 0 /\ subs[f] = 0
      BY <2>0, <3>1 DEF Below
    <3>3. Below(f)' /\ Shown(f)'
      BY <1>1, <2>0, <3>1, <3>2 DEF Below, Shown
    <3>4. ASSUME f \notin late', ~unsure PROVE InSums(f)'
      <4>1. flow[f].created > Cutoff /\ f \notin late
        <5>1. clock < flow[f].created + Settle /\ f \notin late
          BY <2>0, <2>3, <3>4, RollupAssumption DEF ShowFlow, RollTypes
        <5>. QED BY <2>0, <3>1, <5>1, CutoffIs
      <4>2. Limit <= Cutoff
        <5>1. Cutoff' = Cutoff
          BY <2>3 DEF ShowFlow, Cutoff
        <5>. QED BY <1>4, <1>2, <5>1
      <4>3. flow[f].created > Limit
        BY <1>2, <1>4, <2>0, <4>1, <4>2, RollupAssumption
      <4>4. job.hi \in Nat /\ job.lo \in Nat
        BY RollupAssumption DEF RollTypes, RollJobs
      <4>5. watermark # {} => flow[f].created > Greatest(watermark)
        BY <4>3 DEF Limit
      <4>6. job.step \in Ensuring => flow[f].created > job.hi
        BY <4>3 DEF Limit, JobOK, Ensuring
      <4>7. job.step \in {"hourly", "subs"} => flow[f].created > job.hi /\ flow[f].created > job.lo
        BY <2>0, <4>4, <4>5, GreatestTop, RollupAssumption DEF JobOK
      <4>8. PICK c : c = flow[f].created
        OBVIOUS
      <4>9. /\ job.step \in Ensuring => ~(c <= job.hi)
            /\ job.step \in {"hourly", "subs"} => ~(c <= job.hi) /\ ~(c <= job.lo)
            /\ watermark # {} => ~(c <= Greatest(watermark))
        <5>1. watermark # {} => Greatest(watermark) \in Nat
          BY GreatestTop, RollupAssumption DEF JobOK, RollTypes
        <5>. QED BY <2>0, <4>4, <4>5, <4>6, <4>7, <4>8, <5>1, RollupAssumption
      <4>. QED BY <1>1, <3>1, <3>2, <4>8, <4>9 DEF InSums, Ensuring
    <3>. QED BY <3>3, <3>4
  <2>4. CASE \E g \in Flows \ {f} : WriteFlow(g) \/ ShowFlow(g)
    <3>1. flow'[f] = flow[f]
      BY <2>4 DEF WriteFlow, ShowFlow, RollTypes
    <3>. QED BY <2>1, <3>1
  <2>5. CASE PassTime \/ UNCHANGED rollVars
    BY <2>1, <2>5 DEF PassTime, rollVars
  <2>. QED BY <2>2, <2>3, <2>4, <2>5
<1>. QED BY <1>1, <1>2, <1>3, <1>5

\* What the steps of the job have in common.
LEMMA RollFrame ==
  ASSUME RollInv, UNCHANGED <<clock, flow, late>>, RollTypes', JobOK',
         \A f \in Flows : Below(f)', ~unsure' => ~unsure,
         ~unsure' => \A f \in Flows \ late : InSums(f)'
  PROVE  RollInv'
<1>1. \A f \in Flows : Shown(f)'
  BY DEF RollInv, Shown
<1>2. unsure' \in BOOLEAN
  BY DEF RollTypes
<1>. QED BY <1>1, <1>2 DEF RollInv

LEMMA RollFacts ==
  ASSUME RollInv
  PROVE  /\ RollTypes /\ JobOK /\ Cutoff \in 0..Horizon
         /\ job.step \in Ensuring \cup {"ensure", "idle", "hourly", "subs"}
         /\ job.lo \in 0..Horizon /\ job.hi \in 0..Horizon
         /\ \A f \in Flows : /\ hourly[f] \in Nat /\ subs[f] \in Nat /\ flow[f].created \in 0..Horizon
                             /\ Below(f) /\ Shown(f)
         /\ ~unsure => \A f \in Flows \ late : InSums(f)
BY CutoffIs DEF RollInv, RollTypes, RollJobs

LEMMA EnsureStep ==
  ASSUME RollInv, NEW misread \in BOOLEAN, EnsureRollups(misread) PROVE RollInv'
<1>1. /\ UNCHANGED <<clock, flow, late>> /\ watermark' = watermark /\ hourly' = hourly /\ subs' = subs
      /\ job.step = "ensure" /\ Cutoff' = Cutoff
  BY DEF EnsureRollups, Cutoff
<1>2. ~unsure' => ~unsure /\ (misread => \A f \in Flows : hourly[f] = 0)
  <2>1. unsure \in BOOLEAN /\ \A f \in Flows : hourly[f] \in Nat
    BY RollFacts DEF RollTypes
  <2>2. CASE misread /\ \E f \in Flows : hourly[f] > 0
    BY <2>2, Zenon DEF EnsureRollups
  <2>3. CASE ~(misread /\ \E f \in Flows : hourly[f] > 0)
    <3>1. misread => \A f \in Flows : hourly[f] = 0
      BY <2>1, <2>3
    <3>3. unsure => unsure'
      BY Zenon DEF EnsureRollups
    <3>. QED BY <3>1, <3>3
  <2>. QED BY <2>2, <2>3
<1>3. RollTypes'
  <2>1. job' \in RollJobs
    BY JobTypes, RollFacts, RollupAssumption DEF EnsureRollups, Ensuring
  <2>2. gap' \subseteq 0..Horizon
    BY RollFacts, RollupAssumption DEF EnsureRollups, RollTypes
  <2>3. unsure' \in BOOLEAN /\ breaks' \in Nat
    BY RollFacts DEF EnsureRollups, RollTypes
  <2>. QED BY <1>1, <2>1, <2>2, <2>3, RollFacts DEF RollTypes
<1>4. CASE watermark # {}
  <2>1. job' = Job("idle", 0, 0) /\ job'.step = "idle" /\ job'.lo = 0 /\ job'.hi = 0
    BY <1>4, JobFields DEF EnsureRollups
  <2>2. gap' = gap
    BY <2>1 DEF EnsureRollups
  <2>3. JobOK'
    BY <1>1, <1>4, <2>1, RollFacts DEF JobOK, Top, Ensuring
  <2>4. \A f \in Flows : Below(f)'
    BY <1>1, <1>4, RollFacts DEF Below, Limit
  <2>5. ASSUME NEW f \in Flows \ late, ~unsure PROVE InSums(f)'
    BY <1>1, <1>4, <2>1, <2>2, <2>5, RollFacts DEF InSums
  <2>. QED BY <1>1, <1>2, <1>3, <2>3, <2>4, <2>5, RollFrame
<1>5. CASE watermark = {} /\ (misread \/ \A f \in Flows : hourly[f] = 0)
  <2>1. job' = Job("backfill", 0, Cutoff) /\ job'.step = "backfill" /\ job'.lo = 0 /\ job'.hi = Cutoff
    BY <1>5, JobFields DEF EnsureRollups
  <2>3. JobOK'
    BY <1>1, <1>5, <2>1, RollFacts, RollupAssumption DEF JobOK, Ensuring
  <2>4. \A f \in Flows : Below(f)'
    BY <1>1, <1>5, <2>1, RollFacts DEF Below, Limit
  <2>5. ASSUME NEW f \in Flows \ late, ~unsure' PROVE InSums(f)'
    <3>1. hourly[f] = 0 /\ subs[f] = 0
      BY <1>2, <1>5, <2>5, RollFacts DEF InSums
    <3>. QED BY <1>1, <1>5, <2>1, <3>1 DEF InSums
  <2>. QED BY <1>1, <1>2, <1>3, <2>3, <2>4, <2>5, RollFrame
<1>6. CASE watermark = {} /\ ~misread /\ ~(\A f \in Flows : hourly[f] = 0)
  <2>1. job' = Job("seed", 0, Cutoff) /\ job'.step = "seed" /\ job'.lo = 0 /\ job'.hi = Cutoff
    BY <1>6, JobFields DEF EnsureRollups
  <2>2. gap' = gap \cup (0..Cutoff)
    BY <2>1 DEF EnsureRollups
  <2>3. JobOK'
    BY <1>1, <1>6, <2>1, RollFacts, RollupAssumption DEF JobOK, Ensuring
  <2>4. \A f \in Flows : Below(f)'
    BY <1>1, <1>6, <2>1, RollFacts DEF Below, Limit
  <2>5. ASSUME NEW f \in Flows \ late, ~unsure' PROVE InSums(f)'
    <3>1. flow[f].created <= Cutoff => flow[f].created \in gap'
      BY <2>2, RollFacts, RollupAssumption
    <3>2. hourly[f] <= 1 /\ subs[f] <= 1 /\ subs[f] <= hourly[f]
      BY <1>2, <1>6, <2>5, RollFacts DEF InSums
    <3>. QED BY <1>1, <1>6, <2>1, <3>1, <3>2 DEF InSums
  <2>. QED BY <1>1, <1>2, <1>3, <2>3, <2>4, <2>5, RollFrame
<1>. QED BY <1>4, <1>5, <1>6

LEMMA BackfillStep ==
  ASSUME RollInv, BackfillHourly \/ BackfillSubs \/ SeedWatermark PROVE RollInv'
<1>1. UNCHANGED <<clock, flow, late, gap, unsure, breaks>> /\ Cutoff' = Cutoff
  BY DEF BackfillHourly, BackfillSubs, SeedWatermark, Cutoff
<1>2. job.step \in Ensuring /\ watermark = {} /\ job.lo = 0 /\ job.hi <= Cutoff
  BY RollFacts DEF BackfillHourly, BackfillSubs, SeedWatermark, JobOK, Ensuring
<1>3. CASE BackfillHourly
  <2>1. /\ job.step = "backfill" /\ job'.step = "backfillSubs" /\ job'.lo = 0 /\ job'.hi = job.hi
        /\ job' \in RollJobs /\ watermark' = {} /\ subs' = subs /\ hourly' = Summed(hourly, 0, job.hi)
    BY <1>2, <1>3, RollFacts DEF BackfillHourly, RollTypes, RollJobs, Ensuring
  <2>2. ASSUME NEW f \in Flows
        PROVE  hourly'[f] = IF flow[f].visible /\ 0 < flow[f].created /\ flow[f].created <= job.hi
                            THEN hourly[f] + 1 ELSE hourly[f]
    <3>1. RollTypes /\ hourly \in [Flows -> Nat] /\ 0 \in 0..Horizon /\ job.hi \in 0..Horizon
      BY RollFacts, RollupAssumption DEF RollTypes
    <3>2. Summed(hourly, 0, job.hi)[f] =
            IF flow[f].visible /\ 0 < flow[f].created /\ flow[f].created <= job.hi THEN hourly[f] + 1 ELSE hourly[f]
      BY <3>1, SumRow
    <3>. QED BY <2>1, <3>2
  <2>3. RollTypes'
    <3>1. hourly' \in [Flows -> Nat]
      BY <2>1, RollFacts DEF Summed, RollTypes
    <3>. QED BY <1>1, <2>1, <3>1, RollFacts DEF RollTypes
  <2>4. JobOK'
    BY <1>1, <1>2, <2>1 DEF JobOK, Ensuring
  <2>5. ASSUME NEW f \in Flows PROVE Below(f)'
    BY <1>1, <1>2, <2>1, <2>2, RollFacts DEF Below, Limit
  <2>6. ASSUME NEW f \in Flows \ late, ~unsure PROVE InSums(f)'
    <3>1. hourly[f] = 0 /\ subs[f] = 0
      BY <1>2, <2>1, <2>6, RollFacts DEF InSums
    <3>2. flow[f].visible => flow[f].created > 0
      BY RollFacts DEF Shown
    <3>3. subs'[f] = 0 /\ hourly'[f] \in {0, 1} /\ (flow[f].visible /\ flow[f].created <= job.hi => hourly'[f] = 1)
      BY <2>1, <2>2, <3>1, <3>2, RollFacts, RollupAssumption
    <3>. QED BY <1>1, <2>1, <3>3 DEF InSums
  <2>. QED BY <1>1, <2>3, <2>4, <2>5, <2>6, RollFrame
<1>4. CASE BackfillSubs
  <2>1. /\ job.step = "backfillSubs" /\ job'.step = "seed" /\ job'.lo = 0 /\ job'.hi = job.hi
        /\ job' \in RollJobs /\ watermark' = {} /\ hourly' = hourly /\ subs' = Summed(subs, 0, job.hi)
    BY <1>2, <1>4, RollFacts DEF BackfillSubs, RollTypes, RollJobs, Ensuring
  <2>2. ASSUME NEW f \in Flows
        PROVE  subs'[f] = IF flow[f].visible /\ 0 < flow[f].created /\ flow[f].created <= job.hi
                          THEN subs[f] + 1 ELSE subs[f]
    <3>1. subs \in [Flows -> Nat] /\ RollTypes /\ 0 \in 0..Horizon /\ job.hi \in 0..Horizon
      BY RollFacts, RollupAssumption DEF RollTypes
    <3>. QED BY <2>1, <3>1, SumRow
  <2>3. RollTypes'
    <3>1. subs' \in [Flows -> Nat]
      BY <2>1, RollFacts DEF Summed, RollTypes
    <3>. QED BY <1>1, <2>1, <3>1, RollFacts DEF RollTypes
  <2>4. JobOK'
    BY <1>1, <1>2, <2>1 DEF JobOK, Ensuring
  <2>5. ASSUME NEW f \in Flows PROVE Below(f)'
    BY <1>1, <1>2, <2>1, <2>2, RollFacts DEF Below, Limit
  <2>6. ASSUME NEW f \in Flows \ late, ~unsure PROVE InSums(f)'
    <3>1. subs[f] = 0 /\ (flow[f].visible /\ flow[f].created <= job.hi => hourly[f] = 1) /\ hourly[f] <= 1
      BY <1>2, <2>1, <2>6, RollFacts DEF InSums
    <3>2. flow[f].visible => flow[f].created > 0
      BY RollFacts DEF Shown
    <3>3. subs'[f] \in {0, 1} /\ (subs'[f] = 1 <=> flow[f].visible /\ flow[f].created <= job.hi)
      BY <2>2, <3>1, <3>2, RollFacts, RollupAssumption
    <3>4. hourly[f] \in Nat
      BY RollFacts
    <3>. QED BY <1>1, <2>1, <3>1, <3>3, <3>4 DEF InSums
  <2>. QED BY <1>1, <2>3, <2>4, <2>5, <2>6, RollFrame
<1>5. CASE SeedWatermark
  <2>1. /\ job.step = "seed" /\ job'.step = "idle" /\ job'.lo = 0 /\ job'.hi = 0
        /\ job' = Job("idle", 0, 0) /\ watermark' = {job.hi} /\ hourly' = hourly /\ subs' = subs
    BY <1>2, <1>5, JobFields DEF SeedWatermark
  <2>2. RollTypes'
    <3>1. job' \in RollJobs
      BY <2>1, JobTypes, RollupAssumption DEF Ensuring
    <3>2. watermark' \subseteq 0..Horizon
      BY <2>1, RollFacts
    <3>. QED BY <1>1, <2>1, <3>1, <3>2, RollFacts DEF RollTypes
  <2>3. PICK h : h = job.hi
    OBVIOUS
  <2>4. h \in Nat /\ Top(h)' /\ Greatest(watermark') = h
    <3>1. h \in Nat /\ h <= Cutoff
      BY <1>2, <2>3, RollFacts, RollupAssumption
    <3>2. watermark' = {h} /\ h <= h
      BY <2>1, <2>3, <3>1
    <3>3. Top(h)'
      BY <3>2 DEF Top
    <3>. QED BY <3>1, <3>2, <3>3 DEF Greatest
  <2>5. JobOK'
    BY <1>1, <1>2, <2>1, <2>3, <2>4 DEF JobOK, Ensuring
  <2>6. ASSUME NEW f \in Flows PROVE Below(f)'
    BY <1>1, <1>2, <2>1, <2>3, <2>4, RollFacts DEF Below, Limit
  <2>7. ASSUME NEW f \in Flows \ late, ~unsure PROVE InSums(f)'
    <3>1. /\ hourly[f] <= 1 /\ subs[f] <= 1
          /\ flow[f].visible /\ flow[f].created \notin gap /\ flow[f].created <= job.hi =>
               hourly[f] = 1 /\ subs[f] = 1
      BY <2>1, <2>7, RollFacts DEF InSums
    <3>. QED BY <1>1, <2>1, <2>3, <2>4, <3>1 DEF InSums
  <2>. QED BY <1>1, <2>2, <2>5, <2>6, <2>7, RollFrame
<1>. QED BY <1>3, <1>4, <1>5

LEMMA LatestIs ==
  ASSUME NEW ws, NEW w \in ws, ws \subseteq Nat, \A u \in ws : u <= w
  PROVE  Greatest(ws) = w
<1>1. ws # {}
  OBVIOUS
<1>2. PICK g : g = CHOOSE t \in ws : \A u \in ws : u <= t
  OBVIOUS
<1>3. g \in ws /\ \A u \in ws : u <= g
  BY <1>2
<1>4. g = w
  BY <1>3
<1>5. Greatest(ws) = g
  BY <1>1, <1>2 DEF Greatest
<1>. QED BY <1>4, <1>5

\* Of a state with a watermark: which one it is.
LEMMA TheWatermark ==
  ASSUME RollInv, watermark # {}
  PROVE  \E w \in 0..Horizon : Top(w) /\ w <= Cutoff /\ Greatest(watermark) = w /\ Limit = w
BY RollFacts, GreatestTop DEF JobOK, RollTypes, Limit

LEMMA TickStep ==
  ASSUME RollInv, RollupTick PROVE RollInv'
<1>1. PICK w \in 0..Horizon : Top(w) /\ w <= Cutoff /\ Greatest(watermark) = w /\ Limit = w
  BY TheWatermark DEF RollupTick
<1>2. PICK c : c = Cutoff
  OBVIOUS
<1>3. /\ UNCHANGED <<clock, flow, late, hourly, subs, gap, unsure, breaks>> /\ Cutoff' = c
      /\ job.step = "idle" /\ watermark' = watermark \cup {c} /\ c > w /\ job' = Job("hourly", w, c)
      /\ job'.step = "hourly" /\ job'.lo = w /\ job'.hi = c
  BY <1>1, <1>2, JobFields DEF RollupTick, Cutoff
<1>4. c \in 0..Horizon /\ c \in Nat /\ w \in Nat /\ watermark \subseteq Nat
  BY <1>2, RollFacts, RollupAssumption DEF RollTypes
<1>5. Top(c)' /\ Greatest(watermark') = c
  <2>1. \A u \in watermark' : u <= c /\ u \in Nat
    BY <1>1, <1>3, <1>4 DEF Top
  <2>2. c \in watermark' /\ watermark' \subseteq Nat
    BY <1>3, <2>1
  <2>3. Top(c)'
    BY <2>1, <2>2 DEF Top
  <2>4. Greatest(watermark') = c
    BY <2>1, <2>2, LatestIs
  <2>. QED BY <2>3, <2>4
<1>6. RollTypes'
  <2>1. job' \in RollJobs
    BY <1>3, <1>4, JobTypes DEF Ensuring
  <2>. QED BY <1>3, <1>4, <2>1, RollFacts DEF RollTypes
<1>7. JobOK'
  <2>1. c \in watermark' /\ c <= Cutoff'
    BY <1>3, <1>4
  <2>. QED BY <1>3, <1>5, <2>1 DEF JobOK, Ensuring
<1>8. ASSUME NEW f \in Flows PROVE Below(f)'
  <2>1. Limit' = c
    BY <1>3, <1>5 DEF Limit
  <2>. QED BY <1>1, <1>3, <1>4, <2>1, RollFacts, RollupAssumption DEF Below
<1>9. ASSUME NEW f \in Flows \ late, ~unsure PROVE InSums(f)'
  <2>1. flow[f].created > w => hourly[f] = 0 /\ subs[f] = 0
    BY <1>1, <1>4, RollFacts, RollupAssumption DEF Below
  <2>2. /\ hourly[f] <= 1 /\ subs[f] <= 1
        /\ flow[f].visible /\ flow[f].created \notin gap /\ flow[f].created <= w => hourly[f] = 1 /\ subs[f] = 1
    BY <1>1, <1>3, <1>9, RollFacts DEF InSums, RollupTick
  <2>. QED BY <1>3, <2>1, <2>2 DEF InSums
<1>. QED BY <1>3, <1>6, <1>7, <1>8, <1>9, RollFrame

\* Of a tick at work: its window ends at the watermark.
LEMMA TickWindow ==
  ASSUME RollInv, job.step \in {"hourly", "subs"}
  PROVE  /\ watermark # {} /\ Greatest(watermark) = job.hi /\ Limit = job.hi
         /\ job.lo < job.hi /\ job.lo \in Nat /\ job.hi \in Nat /\ job.hi <= Cutoff
<1>1. /\ watermark # {} /\ Top(job.hi) /\ job.lo < job.hi /\ job.lo \in Nat /\ job.hi \in Nat
  BY RollFacts, RollupAssumption DEF JobOK
<1>2. Greatest(watermark) = job.hi
  BY <1>1, RollFacts, GreatestTop
<1>. QED BY <1>1, <1>2, TheWatermark DEF Limit

\* A row summed over the job's window, or not.
LEMMA WindowRow ==
  ASSUME RollInv, NEW f \in Flows, NEW sum \in [Flows -> Nat]
  PROVE  /\ Summed(sum, job.lo, job.hi) \in [Flows -> Nat]
         /\ Summed(sum, job.lo, job.hi)[f] =
              IF flow[f].visible /\ job.lo < flow[f].created /\ flow[f].created <= job.hi
              THEN sum[f] + 1 ELSE sum[f]
BY RollFacts, SumRow

LEMMA SumStep ==
  ASSUME RollInv, TickHourly \/ TickSubs PROVE RollInv'
<1>1. UNCHANGED <<clock, flow, late, watermark, gap, unsure, breaks>> /\ Cutoff' = Cutoff
  BY DEF TickHourly, TickSubs, Cutoff
<1>2. /\ watermark # {} /\ Greatest(watermark) = job.hi /\ Limit = job.hi
      /\ job.lo < job.hi /\ job.lo \in Nat /\ job.hi \in Nat /\ job.hi <= Cutoff
  BY TickWindow DEF TickHourly, TickSubs
<1>3. Limit' = job.hi
  BY <1>1, <1>2 DEF Limit
<1>4. hourly \in [Flows -> Nat] /\ subs \in [Flows -> Nat]
  BY RollFacts DEF RollTypes
<1>5. \A f \in Flows : /\ flow[f].created \in Nat /\ hourly[f] \in Nat /\ subs[f] \in Nat
                       /\ (flow[f].visible => flow[f].created > 0)
  BY RollFacts, RollupAssumption DEF Shown
<1>6. CASE TickHourly
  <2>1. /\ job.step = "hourly" /\ job'.step = "subs" /\ job'.lo = job.lo /\ job'.hi = job.hi
        /\ job' \in RollJobs /\ subs' = subs /\ hourly' = Summed(hourly, job.lo, job.hi)
    BY <1>6, RollFacts DEF TickHourly, RollTypes, RollJobs, Ensuring
  <2>2. ASSUME NEW f \in Flows
        PROVE  hourly'[f] = IF flow[f].visible /\ job.lo < flow[f].created /\ flow[f].created <= job.hi
                            THEN hourly[f] + 1 ELSE hourly[f]
    BY <1>4, <2>1, WindowRow
  <2>3. RollTypes'
    <3>1. hourly' \in [Flows -> Nat]
      BY <1>4, <2>1 DEF Summed
    <3>. QED BY <1>1, <2>1, <3>1, RollFacts DEF RollTypes
  <2>4. JobOK'
    BY <1>1, <2>1, RollFacts DEF JobOK, Ensuring, Top
  <2>5. ASSUME NEW f \in Flows PROVE Below(f)'
    BY <1>1, <1>2, <1>3, <1>5, <2>1, <2>2, RollFacts DEF Below
  <2>6. ASSUME NEW f \in Flows \ late, ~unsure PROVE InSums(f)'
    <3>1. /\ hourly[f] <= 1 /\ subs[f] <= 1 /\ (flow[f].created > job.lo => hourly[f] = 0 /\ subs[f] = 0)
          /\ flow[f].visible /\ flow[f].created \notin gap /\ flow[f].created <= job.lo =>
               hourly[f] = 1 /\ subs[f] = 1
      BY <2>1, <2>6, RollFacts DEF InSums
    <3>2. /\ hourly'[f] <= 1
          /\ flow[f].visible /\ flow[f].created \notin gap /\ flow[f].created <= job.hi => hourly'[f] = 1
      BY <1>2, <1>5, <2>2, <3>1
    <3>. QED BY <1>1, <1>2, <2>1, <3>1, <3>2 DEF InSums
  <2>. QED BY <1>1, <2>3, <2>4, <2>5, <2>6, RollFrame
<1>7. CASE TickSubs
  <2>1. /\ job.step = "subs" /\ job' = Job("idle", 0, 0) /\ job'.step = "idle" /\ job'.lo = 0 /\ job'.hi = 0
        /\ hourly' = hourly /\ subs' = Summed(subs, job.lo, job.hi)
    BY <1>7, JobFields DEF TickSubs
  <2>2. ASSUME NEW f \in Flows
        PROVE  subs'[f] = IF flow[f].visible /\ job.lo < flow[f].created /\ flow[f].created <= job.hi
                          THEN subs[f] + 1 ELSE subs[f]
    BY <1>4, <2>1, WindowRow
  <2>3. RollTypes'
    <3>1. subs' \in [Flows -> Nat]
      BY <1>4, <2>1 DEF Summed
    <3>2. job' \in RollJobs
      BY <2>1, JobTypes, RollupAssumption DEF Ensuring
    <3>. QED BY <1>1, <2>1, <3>1, <3>2, RollFacts DEF RollTypes
  <2>4. JobOK'
    BY <1>1, <1>2, <2>1, RollFacts DEF JobOK, Ensuring, Top
  <2>5. ASSUME NEW f \in Flows PROVE Below(f)'
    BY <1>1, <1>2, <1>3, <1>5, <2>1, <2>2, RollFacts DEF Below
  <2>6. ASSUME NEW f \in Flows \ late, ~unsure PROVE InSums(f)'
    <3>1. /\ hourly[f] <= 1 /\ subs[f] <= 1 /\ (flow[f].created > job.lo => subs[f] = 0)
          /\ flow[f].visible /\ flow[f].created \notin gap /\ flow[f].created <= job.hi => hourly[f] = 1
          /\ flow[f].visible /\ flow[f].created \notin gap /\ flow[f].created <= job.lo => subs[f] = 1
      BY <2>1, <2>6, RollFacts DEF InSums
    <3>2. /\ subs'[f] <= 1
          /\ flow[f].visible /\ flow[f].created \notin gap /\ flow[f].created <= job.hi => subs'[f] = 1
      BY <1>2, <1>5, <2>2, <3>1
    <3>. QED BY <1>1, <1>2, <2>1, <3>1, <3>2 DEF InSums
  <2>. QED BY <1>1, <2>3, <2>4, <2>5, <2>6, RollFrame
<1>. QED BY <1>6, <1>7

\* A statement that failed or a restart: what of it is common to all steps.
LEMMA BreakCommon ==
  ASSUME RollInv, NEW done \in BOOLEAN, Break(done)
  PROVE  /\ UNCHANGED <<clock, flow, late, unsure>> /\ Cutoff' = Cutoff /\ RollTypes'
         /\ job'.step \in {"ensure", "idle"} /\ job'.lo = 0 /\ job'.hi = 0
         /\ job.step \in Ensuring \cup {"ensure"} => job'.step = "ensure"
<1>1. UNCHANGED <<clock, flow, late, unsure>> /\ Cutoff' = Cutoff /\ breaks' = breaks + 1
  BY DEF Break, Cutoff
<1>2. job' \in {Job("ensure", 0, 0), Job("idle", 0, 0)}
  BY DEF Break
<1>3. job'.step \in {"ensure", "idle"} /\ job'.lo = 0 /\ job'.hi = 0 /\ job' \in RollJobs
  BY <1>2, JobFields, JobTypes, RollupAssumption DEF Ensuring
<1>4. hourly \in [Flows -> Nat] /\ subs \in [Flows -> Nat]
  BY RollFacts DEF RollTypes
<1>5. hourly' \in [Flows -> Nat]
  <2>1. hourly' = hourly \/ hourly' = Summed(hourly, job.lo, job.hi)
    BY DEF Break
  <2>. QED BY <1>4, <2>1 DEF Summed
<1>6. subs' \in [Flows -> Nat]
  <2>1. subs' = subs \/ subs' = Summed(subs, job.lo, job.hi)
    BY DEF Break
  <2>. QED BY <1>4, <2>1 DEF Summed
<1>7. watermark' \subseteq 0..Horizon
  <2>1. watermark' \subseteq watermark \cup {job.hi}
    BY DEF Break
  <2>. QED BY <2>1, RollFacts DEF RollTypes
<1>8. gap' \subseteq 0..Horizon
  <2>1. gap' \subseteq gap \cup Between(job.lo, job.hi)
    BY DEF Break
  <2>2. Between(job.lo, job.hi) \subseteq 0..Horizon
    BY RollupAssumption DEF Between
  <2>. QED BY <2>1, <2>2, RollFacts DEF RollTypes
<1>9. RollTypes'
  <2>1. breaks \in Nat
    BY RollFacts DEF RollTypes
  <2>2. breaks' \in Nat
    BY <1>1, <2>1
  <2>. QED BY <1>1, <1>3, <1>5, <1>6, <1>7, <1>8, <2>2, RollFacts DEF RollTypes
<1>10. job.step \in Ensuring \cup {"ensure"} => job'.step = "ensure"
  BY JobFields DEF Break, Ensuring
<1>. QED BY <1>1, <1>3, <1>9, <1>10

\* It breaks before there is a watermark.
LEMMA BreakEnsuring ==
  ASSUME RollInv, NEW done \in BOOLEAN, Break(done), job.step \in Ensuring PROVE RollInv'
<1>1. /\ UNCHANGED <<clock, flow, late, unsure>> /\ Cutoff' = Cutoff /\ RollTypes'
      /\ job'.step = "ensure" /\ job'.lo = 0 /\ job'.hi = 0
  BY BreakCommon
<1>2. watermark = {} /\ job.lo = 0 /\ job.hi <= Cutoff /\ gap' = gap
  BY RollFacts DEF JobOK, Break, Ensuring
<1>3. PICK h : h = job.hi
  OBVIOUS
<1>4. h \in Nat /\ h <= Cutoff /\ Cutoff \in Nat /\ hourly \in [Flows -> Nat] /\ subs \in [Flows -> Nat]
  BY <1>2, <1>3, RollFacts, RollupAssumption DEF RollTypes
<1>5. \/ watermark' = {} /\ Limit' = Cutoff
      \/ /\ watermark' = {h} /\ Top(h)' /\ Greatest(watermark') = h /\ Limit' = h
         /\ job.step = "seed" /\ hourly' = hourly /\ subs' = subs
  <2>1. CASE done /\ job.step = "seed"
    <3>1. watermark' = {h} /\ hourly' = hourly /\ subs' = subs
      BY <1>2, <1>3, <2>1 DEF Break
    <3>2. Top(h)' /\ Greatest(watermark') = h
      BY <1>4, <3>1, LatestIs DEF Top
    <3>. QED BY <2>1, <3>1, <3>2 DEF Limit
  <2>2. CASE ~(done /\ job.step = "seed")
    <3>1. watermark' = {}
      BY <1>2, <2>2 DEF Break
    <3>. QED BY <1>1, <3>1 DEF Limit
  <2>. QED BY <2>1, <2>2
<1>6. JobOK'
  BY <1>1, <1>4, <1>5 DEF JobOK, Ensuring
<1>7. ASSUME NEW f \in Flows
      PROVE  /\ hourly[f] \in Nat /\ subs[f] \in Nat /\ flow[f].created \in Nat
             /\ flow[f].visible => flow[f].created > 0
             /\ hourly'[f] # hourly[f] => /\ job.step = "backfill" /\ hourly'[f] = hourly[f] + 1
                                          /\ flow[f].visible /\ flow[f].created <= h
             /\ subs'[f] # subs[f] => /\ job.step = "backfillSubs" /\ subs'[f] = subs[f] + 1
                                      /\ flow[f].visible /\ flow[f].created <= h
  <2>1. /\ hourly[f] \in Nat /\ subs[f] \in Nat /\ flow[f].created \in Nat
        /\ flow[f].visible => flow[f].created > 0
    BY RollFacts, RollupAssumption DEF Shown
  <2>2. hourly' = hourly \/ (job.step = "backfill" /\ hourly' = Summed(hourly, job.lo, job.hi))
    BY DEF Break, Ensuring
  <2>3. subs' = subs \/ (job.step = "backfillSubs" /\ subs' = Summed(subs, job.lo, job.hi))
    BY DEF Break, Ensuring
  <2>4. hourly'[f] # hourly[f] => /\ job.step = "backfill" /\ hourly'[f] = hourly[f] + 1
                                  /\ flow[f].visible /\ flow[f].created <= h
    BY <1>3, <1>4, <2>2, WindowRow
  <2>5. subs'[f] # subs[f] => /\ job.step = "backfillSubs" /\ subs'[f] = subs[f] + 1
                              /\ flow[f].visible /\ flow[f].created <= h
    BY <1>3, <1>4, <2>3, WindowRow
  <2>. QED BY <2>1, <2>4, <2>5
<1>8. ASSUME NEW f \in Flows PROVE Below(f)'
  <2>1. hourly[f] > 0 \/ subs[f] > 0 => flow[f].visible /\ flow[f].created <= h
    BY <1>2, <1>3, RollFacts DEF Below, Limit, Ensuring
  <2>2. Limit' \in Nat /\ h <= Limit'
    BY <1>4, <1>5
  <2>. QED BY <1>1, <1>4, <1>7, <2>1, <2>2 DEF Below
<1>9. ASSUME NEW f \in Flows \ late, ~unsure PROVE InSums(f)'
  <2>1. InSums(f)
    BY <1>9, RollFacts
  <2>2. hourly'[f] <= 1 /\ subs'[f] <= 1 /\ subs'[f] <= hourly'[f]
    <3>1. CASE job.step = "backfill"
      BY <1>2, <1>7, <2>1, <3>1 DEF InSums
    <3>2. CASE job.step = "backfillSubs"
      BY <1>2, <1>3, <1>7, <2>1, <3>2 DEF InSums
    <3>3. CASE job.step = "seed"
      BY <1>2, <1>7, <2>1, <3>3 DEF InSums
    <3>. QED BY <3>1, <3>2, <3>3 DEF Ensuring
  <2>3. CASE watermark' = {}
    BY <1>1, <2>2, <2>3 DEF InSums
  <2>4. CASE watermark' # {}
    <3>1. /\ Greatest(watermark') = h /\ job.step = "seed" /\ hourly' = hourly /\ subs' = subs
      BY <1>5, <2>4
    <3>2. flow[f].visible /\ flow[f].created \notin gap /\ flow[f].created <= h => hourly[f] = 1 /\ subs[f] = 1
      BY <1>3, <2>1, <3>1 DEF InSums
    <3>. QED BY <1>1, <1>2, <2>2, <2>4, <3>1, <3>2 DEF InSums
  <2>. QED BY <2>3, <2>4
<1>. QED BY <1>1, <1>6, <1>8, <1>9, RollFrame

\* It breaks while nothing is under way: only the step may change.
LEMMA BreakIdle ==
  ASSUME RollInv, NEW done \in BOOLEAN, Break(done), job.step \in {"ensure", "idle"} PROVE RollInv'
<1>1. /\ UNCHANGED <<clock, flow, late, unsure>> /\ Cutoff' = Cutoff /\ RollTypes'
      /\ job'.step \in {"ensure", "idle"} /\ job'.lo = 0 /\ job'.hi = 0
      /\ job.step = "ensure" => job'.step = "ensure"
  BY BreakCommon
<1>2. job.lo = 0 /\ job.hi = 0 /\ (job.step = "idle" => watermark # {})
  BY RollFacts DEF JobOK
<1>3. UNCHANGED <<hourly, subs, watermark, gap>>
  <2>1. Between(0, 0) = {}
    BY RollupAssumption DEF Between
  <2>2. hourly' = hourly /\ subs' = subs /\ watermark' = watermark
    BY DEF Break
  <2>3. gap' = gap \/ gap' = gap \cup Between(0, 0)
    BY <1>2 DEF Break
  <2>. QED BY <2>1, <2>2, <2>3
<1>4. watermark = {} => job'.step = job.step
  BY <1>1, <1>2
<1>5. JobOK'
  BY <1>1, <1>2, <1>3, <1>4, RollFacts DEF JobOK, Ensuring, Top
<1>6. ASSUME NEW f \in Flows PROVE Below(f)'
  <2>1. Limit' = Limit
    BY <1>1, <1>2, <1>3, <1>4 DEF Limit
  <2>. QED BY <1>1, <1>3, <2>1, RollFacts DEF Below
<1>7. ASSUME NEW f \in Flows \ late, ~unsure PROVE InSums(f)'
  <2>1. InSums(f)
    BY <1>7, RollFacts
  <2>. QED BY <1>1, <1>3, <2>1 DEF InSums
<1>. QED BY <1>1, <1>5, <1>6, <1>7, RollFrame

\* It breaks in a tick: the window is given up, whatever of it was summed.
LEMMA BreakTick ==
  ASSUME RollInv, NEW done \in BOOLEAN, Break(done), job.step \in {"hourly", "subs"} PROVE RollInv'
<1>1. /\ UNCHANGED <<clock, flow, late, unsure>> /\ Cutoff' = Cutoff /\ RollTypes'
      /\ job'.step \in {"ensure", "idle"} /\ job'.lo = 0 /\ job'.hi = 0
  BY BreakCommon
<1>2. /\ watermark # {} /\ Greatest(watermark) = job.hi /\ Limit = job.hi
      /\ job.lo < job.hi /\ job.lo \in Nat /\ job.hi \in Nat /\ job.hi <= Cutoff
  BY TickWindow
<1>3. watermark' = watermark /\ gap' = gap \cup Between(job.lo, job.hi)
  BY DEF Break
<1>4. Limit' = job.hi
  BY <1>2, <1>3 DEF Limit
<1>5. JobOK'
  BY <1>1, <1>2, <1>3, RollFacts DEF JobOK, Ensuring, Top
<1>6. hourly \in [Flows -> Nat] /\ subs \in [Flows -> Nat]
  BY RollFacts DEF RollTypes
<1>7. ASSUME NEW f \in Flows
      PROVE  /\ hourly[f] \in Nat /\ subs[f] \in Nat /\ flow[f].created \in Nat
             /\ flow[f].visible => flow[f].created > 0
             /\ hourly'[f] # hourly[f] =>
                  /\ job.step = "hourly" /\ hourly'[f] = hourly[f] + 1
                  /\ flow[f].visible /\ flow[f].created <= job.hi /\ flow[f].created > job.lo
             /\ subs'[f] # subs[f] =>
                  /\ job.step = "subs" /\ subs'[f] = subs[f] + 1
                  /\ flow[f].visible /\ flow[f].created <= job.hi /\ flow[f].created > job.lo
  <2>1. /\ hourly[f] \in Nat /\ subs[f] \in Nat /\ flow[f].created \in Nat
        /\ flow[f].visible => flow[f].created > 0
    BY RollFacts, RollupAssumption DEF Shown
  <2>2. hourly' = hourly \/ (job.step = "hourly" /\ hourly' = Summed(hourly, job.lo, job.hi))
    BY DEF Break
  <2>3. subs' = subs \/ (job.step = "subs" /\ subs' = Summed(subs, job.lo, job.hi))
    BY DEF Break
  <2>4. hourly'[f] # hourly[f] =>
          /\ job.step = "hourly" /\ hourly'[f] = hourly[f] + 1
          /\ flow[f].visible /\ flow[f].created <= job.hi /\ flow[f].created > job.lo
    BY <1>2, <1>6, <2>1, <2>2, WindowRow
  <2>5. subs'[f] # subs[f] =>
          /\ job.step = "subs" /\ subs'[f] = subs[f] + 1
          /\ flow[f].visible /\ flow[f].created <= job.hi /\ flow[f].created > job.lo
    BY <1>2, <1>6, <2>1, <2>3, WindowRow
  <2>. QED BY <2>1, <2>4, <2>5
<1>8. ASSUME NEW f \in Flows PROVE Below(f)'
  BY <1>1, <1>2, <1>4, <1>7, RollFacts DEF Below
<1>9. ASSUME NEW f \in Flows \ late, ~unsure PROVE InSums(f)'
  <2>1. InSums(f)
    BY <1>9, RollFacts
  <2>2. hourly'[f] <= 1 /\ subs'[f] <= 1
    <3>1. CASE job.step = "hourly"
      BY <1>7, <2>1, <3>1 DEF InSums
    <3>2. CASE job.step = "subs"
      BY <1>7, <2>1, <3>2 DEF InSums
    <3>. QED BY <3>1, <3>2
  <2>3. ASSUME flow[f].visible, flow[f].created \notin gap', flow[f].created <= job.hi
        PROVE  hourly'[f] = 1 /\ subs'[f] = 1
    <3>1. flow[f].created \in 1..Horizon /\ flow[f].created \notin gap
      BY <1>3, <1>7, <2>3, RollFacts, RollupAssumption
    <3>2. flow[f].created <= job.lo
      BY <1>2, <1>3, <2>3, <3>1, RollupAssumption DEF Between
    <3>3. hourly[f] = 1 /\ subs[f] = 1
      BY <1>2, <2>1, <2>3, <3>1, <3>2 DEF InSums
    <3>. QED BY <1>2, <1>7, <3>2, <3>3
  <2>. QED BY <1>1, <1>2, <1>3, <2>2, <2>3 DEF InSums
<1>. QED BY <1>1, <1>5, <1>8, <1>9, RollFrame

LEMMA RollNextInv == RollInv /\ [RollNext]_rollVars => RollInv'
<1>. SUFFICES ASSUME RollInv, [RollNext]_rollVars PROVE RollInv'
  OBVIOUS
<1>1. ASSUME NEW done \in BOOLEAN, Break(done) PROVE RollInv'
  BY <1>1, BreakEnsuring, BreakIdle, BreakTick, RollFacts
<1>. QED BY <1>1, RollWriters, EnsureStep, BackfillStep, TickStep, SumStep DEF RollNext

\* Whatever fails or restarts, no row that showed within the settle lag is summed
\* twice, and between ticks each one up to the watermark is summed once unless its
\* window was given up (rollup.go, EnsureRollups and RollupTick).
THEOREM RollupSumsOnce == Spec => []RollupOnce
<1>1. Init => RollInv
  BY RollInitInv DEF Init
<1>2. RollInv /\ [Next]_consoleVars => RollInv'
  BY RollNextInv, PartSteps
<1>3. RollInv => RollupOnce
  BY RollFacts DEF RollupOnce, InSums, JobOK
<1>. QED BY <1>1, <1>2, <1>3, PTL DEF Spec

-----------------------------------------------------------------------------
(* The dashboard.  A first load began before there was a snapshot, so it is at *)
(* least as old as the snapshot and, by its deadline, younger than a stale one: *)
(* nobody asks for a refresh while one is under way.                           *)

Snapshots == [age : 0..CacheTTL, blank : BOOLEAN, refreshing : BOOLEAN]
Stale == {v \in Viewers : viewer[v].at = "stale"}
DashInv ==
  /\ DashTypeOK
  /\ ~Cached => InFlight = {} /\ Stale = {}
  /\ FirstLoads # {} => InFlight = {} /\ Stale = {}
  /\ Cached => \A v \in FirstLoads : snapshot.age <= viewer[v].age
  /\ \A g \in InFlight : refresher[g] <= RefreshLimit
  /\ OneRefresh /\ FlagCleared

LEMMA SnapshotIs ==
  ASSUME NEW s \in Snapshots PROVE s # NoSnapshot
<1>1. "blank" \in DOMAIN s
  BY DEF Snapshots
<1>2. "blank" \notin DOMAIN NoSnapshot
  BY DEF NoSnapshot
<1>. QED BY <1>1, <1>2

LEMMA DashInitInv == DashInit => DashInv
<1>. SUFFICES ASSUME DashInit PROVE DashInv
  OBVIOUS
<1>1. ~Cached /\ \A v \in Viewers : viewer[v] = Away
  BY DEF DashInit, Cached
<1>2. InFlight = {} /\ Stale = {} /\ FirstLoads = {}
  BY <1>1 DEF DashInit, InFlight, Stale, FirstLoads, Away
<1>3. DashTypeOK
  BY <1>1, DashboardAssumption DEF DashInit, DashTypeOK, Away, Off
<1>. QED BY <1>1, <1>2, <1>3 DEF DashInv, OneRefresh, FlagCleared

LEMMA DashFacts ==
  ASSUME DashInv
  PROVE  /\ Cached => snapshot \in Snapshots
         /\ viewer \in [Viewers -> [at : {"away", "load", "stale"}, age : 0..LoadLimit]]
         /\ refresher \in [Refreshers -> 0..CacheTTL]
         /\ CacheTTL \in Nat /\ LoadLimit \in Nat /\ RefreshLimit \in Nat
         /\ LoadLimit < CacheTTL /\ RefreshLimit < CacheTTL
         /\ Cached /\ FirstLoads # {} => snapshot.age < CacheTTL
<1>1. /\ Cached => snapshot \in Snapshots
      /\ viewer \in [Viewers -> [at : {"away", "load", "stale"}, age : 0..LoadLimit]]
      /\ refresher \in [Refreshers -> 0..CacheTTL]
  BY DEF DashInv, DashTypeOK, Snapshots
<1>2. ASSUME Cached, NEW v \in FirstLoads PROVE snapshot.age < CacheTTL
  <2>1. snapshot.age <= viewer[v].age /\ viewer[v].age \in 0..LoadLimit /\ snapshot.age \in 0..CacheTTL
    BY <1>1, <1>2 DEF DashInv, FirstLoads, Snapshots
  <2>. QED BY <2>1, DashboardAssumption
<1>. QED BY <1>1, <1>2, DashboardAssumption

LEMMA DashNextInv == DashInv /\ [DashNext]_dashVars => DashInv'
<1>. SUFFICES ASSUME DashInv, [DashNext]_dashVars PROVE DashInv'
  OBVIOUS
<1>1. ASSUME NEW v \in Viewers, handleConsoleData(v) PROVE DashInv'
  <2>1. /\ snapshot' = snapshot /\ refresher' = refresher /\ Cached' = Cached /\ InFlight' = InFlight
        /\ viewer' = [viewer EXCEPT ![v] = [at |-> IF Cached THEN "stale" ELSE "load", age |-> 0]]
    BY <1>1 DEF handleConsoleData, Cached, InFlight
  <2>2. /\ viewer' \in [Viewers -> [at : {"away", "load", "stale"}, age : 0..LoadLimit]]
        /\ \A u \in Viewers \ {v} : viewer'[u] = viewer[u]
        /\ viewer'[v].at = IF Cached THEN "stale" ELSE "load"
    BY <2>1, DashFacts
  <2>3. CASE Cached
    <3>1. FirstLoads = {}
      BY <1>1, <2>3, DashFacts DEF handleConsoleData, WithinTTL, Snapshots
    <3>2. FirstLoads' = {}
      BY <2>2, <2>3, <3>1 DEF FirstLoads
    <3>. QED BY <2>1, <2>2, <2>3, <3>2, DashFacts DEF DashInv, DashTypeOK, OneRefresh, FlagCleared, Snapshots
  <2>4. CASE ~Cached
    <3>1. Stale' = {} /\ InFlight' = {}
      BY <2>1, <2>2, <2>4 DEF DashInv, Stale
    <3>. QED BY <2>1, <2>2, <2>4, <3>1, DashFacts DEF DashInv, DashTypeOK, OneRefresh, FlagCleared, Snapshots
  <2>. QED BY <2>3, <2>4
<1>2. ASSUME NEW v \in Viewers, NEW b \in BOOLEAN, storeConsole(v, b) PROVE DashInv'
  <2>1. /\ v \in FirstLoads /\ InFlight = {} /\ Stale = {} /\ refresher' = refresher
        /\ viewer' = [viewer EXCEPT ![v] = Away]
        /\ snapshot' = [age |-> 0, blank |-> b, refreshing |-> FALSE]
    BY <1>2 DEF storeConsole, FirstLoads, DashInv
  <2>2. snapshot' \in Snapshots /\ snapshot'.age = 0 /\ snapshot'.refreshing = FALSE
    BY <2>1, DashboardAssumption DEF Snapshots
  <2>3. Cached' /\ InFlight' = {}
    BY <2>1, <2>2, SnapshotIs DEF Cached, InFlight
  <2>4. /\ viewer' \in [Viewers -> [at : {"away", "load", "stale"}, age : 0..LoadLimit]]
        /\ \A u \in Viewers \ {v} : viewer'[u] = viewer[u]
        /\ viewer'[v].at = "away"
    BY <2>1, DashFacts DEF Away
  <2>5. Stale' = {} /\ \A u \in FirstLoads' : viewer'[u].age \in Nat
    BY <2>1, <2>4, DashFacts DEF Stale, FirstLoads
  <2>. QED BY <2>1, <2>2, <2>3, <2>4, <2>5, DashFacts DEF DashInv, DashTypeOK, OneRefresh, FlagCleared, Snapshots
<1>3. ASSUME NEW v \in Viewers, NEW g \in Refreshers, refreshConsoleAsync(v, g) PROVE DashInv'
  <2>1. /\ v \in Stale /\ FirstLoads = {} /\ Cached /\ g \notin InFlight
        /\ viewer' = [viewer EXCEPT ![v] = Away]
    BY <1>3 DEF refreshConsoleAsync, Stale, DashInv
  <2>2. /\ viewer' \in [Viewers -> [at : {"away", "load", "stale"}, age : 0..LoadLimit]]
        /\ \A u \in Viewers \ {v} : viewer'[u] = viewer[u]
        /\ viewer'[v].at = "away"
    BY <2>1, DashFacts DEF Away
  <2>3. FirstLoads' = {}
    BY <2>1, <2>2 DEF FirstLoads
  <2>4. CASE snapshot.refreshing
    <3>1. snapshot' = snapshot /\ refresher' = refresher /\ Cached' /\ InFlight' = InFlight
      BY <1>3, <2>1, <2>4 DEF refreshConsoleAsync, Cached, InFlight
    <3>. QED BY <2>1, <2>2, <2>3, <3>1, DashFacts DEF DashInv, DashTypeOK, OneRefresh, FlagCleared, Snapshots
  <2>5. CASE ~snapshot.refreshing
    <3>1. /\ snapshot' = [snapshot EXCEPT !.refreshing = TRUE] /\ refresher' = [refresher EXCEPT ![g] = 0]
          /\ InFlight = {}
      BY <1>3, <2>1, <2>5 DEF refreshConsoleAsync, DashInv, OneRefresh
    <3>2. snapshot' \in Snapshots /\ snapshot'.refreshing = TRUE
      BY <2>1, <3>1, DashFacts DEF Snapshots
    <3>3. refresher' \in [Refreshers -> 0..CacheTTL] /\ refresher'[g] = 0
      BY <3>1, DashFacts
    <3>4. InFlight' = {g}
      <4>1. \A h \in Refreshers : refresher[h] = CacheTTL
        BY <3>1 DEF InFlight, Off
      <4>2. \A h \in Refreshers : refresher'[h] = IF h = g THEN 0 ELSE CacheTTL
        BY <3>1, <4>1, DashFacts
      <4>. QED BY <4>2, DashboardAssumption DEF InFlight, Off
    <3>5. Cached'
      BY <3>2, SnapshotIs DEF Cached
    <3>. QED BY <2>2, <2>3, <3>2, <3>3, <3>4, <3>5, DashFacts
             DEF DashInv, DashTypeOK, OneRefresh, FlagCleared, Snapshots
  <2>. QED BY <2>4, <2>5
<1>4. ASSUME NEW g \in Refreshers, NEW b \in BOOLEAN, Refreshed(g, b) PROVE DashInv'
  <2>1. /\ g \in InFlight /\ FirstLoads = {} /\ Cached /\ InFlight = {g} /\ viewer' = viewer
        /\ refresher' = [refresher EXCEPT ![g] = Off]
    BY <1>4 DEF Refreshed, DashInv, OneRefresh
  <2>2. snapshot' \in Snapshots /\ snapshot'.refreshing = FALSE
    <3>1. \/ snapshot' = [snapshot EXCEPT !.refreshing = FALSE]
          \/ snapshot' = [age |-> 0, blank |-> b, refreshing |-> FALSE]
      BY <1>4 DEF Refreshed
    <3>2. CASE snapshot' = [snapshot EXCEPT !.refreshing = FALSE]
      BY <2>1, <3>2, DashFacts DEF Snapshots
    <3>3. CASE snapshot' = [age |-> 0, blank |-> b, refreshing |-> FALSE]
      BY <3>3, DashboardAssumption DEF Snapshots
    <3>. QED BY <3>1, <3>2, <3>3
  <2>3. refresher' \in [Refreshers -> 0..CacheTTL]
    BY <2>1, DashFacts DEF Off
  <2>4. InFlight' = {}
    BY <2>1, DashFacts DEF InFlight
  <2>5. Cached' /\ FirstLoads' = {} /\ Stale' = Stale
    BY <2>1, <2>2, SnapshotIs DEF Cached, FirstLoads, Stale
  <2>. QED BY <2>1, <2>2, <2>3, <2>4, <2>5, DashFacts
           DEF DashInv, DashTypeOK, OneRefresh, FlagCleared, Snapshots
<1>5. ASSUME DashTick PROVE DashInv'
  <2>1. /\ viewer' \in [Viewers -> [at : {"away", "load", "stale"}, age : 0..LoadLimit]]
        /\ \A v \in Viewers : viewer'[v].at = viewer[v].at
        /\ \A v \in FirstLoads : viewer'[v].age = viewer[v].age + 1
    <3>1. ASSUME NEW v \in Viewers
          PROVE  /\ viewer'[v] \in [at : {"away", "load", "stale"}, age : 0..LoadLimit]
                 /\ viewer'[v].at = viewer[v].at
                 /\ v \in FirstLoads => viewer'[v].age = viewer[v].age + 1
      <4>1. CASE v \in FirstLoads
        <5>1. viewer'[v] = [viewer[v] EXCEPT !.age = @ + 1] /\ viewer[v].age < LoadLimit
          BY <1>5, <4>1 DEF DashTick
        <5>2. viewer[v] \in [at : {"away", "load", "stale"}, age : 0..LoadLimit]
          BY DashFacts
        <5>. QED BY <5>1, <5>2, DashboardAssumption
      <4>2. CASE v \notin FirstLoads
        BY <1>5, <4>2, DashFacts DEF DashTick
      <4>. QED BY <4>1, <4>2
    <3>2. viewer' = [v \in Viewers |-> viewer'[v]]
      BY <1>5 DEF DashTick
    <3>. QED BY <3>1, <3>2 DEF FirstLoads
  <2>2. FirstLoads' = FirstLoads /\ Stale' = Stale
    BY <2>1 DEF FirstLoads, Stale
  <2>3. ASSUME NEW g \in Refreshers
        PROVE  /\ refresher'[g] \in 0..CacheTTL
               /\ g \in InFlight' <=> g \in InFlight
               /\ g \in InFlight => refresher'[g] <= RefreshLimit
    <3>1. refresher[g] \in 0..CacheTTL
      BY DashFacts
    <3>2. CASE g \in InFlight
      <4>1. refresher'[g] = refresher[g] + 1 /\ refresher[g] < RefreshLimit
        BY <1>5, <3>2 DEF DashTick
      <4>2. refresher'[g] \in 0..CacheTTL /\ refresher'[g] <= RefreshLimit /\ refresher'[g] # CacheTTL
        BY <3>1, <4>1, DashboardAssumption
      <4>. QED BY <3>2, <4>2 DEF InFlight, Off
    <3>3. CASE g \notin InFlight
      <4>1. refresher'[g] = CacheTTL
        BY <1>5, <3>3 DEF DashTick, Off
      <4>. QED BY <3>3, <4>1, DashboardAssumption DEF InFlight, Off
    <3>. QED BY <3>2, <3>3
  <2>4. refresher' \in [Refreshers -> 0..CacheTTL] /\ InFlight' = InFlight
    <3>1. refresher' = [g \in Refreshers |-> refresher'[g]]
      BY <1>5 DEF DashTick
    <3>. QED BY <2>3, <3>1 DEF InFlight
  <2>5. CASE ~Cached
    <3>1. snapshot' = snapshot /\ ~Cached'
      BY <1>5, <2>5 DEF DashTick, Cached
    <3>. QED BY <2>1, <2>2, <2>3, <2>4, <2>5, <3>1 DEF DashInv, DashTypeOK, OneRefresh, FlagCleared
  <2>6. CASE Cached
    <3>1. /\ snapshot' \in Snapshots /\ snapshot'.refreshing = snapshot.refreshing
          /\ snapshot'.age <= snapshot.age + 1
      <4>1. snapshot \in Snapshots
        BY <2>6, DashFacts
      <4>2. \/ snapshot' = snapshot
            \/ snapshot.age < CacheTTL /\ snapshot' = [snapshot EXCEPT !.age = @ + 1]
        BY <1>5 DEF DashTick
      <4>3. CASE snapshot' = snapshot
        BY <4>1, <4>3, DashboardAssumption DEF Snapshots
      <4>4. CASE snapshot.age < CacheTTL /\ snapshot' = [snapshot EXCEPT !.age = @ + 1]
        BY <4>1, <4>4, DashboardAssumption DEF Snapshots
      <4>. QED BY <4>2, <4>3, <4>4
    <3>2. Cached'
      BY <3>1, SnapshotIs DEF Cached
    <3>3. ASSUME NEW v \in FirstLoads PROVE snapshot'.age <= viewer'[v].age
      <4>1. snapshot.age <= viewer[v].age /\ viewer[v].age \in Nat /\ snapshot.age \in Nat /\ snapshot'.age \in Nat
        BY <2>6, <3>1, DashFacts DEF DashInv, Snapshots, FirstLoads
      <4>. QED BY <2>1, <3>1, <4>1
    <3>4. DashTypeOK'
      BY <2>1, <2>4, <3>1 DEF DashTypeOK, Snapshots
    <3>5. OneRefresh' /\ FlagCleared'
      BY <2>4, <2>6, <3>1 DEF DashInv, OneRefresh, FlagCleared
    <3>6. \A g \in InFlight : refresher'[g] <= RefreshLimit
      BY <2>3 DEF InFlight
    <3>. QED BY <2>2, <2>4, <3>2, <3>3, <3>4, <3>5, <3>6 DEF DashInv
  <2>. QED BY <2>5, <2>6
<1>6. CASE UNCHANGED dashVars
  BY <1>6 DEF dashVars, DashInv, DashTypeOK, Cached, InFlight, Stale, FirstLoads, OneRefresh, FlagCleared
<1>. QED BY <1>1, <1>2, <1>3, <1>4, <1>5, <1>6 DEF DashNext

\* A dashboard that shows data does not go blank by a failed refresh.
LEMMA GoodStays ==
  ASSUME DashInv, [DashNext]_dashVars, FirstLoads = {}, Cached, ~snapshot.blank
  PROVE  ~snapshot'.blank
<1>1. snapshot \in Snapshots
  BY DashFacts
<1>2. ASSUME NEW v \in Viewers, NEW b \in BOOLEAN, storeConsole(v, b) PROVE FALSE
  BY <1>2 DEF storeConsole, FirstLoads
<1>3. ASSUME NEW g \in Refreshers, NEW b \in BOOLEAN, Refreshed(g, b) PROVE ~snapshot'.blank
  BY <1>1, <1>3 DEF Refreshed, Snapshots
<1>4. ASSUME NEW v \in Viewers, NEW g \in Refreshers, refreshConsoleAsync(v, g) PROVE ~snapshot'.blank
  BY <1>1, <1>4 DEF refreshConsoleAsync, Snapshots
<1>5. ASSUME DashTick PROVE ~snapshot'.blank
  BY <1>1, <1>5 DEF DashTick, Snapshots
<1>. QED BY <1>2, <1>3, <1>4, <1>5 DEF DashNext, handleConsoleData, dashVars

\* However requests and refreshes interleave, at most one refresh is in flight, the
\* flag says whether one is, and failed queries do not blank a dashboard that shows
\* data once the first requests are done (console.go, refreshConsoleAsync).
THEOREM DashboardStaysKept == Spec => DashboardKept
<1>1. Init => DashInv
  BY DashInitInv DEF Init
<1>2. DashInv /\ [Next]_consoleVars => DashInv'
  BY DashNextInv, PartSteps
<1>3. DashInv => OneRefresh /\ FlagCleared
  BY DEF DashInv
<1>4. DashInv /\ [Next]_consoleVars =>
        [FirstLoads = {} /\ Cached /\ ~snapshot.blank => ~snapshot'.blank]_dashVars
  BY GoodStays, PartSteps
<1>. QED BY <1>1, <1>2, <1>3, <1>4, PTL DEF Spec, DashboardKept

-----------------------------------------------------------------------------
(* Logins and tenants.  A request that goes on to its transaction holds the row *)
(* it compared with its form; a tenant's profile names a login that is there.   *)

Ids == [user : Nat, isp : Tenants \cup {0}, role : {"director", "isp", "analyst"}]
UserReq == [op : Ops \cup {"own"}, by : Ids, user : Nat, seen : Row, old : Row, read : BOOLEAN]
NewReq == [op : {"create"}, isp : Tenants]
IspReq == [op : {"isp", "delisp"}, isp : Tenants, version : Nat, read : BOOLEAN, hash : BOOLEAN]
IspRow == [enabled : BOOLEAN, admin : 0..MaxUsers, version : Nat]

TablesOK ==
  /\ users \in [DOMAIN users -> Row] /\ DOMAIN users \subseteq 1..used.ids
  /\ used \in [ids : 3..MaxUsers, choices : Nat]
  /\ isps \in [DOMAIN isps -> IspRow] /\ DOMAIN isps \subseteq Tenants
FormRead(r) == r.seen = r.old /\ r.user # r.by.user /\ canManageUser(r.by, r.old)
ReqsOK ==
  /\ req \in [Requests -> {Idle} \cup UserReq \cup NewReq \cup IspReq]
  /\ \A q \in Requests : req[q].op \in Ops /\ req[q].read => FormRead(req[q])
AccInv == TablesOK /\ ReqsOK /\ ProfileLogin

LoginsStay == \A i \in DOMAIN isps : i \in DOMAIN isps' /\ Logins(i) # {} => Logins(i)' # {}

\* A set of numbers has a least one.
LEMMA LeastExists ==
  ASSUME NEW S \in SUBSET Nat, S # {} PROVE \E m \in S : \A k \in S : m <= k
<1>1. PICK m \in S : \A y \in S : ~(<<y, m>> \in OpToRel(<, Nat))
  BY NatLessThanWellFounded, WFMin
<1>2. \A y \in S : ~(y < m)
  BY <1>1 DEF OpToRel
<1>. QED BY <1>2

LEMMA AccInitInv == AccInit => AccInv
<1>. SUFFICES ASSUME AccInit PROVE AccInv
  OBVIOUS
<1>1. DOMAIN users = 1..3 /\ users \in [1..3 -> Row] /\ used.ids = 3
  BY DEF AccInit, Row, Tenants
<1>2. TablesOK
  BY <1>1, AccountsAssumption DEF AccInit, TablesOK, IspRow
<1>3. ReqsOK
  BY DEF AccInit, ReqsOK, Idle, Ops
<1>4. ProfileLogin
  BY DEF AccInit, ProfileLogin
<1>. QED BY <1>2, <1>3, <1>4 DEF AccInv

\* What a request is, by its operation.
LEMMA ReqKinds ==
  ASSUME AccInv, NEW q \in Requests
  PROVE  /\ req[q].op \in Ops \cup {"own"} => req[q] \in UserReq
         /\ req[q].op = "create" => req[q] \in NewReq
         /\ req[q].op \in {"isp", "delisp"} => req[q] \in IspReq
<1>1. req[q] \in {Idle} \cup UserReq \cup NewReq \cup IspReq
  BY DEF AccInv, ReqsOK
<1>. QED BY <1>1 DEF Idle, UserReq, NewReq, IspReq, Ops

\* A request that comes, goes on or ends.
LEMMA ReqStep ==
  ASSUME AccInv, NEW q \in Requests, NEW r \in {Idle} \cup UserReq \cup NewReq \cup IspReq,
         req' = [req EXCEPT ![q] = r], r.op \in Ops /\ r.read => FormRead(r)
  PROVE  ReqsOK'
<1>1. req' \in [Requests -> {Idle} \cup UserReq \cup NewReq \cup IspReq]
  BY DEF AccInv, ReqsOK
<1>2. \A p \in Requests : req'[p] = IF p = q THEN r ELSE req[p]
  BY DEF AccInv, ReqsOK
<1>3. \A p \in Requests : req'[p].op \in Ops /\ req'[p].read => FormRead(req'[p])
  BY <1>2 DEF AccInv, ReqsOK
<1>. QED BY <1>1, <1>3 DEF ReqsOK

LEMMA ReqEnds ==
  ASSUME AccInv, NEW q \in Requests, req' = [req EXCEPT ![q] = Idle] PROVE ReqsOK'
BY ReqStep DEF Idle, Ops

\* The tenant's primary login is one of its logins, if it has any.
LEMMA PrimaryThere ==
  ASSUME AccInv, NEW i \in DOMAIN isps
  PROVE  /\ Logins(i) # {} => primary(i) \in Logins(i)
         /\ primary(i) # 0 => primary(i) \in Logins(i)
         /\ isps[i].admin # 0 => primary(i) = isps[i].admin
<1>1. Logins(i) \subseteq Nat
  BY DEF AccInv, TablesOK, Logins
<1>2. ASSUME Logins(i) # {} PROVE Oldest(i) \in Logins(i)
  <2>1. \E u \in Logins(i) : \A v \in Logins(i) : u <= v
    BY <1>1, <1>2, LeastExists
  <2>. QED BY <1>2, <2>1 DEF Oldest
<1>3. isps[i].admin # 0 => isps[i].admin \in Logins(i)
  BY DEF AccInv, ProfileLogin
<1>. QED BY <1>2, <1>3 DEF primary

\* Steps that leave the tables alone.
LEMMA TablesFrame ==
  ASSUME AccInv, UNCHANGED <<users, isps, used>>, ReqsOK' PROVE AccInv' /\ LoginsStay
BY DEF AccInv, TablesOK, ProfileLogin, Logins, LoginsStay

LEMMA IdentityType ==
  ASSUME AccInv, NEW a \in DOMAIN users PROVE Identity(a) \in Ids /\ users[a] \in Row /\ a \in Nat
<1>1. users[a] \in Row /\ a \in Nat
  BY DEF AccInv, TablesOK
<1>. QED BY <1>1 DEF Identity, Ids, Row

LEMMA AccReads ==
  ASSUME AccInv, NEW q \in Requests,
         \/ \E a \in DOMAIN users, u \in DOMAIN users, op \in Ops : apiGetUser(q, a, op, u)
         \/ \E a \in DOMAIN users : apiChangeOwnPassword(q, a)
         \/ \E a \in DOMAIN users, i \in Tenants : apiCreateUser(q, a, i)
         \/ ownedUser(q)
         \/ \E op \in {"isp", "delisp"}, i \in DOMAIN isps : apiGetISP(q, op, i)
         \/ \E hash \in BOOLEAN : ispSave(q, hash)
  PROVE  AccInv' /\ LoginsStay
<1>1. UNCHANGED <<users, isps, used>>
  BY DEF apiGetUser, apiChangeOwnPassword, apiCreateUser, ownedUser, apiGetISP, ispSave
<1>2. SUFFICES ReqsOK'
  BY <1>1, TablesFrame
<1>3. ASSUME NEW a \in DOMAIN users, NEW u \in DOMAIN users, NEW op \in Ops, apiGetUser(q, a, op, u) PROVE ReqsOK'
  <2>. DEFINE r == [op |-> op, by |-> Identity(a), user |-> u,
                    seen |-> userVersion(users[u]), old |-> users[u], read |-> FALSE]
  <2>1. r \in UserReq /\ r.read = FALSE
    BY IdentityType DEF UserReq, userVersion
  <2>2. req' = [req EXCEPT ![q] = r]
    BY <1>3 DEF apiGetUser
  <2>. HIDE DEF r
  <2>. QED BY <2>1, <2>2, ReqStep
<1>4. ASSUME NEW a \in DOMAIN users, apiChangeOwnPassword(q, a) PROVE ReqsOK'
  <2>. DEFINE r == [op |-> "own", by |-> Identity(a), user |-> a,
                    seen |-> userVersion(users[a]), old |-> users[a], read |-> TRUE]
  <2>1. r \in UserReq /\ r.op \notin Ops
    BY IdentityType DEF UserReq, userVersion, Ops
  <2>2. req' = [req EXCEPT ![q] = r]
    BY <1>4 DEF apiChangeOwnPassword
  <2>. HIDE DEF r
  <2>. QED BY <2>1, <2>2, ReqStep
<1>5. ASSUME NEW a \in DOMAIN users, NEW i \in Tenants, apiCreateUser(q, a, i) PROVE ReqsOK'
  <2>. DEFINE r == [op |-> "create", isp |-> i]
  <2>1. r \in NewReq /\ r.op \notin Ops
    BY DEF NewReq, Ops
  <2>2. req' = [req EXCEPT ![q] = r]
    BY <1>5 DEF apiCreateUser
  <2>. HIDE DEF r
  <2>. QED BY <2>1, <2>2, ReqStep
<1>6. ASSUME ownedUser(q) PROVE ReqsOK'
  <2>1. req[q] \in UserReq /\ req[q].op \in Ops
    BY <1>6, ReqKinds DEF ownedUser
  <2>2. CASE Acceptable(req[q])
    <3>. DEFINE r == [req[q] EXCEPT !.old = users[req[q].user], !.read = TRUE]
    <3>1. users[req[q].user] \in Row
      BY <2>2, IdentityType DEF Acceptable
    <3>2. /\ r \in UserReq /\ r.seen = req[q].seen /\ r.old = users[req[q].user]
          /\ r.user = req[q].user /\ r.by = req[q].by
      BY <2>1, <3>1 DEF UserReq
    <3>3. FormRead(r)
      BY <2>2, <3>2 DEF Acceptable, formCurrent, userVersion, FormRead
    <3>4. req' = [req EXCEPT ![q] = r]
      BY <1>6, <2>2 DEF ownedUser
    <3>. HIDE DEF r
    <3>. QED BY <3>2, <3>3, <3>4, ReqStep
  <2>3. CASE ~Acceptable(req[q])
    BY <1>6, <2>3, ReqEnds DEF ownedUser
  <2>. QED BY <2>2, <2>3
<1>7. ASSUME NEW op \in {"isp", "delisp"}, NEW i \in DOMAIN isps, apiGetISP(q, op, i) PROVE ReqsOK'
  <2>. DEFINE r == [op |-> op, isp |-> i, version |-> isps[i].version, read |-> FALSE, hash |-> FALSE]
  <2>1. isps[i] \in IspRow /\ i \in Tenants
    BY DEF AccInv, TablesOK
  <2>2. r \in IspReq /\ r.op \notin Ops
    BY <2>1 DEF IspReq, IspRow, Ops
  <2>3. req' = [req EXCEPT ![q] = r]
    BY <1>7 DEF apiGetISP
  <2>. HIDE DEF r
  <2>. QED BY <2>2, <2>3, ReqStep
<1>8. ASSUME NEW hash \in BOOLEAN, ispSave(q, hash) PROVE ReqsOK'
  <2>. DEFINE r == [req[q] EXCEPT !.read = TRUE, !.hash = hash]
  <2>1. req[q] \in IspReq
    BY <1>8, ReqKinds DEF ispSave
  <2>2. r \in IspReq /\ r.op \notin Ops
    BY <2>1 DEF IspReq, Ops
  <2>3. req' = [req EXCEPT ![q] = r] \/ req' = [req EXCEPT ![q] = Idle]
    BY <1>8 DEF ispSave
  <2>. HIDE DEF r
  <2>. QED BY <2>2, <2>3, ReqStep, ReqEnds
<1>. QED BY <1>3, <1>4, <1>5, <1>6, <1>7, <1>8

\* A row that keeps its tenant and role leaves the logins as they are.
LEMMA SameLogins ==
  ASSUME DOMAIN users' = DOMAIN users,
         \A u \in DOMAIN users : users'[u].isp = users[u].isp /\ users'[u].role = users[u].role
  PROVE  \A i : Logins(i)' = Logins(i)
BY DEF Logins

LEMMA EditRow ==
  ASSUME AccInv, NEW u \in DOMAIN users, NEW row \in Row, users' = [users EXCEPT ![u] = row],
         row.isp = users[u].isp, row.role = users[u].role
  PROVE  /\ users' \in [DOMAIN users' -> Row] /\ DOMAIN users' = DOMAIN users
         /\ \A i : Logins(i)' = Logins(i)
<1>1. users \in [DOMAIN users -> Row]
  BY DEF AccInv, TablesOK
<1>2. users' \in [DOMAIN users -> Row] /\ DOMAIN users' = DOMAIN users
  BY <1>1
<1>3. \A v \in DOMAIN users : users'[v].isp = users[v].isp /\ users'[v].role = users[v].role
  BY <1>1
<1>. QED BY <1>2, <1>3, SameLogins

LEMMA CountersType ==
  ASSUME AccInv PROVE used.ids \in 3..MaxUsers /\ used.choices \in Nat /\ Fresh \in Nat /\ used \in [ids : 3..MaxUsers, choices : Nat]
BY DEF AccInv, TablesOK, Fresh

LEMMA ChooseType ==
  ASSUME AccInv, Choose(1) PROVE used' \in [ids : 3..MaxUsers, choices : Nat] /\ used'.ids = used.ids
BY CountersType DEF Choose

LEMMA SaveUserStep ==
  ASSUME AccInv, NEW q \in Requests, SaveUser(q) PROVE AccInv' /\ LoginsStay
<1>1. ReqsOK'
  BY ReqEnds DEF SaveUser
<1>2. isps' = isps /\ req[q] \in UserReq /\ req[q].op \in Ops \cup {"own"}
  BY ReqKinds DEF SaveUser
<1>3. PICK u : u = req[q].user
  OBVIOUS
<1>4. CASE UNCHANGED <<users, used>>
  BY <1>1, <1>2, <1>4, TablesFrame
<1>5. CASE /\ u \in DOMAIN users /\ req[q].op = "delete" /\ ~Refused(u) /\ users' = Without(users, u) /\ used' = used
  <2>1. /\ DOMAIN users' = DOMAIN users \ {u} /\ users' \in [DOMAIN users' -> Row]
        /\ \A v \in DOMAIN users' : users'[v] = users[v]
    BY <1>5 DEF Without, AccInv, TablesOK
  <2>2. TablesOK'
    BY <1>2, <1>5, <2>1 DEF AccInv, TablesOK
  <2>3. \A i : Logins(i)' = Logins(i) \ {u}
    BY <2>1 DEF Logins
  <2>4. ASSUME NEW i \in DOMAIN isps, u \in Logins(i) PROVE primary(i) # u
    BY <1>5, <2>4 DEF Refused, IsPrimary, Logins
  <2>5. ProfileLogin'
    <3>. SUFFICES ASSUME NEW i \in DOMAIN isps, isps[i].admin # 0 PROVE isps[i].admin \in Logins(i) \ {u}
      BY <1>2, <2>3 DEF ProfileLogin
    <3>1. isps[i].admin \in Logins(i) /\ primary(i) = isps[i].admin
      BY PrimaryThere DEF AccInv, ProfileLogin
    <3>. QED BY <2>4, <3>1
  <2>6. LoginsStay
    <3>. SUFFICES ASSUME NEW i \in DOMAIN isps, Logins(i) # {} PROVE Logins(i) \ {u} # {}
      BY <2>3 DEF LoginsStay
    <3>1. primary(i) \in Logins(i)
      BY PrimaryThere
    <3>. QED BY <2>4, <3>1
  <2>. QED BY <1>1, <2>2, <2>5, <2>6 DEF AccInv
<1>6. ASSUME u \in DOMAIN users, NEW row \in Row, users' = [users EXCEPT ![u] = row], Choose(1),
             row.isp = users[u].isp, row.role = users[u].role
      PROVE  AccInv' /\ LoginsStay
  <2>1. /\ users' \in [DOMAIN users' -> Row] /\ DOMAIN users' = DOMAIN users
        /\ \A i : Logins(i)' = Logins(i)
    BY <1>6, EditRow
  <2>2. TablesOK'
    BY <1>2, <1>6, <2>1, ChooseType DEF AccInv, TablesOK
  <2>. QED BY <1>1, <1>2, <2>1, <2>2 DEF AccInv, ProfileLogin, LoginsStay
<1>7. CASE ~UNCHANGED <<users, used>>
  <2>1. u \in DOMAIN users /\ users[u] = req[q].old /\ ~(req[q].op = "delete" /\ Refused(u))
    BY <1>3, <1>7 DEF SaveUser
  <2>2. req[q].old \in Row /\ Fresh \in Nat
    BY <1>2, CountersType DEF UserReq
  <2>3. CASE req[q].op = "delete"
    <3>1. users' = Without(users, u) /\ used' = used
      BY <1>3, <1>7, <2>1, <2>3 DEF SaveUser
    <3>. QED BY <1>5, <2>1, <2>3, <3>1
  <2>4. CASE req[q].op \in {"reset", "own"}
    <3>. DEFINE row == [req[q].old EXCEPT !.pw = Fresh]
    <3>1. Choose(1) /\ users' = [users EXCEPT ![u] = row]
      BY <1>3, <1>7, <2>1, <2>4 DEF SaveUser
    <3>2. row \in Row /\ row.isp = users[u].isp /\ row.role = users[u].role
      BY <2>1, <2>2 DEF Row
    <3>. HIDE DEF row
    <3>. QED BY <1>6, <2>1, <3>1, <3>2
  <2>5. CASE req[q].op = "edit"
    <3>1. PICK p \in {req[q].old.pw, Fresh} :
            Choose(1) /\ users' = [users EXCEPT ![u] = [req[q].old EXCEPT !.email = Fresh, !.pw = p]]
      BY <1>3, <1>7, <2>1, <2>5 DEF SaveUser
    <3>. DEFINE row == [req[q].old EXCEPT !.email = Fresh, !.pw = p]
    <3>2. row \in Row /\ row.isp = users[u].isp /\ row.role = users[u].role
      BY <2>1, <2>2 DEF Row
    <3>3. users' = [users EXCEPT ![u] = row]
      BY <3>1
    <3>. HIDE DEF row
    <3>. QED BY <1>6, <2>1, <3>1, <3>2, <3>3
  <2>. QED BY <1>2, <2>3, <2>4, <2>5 DEF Ops
<1>. QED BY <1>4, <1>7

LEMMA NewUserStep ==
  ASSUME AccInv, NEW row \in Row, NewUser(row)
  PROVE  /\ users' \in [DOMAIN users' -> Row] /\ DOMAIN users' \subseteq 1..used'.ids
         /\ used' \in [ids : 3..MaxUsers, choices : Nat]
         /\ \A i : Logins(i) \subseteq Logins(i)'
         /\ \A i : i = row.isp /\ row.role = "isp" => used.ids + 1 \in Logins(i)'
<1>1. /\ used.ids < MaxUsers /\ used' = [ids |-> used.ids + 1, choices |-> Fresh]
      /\ users' = [u \in DOMAIN users \cup {used.ids + 1} |-> IF u \in DOMAIN users THEN users[u] ELSE row]
  BY DEF NewUser
<1>2. /\ used.ids \in 3..MaxUsers /\ Fresh \in Nat /\ users \in [DOMAIN users -> Row]
      /\ DOMAIN users \subseteq 1..used.ids
  BY CountersType DEF AccInv, TablesOK
<1>3. used' \in [ids : 3..MaxUsers, choices : Nat] /\ used'.ids = used.ids + 1
  BY <1>1, <1>2, AccountsAssumption
<1>4. used.ids + 1 \notin DOMAIN users
  BY <1>2
<1>5. DOMAIN users' = DOMAIN users \cup {used.ids + 1} /\ users' \in [DOMAIN users' -> Row]
  BY <1>1, <1>2
<1>6. DOMAIN users' \subseteq 1..used'.ids
  BY <1>2, <1>3, <1>5, AccountsAssumption
<1>7. users'[used.ids + 1] = row /\ \A u \in DOMAIN users : users'[u] = users[u]
  BY <1>1, <1>4
<1>8. \A i : Logins(i) \subseteq Logins(i)'
  BY <1>5, <1>7 DEF Logins
<1>9. ASSUME row.role = "isp", NEW i, i = row.isp PROVE used.ids + 1 \in Logins(i)'
  <2>1. PICK n : n = used.ids + 1
    OBVIOUS
  <2>2. n \in DOMAIN users' /\ users'[n] = row
    BY <1>5, <1>7, <2>1
  <2>3. n \in Logins(i)'
    BY <1>9, <2>2 DEF Logins
  <2>. QED BY <2>1, <2>3
<1>. QED BY <1>3, <1>5, <1>6, <1>8, <1>9

LEMMA CreateUserStep ==
  ASSUME AccInv, NEW q \in Requests, NEW role \in {"isp", "analyst"}, CreateUser(q, role)
  PROVE  AccInv' /\ LoginsStay
<1>. DEFINE row == [isp |-> req[q].isp, role |-> role, email |-> Fresh, pw |-> Fresh]
<1>1. req[q] \in NewReq /\ isps' = isps /\ NewUser(row) /\ ReqsOK'
  BY ReqKinds, ReqEnds DEF CreateUser
<1>2. row \in Row
  BY <1>1, CountersType DEF Row, NewReq
<1>. HIDE DEF row
<1>3. TablesOK' /\ \A i : Logins(i) \subseteq Logins(i)'
  BY <1>1, <1>2, NewUserStep DEF TablesOK, AccInv
<1>. QED BY <1>1, <1>3 DEF AccInv, ProfileLogin, LoginsStay

LEMMA SaveISPStep ==
  ASSUME AccInv, NEW q \in Requests, NEW on \in BOOLEAN, SaveISPAccount(q, on)
  PROVE  AccInv' /\ LoginsStay
<1>1. ReqsOK' /\ req[q] \in IspReq
  BY ReqKinds, ReqEnds DEF SaveISPAccount
<1>2. PICK i : i = req[q].isp
  OBVIOUS
<1>3. CASE UNCHANGED <<users, isps, used>>
  BY <1>1, <1>3, TablesFrame
<1>4. ASSUME NEW admin \in 1..MaxUsers, i \in DOMAIN isps,
             isps' = [isps EXCEPT ![i] = [enabled |-> on, admin |-> admin, version |-> req[q].version + 1]],
             users' \in [DOMAIN users' -> Row], DOMAIN users' \subseteq 1..used'.ids,
             used' \in [ids : 3..MaxUsers, choices : Nat],
             \A j : Logins(j) \subseteq Logins(j)', admin \in Logins(i)'
      PROVE  AccInv' /\ LoginsStay
  <2>1. isps \in [DOMAIN isps -> IspRow] /\ DOMAIN isps \subseteq Tenants /\ req[q].version + 1 \in Nat
    BY <1>1 DEF AccInv, TablesOK, IspReq
  <2>2. [enabled |-> on, admin |-> admin, version |-> req[q].version + 1] \in IspRow
    BY <2>1, AccountsAssumption DEF IspRow
  <2>3. /\ isps' \in [DOMAIN isps' -> IspRow] /\ DOMAIN isps' = DOMAIN isps /\ isps'[i].admin = admin
        /\ \A j \in DOMAIN isps \ {i} : isps'[j] = isps[j]
    BY <1>4, <2>1, <2>2
  <2>4. TablesOK'
    BY <1>4, <2>1, <2>3 DEF TablesOK
  <2>5. ProfileLogin'
    BY <1>4, <2>3 DEF ProfileLogin, AccInv
  <2>6. LoginsStay
    BY <1>4 DEF LoginsStay
  <2>. QED BY <1>1, <2>4, <2>5, <2>6 DEF AccInv
<1>5. CASE ~UNCHANGED <<users, isps, used>>
  <2>1. i \in DOMAIN isps
    BY <1>2, <1>5 DEF SaveISPAccount
  <2>2. CASE primary(i) = 0
    <3>. DEFINE row == [isp |-> i, role |-> "isp", email |-> Fresh, pw |-> Fresh]
    <3>1. /\ NewUser(row)
          /\ isps' = [isps EXCEPT ![i] = [enabled |-> on, admin |-> used.ids + 1, version |-> req[q].version + 1]]
      BY <1>2, <1>5, <2>1, <2>2 DEF SaveISPAccount
    <3>2. row \in Row /\ row.isp = i /\ row.role = "isp"
      BY <2>1, CountersType DEF Row, AccInv, TablesOK
    <3>. HIDE DEF row
    <3>3. used.ids + 1 \in 1..MaxUsers
      BY <3>1, CountersType, AccountsAssumption DEF NewUser
    <3>4. /\ users' \in [DOMAIN users' -> Row] /\ DOMAIN users' \subseteq 1..used'.ids
          /\ used' \in [ids : 3..MaxUsers, choices : Nat]
          /\ \A j : Logins(j) \subseteq Logins(j)'
      BY <3>1, <3>2, NewUserStep
    <3>5. used.ids + 1 \in Logins(i)'
      BY <3>1, <3>2, NewUserStep
    <3>. QED BY <1>4, <2>1, <3>1, <3>3, <3>4, <3>5
  <2>3. CASE primary(i) # 0
    <3>1. PICK p : p = primary(i)
      OBVIOUS
    <3>2. p \in Logins(i) /\ p \in DOMAIN users /\ p \in 1..MaxUsers /\ users[p] \in Row
      <4>1. p \in Logins(i)
        BY <2>1, <2>3, <3>1, PrimaryThere
      <4>. QED BY <4>1, CountersType, AccountsAssumption DEF Logins, AccInv, TablesOK
    <3>3. /\ Choose(1)
          /\ isps' = [isps EXCEPT ![i] = [enabled |-> on, admin |-> p, version |-> req[q].version + 1]]
          /\ users' = [users EXCEPT ![p].email = Fresh, ![p].pw = IF req[q].hash THEN Fresh ELSE @]
      BY <1>2, <1>5, <2>1, <2>3, <3>1 DEF SaveISPAccount
    <3>4. PICK row : row = [users[p] EXCEPT !.email = Fresh, !.pw = IF req[q].hash THEN Fresh ELSE @]
      OBVIOUS
    <3>5. row \in Row /\ row.isp = users[p].isp /\ row.role = users[p].role
      BY <3>2, <3>4, CountersType DEF Row
    <3>6. users' = [users EXCEPT ![p] = row]
      BY <3>2, <3>3, <3>4 DEF AccInv, TablesOK
    <3>7. /\ users' \in [DOMAIN users' -> Row] /\ DOMAIN users' = DOMAIN users
          /\ \A j : Logins(j)' = Logins(j)
      BY <3>2, <3>5, <3>6, EditRow
    <3>8. DOMAIN users' \subseteq 1..used'.ids /\ used' \in [ids : 3..MaxUsers, choices : Nat]
      BY <3>3, <3>7, ChooseType DEF AccInv, TablesOK
    <3>. QED BY <1>4, <2>1, <3>2, <3>3, <3>7, <3>8
  <2>. QED BY <2>2, <2>3
<1>. QED BY <1>3, <1>5

LEMMA DeleteISPStep ==
  ASSUME AccInv, NEW q \in Requests, DeleteISPAccount(q) PROVE AccInv' /\ LoginsStay
<1>1. ReqsOK' /\ used' = used
  BY ReqEnds DEF DeleteISPAccount
<1>2. PICK i : i = req[q].isp
  OBVIOUS
<1>3. CASE UNCHANGED <<users, isps>>
  BY <1>1, <1>3, TablesFrame
<1>4. CASE ~UNCHANGED <<users, isps>>
  <2>1. /\ users' = [u \in DOMAIN users \ Logins(i) |-> users[u]]
        /\ isps' = [j \in DOMAIN isps \ {i} |-> isps[j]]
    BY <1>2, <1>4 DEF DeleteISPAccount, Without
  <2>2. TablesOK'
    BY <1>1, <2>1 DEF AccInv, TablesOK
  <2>3. ASSUME NEW j \in DOMAIN isps \ {i} PROVE Logins(j)' = Logins(j)
    BY <2>1 DEF Logins
  <2>4. ProfileLogin' /\ LoginsStay
    BY <2>1, <2>3 DEF AccInv, ProfileLogin, LoginsStay
  <2>. QED BY <1>1, <2>2, <2>4 DEF AccInv
<1>. QED BY <1>3, <1>4

LEMMA ToggleStep ==
  ASSUME AccInv, NEW i \in DOMAIN isps, NEW on \in BOOLEAN, SetISPEnabled(i, on) PROVE AccInv' /\ LoginsStay
<1>1. /\ users' = users /\ req' = req /\ Choose(1)
      /\ isps' = [isps EXCEPT ![i].enabled = on, ![i].version = IF isps[i].admin = 0 THEN @ ELSE @ + 1]
  BY DEF SetISPEnabled
<1>2. isps \in [DOMAIN isps -> IspRow]
  BY DEF AccInv, TablesOK
<1>3. /\ isps' \in [DOMAIN isps -> IspRow] /\ DOMAIN isps' = DOMAIN isps
      /\ \A j \in DOMAIN isps : isps'[j].admin = isps[j].admin
  BY <1>1, <1>2 DEF IspRow
<1>4. \A j : Logins(j)' = Logins(j)
  BY <1>1 DEF Logins
<1>5. TablesOK'
  BY <1>1, <1>3, ChooseType DEF AccInv, TablesOK
<1>6. ReqsOK'
  BY <1>1 DEF AccInv, ReqsOK
<1>. QED BY <1>3, <1>4, <1>5, <1>6 DEF AccInv, ProfileLogin, LoginsStay

LEMMA AccNextInv ==
  ASSUME AccInv, [AccNext]_accVars PROVE AccInv' /\ LoginsStay
<1>1. CASE UNCHANGED accVars
  <2>1. UNCHANGED <<users, isps, used>> /\ ReqsOK'
    BY <1>1 DEF accVars, AccInv, ReqsOK
  <2>. QED BY <2>1, TablesFrame
<1>. QED BY <1>1, AccReads, SaveUserStep, CreateUserStep, SaveISPStep, DeleteISPStep, ToggleStep DEF AccNext

\* What a form overwrites is what its author saw.
LEMMA FormsChecked ==
  ASSUME AccInv, NEW q \in Requests, SaveUser(q), req[q].op \in Ops, users' # users
  PROVE  /\ userVersion(users[req[q].user]) = req[q].seen
         /\ req[q].user # req[q].by.user
         /\ req[q].by.role = "director" \/ users[req[q].user].isp = req[q].by.isp
<1>1. users[req[q].user] = req[q].old /\ req[q].read
  BY DEF SaveUser
<1>2. FormRead(req[q])
  BY <1>1 DEF AccInv, ReqsOK
<1>. QED BY <1>1, <1>2 DEF FormRead, userVersion, canManageUser

\* However requests about logins and tenants interleave, a form overwrites or deletes
\* exactly what its author saw, never another tenant's login nor the author's own, a
\* profile names a login that exists, and a tenant that has a login keeps one (users.go,
\* store/user_edit.go, store/isp_accounts.go).
THEOREM AccountsStaySafe == Spec => AccountsSafe
<1>1. Init => AccInv
  BY AccInitInv DEF Init
<1>2. AccInv /\ [Next]_consoleVars => AccInv'
  BY AccNextInv, PartSteps
<1>3. AccInv => ProfileLogin
  BY DEF AccInv
<1>4. AccInv /\ [Next]_consoleVars =>
        [\A i \in DOMAIN isps : i \in DOMAIN isps' /\ Logins(i) # {} => Logins(i)' # {}]_accVars
  BY AccNextInv, PartSteps DEF LoginsStay
<1>5. AccInv /\ [Next]_consoleVars =>
        [\A q \in Requests :
           LET r == req[q] IN
           SaveUser(q) /\ r.op \in Ops /\ users' # users =>
             /\ userVersion(users[r.user]) = r.seen
             /\ r.user # r.by.user
             /\ r.by.role = "director" \/ users[r.user].isp = r.by.isp]_accVars
  BY FormsChecked
<1>. QED BY <1>1, <1>2, <1>3, <1>4, <1>5, PTL DEF Spec, AccountsSafe, EditsChecked, LoginKept

-----------------------------------------------------------------------------
(* Exports.  A kept row's rank never falls: rows arrive above or below it, and  *)
(* the sweep drops only rows below it.  So the pages read so far hold every     *)
(* kept row of a smaller rank than the offset, and a short page is the last.    *)

ExpJobs == [status : {"queued", "running", "complete", "failed"}, step : {"create", "page", "sync", "log", "end"},
            offset : Nat, rows : SUBSET Instants, path : BOOLEAN, cut : BOOLEAN]
ExpTypes ==
  /\ kept \subseteq hot /\ hot \subseteq arrived /\ arrived \subseteq Instants
  /\ files \subseteq Nat /\ begins \in Nat /\ export \in {NoJob} \cup ExpJobs
ExpStep ==
  /\ export.status = "queued" => export.step = "create" /\ export.offset = 0
  /\ export.status = "running" => export.step \in {"page", "sync", "log"} /\ begins \in files
  /\ export.status = "complete" => export.path /\ begins \in files
  /\ export.status = "failed" => begins \notin files
  /\ export.status = "running" /\ export.step = "log" => export.path
Passed == \A r \in kept : Rank(r) < export.offset => r \in export.rows
Whole == kept \subseteq export.rows \/ export.cut
ExpInv ==
  /\ ExpTypes /\ ExpStep
  /\ export.status = "running" /\ export.step = "page" => Passed
  /\ export.status = "running" /\ export.step \in {"sync", "log"} => Whole
  /\ export.status = "complete" => Whole

Above(r) == {x \in hot : x > r}

LEMMA HotFinite ==
  ASSUME ExpTypes
  PROVE  /\ IsFiniteSet(hot) /\ hot \subseteq Nat
         /\ \A s \in SUBSET hot : IsFiniteSet(s) /\ Cardinality(s) \in Nat
<1>1. IsFiniteSet(Instants) /\ Instants \subseteq Nat /\ hot \subseteq Instants
  BY ExportsAssumption DEF ExpTypes
<1>2. IsFiniteSet(hot)
  BY <1>1, FS_Subset
<1>3. ASSUME NEW s \in SUBSET hot PROVE IsFiniteSet(s) /\ Cardinality(s) \in Nat
  <2>1. IsFiniteSet(s)
    BY <1>2, FS_Subset
  <2>. QED BY <2>1, FS_CardinalityType
<1>. QED BY <1>1, <1>2, <1>3

LEMMA RankFalls ==
  ASSUME ExpTypes, NEW x \in hot, NEW y \in hot, y > x
  PROVE  Rank(x) \in Nat /\ Rank(y) \in Nat /\ Rank(y) < Rank(x)
<1>1. /\ Above(y) \in SUBSET Above(x) /\ y \in Above(x) /\ y \notin Above(y) /\ Above(x) \in SUBSET hot
      /\ Above(y) \in SUBSET hot
  BY HotFinite DEF Above
<1>2. Cardinality(Above(y)) <= Cardinality(Above(x)) /\ Cardinality(Above(x)) # Cardinality(Above(y))
  BY <1>1, HotFinite, FS_Subset
<1>. QED BY <1>1, <1>2, HotFinite DEF Rank, Above

LEMMA RankType ==
  ASSUME ExpTypes, NEW x PROVE Rank(x) \in Nat
<1>1. {y \in hot : y > x} \in SUBSET hot
  OBVIOUS
<1>. QED BY <1>1, HotFinite DEF Rank

\* Fewer rows than o come before the o-th.
LEMMA FewBefore ==
  ASSUME ExpTypes, NEW o \in Nat
  PROVE  Cardinality({x \in hot : Rank(x) < o}) <= o
<1>. DEFINE L == {x \in hot : Rank(x) < o}
<1>1. L \subseteq hot /\ L \subseteq Nat /\ IsFiniteSet(L) /\ Cardinality(L) \in Nat
  BY HotFinite
<1>2. CASE L = {}
  BY <1>2, FS_EmptySet
<1>3. CASE L # {}
  <2>1. PICK m \in L : \A k \in L : m <= k
    BY <1>1, <1>3, LeastExists
  <2>2. L \ {m} \in SUBSET Above(m) /\ Above(m) \in SUBSET hot
    BY <1>1, <2>1 DEF Above
  <2>3. Cardinality(L \ {m}) <= Cardinality(Above(m))
    BY <2>2, HotFinite, FS_Subset
  <2>4. Cardinality(L \ {m}) = Cardinality(L) - 1
    BY <1>1, <2>1, FS_RemoveElement
  <2>5. Cardinality(Above(m)) < o /\ Cardinality(Above(m)) \in Nat
    BY <2>1, <2>2, HotFinite DEF Rank, Above
  <2>. QED BY <1>1, <2>3, <2>4, <2>5
<1>. QED BY <1>2, <1>3

\* Nothing comes after a page that is not full.
LEMMA ShortPageIsLast ==
  ASSUME ExpTypes, NEW o \in Nat, Cardinality(Search(o)) < PageSize, NEW r \in hot
  PROVE  Rank(r) < o + PageSize
<1>. SUFFICES ASSUME ~(Rank(r) < o + PageSize) PROVE FALSE
  OBVIOUS
<1>. DEFINE U == {x \in hot : ~(Rank(x) < o + PageSize)}
            R == {Rank(x) : x \in U}
            L == {x \in hot : Rank(x) < o}
<1>1. PageSize \in Nat /\ o + PageSize \in Nat
  BY ExportsAssumption
<1>2. R \subseteq Nat /\ R # {}
  BY RankType
<1>3. PICK n \in R : \A k \in R : n <= k
  BY <1>2, LeastExists
<1>4. PICK u \in U : n = Rank(u)
  BY <1>3
<1>5. ASSUME NEW y \in Above(u) PROVE Rank(y) < o + PageSize
  <2>1. y \in hot /\ y > u /\ u \in hot
    BY <1>4, <1>5 DEF Above
  <2>2. Rank(y) < Rank(u) /\ Rank(y) \in Nat /\ Rank(u) \in Nat
    BY <2>1, RankFalls
  <2>3. y \notin U
    BY <1>3, <1>4, <2>2
  <2>. QED BY <2>1, <2>3
<1>6. Above(u) \in SUBSET (L \cup Search(o)) /\ L \in SUBSET hot /\ Search(o) \in SUBSET hot /\ Above(u) \in SUBSET hot
  <2>1. ASSUME NEW y \in Above(u) PROVE y \in L \cup Search(o)
    <3>1. y \in hot /\ Rank(y) \in Nat /\ Rank(y) < o + PageSize
      BY <1>5, <2>1, RankType DEF Above
    <3>. QED BY <3>1 DEF Search
  <2>. QED BY <2>1 DEF Above, Search
<1>7. /\ IsFiniteSet(L) /\ IsFiniteSet(Search(o)) /\ IsFiniteSet(L \cup Search(o))
      /\ Cardinality(L) \in Nat /\ Cardinality(Search(o)) \in Nat /\ Cardinality(L \cup Search(o)) \in Nat
      /\ Cardinality(L \cap Search(o)) \in Nat /\ Cardinality(Above(u)) \in Nat
  BY <1>6, HotFinite
<1>8. Cardinality(L \cup Search(o)) = Cardinality(L) + Cardinality(Search(o)) - Cardinality(L \cap Search(o))
  BY <1>7, FS_Union
<1>9. Cardinality(Above(u)) <= Cardinality(L \cup Search(o))
  BY <1>6, <1>7, FS_Subset
<1>10. Cardinality(L) <= o
  BY FewBefore
<1>11. Cardinality(Above(u)) >= o + PageSize
  <2>1. Cardinality(Above(u)) = Rank(u)
    BY DEF Above, Rank
  <2>. QED BY <1>1, <1>4, <1>7, <2>1
<1>. HIDE DEF L
<1>. QED BY <1>1, <1>7, <1>8, <1>9, <1>10, <1>11

LEMMA ExpInitInv == ExpInit => ExpInv
BY DEF ExpInit, ExpInv, ExpTypes, ExpStep, NoJob

LEMMA JobKind ==
  ASSUME ExpInv, export.status # "none" PROVE export \in ExpJobs
BY DEF ExpInv, ExpTypes, NoJob

\* The job's steps.
LEMMA ExpJobSteps ==
  ASSUME ExpInv, handleExportCreate \/ CreateTemp \/ SyncFile \/ CompleteExport \/ FailExport \/ ForgetExports
  PROVE  ExpInv'
<1>1. hot' = hot /\ arrived' = arrived /\ (kept' = kept \/ kept' = hot)
  BY DEF handleExportCreate, CreateTemp, SyncFile, CompleteExport, FailExport, ForgetExports
<1>2. CASE handleExportCreate
  <2>1. export' \in ExpJobs /\ export'.status = "queued" /\ export'.step = "create" /\ export'.offset = 0
    BY <1>2 DEF handleExportCreate, ExpJobs
  <2>2. ExpTypes'
    BY <1>1, <1>2, <2>1 DEF handleExportCreate, ExpInv, ExpTypes
  <2>. QED BY <2>1, <2>2 DEF ExpInv, ExpStep
<1>3. CASE CreateTemp
  <2>1. export \in ExpJobs /\ export.step = "create" /\ begins' = begins /\ files' = files \cup {begins} /\ kept' = kept
        /\ export.status = "queued"
    BY <1>3, JobKind DEF CreateTemp, Running, ExpInv, ExpStep
  <2>2. export' \in ExpJobs /\ export'.status = "running" /\ export'.step = "page" /\ export'.offset = export.offset
    BY <1>3, <2>1 DEF CreateTemp, ExpJobs
  <2>3. ExpTypes'
    BY <1>1, <2>1, <2>2 DEF ExpInv, ExpTypes
  <2>4. ExpStep'
    BY <2>1, <2>2 DEF ExpStep
  <2>5. Passed'
    <3>1. export'.offset = 0
      BY <2>1, <2>2 DEF ExpInv, ExpStep
    <3>2. \A r \in kept' : Rank(r)' \in Nat
      <4>1. \A r : Rank(r)' = Rank(r)
        BY <1>1 DEF Rank
      <4>. QED BY <4>1, RankType DEF ExpInv
    <3>. QED BY <3>1, <3>2 DEF Passed
  <2>. QED BY <2>2, <2>3, <2>4, <2>5 DEF ExpInv
<1>4. CASE SyncFile
  <2>1. /\ export \in ExpJobs /\ export.step = "sync" /\ export.status = "running" /\ UNCHANGED <<files, begins, kept>>
    BY <1>4, JobKind DEF SyncFile, Running, ExpInv, ExpStep
  <2>2. /\ export' \in ExpJobs /\ export'.status = "running" /\ export'.step = "log" /\ export'.path = TRUE
        /\ export'.rows = export.rows /\ export'.cut = export.cut
    BY <1>4, <2>1 DEF SyncFile, ExpJobs
  <2>3. ExpTypes'
    BY <1>1, <2>1, <2>2 DEF ExpInv, ExpTypes
  <2>. QED BY <2>1, <2>2, <2>3 DEF ExpInv, ExpStep, Whole
<1>5. CASE CompleteExport
  <2>1. /\ export \in ExpJobs /\ export.step = "log" /\ export.status = "running" /\ UNCHANGED <<files, begins, kept>>
    BY <1>5, JobKind DEF CompleteExport, Running, ExpInv, ExpStep
  <2>2. /\ export' \in ExpJobs /\ export'.status = "complete" /\ export'.path = export.path
        /\ export'.rows = export.rows /\ export'.cut = export.cut
    BY <1>5, <2>1 DEF CompleteExport, ExpJobs
  <2>3. ExpTypes'
    BY <1>1, <2>1, <2>2 DEF ExpInv, ExpTypes
  <2>. QED BY <2>1, <2>2, <2>3 DEF ExpInv, ExpStep, Whole
<1>6. CASE FailExport
  <2>1. export \in ExpJobs /\ begins' = begins /\ files' = files \ {begins} /\ kept' = kept
    BY <1>6, JobKind DEF FailExport, Running
  <2>2. export' \in ExpJobs /\ export'.status = "failed"
    BY <1>6, <2>1 DEF FailExport, ExpJobs
  <2>3. ExpTypes'
    BY <1>1, <2>1, <2>2 DEF ExpInv, ExpTypes
  <2>. QED BY <2>1, <2>2, <2>3 DEF ExpInv, ExpStep
<1>7. CASE ForgetExports
  <2>1. export' = NoJob /\ export'.status = "none"
    BY <1>7 DEF ForgetExports, NoJob
  <2>2. ExpTypes'
    BY <1>1, <1>7, <2>1 DEF ForgetExports, ExpInv, ExpTypes
  <2>. QED BY <2>1, <2>2 DEF ExpInv, ExpStep
<1>. QED BY <1>2, <1>3, <1>4, <1>5, <1>6, <1>7

\* One turn of the loop.
LEMMA ExpPageStep ==
  ASSUME ExpInv, ExportPage PROVE ExpInv'
<1>1. /\ export \in ExpJobs /\ export.step = "page" /\ export.status = "running"
      /\ UNCHANGED <<hot, arrived, files, kept, begins>>
  BY JobKind DEF ExportPage, Running, ExpInv, ExpStep
<1>2. PICK o : o = export.offset
  OBVIOUS
<1>3. /\ o \in Nat /\ PageSize \in Nat /\ ExpTypes /\ Passed /\ kept \subseteq hot
  BY <1>1, <1>2, ExportsAssumption DEF ExpInv, ExpJobs, ExpTypes
<1>4. PICK full \in BOOLEAN : full <=> Cardinality(Search(o)) >= PageSize
  OBVIOUS
<1>5. PICK more \in BOOLEAN : more <=> full /\ o + PageSize < MaxOffset
  OBVIOUS
<1>6. PICK page : page = Search(o)
  OBVIOUS
<1>7. /\ export' \in ExpJobs /\ export'.status = "running" /\ export'.rows = export.rows \cup Search(o)
      /\ export'.offset = o + PageSize /\ export'.step = (IF more THEN "page" ELSE "sync")
      /\ export'.cut = (full /\ ~more)
  <2>1. page \subseteq Instants /\ o + PageSize \in Nat
    BY <1>3, <1>6 DEF Search, ExpTypes
  <2>2. export' = [export EXCEPT !.rows = @ \cup page, !.offset = @ + PageSize,
                                 !.step = IF more THEN "page" ELSE "sync", !.cut = full /\ ~more]
    BY <1>2, <1>4, <1>5, <1>6 DEF ExportPage
  <2>3. /\ export'.status = "running" /\ export'.rows = export.rows \cup page
        /\ export'.offset = o + PageSize /\ export'.step = (IF more THEN "page" ELSE "sync")
        /\ export'.cut = (full /\ ~more)
    BY <1>1, <1>2, <2>2 DEF ExpJobs
  <2>4. export' \in ExpJobs
    BY <1>1, <1>2, <2>1, <2>2 DEF ExpJobs
  <2>. QED BY <1>6, <2>3, <2>4
<1>8. ExpTypes' /\ ExpStep'
  BY <1>1, <1>7 DEF ExpInv, ExpTypes, ExpStep
<1>9. ASSUME NEW r \in kept, Rank(r) < o + PageSize PROVE r \in export'.rows
  <2>1. Rank(r) \in Nat /\ r \in hot
    BY <1>3, <1>9, RankType
  <2>2. CASE Rank(r) < o
    BY <1>2, <1>3, <1>7, <1>9, <2>2 DEF Passed
  <2>3. CASE ~(Rank(r) < o)
    BY <1>3, <1>7, <1>9, <2>1, <2>3 DEF Search
  <2>. QED BY <2>2, <2>3
<1>10. CASE more
  <2>1. Passed'
    <3>1. \A r : Rank(r)' = Rank(r)
      BY <1>1 DEF Rank
    <3>. QED BY <1>1, <1>7, <1>9, <3>1 DEF Passed
  <2>. QED BY <1>7, <1>8, <1>10, <2>1 DEF ExpInv
<1>11. CASE ~more
  <2>1. Whole'
    <3>1. CASE full
      BY <1>7, <1>11, <3>1 DEF Whole
    <3>2. CASE ~full
      <4>1. Search(o) \in SUBSET hot
        BY DEF Search
      <4>2. Cardinality(Search(o)) < PageSize
        <5>1. Cardinality(Search(o)) \in Nat
          BY <1>3, <4>1, HotFinite
        <5>. QED BY <1>3, <1>4, <3>2, <5>1
      <4>3. \A r \in kept : Rank(r) < o + PageSize
        BY <1>3, <4>2, ShortPageIsLast
      <4>. QED BY <1>1, <1>9, <4>3 DEF Whole
    <3>. QED BY <3>1, <3>2
  <2>. QED BY <1>7, <1>8, <1>11, <2>1 DEF ExpInv
<1>. QED BY <1>10, <1>11

\* The table meanwhile: no kept row comes nearer to the top.
LEMMA ExpTableSteps ==
  ASSUME ExpInv, (\E r \in Instants : ArriveRow(r)) \/ (\E t \in Instants : DropOldest(t)) PROVE ExpInv'
<1>1. /\ UNCHANGED <<export, files, begins>> /\ kept' \subseteq kept /\ kept' \subseteq hot'
      /\ hot' \subseteq arrived' /\ arrived' \subseteq Instants
  BY DEF ArriveRow, DropOldest, ExpInv, ExpTypes
<1>2. ExpTypes' /\ ExpStep'
  BY <1>1 DEF ExpInv, ExpTypes, ExpStep
<1>3. ASSUME NEW r \in kept' PROVE Rank(r) <= Rank(r)'
  <2>1. {x \in hot : x > r} \subseteq {x \in hot' : x > r}
    <3>1. ASSUME NEW n \in Instants, ArriveRow(n) PROVE hot \subseteq hot'
      BY <3>1 DEF ArriveRow
    <3>2. ASSUME NEW t \in Instants, DropOldest(t), NEW x \in hot, x > r PROVE x \in hot'
      <4>1. r >= t /\ r \in Nat /\ t \in Nat /\ x \in Nat
        BY <1>1, <1>3, <3>2, ExportsAssumption, HotFinite DEF DropOldest, ExpInv, ExpTypes
      <4>. QED BY <3>2, <4>1 DEF DropOldest
    <3>. QED BY <3>1, <3>2
  <2>2. IsFiniteSet(hot')
    BY <1>1, ExportsAssumption, FS_Subset
  <2>3. IsFiniteSet({x \in hot' : x > r})
    BY <2>2, FS_Subset
  <2>. QED BY <2>1, <2>3, FS_Subset DEF Rank
<1>4. ASSUME NEW r \in kept' PROVE Rank(r) \in Nat /\ Rank(r)' \in Nat
  <2>1. IsFiniteSet(hot')
    BY <1>1, ExportsAssumption, FS_Subset
  <2>2. IsFiniteSet({x \in hot' : x > r})
    BY <2>1, FS_Subset
  <2>3. Rank(r)' \in Nat
    BY <2>2, FS_CardinalityType DEF Rank
  <2>. QED BY <2>3, RankType DEF ExpInv
<1>5. export.offset \in Nat /\ Passed => Passed'
  BY <1>1, <1>3, <1>4 DEF Passed
<1>6. Whole => Whole'
  BY <1>1 DEF Whole
<1>7. export.status = "running" => export.offset \in Nat
  BY JobKind DEF ExpJobs
<1>. QED BY <1>1, <1>2, <1>5, <1>6, <1>7 DEF ExpInv

LEMMA ExpNextInv ==
  ASSUME ExpInv, [ExpNext]_expVars PROVE ExpInv'
<1>1. CASE UNCHANGED expVars
  BY <1>1 DEF expVars, ExpInv, ExpTypes, ExpStep, Passed, Whole, Rank
<1>. QED BY <1>1, ExpJobSteps, ExpPageStep, ExpTableSteps DEF ExpNext

\* A complete export holds every matching row that was there from its start to its last
\* page, unless the range of offsets ended first, though rows arrive and the sweep drops
\* days between its pages; it has its file, and a failed one has none (export_jobs.go).
THEOREM ExportsAreWhole == Spec => []ExportWhole
<1>1. Init => ExpInv
  BY ExpInitInv DEF Init
<1>2. ExpInv /\ [Next]_consoleVars => ExpInv'
  BY ExpNextInv, PartSteps
<1>3. ExpInv => ExportWhole
  BY DEF ExpInv, ExpStep, Whole, ExportWhole
<1>. QED BY <1>1, <1>2, <1>3, PTL DEF Spec

-----------------------------------------------------------------------------
(* The runtime settings.  A save that the dataplane has not seen is still to be *)
(* stored or applied (Behind), or the holder of applyMu has read it; through    *)
(* the gateway the one save under way of a section is the holder of its mutex.  *)

Notes == "notifications"
Values == [form : 0..MaxForms, secret : 0..MaxForms]
Versions == (0..MaxForms) \X (Values \cup [Connectors -> Values])
Bases == Values \cup [Sections -> Values] \cup [Connectors -> Values]
PutReq == [step : {"form", "decoded", "persist", "apply", "push", "crm", "crmsaved"}, section : Sections,
           form : 0..MaxForms, secret : 0..MaxForms, seen : Versions, base : Bases]
Holding == {"push", "crm", "crmsaved"}

SetTypes ==
  /\ memory \in [Sections -> Values] /\ table \in [Sections -> Values] /\ mishap \subseteq Sections
  /\ applied \in [Applied -> Values] /\ acked \in [Connectors -> Values]
  /\ put \in [Puts -> {NoPut} \cup PutReq] /\ direct \in BOOLEAN /\ forms \in 0..MaxForms
BaseOK(p) ==
  /\ put[p].step \in {"persist", "apply", "push"} => put[p].section = Notes
  /\ put[p].step = "persist" => put[p].base \in Values
  /\ put[p].step = "push" => put[p].base \in [Sections -> Values]
  /\ put[p].step \in {"crm", "crmsaved"} => put[p].base \in [Connectors -> Values] /\ put[p].section \in Connectors
LockOK(p) ==
  /\ put[p].step \in Holding <=> applyMu = p
  /\ ~direct /\ put[p].step \notin {"none", "form"} => settingsGate = p \/ put[p].section \in mishap
  /\ settingsGate = p => put[p].step \notin {"none", "form"}
Behind == \E p \in Puts : put[p].step \in {"persist", "apply"}
AppliedOK ==
  Notes \notin mishap /\ ~Behind =>
    /\ \A p \in Puts : put[p].step = "push" => put[p].base[Notes] = memory[Notes]
    /\ (\A p \in Puts : put[p].step # "push") => applied[Notes] = memory[Notes]
ConnOK(c) ==
  /\ c \notin mishap => /\ memory[c] = acked[c]
                        /\ (\A p \in Puts : put[p].step # "crmsaved") => table[c] = memory[c]
  /\ \A p \in Puts : put[p].step \in {"crm", "crmsaved"} /\ put[p].section # c => put[p].base[c] = memory[c]
  /\ \A p \in Puts : put[p].step = "crmsaved" => table[c] = put[p].base[c]
StoredOK ==
  ~direct /\ Notes \notin mishap =>
    /\ \A p \in Puts : put[p].step = "persist" => put[p].base = memory[Notes]
    /\ (\A p \in Puts : put[p].step # "persist") => table[Notes] = memory[Notes]
SetInv ==
  /\ SetTypes /\ AppliedOK /\ StoredOK
  /\ applyMu \in Puts \cup {0} /\ settingsGate \in Puts \cup {0}
  /\ \A p \in Puts : BaseOK(p) /\ LockOK(p)
  /\ \A c \in Connectors : ConnOK(c)

LEMMA SectionFacts ==
  /\ Notes \in Sections /\ Notes \notin Connectors /\ Applied = {Notes} /\ Connectors \subseteq Sections
  /\ \A s \in Sections : s \in Connectors \/ s = Notes
BY DEF Notes, Sections, Connectors, Applied

LEMMA SetInitInv == SetInit => SetInv
<1>. SUFFICES ASSUME SetInit PROVE SetInv
  OBVIOUS
<1>1. Default \in Values
  BY SettingsAssumption DEF Default, Values
<1>2. SetTypes
  BY <1>1, SettingsAssumption DEF SetInit, SetTypes
<1>3. \A p \in Puts : put[p].step = "none" /\ p # 0
  BY SettingsAssumption DEF SetInit, NoPut
<1>4. \A p \in Puts : BaseOK(p) /\ LockOK(p)
  BY <1>3 DEF SetInit, BaseOK, LockOK, Holding
<1>5. \A s \in Sections : memory[s] = Default /\ table[s] = Default
  BY DEF SetInit
<1>6. applied[Notes] = Default /\ \A c \in Connectors : acked[c] = Default
  BY SectionFacts DEF SetInit
<1>. QED BY <1>2, <1>3, <1>4, <1>5, <1>6, SectionFacts DEF SetInit, SetInv, AppliedOK, StoredOK, ConnOK

\* One request changes, the others stay.
LEMMA PutStep ==
  ASSUME SetTypes, NEW p \in Puts, NEW r \in {NoPut} \cup PutReq, put' = [put EXCEPT ![p] = r]
  PROVE  /\ put' \in [Puts -> {NoPut} \cup PutReq] /\ put'[p] = r
         /\ \A o \in Puts : o # p => put'[o] = put[o]
BY DEF SetTypes

LEMMA Going ==
  ASSUME SetInv, NEW p \in Puts, put[p].step # "none" PROVE put[p] \in PutReq /\ put[p].section \in Sections /\ p # 0
<1>1. put[p] \in {NoPut} \cup PutReq
  BY DEF SetInv, SetTypes
<1>. QED BY <1>1, SettingsAssumption DEF NoPut, PutReq

LEMMA VersionType ==
  ASSUME SetInv, NEW s \in Sections PROVE settingsVersion(s) \in Versions /\ memory[s] \in Values
<1>1. memory[s] \in Values /\ table[s] \in Values /\ memory[s].form \in 0..MaxForms
  BY DEF SetInv, SetTypes, Values
<1>2. [c \in Connectors |-> table[c]] \in [Connectors -> Values]
  BY SectionFacts DEF SetInv, SetTypes
<1>. QED BY <1>1, <1>2 DEF settingsVersion, Versions

LEMMA MergedType ==
  ASSUME SetInv, NEW r \in PutReq PROVE Merged(r) \in Values
<1>1. memory[r.section] \in Values /\ r.form \in 0..MaxForms /\ r.secret \in 0..MaxForms
  BY DEF SetInv, SetTypes, PutReq
<1>2. sanitize(r.section, r.form) \in 0..MaxForms
  BY <1>1, SettingsAssumption DEF sanitize
<1>. QED BY <1>1, <1>2 DEF Merged, Values

\* The operator's form, and the gateway.
LEMMA FormSteps ==
  ASSUME SetInv, NEW p \in Puts,
         \/ \E s \in Sections, n \in BOOLEAN : OpenForm(p, s, n)
         \/ checkRuntimeSettings(p)
  PROVE  SetInv'
<1>1. UNCHANGED <<memory, table, applied, applyMu, direct, mishap, acked>>
  BY DEF OpenForm, checkRuntimeSettings
<1>2. PICK r \in {NoPut} \cup PutReq :
        /\ put' = [put EXCEPT ![p] = r] /\ r.step \in {"none", "form", "decoded"}
        /\ put[p].step \in {"none", "form"}
        /\ ~direct /\ r.step = "decoded" => settingsGate' = p
        /\ settingsGate' = p => r.step = "decoded"
        /\ settingsGate' = settingsGate \/ (settingsGate = 0 /\ settingsGate' = p)
        /\ forms' \in 0..MaxForms
  <2>1. ASSUME NEW s \in Sections, NEW n \in BOOLEAN, OpenForm(p, s, n)
        PROVE  \E r \in {NoPut} \cup PutReq :
                 /\ put' = [put EXCEPT ![p] = r] /\ r.step \in {"none", "form", "decoded"}
                 /\ put[p].step \in {"none", "form"}
                 /\ ~direct /\ r.step = "decoded" => settingsGate' = p
                 /\ settingsGate' = p => r.step = "decoded"
                 /\ settingsGate' = settingsGate \/ (settingsGate = 0 /\ settingsGate' = p)
                 /\ forms' \in 0..MaxForms
    <3>. DEFINE r == [step |-> IF direct THEN "decoded" ELSE "form", section |-> s, form |-> forms + 1,
                      secret |-> IF n THEN forms + 1 ELSE 0, seen |-> settingsVersion(s), base |-> memory[s]]
    <3>1. forms + 1 \in 0..MaxForms /\ 0 \in 0..MaxForms
      BY <2>1, SettingsAssumption DEF OpenForm, SetInv, SetTypes
    <3>2. r \in PutReq
      BY <3>1, VersionType DEF PutReq, Bases
    <3>3. put[p].step = "none" /\ settingsGate # p
      <4>1. put[p].step = "none"
        BY <2>1 DEF OpenForm, NoPut
      <4>. QED BY <4>1 DEF SetInv, LockOK
    <3>4. put' = [put EXCEPT ![p] = r] /\ settingsGate' = settingsGate /\ forms' = forms + 1
      BY <2>1 DEF OpenForm
    <3>5. r.step \in {"form", "decoded"} /\ (~direct => r.step = "form")
      OBVIOUS
    <3>. HIDE DEF r
    <3>. QED BY <3>1, <3>2, <3>3, <3>4, <3>5
  <2>2. ASSUME checkRuntimeSettings(p)
        PROVE  \E r \in {NoPut} \cup PutReq :
                 /\ put' = [put EXCEPT ![p] = r] /\ r.step \in {"none", "form", "decoded"}
                 /\ put[p].step \in {"none", "form"}
                 /\ ~direct /\ r.step = "decoded" => settingsGate' = p
                 /\ settingsGate' = p => r.step = "decoded"
                 /\ settingsGate' = settingsGate \/ (settingsGate = 0 /\ settingsGate' = p)
                 /\ forms' \in 0..MaxForms
    <3>. DEFINE r == [put[p] EXCEPT !.step = "decoded", !.base = memory[put[p].section]]
    <3>1. put[p].step = "form" /\ settingsGate = 0 /\ forms' = forms /\ forms \in 0..MaxForms
      BY <2>2 DEF checkRuntimeSettings, SetInv, SetTypes
    <3>2. put[p] \in PutReq /\ p # 0
      BY <3>1, Going
    <3>3. memory[put[p].section] \in Bases
      BY <3>2, VersionType DEF PutReq, Bases
    <3>4. r \in PutReq /\ r.step = "decoded"
      BY <3>2, <3>3 DEF PutReq
    <3>5. \/ put' = [put EXCEPT ![p] = r] /\ settingsGate' = p
          \/ put' = [put EXCEPT ![p] = NoPut] /\ settingsGate' = 0
      BY <2>2 DEF checkRuntimeSettings
    <3>. HIDE DEF r
    <3>. QED BY <3>1, <3>2, <3>4, <3>5 DEF NoPut
  <2>. QED BY <2>1, <2>2
<1>3. /\ put' \in [Puts -> {NoPut} \cup PutReq] /\ put'[p] = r
      /\ \A o \in Puts : o # p => put'[o] = put[o]
  BY <1>2, PutStep DEF SetInv
<1>4. SetTypes'
  BY <1>1, <1>2, <1>3 DEF SetInv, SetTypes
<1>5. Behind' = Behind /\ \A o \in Puts : put'[o].step \in {"persist", "apply", "push", "crm", "crmsaved"} => put'[o] = put[o]
  BY <1>2, <1>3 DEF Behind
<1>6. \A o \in Puts : put[o].step \in {"persist", "apply", "push", "crm", "crmsaved"} => put'[o] = put[o]
  BY <1>2, <1>3
<1>7. AppliedOK'
  BY <1>1, <1>5, <1>6 DEF SetInv, AppliedOK
<1>8. StoredOK'
  BY <1>1, <1>5, <1>6 DEF SetInv, StoredOK
<1>9. \A c \in Connectors : ConnOK(c)'
  BY <1>1, <1>5, <1>6 DEF SetInv, ConnOK
<1>10. \A o \in Puts : BaseOK(o)'
  BY <1>2, <1>3 DEF SetInv, BaseOK
<1>11. \A o \in Puts : LockOK(o)'
  BY <1>1, <1>2, <1>3, SettingsAssumption DEF SetInv, LockOK, Holding
<1>12. applyMu' \in Puts \cup {0} /\ settingsGate' \in Puts \cup {0}
  BY <1>1, <1>2 DEF SetInv
<1>. QED BY <1>4, <1>7, <1>8, <1>9, <1>10, <1>11, <1>12 DEF SetInv

LEMMA AbandonStep ==
  ASSUME SetInv, NEW p \in Puts, Abandon(p) PROVE SetInv'
<1>1. /\ UNCHANGED <<memory, table, applied, applyMu, put, direct, acked, forms>>
      /\ settingsGate = p /\ settingsGate' = 0 /\ mishap' = mishap \cup {put[p].section}
  BY DEF Abandon
<1>2. put[p].step # "none" /\ put[p].section \in Sections /\ p # 0
  BY <1>1, Going, SettingsAssumption DEF SetInv, LockOK
<1>3. SetTypes' /\ mishap \subseteq mishap'
  BY <1>1, <1>2 DEF SetInv, SetTypes
<1>4. AppliedOK' /\ StoredOK'
  BY <1>1, <1>3 DEF SetInv, AppliedOK, StoredOK, Behind
<1>5. \A c \in Connectors : ConnOK(c)'
  BY <1>1, <1>3 DEF SetInv, ConnOK
<1>6. \A o \in Puts : BaseOK(o)' /\ LockOK(o)'
  BY <1>1, <1>3, SettingsAssumption DEF SetInv, BaseOK, LockOK
<1>. QED BY <1>1, <1>3, <1>4, <1>5, <1>6 DEF SetInv

\* A request moves on to a step, with a base.
LEMMA MoveOn ==
  ASSUME SetInv, NEW p \in Puts, NEW step \in {"persist", "apply", "push", "crm", "crmsaved"}, NEW base \in Bases,
         put[p].step # "none", put' = [put EXCEPT ![p].step = step, ![p].base = base]
  PROVE  /\ put' \in [Puts -> {NoPut} \cup PutReq]
         /\ put'[p].step = step /\ put'[p].base = base /\ put'[p].section = put[p].section
         /\ \A o \in Puts : o # p => put'[o] = put[o]
<1>1. put[p] \in PutReq /\ put \in [Puts -> {NoPut} \cup PutReq]
  BY Going DEF SetInv, SetTypes
<1>2. PICK r : r = [put[p] EXCEPT !.step = step, !.base = base]
  OBVIOUS
<1>3. r \in PutReq /\ r.step = step /\ r.base = base /\ r.section = put[p].section
  BY <1>1, <1>2 DEF PutReq
<1>4. put' = [put EXCEPT ![p] = r]
  BY <1>1, <1>2
<1>. QED BY <1>3, <1>4, PutStep DEF SetInv

LEMMA GoSteps ==
  ASSUME SetInv, NEW p \in Puts, NEW step \in {"persist", "apply", "push", "crm", "crmsaved"},
         put[p].step # "none", Go(p, step)
  PROVE  /\ put' \in [Puts -> {NoPut} \cup PutReq] /\ settingsGate' = settingsGate
         /\ put'[p].step = step /\ put'[p].base = put[p].base /\ put'[p].section = put[p].section
         /\ \A o \in Puts : o # p => put'[o] = put[o]
<1>1. put[p] \in PutReq /\ put \in [Puts -> {NoPut} \cup PutReq]
  BY Going DEF SetInv, SetTypes
<1>2. PICK r : r = [put[p] EXCEPT !.step = step]
  OBVIOUS
<1>3. r \in PutReq /\ r.step = step /\ r.base = put[p].base /\ r.section = put[p].section
  BY <1>1, <1>2 DEF PutReq
<1>4. put' = [put EXCEPT ![p] = r] /\ settingsGate' = settingsGate
  BY <1>1, <1>2 DEF Go
<1>. QED BY <1>3, <1>4, PutStep DEF SetInv

LEMMA DoneSteps ==
  ASSUME SetInv, NEW p \in Puts, Done(p)
  PROVE  /\ put' \in [Puts -> {NoPut} \cup PutReq] /\ put'[p].step = "none"
         /\ \A o \in Puts : o # p => put'[o] = put[o]
         /\ settingsGate' \in Puts \cup {0} /\ settingsGate' # p
         /\ \A o \in Puts : o # p => (settingsGate' = o <=> settingsGate = o)
BY PutStep, SettingsAssumption DEF Done, Release, SetInv, NoPut

LEMMA SetMemoryStep ==
  ASSUME SetInv, NEW p \in Puts, SetMemory(p) PROVE SetInv'
<1>1. /\ UNCHANGED <<table, applied, applyMu, direct, settingsGate, mishap, acked, forms>>
      /\ put[p].step = "decoded" /\ put[p].section \notin Connectors
  BY DEF SetMemory, At
<1>2. put[p] \in PutReq /\ put[p].section = Notes /\ p # 0
  BY <1>1, Going, SectionFacts
<1>3. PICK v : v = Merged(put[p])
  OBVIOUS
<1>4. v \in Values /\ v \in Bases
  BY <1>2, <1>3, MergedType DEF Bases
<1>5. memory' = [memory EXCEPT ![Notes] = v] /\ put' = [put EXCEPT ![p].step = "persist", ![p].base = v]
  BY <1>2, <1>3 DEF SetMemory
<1>6. /\ put' \in [Puts -> {NoPut} \cup PutReq] /\ put'[p].step = "persist" /\ put'[p].base = v
      /\ put'[p].section = Notes /\ \A o \in Puts : o # p => put'[o] = put[o]
  BY <1>1, <1>2, <1>4, <1>5, MoveOn
<1>7. /\ memory' \in [Sections -> Values] /\ memory'[Notes] = v
      /\ \A c \in Connectors : memory'[c] = memory[c]
  BY <1>4, <1>5, SectionFacts DEF SetInv, SetTypes
<1>8. SetTypes'
  BY <1>1, <1>6, <1>7 DEF SetInv, SetTypes
<1>9. AppliedOK'
  BY <1>6 DEF AppliedOK, Behind
<1>10. StoredOK'
  <2>1. ASSUME ~direct, Notes \notin mishap, NEW o \in Puts, o # p PROVE put[o].step # "persist"
    BY <1>1, <1>2, <2>1 DEF SetInv, LockOK, BaseOK
  <2>. QED BY <1>1, <1>6, <1>7, <2>1 DEF StoredOK
<1>11. \A c \in Connectors : ConnOK(c)'
  <2>1. \A o \in Puts : put'[o].step \in {"crm", "crmsaved"} => put'[o] = put[o]
    BY <1>6
  <2>2. (\A o \in Puts : put'[o].step # "crmsaved") => (\A o \in Puts : put[o].step # "crmsaved")
    BY <1>1, <1>6
  <2>. QED BY <1>1, <1>7, <2>1, <2>2 DEF SetInv, ConnOK
<1>12. \A o \in Puts : BaseOK(o)'
  BY <1>4, <1>6 DEF SetInv, BaseOK
<1>13. \A o \in Puts : LockOK(o)'
  <2>1. LockOK(p)'
    BY <1>1, <1>2, <1>6 DEF SetInv, LockOK, Holding
  <2>2. \A o \in Puts : o # p => LockOK(o)'
    BY <1>1, <1>6 DEF SetInv, LockOK
  <2>. QED BY <2>1, <2>2
<1>. QED BY <1>1, <1>8, <1>9, <1>10, <1>11, <1>12, <1>13 DEF SetInv

LEMMA PutSettingStep ==
  ASSUME SetInv, NEW p \in Puts,
         PutSetting(p) \/ \E written \in BOOLEAN : PutSettingFails(p, written)
  PROVE  SetInv'
<1>1. /\ UNCHANGED <<memory, applied, applyMu, direct, acked, forms>>
      /\ put[p].step = "persist" /\ mishap \subseteq mishap'
  BY DEF PutSetting, PutSettingFails, At
<1>2. put[p] \in PutReq /\ put[p].section = Notes /\ p # 0 /\ put[p].base \in Values
  BY <1>1, Going DEF SetInv, BaseOK
<1>3. table' = table \/ table' = [table EXCEPT ![Notes] = put[p].base]
  BY <1>2 DEF PutSetting, PutSettingFails
<1>4. /\ table' \in [Sections -> Values] /\ \A c \in Connectors : table'[c] = table[c]
  BY <1>2, <1>3, SectionFacts DEF SetInv, SetTypes
<1>5. CASE PutSetting(p)
  <2>1. /\ put' \in [Puts -> {NoPut} \cup PutReq] /\ settingsGate' = settingsGate /\ mishap' = mishap
        /\ put'[p].step = "apply" /\ put'[p].section = Notes /\ \A o \in Puts : o # p => put'[o] = put[o]
        /\ table'[Notes] = put[p].base
    <3>1. table'[Notes] = put[p].base /\ mishap' = mishap /\ Go(p, "apply")
      BY <1>2, <1>5, SectionFacts DEF PutSetting, SetInv, SetTypes
    <3>. QED BY <1>1, <1>2, <3>1, GoSteps
  <2>2. SetTypes'
    BY <1>1, <1>4, <2>1 DEF SetInv, SetTypes
  <2>3. AppliedOK'
    BY <2>1 DEF AppliedOK, Behind
  <2>4. StoredOK'
    <3>1. ASSUME ~direct, Notes \notin mishap PROVE table'[Notes] = memory[Notes]
      BY <1>1, <2>1, <3>1 DEF SetInv, StoredOK
    <3>. QED BY <1>1, <2>1, <3>1 DEF SetInv, StoredOK
  <2>5. \A c \in Connectors : ConnOK(c)'
    <3>1. \A o \in Puts : put'[o].step \in {"crm", "crmsaved"} => put'[o] = put[o]
      BY <2>1
    <3>2. (\A o \in Puts : put'[o].step # "crmsaved") => (\A o \in Puts : put[o].step # "crmsaved")
      BY <1>1, <2>1
    <3>. QED BY <1>1, <1>4, <2>1, <3>1, <3>2 DEF SetInv, ConnOK
  <2>6. \A o \in Puts : BaseOK(o)'
    BY <2>1 DEF SetInv, BaseOK
  <2>7. \A o \in Puts : LockOK(o)'
    BY <1>1, <1>2, <2>1 DEF SetInv, LockOK, Holding
  <2>. QED BY <1>1, <2>1, <2>2, <2>3, <2>4, <2>5, <2>6, <2>7 DEF SetInv
<1>6. CASE \E written \in BOOLEAN : PutSettingFails(p, written)
  <2>1. Done(p) /\ mishap' = mishap \cup {Notes}
    BY <1>2, <1>6 DEF PutSettingFails
  <2>2. /\ put' \in [Puts -> {NoPut} \cup PutReq] /\ put'[p].step = "none"
        /\ \A o \in Puts : o # p => put'[o] = put[o]
        /\ settingsGate' \in Puts \cup {0} /\ settingsGate' # p
        /\ \A o \in Puts : o # p => (settingsGate' = o <=> settingsGate = o)
    BY <2>1, DoneSteps
  <2>3. SetTypes'
    BY <1>1, <1>4, <2>1, <2>2, SectionFacts DEF SetInv, SetTypes
  <2>4. AppliedOK' /\ StoredOK'
    BY <2>1 DEF AppliedOK, StoredOK
  <2>5. \A c \in Connectors : ConnOK(c)'
    <3>1. \A o \in Puts : put'[o].step \in {"crm", "crmsaved"} => put'[o] = put[o]
      BY <2>2
    <3>2. (\A o \in Puts : put'[o].step # "crmsaved") => (\A o \in Puts : put[o].step # "crmsaved")
      BY <1>1, <2>2
    <3>. QED BY <1>1, <1>4, <2>1, <3>1, <3>2, SectionFacts DEF SetInv, ConnOK
  <2>6. \A o \in Puts : BaseOK(o)'
    BY <2>2 DEF SetInv, BaseOK
  <2>7. \A o \in Puts : LockOK(o)'
    BY <1>1, <1>2, <2>2 DEF SetInv, LockOK, Holding
  <2>. QED BY <1>1, <2>2, <2>3, <2>4, <2>5, <2>6, <2>7 DEF SetInv
<1>. QED BY <1>5, <1>6

LEMMA ApplyStep ==
  ASSUME SetInv, NEW p \in Puts, Apply(p) PROVE SetInv'
<1>1. /\ UNCHANGED <<memory, table, applied, direct, settingsGate, mishap, acked, forms>>
      /\ put[p].step = "apply" /\ applyMu = 0 /\ applyMu' = p
      /\ put' = [put EXCEPT ![p].step = "push", ![p].base = memory]
  BY DEF Apply, At
<1>2. put[p].section = Notes /\ p # 0 /\ memory \in Bases /\ memory \in [Sections -> Values]
  BY <1>1, Going DEF SetInv, BaseOK, SetTypes, Bases
<1>3. /\ put' \in [Puts -> {NoPut} \cup PutReq] /\ put'[p].step = "push" /\ put'[p].base = memory
      /\ put'[p].section = Notes /\ \A o \in Puts : o # p => put'[o] = put[o]
  BY <1>1, <1>2, MoveOn
<1>4. \A o \in Puts : put[o].step \notin Holding
  BY <1>1, SettingsAssumption DEF SetInv, LockOK
<1>5. SetTypes'
  BY <1>1, <1>3 DEF SetInv, SetTypes
<1>6. AppliedOK'
  BY <1>1, <1>3, <1>4 DEF AppliedOK, Holding
<1>7. StoredOK'
  BY <1>1, <1>3 DEF SetInv, StoredOK
<1>8. \A c \in Connectors : ConnOK(c)'
  BY <1>1, <1>3, <1>4 DEF SetInv, ConnOK, Holding
<1>9. \A o \in Puts : BaseOK(o)'
  BY <1>2, <1>3 DEF SetInv, BaseOK
<1>10. \A o \in Puts : LockOK(o)'
  BY <1>1, <1>2, <1>3, <1>4 DEF SetInv, LockOK, Holding
<1>. QED BY <1>1, <1>5, <1>6, <1>7, <1>8, <1>9, <1>10 DEF SetInv

LEMMA ApplierStep ==
  ASSUME SetInv, NEW p \in Puts, Applier(p) PROVE SetInv'
<1>1. /\ UNCHANGED <<memory, table, direct, mishap, acked, forms>> /\ Done(p)
      /\ put[p].step = "push" /\ applyMu' = 0 /\ applied' = [s \in Applied |-> put[p].base[s]]
  BY DEF Applier, At
<1>2. put[p].section = Notes /\ p # 0 /\ put[p].base \in [Sections -> Values] /\ applyMu = p
  BY <1>1, Going DEF SetInv, BaseOK, LockOK, Holding
<1>3. /\ put' \in [Puts -> {NoPut} \cup PutReq] /\ put'[p].step = "none"
      /\ \A o \in Puts : o # p => put'[o] = put[o]
      /\ settingsGate' \in Puts \cup {0} /\ settingsGate' # p
      /\ \A o \in Puts : o # p => (settingsGate' = o <=> settingsGate = o)
  BY <1>1, DoneSteps
<1>4. \A o \in Puts : o # p => put[o].step \notin Holding
  BY <1>2 DEF SetInv, LockOK
<1>5. applied' \in [Applied -> Values] /\ applied'[Notes] = put[p].base[Notes]
  BY <1>1, <1>2, SectionFacts
<1>6. SetTypes'
  BY <1>1, <1>3, <1>5 DEF SetInv, SetTypes
<1>7. AppliedOK'
  <2>1. Behind' = Behind
    BY <1>1, <1>3 DEF Behind
  <2>2. ASSUME Notes \notin mishap, ~Behind PROVE applied'[Notes] = memory[Notes]
    BY <1>1, <1>5, <2>2 DEF SetInv, AppliedOK
  <2>. QED BY <1>1, <1>3, <1>4, <2>1, <2>2 DEF AppliedOK, Holding
<1>8. StoredOK'
  BY <1>1, <1>3 DEF SetInv, StoredOK
<1>9. \A c \in Connectors : ConnOK(c)'
  BY <1>1, <1>3, <1>4 DEF SetInv, ConnOK, Holding
<1>10. \A o \in Puts : BaseOK(o)'
  BY <1>3 DEF SetInv, BaseOK
<1>11. \A o \in Puts : LockOK(o)'
  BY <1>1, <1>2, <1>3, <1>4, SettingsAssumption DEF SetInv, LockOK, Holding
<1>. QED BY <1>1, <1>3, <1>6, <1>7, <1>8, <1>9, <1>10, <1>11 DEF SetInv

LEMMA MergeStep ==
  ASSUME SetInv, NEW p \in Puts, MergeConnector(p) PROVE SetInv'
<1>1. /\ UNCHANGED <<memory, table, applied, direct, settingsGate, mishap, acked, forms>>
      /\ put[p].step = "decoded" /\ put[p].section \in Connectors /\ applyMu = 0 /\ applyMu' = p
  BY DEF MergeConnector, At
<1>2. put[p] \in PutReq /\ p # 0
  BY <1>1, Going
<1>3. PICK b : b = [c \in Connectors |-> IF c = put[p].section THEN Merged(put[p]) ELSE memory[c]]
  OBVIOUS
<1>4. /\ b \in [Connectors -> Values] /\ b \in Bases
      /\ \A c \in Connectors : c # put[p].section => b[c] = memory[c]
  <2>1. Merged(put[p]) \in Values /\ \A c \in Connectors : memory[c] \in Values
    BY <1>2, MergedType, SectionFacts DEF SetInv, SetTypes
  <2>. QED BY <1>3, <2>1 DEF Bases
<1>5. put' = [put EXCEPT ![p].step = "crm", ![p].base = b]
  BY <1>3 DEF MergeConnector
<1>6. /\ put' \in [Puts -> {NoPut} \cup PutReq] /\ put'[p].step = "crm" /\ put'[p].base = b
      /\ put'[p].section = put[p].section /\ \A o \in Puts : o # p => put'[o] = put[o]
  BY <1>1, <1>4, <1>5, MoveOn
<1>7. \A o \in Puts : put[o].step \notin Holding
  BY <1>1, SettingsAssumption DEF SetInv, LockOK
<1>8. SetTypes'
  BY <1>1, <1>6 DEF SetInv, SetTypes
<1>9. AppliedOK'
  <2>1. Behind' = Behind
    BY <1>1, <1>6 DEF Behind
  <2>. QED BY <1>1, <1>6, <1>7, <2>1 DEF SetInv, AppliedOK, Holding
<1>10. StoredOK'
  BY <1>1, <1>6 DEF SetInv, StoredOK
<1>11. \A c \in Connectors : ConnOK(c)'
  BY <1>1, <1>4, <1>6, <1>7 DEF SetInv, ConnOK, Holding
<1>12. \A o \in Puts : BaseOK(o)'
  BY <1>1, <1>4, <1>6 DEF SetInv, BaseOK
<1>13. \A o \in Puts : LockOK(o)'
  BY <1>1, <1>2, <1>6, <1>7 DEF SetInv, LockOK, Holding
<1>. QED BY <1>1, <1>8, <1>9, <1>10, <1>11, <1>12, <1>13 DEF SetInv

LEMMA WithType ==
  ASSUME NEW f \in [Sections -> Values], NEW cs \in [Connectors -> Values]
  PROVE  /\ WithConnectors(f, cs) \in [Sections -> Values] /\ WithConnectors(f, cs)[Notes] = f[Notes]
         /\ \A c \in Connectors : WithConnectors(f, cs)[c] = cs[c]
BY SectionFacts DEF WithConnectors

LEMMA PutConnectorStep ==
  ASSUME SetInv, NEW p \in Puts,
         PutConnector(p) \/ \E written \in BOOLEAN : PutConnectorFails(p, written)
  PROVE  SetInv'
<1>1. /\ UNCHANGED <<memory, applied, direct, acked, forms>>
      /\ put[p].step = "crm" /\ mishap \subseteq mishap'
  BY DEF PutConnector, PutConnectorFails, At
<1>2. /\ p # 0 /\ put[p].base \in [Connectors -> Values] /\ applyMu = p /\ put[p].section \in Connectors
      /\ table \in [Sections -> Values]
  BY <1>1, Going DEF SetInv, BaseOK, LockOK, Holding, SetTypes
<1>3. table' = table \/ table' = WithConnectors(table, put[p].base)
  BY DEF PutConnector, PutConnectorFails
<1>4. table' \in [Sections -> Values] /\ table'[Notes] = table[Notes]
  BY <1>2, <1>3, WithType
<1>5. \A o \in Puts : o # p => put[o].step \notin Holding
  BY <1>2 DEF SetInv, LockOK
<1>6. CASE PutConnector(p)
  <2>1. /\ put' \in [Puts -> {NoPut} \cup PutReq] /\ settingsGate' = settingsGate /\ mishap' = mishap
        /\ put'[p].step = "crmsaved" /\ put'[p].base = put[p].base /\ put'[p].section = put[p].section
        /\ \A o \in Puts : o # p => put'[o] = put[o]
        /\ applyMu' = applyMu /\ \A c \in Connectors : table'[c] = put[p].base[c]
    <3>1. table' = WithConnectors(table, put[p].base) /\ mishap' = mishap /\ Go(p, "crmsaved") /\ applyMu' = applyMu
      BY <1>6 DEF PutConnector
    <3>2. \A c \in Connectors : table'[c] = put[p].base[c]
      BY <1>2, <3>1, WithType
    <3>. QED BY <1>1, <3>1, <3>2, GoSteps
  <2>2. SetTypes'
    BY <1>1, <1>4, <2>1 DEF SetInv, SetTypes
  <2>3. AppliedOK'
    <3>1. Behind' = Behind
      BY <1>1, <2>1 DEF Behind
    <3>. QED BY <1>1, <1>5, <2>1, <3>1 DEF SetInv, AppliedOK, Holding
  <2>4. StoredOK'
    BY <1>1, <1>4, <2>1 DEF SetInv, StoredOK
  <2>5. \A c \in Connectors : ConnOK(c)'
    BY <1>1, <1>5, <2>1 DEF SetInv, ConnOK, Holding
  <2>6. \A o \in Puts : BaseOK(o)'
    BY <1>2, <2>1 DEF SetInv, BaseOK
  <2>7. \A o \in Puts : LockOK(o)'
    BY <1>1, <1>2, <2>1 DEF SetInv, LockOK, Holding
  <2>. QED BY <1>1, <2>1, <2>2, <2>3, <2>4, <2>5, <2>6, <2>7 DEF SetInv
<1>7. CASE \E written \in BOOLEAN : PutConnectorFails(p, written)
  <2>1. Done(p) /\ mishap' = mishap \cup Connectors /\ applyMu' = 0
    BY <1>7 DEF PutConnectorFails
  <2>2. /\ put' \in [Puts -> {NoPut} \cup PutReq] /\ put'[p].step = "none"
        /\ \A o \in Puts : o # p => put'[o] = put[o]
        /\ settingsGate' \in Puts \cup {0} /\ settingsGate' # p
        /\ \A o \in Puts : o # p => (settingsGate' = o <=> settingsGate = o)
    BY <2>1, DoneSteps
  <2>3. SetTypes'
    BY <1>1, <1>4, <2>1, <2>2, SectionFacts DEF SetInv, SetTypes
  <2>4. Behind' = Behind /\ (Notes \in mishap' <=> Notes \in mishap)
    BY <1>1, <2>1, <2>2, SectionFacts DEF Behind
  <2>5. AppliedOK'
    BY <1>1, <1>5, <2>2, <2>4 DEF SetInv, AppliedOK, Holding
  <2>6. StoredOK'
    BY <1>1, <1>4, <2>2, <2>4 DEF SetInv, StoredOK
  <2>7. \A c \in Connectors : ConnOK(c)'
    BY <1>1, <1>5, <2>1, <2>2 DEF ConnOK, Holding
  <2>8. \A o \in Puts : BaseOK(o)'
    BY <2>2 DEF SetInv, BaseOK
  <2>9. \A o \in Puts : LockOK(o)'
    BY <1>1, <1>5, <2>1, <2>2, SettingsAssumption DEF SetInv, LockOK, Holding
  <2>. QED BY <2>1, <2>2, <2>3, <2>5, <2>6, <2>7, <2>8, <2>9 DEF SetInv
<1>. QED BY <1>6, <1>7

LEMMA SetConnectorStep ==
  ASSUME SetInv, NEW p \in Puts, SetConnector(p) PROVE SetInv'
<1>1. /\ UNCHANGED <<table, applied, direct, mishap, forms>> /\ Done(p)
      /\ put[p].step = "crmsaved" /\ applyMu' = 0 /\ memory' = WithConnectors(memory, put[p].base)
      /\ acked' = [acked EXCEPT ![put[p].section] = put[p].base[put[p].section]]
  BY DEF SetConnector, At
<1>2. /\ p # 0 /\ put[p].base \in [Connectors -> Values] /\ applyMu = p /\ put[p].section \in Connectors
  BY <1>1, Going DEF SetInv, BaseOK, LockOK, Holding
<1>3. /\ put' \in [Puts -> {NoPut} \cup PutReq] /\ put'[p].step = "none"
      /\ \A o \in Puts : o # p => put'[o] = put[o]
      /\ settingsGate' \in Puts \cup {0} /\ settingsGate' # p
      /\ \A o \in Puts : o # p => (settingsGate' = o <=> settingsGate = o)
  BY <1>1, DoneSteps
<1>4. \A o \in Puts : o # p => put[o].step \notin Holding
  BY <1>2 DEF SetInv, LockOK
<1>5. /\ memory' \in [Sections -> Values] /\ memory'[Notes] = memory[Notes]
      /\ \A c \in Connectors : memory'[c] = put[p].base[c]
  BY <1>1, <1>2, WithType DEF SetInv, SetTypes
<1>6. acked' \in [Connectors -> Values]
  BY <1>1, <1>2 DEF SetInv, SetTypes
<1>7. SetTypes'
  BY <1>1, <1>3, <1>5, <1>6 DEF SetInv, SetTypes
<1>8. AppliedOK'
  <2>1. Behind' = Behind
    BY <1>1, <1>3 DEF Behind
  <2>. QED BY <1>1, <1>3, <1>4, <1>5, <2>1 DEF SetInv, AppliedOK, Holding
<1>9. StoredOK'
  BY <1>1, <1>3, <1>5 DEF SetInv, StoredOK
<1>10. ASSUME NEW c \in Connectors PROVE ConnOK(c)'
  <2>1. table'[c] = memory'[c]
    BY <1>1, <1>5 DEF SetInv, ConnOK
  <2>2. c \notin mishap => memory'[c] = acked'[c]
    <3>1. CASE c = put[p].section
      BY <1>1, <1>2, <1>5, <3>1 DEF SetInv, SetTypes
    <3>2. CASE c # put[p].section
      BY <1>1, <1>2, <1>5, <3>2 DEF SetInv, SetTypes, ConnOK
    <3>. QED BY <3>1, <3>2
  <2>. QED BY <1>1, <1>3, <1>4, <2>1, <2>2 DEF ConnOK, Holding
<1>11. \A o \in Puts : BaseOK(o)'
  BY <1>3 DEF SetInv, BaseOK
<1>12. \A o \in Puts : LockOK(o)'
  BY <1>1, <1>2, <1>3, <1>4, SettingsAssumption DEF SetInv, LockOK, Holding
<1>. QED BY <1>1, <1>3, <1>7, <1>8, <1>9, <1>10, <1>11, <1>12 DEF SetInv

LEMMA RestartStep ==
  ASSUME SetInv, Restart PROVE SetInv'
<1>1. /\ memory' = table /\ table' = table /\ applyMu' = 0 /\ settingsGate' = 0 /\ mishap' = {} /\ direct' = direct
      /\ applied' = [s \in Applied |-> table[s]] /\ acked' = [c \in Connectors |-> table[c]]
      /\ put' = [p \in Puts |-> IF At(p, "form") THEN put[p] ELSE NoPut]
  BY DEF Restart
<1>2. table \in [Sections -> Values]
  BY DEF SetInv, SetTypes
<1>3. applied' \in [Applied -> Values] /\ acked' \in [Connectors -> Values] /\ applied'[Notes] = table[Notes]
      /\ \A c \in Connectors : acked'[c] = table[c]
  BY <1>1, <1>2, SectionFacts
<1>4. put' \in [Puts -> {NoPut} \cup PutReq] /\ \A p \in Puts : put'[p].step \in {"none", "form"} /\ p # 0
  BY <1>1, SettingsAssumption DEF SetInv, SetTypes, NoPut, At
<1>5. forms' \in 0..MaxForms
  BY SettingsAssumption DEF Restart, SetInv, SetTypes
<1>6. SetTypes'
  BY <1>1, <1>2, <1>3, <1>4, <1>5 DEF SetInv, SetTypes
<1>7. AppliedOK' /\ StoredOK'
  BY <1>1, <1>3, <1>4 DEF AppliedOK, StoredOK
<1>8. \A c \in Connectors : ConnOK(c)'
  BY <1>1, <1>3, <1>4 DEF ConnOK
<1>9. \A p \in Puts : BaseOK(p)' /\ LockOK(p)'
  BY <1>1, <1>4 DEF BaseOK, LockOK, Holding
<1>. QED BY <1>1, <1>6, <1>7, <1>8, <1>9 DEF SetInv

LEMMA SetNextInv ==
  ASSUME SetInv, [SetNext]_setVars PROVE SetInv'
<1>1. CASE UNCHANGED setVars
  BY <1>1 DEF setVars, SetInv, SetTypes, AppliedOK, StoredOK, BaseOK, LockOK, ConnOK, Behind
<1>. QED BY <1>1, FormSteps, AbandonStep, SetMemoryStep, PutSettingStep, ApplyStep, ApplierStep, MergeStep,
            PutConnectorStep, SetConnectorStep, RestartStep DEF SetNext

\* However saves race, fail, are abandoned or cut short by restarts: with none under way
\* the dataplane runs what is in memory; two tenants' connectors do not overwrite one
\* another; through the gateway memory is what is stored; all but for sections a save of
\* which went wrong (settings.go, handlePutSettings and Apply; management_settings.go).
THEOREM SettingsStayKept == Spec => []SettingsKept
<1>1. Init => SetInv
  BY SetInitInv DEF Init
<1>2. SetInv /\ [Next]_consoleVars => SetInv'
  BY SetNextInv, PartSteps
<1>3. SetInv => SettingsKept
  <2>. SUFFICES ASSUME SetInv PROVE SettingsKept
    OBVIOUS
  <2>1. ASSUME Settled, NEW s \in Applied \ mishap PROVE applied[s] = memory[s]
    BY <2>1, SectionFacts DEF Settled, SetInv, AppliedOK, Behind
  <2>2. ASSUME applyMu = 0, NEW c \in Connectors \ mishap PROVE memory[c] = acked[c] /\ table[c] = acked[c]
    <3>1. \A p \in Puts : put[p].step # "crmsaved"
      BY <2>2, SettingsAssumption DEF SetInv, LockOK, Holding
    <3>. QED BY <2>2, <3>1 DEF SetInv, ConnOK
  <2>3. ASSUME Settled, ~direct, NEW s \in Sections \ mishap PROVE table[s] = memory[s]
    <3>1. CASE s \in Connectors
      BY <2>3, <3>1 DEF Settled, SetInv, ConnOK
    <3>2. CASE s = Notes
      BY <2>3, <3>2 DEF Settled, SetInv, StoredOK
    <3>. QED BY <3>1, <3>2, SectionFacts
  <2>. QED BY <2>1, <2>2, <2>3 DEF SettingsKept
<1>. QED BY <1>1, <1>2, <1>3, PTL DEF Spec
-----------------------------------------------------------------------------
(* Policies, devices and tenants.                                          *)

PolRows == [isp : TenantIds \cup {0}, name : Names, rules : Rules]
DevRows == [isp : TenantIds, policy : Names, rules : Rules, found : BOOLEAN]
SaveCalls == [op : {"create"}, row : PolRows] \cup [op : {"update"}, id : Nat, old : PolRows, row : PolRows]
               \cup [op : {"delete"}, id : Nat, old : PolRows]
DevCalls == [op : {"newdevice", "insert"}, row : DevRows] \cup [op : {"setdevice", "write"}, x : Nat, row : DevRows]
CallTypes == {NoCall} \cup SaveCalls \cup DevCalls

\* What a request has read and the gateway lets it rely on until it writes.
DevOK(r) ==
  r.op \in {"newdevice", "insert", "setdevice", "write"} =>
    /\ r.row.isp \in tenants
    /\ r.op \in {"insert", "write"} /\ r.row.found => Visible(r.row.isp, r.row.policy) # {}
CallOK(q) ==
  /\ call[q].op = "update" => call[q].row.isp = call[q].old.isp
  /\ gateway /\ call[q] # NoCall => mutations = q
  /\ gateway => DevOK(call[q])
PolInv == PolTypeOK /\ call \in [Calls -> CallTypes] /\ (\A q \in Calls : CallOK(q)) /\ PoliciesSound

LEMMA CallIs ==
  ASSUME NEW r \in CallTypes
  PROVE  /\ r.op \in {"none", "create", "update", "delete", "newdevice", "insert", "setdevice", "write"}
         /\ r.op = "none" <=> r = NoCall
         /\ r.op = "create" => r.row \in PolRows
         /\ r.op = "update" => r.id \in Nat /\ r.old \in PolRows /\ r.row \in PolRows
         /\ r.op = "delete" => r.id \in Nat /\ r.old \in PolRows
         /\ r.op \in {"newdevice", "insert", "setdevice", "write"} => r.row \in DevRows
         /\ r.op \in {"setdevice", "write"} => r.x \in Nat
BY DEF CallTypes, SaveCalls, DevCalls, NoCall

\* Under the gateway's mutex one request runs and nothing else moves.
LEMMA PolAlone ==
  ASSUME PolInv, gateway, NEW q \in Calls, mutations = 0 \/ (call[q] # NoCall), NEW p \in Calls, p # q
  PROVE  call[p] = NoCall
BY PoliciesAssumption DEF PolInv, CallOK

LEMMA PolArrives ==
  ASSUME PolInv, NEW q \in Calls, NEW r \in CallTypes, Arrive(q, r), UNCHANGED <<tenants, policies, devices, last>>,
         r.op = "update" => r.row.isp = r.old.isp, gateway => DevOK(r)
  PROVE  PolInv'
<1>1. PolTypeOK' /\ PoliciesSound'
  BY DEF PolInv, PolTypeOK, PoliciesSound, Visible, policyOverlap, Arrive
<1>2. call' \in [Calls -> CallTypes] /\ call'[q] = r /\ \A p \in Calls : p # q => call'[p] = call[p]
  BY DEF PolInv, Arrive
<1>3. gateway' = gateway /\ (gateway => mutations' = q) /\ (~gateway => mutations' = mutations)
  BY DEF Arrive
<1>4. ASSUME NEW p \in Calls PROVE CallOK(p)'
  <2>1. DevOK(r)' <=> DevOK(r)
    BY DEF DevOK, Visible
  <2>2. CASE p = q
    BY <1>2, <1>3, <2>1, <2>2 DEF CallOK, DevOK, Visible
  <2>3. CASE p # q
    <3>1. gateway => call[p] = NoCall
      BY <2>3, PolAlone DEF Arrive
    <3>2. NoCall.op = "none"
      BY DEF NoCall
    <3>. QED BY <1>2, <1>3, <2>3, <3>1, <3>2 DEF CallOK, DevOK, PolInv
  <2>. QED BY <2>2, <2>3
<1>. QED BY <1>1, <1>2, <1>4 DEF PolInv

\* A request that ends, with the tables as they are afterwards.
LEMMA PolAnswers ==
  ASSUME PolInv, NEW q \in Calls, call[q] # NoCall, Answer(q), PolTypeOK', PoliciesSound'
  PROVE  PolInv'
<1>1. call' \in [Calls -> CallTypes] /\ call'[q] = NoCall /\ \A p \in Calls : p # q => call'[p] = call[p]
  BY DEF PolInv, Answer, CallTypes
<1>2. NoCall.op = "none"
  BY DEF NoCall
<1>3. gateway' = gateway
  BY DEF Answer
<1>4. ASSUME NEW p \in Calls PROVE CallOK(p)'
  <2>1. CASE p = q
    BY <1>1, <1>2, <2>1 DEF CallOK, DevOK
  <2>2. CASE p # q
    <3>1. gateway => call[p] = NoCall
      BY <2>2, PolAlone
    <3>. QED BY <1>1, <1>2, <1>3, <2>2, <3>1 DEF CallOK, DevOK, PolInv
  <2>. QED BY <2>1, <2>2
<1>. QED BY <1>1, <1>4 DEF PolInv

LEMMA SavePolicyStep ==
  ASSUME PolInv, NEW q \in Calls, SavePolicy(q) PROVE PolInv'
<1>. DEFINE r == call[q]
<1>1. r \in CallTypes
  BY DEF PolInv
<1>2. r.op \in {"create", "update", "delete"} /\ Answer(q) /\ UNCHANGED <<tenants, devices>> /\ r # NoCall
  BY DEF SavePolicy, NoCall
<1>3. gateway' = gateway
  BY <1>2 DEF Answer
<1>4. r.op = "update" => r.row.isp = r.old.isp
  BY DEF PolInv, CallOK
<1>. DEFINE current == r.id \in DOMAIN policies /\ policies[r.id] = r.old
<1>. HIDE DEF r
<1>0. SUFFICES PolTypeOK' /\ PoliciesSound'
  BY <1>2, PolAnswers DEF r
<1>5. CASE policies' = policies
  <2>1. last' = last
    BY <1>5 DEF SavePolicy
  <2>. QED BY <1>2, <1>3, <1>5, <2>1 DEF PolInv, PolTypeOK, PoliciesSound, Visible, policyOverlap
<1>6. CASE r.op = "delete" /\ current /\ ~InUse(r.old) /\ policies' = Drop(policies, r.id)
  <2>1. /\ DOMAIN policies' = DOMAIN policies \ {r.id}
        /\ \A p \in DOMAIN policies' : policies'[p] = policies[p]
    BY <1>6 DEF Drop
  <2>2. last' = last
    BY <2>1 DEF SavePolicy
  <2>3. PolTypeOK'
    BY <1>2, <2>1, <2>2 DEF PolInv, PolTypeOK
  <2>4. ASSUME gateway, NEW d \in DOMAIN devices, devices[d].found
        PROVE  Visible(devices[d].isp, devices[d].policy)' # {}
    <3>1. PICK p \in DOMAIN policies : policies[p].isp \in {0, devices[d].isp} /\ policies[p].name = devices[d].policy
      BY <2>4 DEF PolInv, PoliciesSound, Visible
    <3>2. p # r.id
      BY <1>6, <3>1 DEF InUse, policyReference
    <3>. QED BY <1>2, <2>1, <3>1, <3>2 DEF Visible
  <2>. QED BY <1>2, <1>3, <2>1, <2>3, <2>4 DEF PolInv, PoliciesSound, policyOverlap
<1>7. CASE /\ r.op = "update" /\ current /\ (r.row.name # r.old.name => ~InUse(r.old))
           /\ ~Clash(r.row, DOMAIN policies \ {r.id}) /\ policies' = Put(policies, r.id, r.row)
  <2>0. r.row \in PolRows /\ r.old \in PolRows
    BY <1>1, <1>7, CallIs
  <2>1. /\ DOMAIN policies' = DOMAIN policies /\ policies'[r.id] = r.row
        /\ \A p \in DOMAIN policies : p # r.id => policies'[p] = policies[p]
    BY <1>7 DEF Put
  <2>2. last' = last
    BY <2>1 DEF SavePolicy
  <2>3. PolTypeOK'
    BY <1>2, <2>0, <2>1, <2>2 DEF PolInv, PolTypeOK, PolRows
  <2>4. ASSUME gateway, NEW d \in DOMAIN devices, devices[d].found
        PROVE  Visible(devices[d].isp, devices[d].policy)' # {}
    <3>1. PICK p \in DOMAIN policies : policies[p].isp \in {0, devices[d].isp} /\ policies[p].name = devices[d].policy
      BY <2>4 DEF PolInv, PoliciesSound, Visible
    <3>2. CASE p # r.id
      BY <1>2, <2>1, <3>1, <3>2 DEF Visible
    <3>3. CASE p = r.id
      <4>1. InUse(r.old)
        BY <1>7, <3>1, <3>3 DEF InUse, policyReference
      <4>. QED BY <1>2, <1>4, <1>7, <2>1, <3>1, <3>3, <4>1 DEF Visible
    <3>. QED BY <3>2, <3>3
  <2>5. \A p \in DOMAIN policies' : policies'[p].isp = policies[p].isp
    BY <1>4, <1>7, <2>1
  <2>6. \A p, o \in DOMAIN policies' : p # o => ~policyOverlap(policies'[p], policies'[o])
    BY <1>7, <2>1 DEF PolInv, PoliciesSound, policyOverlap, Clash
  <2>. QED BY <1>2, <1>3, <2>1, <2>3, <2>4, <2>5, <2>6 DEF PolInv, PoliciesSound, policyOverlap
<1>8. CASE /\ r.op = "create" /\ last.policy < MaxPolicies /\ ScopeExists(r.row.isp)
           /\ ~Clash(r.row, DOMAIN policies) /\ policies' = Put(policies, last.policy + 1, r.row)
  <2>0. r.row \in PolRows
    BY <1>1, <1>8, CallIs
  <2>. DEFINE n == last.policy + 1
  <2>1. last.policy \in Nat /\ n \in Nat /\ n \notin DOMAIN policies /\ last.policy + 1 <= MaxPolicies
    BY <1>8, PoliciesAssumption DEF PolInv, PolTypeOK
  <2>2. /\ DOMAIN policies' = DOMAIN policies \cup {n} /\ policies'[n] = r.row
        /\ \A p \in DOMAIN policies : policies'[p] = policies[p]
    BY <1>8, <2>1 DEF Put
  <2>3. last' = [last EXCEPT !.policy = n]
    BY <2>1, <2>2 DEF SavePolicy
  <2>4. last' \in [policy : 0..MaxPolicies, device : 0..MaxDevices] /\ last'.policy = n /\ last'.device = last.device
    BY <2>1, <2>3, PoliciesAssumption DEF PolInv, PolTypeOK
  <2>5. PolTypeOK'
    BY <1>2, <2>0, <2>1, <2>2, <2>4 DEF PolInv, PolTypeOK, PolRows
  <2>6. ASSUME gateway, NEW d \in DOMAIN devices, devices[d].found
        PROVE  Visible(devices[d].isp, devices[d].policy)' # {}
    <3>1. PICK p \in DOMAIN policies : policies[p].isp \in {0, devices[d].isp} /\ policies[p].name = devices[d].policy
      BY <2>6 DEF PolInv, PoliciesSound, Visible
    <3>. QED BY <1>2, <2>2, <3>1 DEF Visible
  <2>7. \A p \in DOMAIN policies' : policies'[p].isp # 0 => policies'[p].isp \in tenants
    BY <1>8, <2>2 DEF PolInv, PoliciesSound, ScopeExists
  <2>8. \A p, o \in DOMAIN policies' : p # o => ~policyOverlap(policies'[p], policies'[o])
    BY <1>8, <2>1, <2>2 DEF PolInv, PoliciesSound, policyOverlap, Clash
  <2>. QED BY <1>2, <1>3, <2>5, <2>6, <2>7, <2>8 DEF PolInv, PoliciesSound, policyOverlap
<1>. QED BY <1>2, <1>5, <1>6, <1>7, <1>8 DEF SavePolicy, r

LEMMA PolicyForms ==
  ASSUME PolInv, NEW q \in Calls
  PROVE  /\ \A i \in TenantIds \cup {0}, n \in Names, u \in Rules : apiCreatePolicy(q, i, n, u) => PolInv'
         /\ \A p \in DOMAIN policies, n \in Names, u \in Rules : apiUpdatePolicy(q, p, n, u) => PolInv'
         /\ \A p \in DOMAIN policies : apiDeletePolicy(q, p) => PolInv'
<1>1. ASSUME NEW i \in TenantIds \cup {0}, NEW n \in Names, NEW u \in Rules, apiCreatePolicy(q, i, n, u)
      PROVE  PolInv'
  <2>. DEFINE r == [op |-> "create", row |-> [isp |-> i, name |-> n, rules |-> u]]
  <2>1. r \in CallTypes /\ r.op = "create"
    BY DEF CallTypes, SaveCalls, PolRows
  <2>2. Arrive(q, r) /\ UNCHANGED <<tenants, policies, devices, last>>
    BY <1>1 DEF apiCreatePolicy
  <2>. HIDE DEF r
  <2>. QED BY <2>1, <2>2, PolArrives DEF DevOK
<1>2. ASSUME NEW p \in DOMAIN policies
      PROVE  p \in Nat /\ policies[p] \in PolRows
  BY PoliciesAssumption DEF PolInv, PolTypeOK, PolRows
<1>3. ASSUME NEW p \in DOMAIN policies, NEW n \in Names, NEW u \in Rules, apiUpdatePolicy(q, p, n, u)
      PROVE  PolInv'
  <2>. DEFINE r == [op |-> "update", id |-> p, old |-> policies[p],
                    row |-> [isp |-> policies[p].isp, name |-> n, rules |-> u]]
  <2>0. [isp |-> policies[p].isp, name |-> n, rules |-> u] \in PolRows
    BY <1>2 DEF PolRows
  <2>1. r \in CallTypes /\ r.op = "update" /\ r.row.isp = r.old.isp
    BY <1>2, <2>0 DEF CallTypes, SaveCalls
  <2>2. Arrive(q, r) /\ UNCHANGED <<tenants, policies, devices, last>>
    BY <1>3 DEF apiUpdatePolicy
  <2>. HIDE DEF r
  <2>. QED BY <2>1, <2>2, PolArrives DEF DevOK
<1>4. ASSUME NEW p \in DOMAIN policies, apiDeletePolicy(q, p) PROVE PolInv'
  <2>. DEFINE r == [op |-> "delete", id |-> p, old |-> policies[p]]
  <2>1. r \in CallTypes /\ r.op = "delete"
    BY <1>2 DEF CallTypes, SaveCalls
  <2>2. Arrive(q, r) /\ UNCHANGED <<tenants, policies, devices, last>>
    BY <1>4 DEF apiDeletePolicy
  <2>. HIDE DEF r
  <2>. QED BY <2>1, <2>2, PolArrives DEF DevOK
<1>. QED BY <1>1, <1>3, <1>4

LEMMA DeviceForms ==
  ASSUME PolInv, NEW q \in Calls, NEW n \in Names, NEW u \in Rules
  PROVE  /\ \A i \in TenantIds : apiCreateDevice(q, i, n, u) => PolInv'
         /\ \A x \in DOMAIN devices : apiUpdateDevice(q, x, n, u) => PolInv'
<1>1. ASSUME NEW i \in TenantIds, apiCreateDevice(q, i, n, u) PROVE PolInv'
  <2>. DEFINE r == [op |-> "newdevice", row |-> [isp |-> i, policy |-> n, rules |-> u, found |-> FALSE]]
  <2>1. r \in CallTypes /\ r.op = "newdevice" /\ r.row.isp = i
    BY DEF CallTypes, DevCalls, DevRows
  <2>2. Arrive(q, r) /\ UNCHANGED <<tenants, policies, devices, last>> /\ i \in tenants
    BY <1>1 DEF apiCreateDevice
  <2>. HIDE DEF r
  <2>. QED BY <2>1, <2>2, PolArrives DEF DevOK
<1>2. ASSUME NEW x \in DOMAIN devices, apiUpdateDevice(q, x, n, u) PROVE PolInv'
  <2>. DEFINE row == [devices[x] EXCEPT !.policy = n, !.rules = u]
              r == [op |-> "setdevice", x |-> x, row |-> row]
  <2>a. devices[x] \in DevRows /\ x \in Nat
    BY PoliciesAssumption DEF PolInv, PolTypeOK, DevRows
  <2>0. row \in DevRows /\ row.isp = devices[x].isp /\ x \in Nat
    BY <2>a DEF DevRows
  <2>1. r \in CallTypes /\ r.op = "setdevice" /\ r.row.isp = devices[x].isp
    BY <2>0 DEF CallTypes, DevCalls
  <2>2. Arrive(q, r) /\ UNCHANGED <<tenants, policies, devices, last>>
    BY <1>2 DEF apiUpdateDevice
  <2>3. gateway => devices[x].isp \in tenants
    BY DEF PolInv, PoliciesSound
  <2>. HIDE DEF r
  <2>. QED BY <2>1, <2>2, <2>3, PolArrives DEF DevOK
<1>. QED BY <1>1, <1>2

LEMMA ResolveStep ==
  ASSUME PolInv, NEW q \in Calls, Resolve(q) PROVE PolInv'
<1>1. /\ call[q] \in CallTypes /\ call[q].op \in {"newdevice", "setdevice"} /\ call[q] # NoCall
      /\ UNCHANGED <<tenants, policies, devices, last>>
  BY DEF PolInv, Resolve, NoCall
<1>2. call[q].row \in DevRows
  BY <1>1, CallIs
<1>3. PICK row \in resolvePolicy(call[q].row) :
        GoOn(q, [call[q] EXCEPT !.op = IF @ = "newdevice" THEN "insert" ELSE "write", !.row = row])
  BY DEF Resolve
<1>4. /\ row \in DevRows /\ row.isp = call[q].row.isp
      /\ row.found => Visible(row.isp, row.policy) # {}
  <2>1. CASE row = [call[q].row EXCEPT !.found = FALSE]
    BY <1>2, <2>1 DEF DevRows
  <2>2. ASSUME NEW p \in Visible(call[q].row.isp, call[q].row.policy),
               row = [call[q].row EXCEPT !.rules = policies[p].rules, !.found = TRUE]
        PROVE  /\ row \in DevRows /\ row.isp = call[q].row.isp /\ row.policy = call[q].row.policy
               /\ Visible(row.isp, row.policy) # {}
    <3>1. policies[p].rules \in Rules
      BY DEF PolInv, PolTypeOK, Visible
    <3>2. row \in DevRows /\ row.isp = call[q].row.isp /\ row.policy = call[q].row.policy
      BY <1>2, <2>2, <3>1 DEF DevRows
    <3>. QED BY <2>2, <3>2
  <2>. QED BY <1>3, <2>1, <2>2 DEF resolvePolicy
<1>. DEFINE r == [call[q] EXCEPT !.op = IF @ = "newdevice" THEN "insert" ELSE "write", !.row = row]
<1>5. r \in CallTypes /\ r.op \in {"insert", "write"} /\ r.row = row
  <2>1. CASE call[q].op = "newdevice"
    <3>1. call[q] \in [op : {"newdevice", "insert"}, row : DevRows]
      BY <1>1, <2>1 DEF CallTypes, SaveCalls, DevCalls, NoCall
    <3>. QED BY <1>4, <2>1, <3>1 DEF CallTypes, DevCalls
  <2>2. CASE call[q].op = "setdevice"
    <3>1. call[q] \in [op : {"setdevice", "write"}, x : Nat, row : DevRows]
      BY <1>1, <2>2 DEF CallTypes, SaveCalls, DevCalls, NoCall
    <3>. QED BY <1>4, <2>2, <3>1 DEF CallTypes, DevCalls
  <2>. QED BY <1>1, <2>1, <2>2
<1>6. GoOn(q, r)
  BY <1>3
<1>. HIDE DEF r
<1>7. /\ call' \in [Calls -> CallTypes] /\ call'[q] = r /\ (\A p \in Calls : p # q => call'[p] = call[p])
      /\ UNCHANGED <<gateway, mutations>>
  BY <1>5, <1>6 DEF PolInv, GoOn
<1>8. PolTypeOK' /\ PoliciesSound'
  BY <1>1, <1>7 DEF PolInv, PolTypeOK, PoliciesSound, Visible, policyOverlap
<1>9. ASSUME NEW p \in Calls PROVE CallOK(p)'
  <2>1. CASE p # q
    BY <1>1, <1>7, <2>1 DEF PolInv, CallOK, DevOK, Visible
  <2>2. CASE p = q
    <3>1. gateway => row.isp \in tenants /\ mutations = q
      BY <1>1, <1>4 DEF PolInv, CallOK, DevOK
    <3>. QED BY <1>1, <1>4, <1>5, <1>7, <2>2, <3>1 DEF CallOK, DevOK, Visible
  <2>. QED BY <2>1, <2>2
<1>. QED BY <1>7, <1>8, <1>9 DEF PolInv

LEMMA DeviceWrites ==
  ASSUME PolInv, NEW q \in Calls
  PROVE  (CreateDevice(q) => PolInv') /\ (UpdateDevice(q) => PolInv')
<1>0. call[q] \in CallTypes
  BY DEF PolInv
<1>1. ASSUME CreateDevice(q) PROVE PolInv'
  <2>1. /\ call[q].op = "insert" /\ call[q] # NoCall /\ Answer(q) /\ UNCHANGED <<tenants, policies>>
        /\ devices' = Put(devices, last.device + 1, call[q].row) /\ last.device < MaxDevices
        /\ last' = [last EXCEPT !.device = @ + 1]
    BY <1>1 DEF CreateDevice, NoCall
  <2>2. call[q].row \in DevRows
    BY <1>0, <2>1, CallIs
  <2>. DEFINE n == last.device + 1
  <2>3. last.device \in Nat /\ n \in 1..MaxDevices /\ n \notin DOMAIN devices
    BY <2>1, PoliciesAssumption DEF PolInv, PolTypeOK
  <2>4. /\ DOMAIN devices' = DOMAIN devices \cup {n} /\ devices'[n] = call[q].row
        /\ \A d \in DOMAIN devices : devices'[d] = devices[d]
    BY <2>1, <2>3 DEF Put
  <2>5. /\ last' \in [policy : 0..MaxPolicies, device : 0..MaxDevices]
        /\ last'.device = n /\ last'.policy = last.policy
    BY <2>1, <2>3, PoliciesAssumption DEF PolInv, PolTypeOK
  <2>6. PolTypeOK'
    BY <2>1, <2>2, <2>3, <2>4, <2>5 DEF PolInv, PolTypeOK, DevRows
  <2>7. gateway' = gateway
    BY <2>1 DEF Answer
  <2>8. gateway => DevOK(call[q])
    BY DEF PolInv, CallOK
  <2>9. PoliciesSound'
    BY <2>1, <2>4, <2>7, <2>8 DEF PolInv, PoliciesSound, Visible, policyOverlap, DevOK
  <2>. QED BY <2>1, <2>6, <2>9, PolAnswers
<1>2. ASSUME UpdateDevice(q) PROVE PolInv'
  <2>1. /\ call[q].op = "write" /\ call[q] # NoCall /\ Answer(q) /\ UNCHANGED <<tenants, policies, last>>
        /\ devices' = IF call[q].x \in DOMAIN devices THEN Put(devices, call[q].x, call[q].row) ELSE devices
    BY <1>2 DEF UpdateDevice, NoCall
  <2>2. call[q].row \in DevRows
    BY <1>0, <2>1, CallIs
  <2>4. /\ DOMAIN devices' = DOMAIN devices
        /\ \A d \in DOMAIN devices : devices'[d] = devices[d] \/ devices'[d] = call[q].row
    BY <2>1 DEF Put
  <2>6. PolTypeOK'
    BY <2>1, <2>2, <2>4 DEF PolInv, PolTypeOK, DevRows
  <2>7. gateway' = gateway
    BY <2>1 DEF Answer
  <2>8. gateway => DevOK(call[q])
    BY DEF PolInv, CallOK
  <2>9. PoliciesSound'
    BY <2>1, <2>4, <2>7, <2>8 DEF PolInv, PoliciesSound, Visible, policyOverlap, DevOK
  <2>. QED BY <2>1, <2>6, <2>9, PolAnswers
<1>. QED BY <1>1, <1>2

LEMMA PolDeletes ==
  ASSUME PolInv
  PROVE  (\A x \in DOMAIN devices : DeleteDevice(x) => PolInv') /\ (\A i \in tenants : DeleteTenant(i) => PolInv')
<1>1. ASSUME NEW x \in DOMAIN devices, DeleteDevice(x) PROVE PolInv'
  <2>1. /\ DOMAIN devices' = DOMAIN devices \ {x} /\ (\A d \in DOMAIN devices' : devices'[d] = devices[d])
        /\ UNCHANGED <<tenants, policies, last, call, gateway, mutations>>
    BY <1>1 DEF DeleteDevice, Drop
  <2>. QED BY <2>1 DEF PolInv, PolTypeOK, CallOK, DevOK, PoliciesSound, Visible, policyOverlap
<1>2. ASSUME NEW i \in tenants, DeleteTenant(i) PROVE PolInv'
  <2>1. /\ tenants' = tenants \ {i} /\ UNCHANGED <<policies, devices, last, call, gateway, mutations>>
        /\ \A d \in DOMAIN devices : devices[d].isp # i
        /\ \A p \in DOMAIN policies : policies[p].isp # i
        /\ gateway => mutations = 0
    BY <1>2 DEF DeleteTenant
  <2>2. PolTypeOK' /\ PoliciesSound'
    BY <2>1 DEF PolInv, PolTypeOK, PoliciesSound, Visible, policyOverlap
  <2>3. ASSUME NEW q \in Calls PROVE CallOK(q)'
    <3>1. gateway => call[q] = NoCall
      BY <2>1, PoliciesAssumption DEF PolInv, CallOK
    <3>. QED BY <2>1, <3>1 DEF PolInv, CallOK, DevOK, NoCall
  <2>. QED BY <2>1, <2>2, <2>3 DEF PolInv
<1>. QED BY <1>1, <1>2

LEMMA PolNextInv ==
  ASSUME PolInv, [PolNext]_polVars PROVE PolInv'
<1>1. CASE UNCHANGED polVars
  BY <1>1 DEF polVars, PolInv, PolTypeOK, CallOK, DevOK, PoliciesSound, Visible, policyOverlap
<1>. QED BY <1>1, SavePolicyStep, PolicyForms, DeviceForms, ResolveStep, DeviceWrites, PolDeletes DEF PolNext

LEMMA PolInitInv == PolInit => PolInv
BY PoliciesAssumption DEF PolInit, PolInv, PolTypeOK, CallOK, DevOK, CallTypes, NoCall, PoliciesSound, Visible, TenantIds

-----------------------------------------------------------------------------
(* CRM enrichment.                                                         *)

Own == {"none", "insufficient_nat_data", "ambiguous", "error"}
Outs == Own \cup {Answers[Isp[j]][e][l] : j \in Searches, e \in Endpoints, l \in Lookups}
Keys == {<<i, e, l>> : i \in CRMIsps, e \in Endpoints, l \in Lookups}
OutFuns == UNION {[1..n -> Outs] : n \in Nat}
ResultFuns == UNION {[S -> Outs] : S \in SUBSET Lookups}
SearchRec ==
  [step : {"scan", "send", "apply", "done"}, ep : Endpoints, rows : Seq(Lookups \cup {NoNAT}), known : SUBSET Lookups,
   next : Nat, out : OutFuns, pending : SUBSET Lookups, sent : SUBSET Lookups,
   results : ResultFuns, sum : [Sums -> Nat]]

\* The rows that have an outcome are the rows that are counted; of a tenant's search
\* every row without one is still to be scanned or waits for a lookup.
Total(sum) == sum["matched"] + sum["not_found"] + sum["ambiguous"] + sum["failed"]
Told(s) == {r \in 1..Len(s.rows) : s.out[r] # "none"}
RowRight(i, s, r) ==
  s.out[r] \in Own \/ (s.rows[r] \in Lookups /\ s.out[r] = Answers[i][s.ep][s.rows[r]])
SearchRight(i, s) ==
  /\ DOMAIN s.out = 1..Len(s.rows)
  /\ \A l \in DOMAIN s.results : s.results[l] = Answers[i][s.ep][l]
  /\ \A r \in 1..Len(s.rows) : RowRight(i, s, r)
SearchCounted(s) ==
  /\ IF s.next = 0 THEN s.step = "done" /\ Total(s.sum) = Len(s.rows) ELSE Total(s.sum) = Cardinality(Told(s))
  /\ s.step = "scan" => s.next \in 1..(Len(s.rows) + 1) /\ \A r \in 1..Len(s.rows) : r >= s.next => s.out[r] = "none"
  /\ s.step # "done" => \A r \in 1..Len(s.rows) :
       s.out[r] = "none" => (s.step = "scan" /\ r >= s.next) \/ s.rows[r] \in s.pending
  /\ s.step = "done" /\ s.next # 0 => \A r \in 1..Len(s.rows) : s.out[r] # "none"
SearchOK(i, s) == s \in SearchRec /\ SearchRight(i, s) /\ SearchCounted(s)
CacheOK ==
  /\ IsFiniteSet(DOMAIN cache) /\ Cardinality(DOMAIN cache) <= CacheMax /\ DOMAIN cache \subseteq Keys
  /\ \A k \in DOMAIN cache : /\ cache[k] \in [ans : Outs \ {"none"}, left : 0..2]
                             /\ cache[k].ans = Answers[k[1]][k[2]][k[3]]
CRMInv ==
  /\ endpoint \in [CRMIsps -> Endpoints] /\ CacheOK
  /\ search \in [Searches -> {Resting} \cup SearchRec]
  /\ \A j \in Searches : search[j].step # "rest" => SearchOK(Isp[j], search[j])

LEMMA CRMFacts ==
  /\ \A j \in Searches, e \in Endpoints, l \in Lookups :
       /\ Answers[Isp[j]][e][l] \in Outs
       /\ Answers[Isp[j]][e][l] \notin {"none", "error", "insufficient_nat_data"}
       /\ <<Isp[j], e, l>> \in Keys
  /\ Own \subseteq Outs
<1>. QED BY CRMAssumption DEF Outs, Keys, Endpoints, CRMIsps

LEMMA OutIs ==
  ASSUME NEW s \in SearchRec, DOMAIN s.out = 1..Len(s.rows)
  PROVE  s.out \in [1..Len(s.rows) -> Outs]
<1>1. s.out \in OutFuns
  BY DEF SearchRec
<1>2. PICK n \in Nat : s.out \in [1..n -> Outs]
  BY <1>1 DEF OutFuns
<1>. QED BY <1>2

LEMMA SearchRecSet ==
  ASSUME NEW s \in SearchRec, NEW n \in Nat, NEW o \in OutFuns, NEW u \in [Sums -> Nat]
  PROVE  [s EXCEPT !.next = n, !.out = o, !.sum = u] \in SearchRec
<1>. DEFINE F == [Sums -> Nat]
<1>1. SearchRec = [step : {"scan", "send", "apply", "done"}, ep : Endpoints, rows : Seq(Lookups \cup {NoNAT}),
                   known : SUBSET Lookups, next : Nat, out : OutFuns, pending : SUBSET Lookups,
                   sent : SUBSET Lookups, results : ResultFuns, sum : F]
  BY DEF SearchRec
<1>2. u \in F
  OBVIOUS
<1>. HIDE DEF F
<1>. QED BY <1>1, <1>2

LEMMA SumAdds ==
  ASSUME NEW s \in SearchRec, NEW a, NEW n \in Nat
  PROVE  Counted(s, a, n) \in [Sums -> Nat] /\ Total(Counted(s, a, n)) = Total(s.sum) + n /\ Total(s.sum) \in Nat
<1>1. s.sum \in [Sums -> Nat]
  BY DEF SearchRec
<1>2. Kind(a) \in Sums
  BY DEF Kind, Sums
<1>3. PICK k \in Sums : k = Kind(a)
  BY <1>2
<1>4. Counted(s, a, n) = [s.sum EXCEPT ![k] = @ + n]
  BY <1>3 DEF Counted
<1>. QED BY <1>1, <1>4 DEF Total, Sums

\* More rows have an outcome, and as many more are counted.
MoreTold(s, t, M) ==
  /\ Len(s.rows) \in Nat /\ t.rows = s.rows /\ M \in SUBSET (1..Len(s.rows))
  /\ \A r \in M : s.out[r] = "none" /\ t.out[r] # "none"
  /\ \A r \in 1..Len(s.rows) : r \notin M => t.out[r] = s.out[r]
LEMMA ToldGrows ==
  ASSUME NEW s, NEW t, NEW M, MoreTold(s, t, M)
  PROVE  /\ Cardinality(M) \in Nat /\ Cardinality(Told(s)) \in Nat
         /\ Cardinality(Told(t)) = Cardinality(Told(s)) + Cardinality(M)
<1>1. IsFiniteSet(1..Len(s.rows))
  BY FS_Interval DEF MoreTold
<1>2. IsFiniteSet(M) /\ IsFiniteSet(Told(s))
  BY <1>1, FS_Subset DEF Told, MoreTold
<1>3. Told(t) = Told(s) \cup M /\ Told(s) \cap M = {}
  BY DEF Told, MoreTold
<1>4. Cardinality({}) = 0
  BY FS_EmptySet
<1>5. Cardinality(M) \in Nat /\ Cardinality(Told(s)) \in Nat
  BY <1>2, FS_CardinalityType
<1>6. Cardinality(Told(s) \cup M) = Cardinality(Told(s)) + Cardinality(M) - Cardinality(Told(s) \cap M)
  BY <1>2, FS_Union
<1>7. Cardinality(Told(s) \cap M) = 0 /\ Cardinality(Told(t)) = Cardinality(Told(s) \cup M)
  BY <1>3, <1>4
<1>. QED BY <1>5, <1>6, <1>7

LEMMA SearchSet ==
  ASSUME CRMInv, NEW j \in Searches, NEW t, SearchOK(Isp[j], t), search' = [search EXCEPT ![j] = t],
         UNCHANGED endpoint, CacheOK'
  PROVE  CRMInv'
<1>1. t \in SearchRec
  BY DEF SearchOK
<1>2. search' \in [Searches -> {Resting} \cup SearchRec]
  BY <1>1 DEF CRMInv
<1>3. \A o \in Searches : search'[o].step # "rest" => SearchOK(Isp[o], search'[o])
  BY DEF CRMInv
<1>. QED BY <1>2, <1>3 DEF CRMInv

LEMMA CacheFrame == ASSUME CacheOK, UNCHANGED cache PROVE CacheOK'
BY DEF CacheOK

LEMMA SearchIs ==
  ASSUME CRMInv, NEW j \in Searches, search[j].step # "rest"
  PROVE  search[j] \in SearchRec /\ SearchRight(Isp[j], search[j]) /\ SearchCounted(search[j])
BY DEF CRMInv, SearchOK

LEMMA BeginStep ==
  ASSUME CRMInv, NEW j \in Searches, NEW page \in Pages, NEW known \in {Lookups, {}}, Begin(j, page, known)
  PROVE  CRMInv'
<1>. DEFINE t == [step |-> "scan", ep |-> endpoint[Isp[j]], rows |-> page, known |-> known, next |-> 1,
        out |-> [r \in DOMAIN page |-> "none"], pending |-> {}, sent |-> {}, results |-> <<>>,
        sum |-> [k \in Sums |-> 0]]
<1>1. page \in Seq(Lookups \cup {NoNAT}) /\ Len(page) \in Nat /\ DOMAIN page = 1..Len(page)
  BY CRMAssumption
<1>2. endpoint[Isp[j]] \in Endpoints
  BY DEF CRMInv, CRMIsps
<1>3. [r \in DOMAIN page |-> "none"] \in OutFuns
  <2>1. "none" \in Outs
    BY DEF Outs, Own
  <2>2. [r \in DOMAIN page |-> "none"] \in [1..Len(page) -> Outs]
    BY <1>1, <2>1
  <2>. QED BY <1>1, <2>2 DEF OutFuns
<1>4. <<>> \in ResultFuns /\ DOMAIN <<>> = {}
  <2>1. <<>> \in [{} -> Outs]
    OBVIOUS
  <2>. QED BY <2>1 DEF ResultFuns
<1>5. t \in SearchRec
  BY <1>1, <1>2, <1>3, <1>4 DEF SearchRec
<1>6. /\ t.step = "scan" /\ t.rows = page /\ t.next = 1 /\ t.out = [r \in DOMAIN page |-> "none"]
      /\ t.results = <<>> /\ t.sum = [k \in Sums |-> 0]
  OBVIOUS
<1>. HIDE DEF t
<1>7. Told(t) = {} /\ Total(t.sum) = 0
  BY <1>1, <1>6 DEF Told, Total, Sums
<1>8. SearchRight(Isp[j], t)
  BY <1>1, <1>4, <1>6 DEF SearchRight, RowRight, Own
<1>9. SearchCounted(t)
  BY <1>1, <1>6, <1>7, FS_EmptySet DEF SearchCounted
<1>. QED BY <1>5, <1>8, <1>9, SearchSet, CacheFrame DEF Begin, t, CRMInv, SearchOK

LEMMA FailsStep ==
  ASSUME CRMInv, NEW j \in Searches, ListDevicesFails(j) PROVE CRMInv'
<1>. DEFINE s == search[j]
            t == [s EXCEPT !.step = "done", !.next = 0, !.sum = [@ EXCEPT !["failed"] = Len(s.rows)]]
<1>1. s.step = "scan" /\ s.next = 1 /\ s \in SearchRec /\ SearchRight(Isp[j], s) /\ SearchCounted(s)
  BY SearchIs DEF ListDevicesFails
<1>2. search' = [search EXCEPT ![j] = t] /\ UNCHANGED <<endpoint, cache>>
  BY DEF ListDevicesFails
<1>. HIDE DEF s
<1>3. Len(s.rows) \in Nat /\ s.sum \in [Sums -> Nat]
  BY <1>1 DEF SearchRec
<1>4. t \in SearchRec
  BY <1>1, <1>3 DEF SearchRec, Sums
<1>5. /\ t.step = "done" /\ t.next = 0 /\ t.rows = s.rows /\ t.out = s.out /\ t.results = s.results /\ t.ep = s.ep
      /\ t.sum = [s.sum EXCEPT !["failed"] = Len(s.rows)]
  BY <1>1 DEF SearchRec
<1>. HIDE DEF t
<1>6. Told(s) = {} /\ Total(s.sum) = 0
  <2>1. Told(s) = {}
    BY <1>1, <1>3 DEF SearchCounted, Told
  <2>. QED BY <1>1, <2>1, FS_EmptySet DEF SearchCounted
<1>7. Total(t.sum) = Len(t.rows)
  BY <1>3, <1>5, <1>6 DEF Total, Sums
<1>8. SearchCounted(t)
  BY <1>5, <1>7 DEF SearchCounted
<1>9. SearchRight(Isp[j], t)
  BY <1>1, <1>5 DEF SearchRight, RowRight
<1>. QED BY <1>2, <1>4, <1>8, <1>9, SearchSet, CacheFrame DEF CRMInv, SearchOK

\* A row that gets its outcome in the scan.
LEMMA ToldRow ==
  ASSUME NEW i, NEW s, SearchOK(i, s), s.step = "scan", s.next <= Len(s.rows), NEW a \in Outs \ {"none"},
         a \in Own \/ (s.rows[s.next] \in Lookups /\ a = Answers[i][s.ep][s.rows[s.next]])
  PROVE  SearchOK(i, [s EXCEPT !.next = @ + 1, !.out[s.next] = a, !.sum = Counted(s, a, 1)])
<1>. DEFINE t == [s EXCEPT !.next = @ + 1, !.out[s.next] = a, !.sum = Counted(s, a, 1)]
<1>1. s \in SearchRec /\ SearchRight(i, s) /\ SearchCounted(s)
  BY DEF SearchOK
<1>2. Len(s.rows) \in Nat /\ s.next \in 1..Len(s.rows) /\ DOMAIN s.out = 1..Len(s.rows)
  BY <1>1 DEF SearchRec, SearchCounted, SearchRight
<1>3. s.out \in [1..Len(s.rows) -> Outs]
  BY <1>1, <1>2, OutIs
<1>4. [s.out EXCEPT ![s.next] = a] \in [1..Len(s.rows) -> Outs]
  BY <1>3
<1>5. [s.out EXCEPT ![s.next] = a] \in OutFuns
  BY <1>2, <1>4 DEF OutFuns
<1>6. Counted(s, a, 1) \in [Sums -> Nat] /\ Total(Counted(s, a, 1)) = Total(s.sum) + 1
  BY <1>1, SumAdds
<1>7. t = [s EXCEPT !.next = s.next + 1, !.out = [s.out EXCEPT ![s.next] = a], !.sum = Counted(s, a, 1)]
  OBVIOUS
<1>8. t \in SearchRec
  <2>1. s.next + 1 \in Nat
    BY <1>2
  <2>. QED BY <1>1, <1>5, <1>6, <1>7, <2>1, SearchRecSet
<1>9. /\ t.step = "scan" /\ t.next = s.next + 1 /\ t.rows = s.rows /\ t.out = [s.out EXCEPT ![s.next] = a]
      /\ t.results = s.results /\ t.ep = s.ep /\ t.sum = Counted(s, a, 1) /\ t.pending = s.pending
  BY <1>1, <1>7 DEF SearchRec
<1>. HIDE DEF t
<1>10. t.out[s.next] = a /\ \A r \in 1..Len(s.rows) : r # s.next => t.out[r] = s.out[r]
  BY <1>2, <1>3, <1>9
<1>11. SearchRight(i, t)
  BY <1>1, <1>3, <1>9, <1>10 DEF SearchRight, RowRight
<1>12. Total(t.sum) = Cardinality(Told(t))
  <2>1. s.out[s.next] = "none" /\ a # "none"
    BY <1>1, <1>2 DEF SearchCounted
  <2>2. Cardinality({s.next}) = 1
    BY FS_Singleton
  <2>. DEFINE M == {s.next}
  <2>4. M \in SUBSET (1..Len(s.rows)) /\ \A r \in M : s.out[r] = "none"
    BY <1>2, <2>1
  <2>5. (\A r \in M : t.out[r] # "none") /\ \A r \in 1..Len(s.rows) : r \notin M => t.out[r] = s.out[r]
    BY <1>10, <2>1
  <2>. HIDE DEF M
  <2>6. Cardinality(Told(t)) = Cardinality(Told(s)) + Cardinality(M) /\ Cardinality(Told(s)) \in Nat
    <3>1. Len(s.rows) \in Nat /\ t.rows = s.rows
      BY <1>2, <1>9
    <3>2. MoreTold(s, t, M)
      BY <2>4, <2>5, <3>1 DEF MoreTold
    <3>. QED BY <3>2, ToldGrows
  <2>3. Cardinality(Told(t)) = Cardinality(Told(s)) + Cardinality({s.next})
    BY <2>6 DEF M
  <2>. QED BY <1>1, <1>2, <1>6, <1>9, <2>2, <2>3 DEF SearchCounted
<1>13. SearchCounted(t)
  BY <1>1, <1>2, <1>9, <1>10, <1>12 DEF SearchCounted
<1>. QED BY <1>8, <1>11, <1>13 DEF SearchOK, t

\* A record of the search that differs in where the search is and what it waits for.
LEMMA SearchRecMove ==
  ASSUME NEW s \in SearchRec, NEW st \in {"scan", "send", "apply", "done"}, NEW n \in Nat, NEW P \in SUBSET Lookups
  PROVE  /\ [s EXCEPT !.step = st] \in SearchRec
         /\ [s EXCEPT !.next = n] \in SearchRec
         /\ [s EXCEPT !.next = n, !.pending = P] \in SearchRec
<1>. DEFINE F == [Sums -> Nat]
<1>1. SearchRec = [step : {"scan", "send", "apply", "done"}, ep : Endpoints, rows : Seq(Lookups \cup {NoNAT}),
                   known : SUBSET Lookups, next : Nat, out : OutFuns, pending : SUBSET Lookups,
                   sent : SUBSET Lookups, results : ResultFuns, sum : F]
  BY DEF SearchRec
<1>. HIDE DEF F
<1>. QED BY <1>1

\* A row that is left to a lookup, an old or a new one.
LEMMA LeftRow ==
  ASSUME NEW i, NEW s, SearchOK(i, s), s.step = "scan", s.next <= Len(s.rows), s.rows[s.next] \in Lookups
  PROVE  /\ s.rows[s.next] \in s.pending => SearchOK(i, [s EXCEPT !.next = @ + 1])
         /\ SearchOK(i, [s EXCEPT !.next = @ + 1, !.pending = @ \cup {s.rows[s.next]}])
<1>1. s \in SearchRec /\ SearchRight(i, s) /\ SearchCounted(s)
  BY DEF SearchOK
<1>2. /\ Len(s.rows) \in Nat /\ s.next \in 1..Len(s.rows) /\ s.next + 1 \in Nat /\ s.pending \in SUBSET Lookups
      /\ s.next # 0
  BY <1>1 DEF SearchRec, SearchCounted
<1>3. ASSUME NEW t, t \in SearchRec, t.step = s.step, t.next = s.next + 1, t.rows = s.rows, t.out = s.out, t.ep = s.ep,
             t.results = s.results, t.sum = s.sum, s.pending \subseteq t.pending, s.rows[s.next] \in t.pending
      PROVE  SearchOK(i, t)
  <2>1. SearchRight(i, t)
    BY <1>1, <1>3 DEF SearchRight, RowRight
  <2>2. Told(t) = Told(s)
    BY <1>3 DEF Told
  <2>3. SearchCounted(t)
    BY <1>1, <1>2, <1>3, <2>2 DEF SearchCounted
  <2>. QED BY <1>3, <2>1, <2>3 DEF SearchOK
<1>4. ASSUME s.rows[s.next] \in s.pending PROVE SearchOK(i, [s EXCEPT !.next = @ + 1])
  <2>. DEFINE t == [s EXCEPT !.next = s.next + 1]
  <2>1. t \in SearchRec
    BY <1>1, <1>2, SearchRecMove
  <2>2. /\ t.step = s.step /\ t.next = s.next + 1 /\ t.rows = s.rows /\ t.out = s.out /\ t.ep = s.ep
        /\ t.results = s.results /\ t.sum = s.sum /\ t.pending = s.pending
    BY <1>1 DEF SearchRec
  <2>. HIDE DEF t
  <2>3. SearchOK(i, t)
    BY <1>3, <1>4, <2>1, <2>2
  <2>. QED BY <2>3 DEF t
<1>5. SearchOK(i, [s EXCEPT !.next = @ + 1, !.pending = @ \cup {s.rows[s.next]}])
  <2>. DEFINE P == s.pending \cup {s.rows[s.next]}
              t == [s EXCEPT !.next = s.next + 1, !.pending = P]
  <2>0. P \in SUBSET Lookups
    BY <1>2
  <2>1. t \in SearchRec
    BY <1>1, <1>2, <2>0, SearchRecMove
  <2>2. /\ t.step = s.step /\ t.next = s.next + 1 /\ t.rows = s.rows /\ t.out = s.out /\ t.ep = s.ep
        /\ t.results = s.results /\ t.sum = s.sum /\ t.pending = P
    BY <1>1 DEF SearchRec
  <2>. HIDE DEF t
  <2>3. SearchOK(i, t)
    BY <1>3, <2>1, <2>2
  <2>. QED BY <2>3 DEF t
<1>. QED BY <1>4, <1>5

LEMMA ScanRowStep ==
  ASSUME CRMInv, NEW j \in Searches, ScanRow(j) PROVE CRMInv'
<1>. DEFINE s == search[j]
            l == s.rows[s.next]
            k == crmLookupHash(Isp[j], s.ep, l)
            told(a) == [s EXCEPT !.next = @ + 1, !.out[s.next] = a, !.sum = Counted(s, a, 1)]
            t == IF l = NoNAT THEN told("insufficient_nat_data")
                 ELSE IF crmCacheGet(k) THEN told(cache[k].ans)
                 ELSE IF l \in s.pending THEN [s EXCEPT !.next = @ + 1]
                 ELSE IF l \notin s.known THEN told("ambiguous")
                 ELSE [s EXCEPT !.next = @ + 1, !.pending = @ \cup {l}]
<1>1. s.step = "scan" /\ s.next <= Len(s.rows) /\ SearchOK(Isp[j], s) /\ s \in SearchRec /\ SearchCounted(s)
  BY SearchIs DEF ScanRow, SearchOK
<1>2. search' = [search EXCEPT ![j] = t] /\ UNCHANGED <<endpoint, cache>>
  BY DEF ScanRow
<1>3. l \in Lookups \cup {NoNAT} /\ s.ep \in Endpoints
  BY <1>1 DEF SearchRec, SearchCounted
<1>4. SearchOK(Isp[j], t)
  <2>0. {"insufficient_nat_data", "ambiguous"} \subseteq Own \cap (Outs \ {"none"})
    BY DEF Own, Outs
  <2>1. CASE l = NoNAT
    <3>1. SearchOK(Isp[j], told("insufficient_nat_data"))
      BY <1>1, <2>0, ToldRow
    <3>. QED BY <2>1, <3>1
  <2>2. CASE l # NoNAT /\ crmCacheGet(k)
    <3>1. l \in Lookups /\ k = <<Isp[j], s.ep, l>> /\ k \in DOMAIN cache
      BY <1>3, <2>2 DEF crmCacheGet, crmLookupHash
    <3>2. cache[k].ans \in Outs \ {"none"} /\ cache[k].ans = Answers[k[1]][k[2]][k[3]]
      BY <3>1 DEF CRMInv, CacheOK
    <3>3. cache[k].ans = Answers[Isp[j]][s.ep][l]
      <4>1. k[1] = Isp[j] /\ k[2] = s.ep /\ k[3] = l
        BY <3>1
      <4>. QED BY <3>2, <4>1
    <3>4. SearchOK(Isp[j], told(cache[k].ans))
      BY <1>1, <3>1, <3>2, <3>3, ToldRow
    <3>. QED BY <2>2, <3>4
  <2>3. CASE l # NoNAT /\ ~crmCacheGet(k) /\ l \in s.pending
    <3>1. SearchOK(Isp[j], [s EXCEPT !.next = @ + 1])
      BY <1>1, <1>3, <2>3, LeftRow
    <3>. QED BY <2>3, <3>1
  <2>4. CASE l # NoNAT /\ ~crmCacheGet(k) /\ l \notin s.pending /\ l \notin s.known
    <3>1. SearchOK(Isp[j], told("ambiguous"))
      BY <1>1, <2>0, ToldRow
    <3>. QED BY <2>4, <3>1
  <2>5. CASE l # NoNAT /\ ~crmCacheGet(k) /\ l \notin s.pending /\ l \in s.known
    <3>1. SearchOK(Isp[j], [s EXCEPT !.next = @ + 1, !.pending = @ \cup {s.rows[s.next]}])
      BY <1>1, <1>3, <2>5, LeftRow
    <3>. QED BY <2>5, <3>1
  <2>. QED BY <2>1, <2>2, <2>3, <2>4, <2>5
<1>. HIDE DEF t
<1>. QED BY <1>2, <1>4, SearchSet, CacheFrame DEF CRMInv

\* A search that goes on to another step with what it has.
LEMMA SearchMoves ==
  ASSUME CRMInv, NEW j \in Searches, search[j].step # "rest", NEW st \in {"send", "apply", "done"},
         search' = [search EXCEPT ![j] = [search[j] EXCEPT !.step = st]], UNCHANGED <<endpoint, cache>>,
         SearchCounted([search[j] EXCEPT !.step = st])
  PROVE  CRMInv'
<1>. DEFINE t == [search[j] EXCEPT !.step = st]
<1>1. search[j] \in SearchRec /\ SearchRight(Isp[j], search[j])
  BY SearchIs
<1>2. t \in SearchRec
  BY <1>1, SearchRecMove
<1>3. t.rows = search[j].rows /\ t.out = search[j].out /\ t.ep = search[j].ep /\ t.results = search[j].results
  BY <1>1 DEF SearchRec
<1>. HIDE DEF t
<1>4. SearchRight(Isp[j], t)
  BY <1>1, <1>3 DEF SearchRight, RowRight
<1>5. SearchOK(Isp[j], t)
  BY <1>2, <1>4 DEF SearchOK, t
<1>. QED BY <1>5, SearchSet, CacheFrame DEF t, CRMInv

LEMMA SearchMoveSteps ==
  ASSUME CRMInv, NEW j \in Searches
  PROVE  (ScanEnd(j) => CRMInv') /\ (SendEnd(j) => CRMInv') /\ (ApplyEnd(j) => CRMInv')
<1>. DEFINE s == search[j]
<1>0. ASSUME s.step # "rest", NEW st \in {"send", "apply", "done"}
      PROVE  LET t == [s EXCEPT !.step = st]
             IN  /\ t.step = st /\ t.next = s.next /\ t.rows = s.rows /\ t.out = s.out /\ t.sum = s.sum
                 /\ t.pending = s.pending /\ Told(t) = Told(s) /\ Len(s.rows) \in Nat /\ SearchCounted(s)
  <2>1. s \in SearchRec /\ SearchCounted(s)
    BY <1>0, SearchIs
  <2>2. LET t == [s EXCEPT !.step = st]
        IN  /\ t.step = st /\ t.next = s.next /\ t.rows = s.rows /\ t.out = s.out /\ t.sum = s.sum
            /\ t.pending = s.pending
    BY <2>1 DEF SearchRec
  <2>3. Len(s.rows) \in Nat
    BY <2>1 DEF SearchRec
  <2>. QED BY <2>1, <2>2, <2>3 DEF Told
<1>1. ASSUME ScanEnd(j) PROVE CRMInv'
  <2>1. PICK st \in {"send", "apply", "done"} : st = IF s.pending = {} THEN "done" ELSE "send"
    OBVIOUS
  <2>2. /\ s.step = "scan" /\ s.next > Len(s.rows) /\ UNCHANGED <<endpoint, cache>>
        /\ search' = [search EXCEPT ![j] = [search[j] EXCEPT !.step = st]]
    BY <1>1, <2>1 DEF ScanEnd
  <2>. DEFINE t == [s EXCEPT !.step = st]
  <2>3. /\ t.step = st /\ t.next = s.next /\ t.rows = s.rows /\ t.out = s.out /\ t.sum = s.sum
        /\ t.pending = s.pending /\ Told(t) = Told(s) /\ Len(s.rows) \in Nat /\ SearchCounted(s)
    BY <1>0, <2>2
  <2>. HIDE DEF t
  <2>4. SearchCounted(t)
    BY <2>1, <2>2, <2>3 DEF SearchCounted
  <2>. QED BY <2>2, <2>4, SearchMoves DEF t
<1>2. ASSUME SendEnd(j) PROVE CRMInv'
  <2>2. /\ s.step = "send" /\ UNCHANGED <<endpoint, cache>>
        /\ search' = [search EXCEPT ![j] = [search[j] EXCEPT !.step = "apply"]]
    BY <1>2 DEF SendEnd
  <2>. DEFINE t == [s EXCEPT !.step = "apply"]
  <2>3. /\ t.step = "apply" /\ t.next = s.next /\ t.rows = s.rows /\ t.out = s.out /\ t.sum = s.sum
        /\ t.pending = s.pending /\ Told(t) = Told(s) /\ Len(s.rows) \in Nat /\ SearchCounted(s)
    BY <1>0, <2>2
  <2>. HIDE DEF t
  <2>4. SearchCounted(t)
    BY <2>2, <2>3 DEF SearchCounted
  <2>. QED BY <2>2, <2>4, SearchMoves DEF t
<1>3. ASSUME ApplyEnd(j) PROVE CRMInv'
  <2>2. /\ s.step = "apply" /\ s.pending = {} /\ UNCHANGED <<endpoint, cache>>
        /\ search' = [search EXCEPT ![j] = [search[j] EXCEPT !.step = "done"]]
    BY <1>3 DEF ApplyEnd
  <2>. DEFINE t == [s EXCEPT !.step = "done"]
  <2>3. /\ t.step = "done" /\ t.next = s.next /\ t.rows = s.rows /\ t.out = s.out /\ t.sum = s.sum
        /\ t.pending = s.pending /\ Told(t) = Told(s) /\ Len(s.rows) \in Nat /\ SearchCounted(s)
    BY <1>0, <2>2
  <2>. HIDE DEF t
  <2>4. SearchCounted(t)
    BY <2>2, <2>3 DEF SearchCounted
  <2>. QED BY <2>2, <2>4, SearchMoves DEF t
<1>. QED BY <1>1, <1>2, <1>3

LEMMA BatchStep ==
  ASSUME CRMInv, NEW j \in Searches, NEW batch \in SUBSET Lookups, NEW got \in SUBSET Lookups,
         sendCRMBatch(j, batch, got)
  PROVE  CRMInv'
<1>. DEFINE s == search[j]
            R == [l \in DOMAIN s.results \cup got |->
                    IF l \in got THEN Answers[Isp[j]][s.ep][l] ELSE s.results[l]]
            t == [s EXCEPT !.sent = @ \cup batch, !.results = R]
<1>1. s.step = "send" /\ s \in SearchRec /\ SearchRight(Isp[j], s) /\ SearchCounted(s)
  BY SearchIs DEF sendCRMBatch
<1>2. search' = [search EXCEPT ![j] = t] /\ UNCHANGED <<endpoint, cache>>
  BY DEF sendCRMBatch
<1>3. PICK D \in SUBSET Lookups : s.results \in [D -> Outs]
  <2>1. s.results \in ResultFuns
    BY <1>1 DEF SearchRec
  <2>. QED BY <2>1 DEF ResultFuns
<1>4. s.ep \in Endpoints
  BY <1>1 DEF SearchRec
<1>5. R \in [D \cup got -> Outs]
  BY <1>3, <1>4, CRMFacts
<1>6. R \in ResultFuns
  <2>1. D \cup got \in SUBSET Lookups
    OBVIOUS
  <2>. QED BY <1>5, <2>1 DEF ResultFuns
<1>7. \A l \in DOMAIN R : R[l] = Answers[Isp[j]][s.ep][l]
  BY <1>1 DEF SearchRight
<1>. HIDE DEF R
<1>8. t \in SearchRec
  <2>. DEFINE F == [Sums -> Nat]
  <2>1. SearchRec = [step : {"scan", "send", "apply", "done"}, ep : Endpoints, rows : Seq(Lookups \cup {NoNAT}),
                     known : SUBSET Lookups, next : Nat, out : OutFuns, pending : SUBSET Lookups,
                     sent : SUBSET Lookups, results : ResultFuns, sum : F]
    BY DEF SearchRec
  <2>. HIDE DEF F
  <2>. QED BY <1>1, <1>6, <2>1
<1>9. /\ t.step = "send" /\ t.next = s.next /\ t.rows = s.rows /\ t.out = s.out /\ t.ep = s.ep /\ t.results = R
      /\ t.sum = s.sum /\ t.pending = s.pending
  BY <1>1 DEF SearchRec
<1>. HIDE DEF t
<1>10. SearchRight(Isp[j], t)
  BY <1>1, <1>7, <1>9 DEF SearchRight, RowRight
<1>11. Told(t) = Told(s)
  BY <1>9 DEF Told
<1>12. SearchCounted(t)
  BY <1>1, <1>9, <1>11 DEF SearchCounted
<1>. QED BY <1>2, <1>8, <1>10, <1>12, SearchSet, CacheFrame DEF CRMInv, SearchOK

\* The cache stays within its bound: a full one is cut to less than nine tenths first.
LEMMA CachePutOK ==
  ASSUME CacheOK, NEW j \in Searches, NEW e \in Endpoints, NEW l \in Lookups,
         crmCachePut(crmLookupHash(Isp[j], e, l), Answers[Isp[j]][e][l])
  PROVE  CacheOK'
<1>. DEFINE k == crmLookupHash(Isp[j], e, l)
            a == Answers[Isp[j]][e][l]
            n == (CacheMax * 9) \div 10
<1>1. k = <<Isp[j], e, l>> /\ k \in Keys /\ a \in Outs \ {"none"} /\ a = Answers[k[1]][k[2]][k[3]]
  BY CRMFacts DEF crmLookupHash
<1>2. CacheMax \in Nat /\ CacheMax >= 1 /\ n \in Nat /\ n <= CacheMax
  <2>1. CacheMax \in Nat /\ CacheMax >= 1
    BY CRMAssumption
  <2>. QED BY <2>1
<1>3. PICK S \in SUBSET DOMAIN cache :
        /\ IF Cardinality(DOMAIN cache) < CacheMax THEN S = DOMAIN cache
           ELSE Cardinality(S) = IF n = 0 THEN 0 ELSE n - 1
        /\ cache' = [x \in S \cup {k} |->
                       IF x = k THEN [ans |-> a, left |-> IF Matched(a) THEN 2 ELSE 1] ELSE cache[x]]
  BY DEF crmCachePut
<1>. HIDE DEF k, a, n
<1>4. IsFiniteSet(DOMAIN cache) /\ Cardinality(DOMAIN cache) \in Nat
  BY FS_CardinalityType DEF CacheOK
<1>5. IsFiniteSet(S) /\ Cardinality(S) \in Nat /\ Cardinality(S) + 1 <= CacheMax
  <2>1. IsFiniteSet(S) /\ Cardinality(S) \in Nat
    BY <1>4, FS_Subset, FS_CardinalityType
  <2>2. CASE Cardinality(DOMAIN cache) < CacheMax
    BY <1>2, <1>3, <1>4, <2>1, <2>2
  <2>3. CASE ~(Cardinality(DOMAIN cache) < CacheMax)
    BY <1>2, <1>3, <2>1, <2>3
  <2>. QED BY <2>1, <2>2, <2>3
<1>6. DOMAIN cache' = S \cup {k}
  BY <1>3
<1>7. IsFiniteSet(S \cup {k}) /\ Cardinality(S \cup {k}) <= CacheMax
  <2>1. IsFiniteSet(S \cup {k})
    BY <1>5, FS_AddElement
  <2>2. Cardinality(S \cup {k}) = IF k \in S THEN Cardinality(S) ELSE Cardinality(S) + 1
    BY <1>5, FS_AddElement
  <2>. QED BY <1>2, <1>5, <2>1, <2>2
<1>8. \A x \in S \cup {k} : x \in Keys
  BY <1>1 DEF CacheOK
<1>9. ASSUME NEW x \in S \cup {k}
      PROVE  cache'[x] \in [ans : Outs \ {"none"}, left : 0..2] /\ cache'[x].ans = Answers[x[1]][x[2]][x[3]]
  <2>1. CASE x = k
    <3>1. cache'[x] = [ans |-> a, left |-> IF Matched(a) THEN 2 ELSE 1]
      BY <1>3, <2>1
    <3>. QED BY <1>1, <2>1, <3>1
  <2>2. CASE x # k
    <3>1. cache'[x] = cache[x] /\ x \in DOMAIN cache
      BY <1>3, <2>2
    <3>. QED BY <3>1 DEF CacheOK
  <2>. QED BY <2>1, <2>2
<1>. QED BY <1>6, <1>7, <1>8, <1>9 DEF CacheOK

LEMMA ApplyLookupStep ==
  ASSUME CRMInv, NEW j \in Searches, NEW l \in Lookups, ApplyResult(j, l) PROVE CRMInv'
<1>. DEFINE s == search[j]
            a == IF l \in DOMAIN s.results THEN s.results[l] ELSE "error"
            mine == {r \in DOMAIN s.rows : s.rows[r] = l /\ s.out[r] = "none"}
            u == Counted(s, a, Cardinality(mine))
            o == [r \in DOMAIN s.rows |-> IF r \in mine THEN a ELSE s.out[r]]
            P == s.pending \ {l}
            t == [s EXCEPT !.pending = P, !.sum = u, !.out = o]
<1>1. s.step = "apply" /\ s \in SearchRec /\ SearchRight(Isp[j], s) /\ SearchCounted(s)
  BY SearchIs DEF ApplyResult
<1>2. /\ search' = [search EXCEPT ![j] = t] /\ UNCHANGED endpoint
      /\ IF a = "error" THEN UNCHANGED cache ELSE crmCachePut(crmLookupHash(Isp[j], s.ep, l), a)
  BY DEF ApplyResult
<1>3. /\ Len(s.rows) \in Nat /\ DOMAIN s.rows = 1..Len(s.rows) /\ s.ep \in Endpoints /\ P \in SUBSET Lookups
      /\ s.out \in [1..Len(s.rows) -> Outs]
  BY <1>1, OutIs DEF SearchRec, SearchRight
<1>4. a = "error" \/ a = Answers[Isp[j]][s.ep][l]
  BY <1>1 DEF SearchRight
<1>5. a \in Outs /\ a # "none"
  BY <1>3, <1>4, CRMFacts DEF Own
<1>6. CacheOK'
  <2>1. CASE a = "error"
    BY <1>2, <2>1, CacheFrame DEF CRMInv
  <2>2. CASE a # "error"
    <3>1. crmCachePut(crmLookupHash(Isp[j], s.ep, l), Answers[Isp[j]][s.ep][l])
      BY <1>2, <1>4, <2>2
    <3>. QED BY <1>3, <3>1, CachePutOK DEF CRMInv
  <2>. QED BY <2>1, <2>2
<1>. HIDE DEF a
<1>7. mine \in SUBSET (1..Len(s.rows)) /\ \A r \in mine : s.rows[r] = l /\ s.out[r] = "none"
  BY <1>3
<1>8. \A r \in 1..Len(s.rows) : s.rows[r] = l /\ s.out[r] = "none" => r \in mine
  BY <1>3
<1>9. /\ o \in [1..Len(s.rows) -> Outs] /\ (\A r \in mine : o[r] = a)
      /\ \A r \in 1..Len(s.rows) : r \notin mine => o[r] = s.out[r]
  BY <1>3, <1>5, <1>7
<1>10. o \in OutFuns
  BY <1>3, <1>9 DEF OutFuns
<1>11. Cardinality(mine) \in Nat
  <2>1. IsFiniteSet(1..Len(s.rows))
    BY <1>3, FS_Interval
  <2>. QED BY <1>7, <2>1, FS_Subset, FS_CardinalityType
<1>. HIDE DEF mine, o
<1>12. u \in [Sums -> Nat] /\ Total(u) = Total(s.sum) + Cardinality(mine)
  BY <1>1, <1>11, SumAdds
<1>. HIDE DEF u
<1>13. t \in SearchRec
  <2>. DEFINE F == [Sums -> Nat]
  <2>1. SearchRec = [step : {"scan", "send", "apply", "done"}, ep : Endpoints, rows : Seq(Lookups \cup {NoNAT}),
                     known : SUBSET Lookups, next : Nat, out : OutFuns, pending : SUBSET Lookups,
                     sent : SUBSET Lookups, results : ResultFuns, sum : F]
    BY DEF SearchRec
  <2>2. u \in F
    BY <1>12
  <2>. HIDE DEF F, P
  <2>. QED BY <1>1, <1>3, <1>10, <2>1, <2>2
<1>14. /\ t.step = "apply" /\ t.next = s.next /\ t.rows = s.rows /\ t.out = o /\ t.ep = s.ep /\ t.results = s.results
       /\ t.sum = u /\ t.pending = P
  BY <1>1 DEF SearchRec
<1>. HIDE DEF t
<1>15. SearchRight(Isp[j], t)
  <2>1. \A r \in 1..Len(s.rows) : RowRight(Isp[j], t, r)
    BY <1>1, <1>4, <1>7, <1>9, <1>14 DEF RowRight, SearchRight, Own
  <2>. QED BY <1>1, <1>9, <1>14, <2>1 DEF SearchRight
<1>16. Cardinality(Told(t)) = Cardinality(Told(s)) + Cardinality(mine)
  <2>1. (\A r \in mine : s.out[r] = "none") /\ (\A r \in mine : t.out[r] # "none")
    BY <1>5, <1>7, <1>9, <1>14
  <2>2. \A r \in 1..Len(s.rows) : r \notin mine => t.out[r] = s.out[r]
    BY <1>9, <1>14
  <2>3. Len(s.rows) \in Nat /\ t.rows = s.rows
    BY <1>3, <1>14
  <2>4. MoreTold(s, t, mine)
    BY <1>7, <2>1, <2>2, <2>3 DEF MoreTold
  <2>. QED BY <2>4, ToldGrows
<1>17. SearchCounted(t)
  <2>1. s.next # 0 /\ Total(s.sum) = Cardinality(Told(s))
    BY <1>1 DEF SearchCounted
  <2>2. Total(t.sum) = Cardinality(Told(t))
    BY <1>12, <1>14, <1>16, <2>1
  <2>3. \A r \in 1..Len(t.rows) : t.out[r] = "none" => t.rows[r] \in t.pending
    <3>1. ASSUME NEW r \in 1..Len(s.rows), o[r] = "none" PROVE s.rows[r] \in P
      <4>1. r \notin mine /\ s.out[r] = "none"
        BY <1>5, <1>9, <3>1
      <4>. QED BY <1>1, <1>8, <4>1 DEF SearchCounted
    <3>. QED BY <1>14, <3>1
  <2>. QED BY <1>14, <2>1, <2>2, <2>3 DEF SearchCounted
<1>. QED BY <1>2, <1>6, <1>13, <1>15, <1>17, SearchSet DEF SearchOK

LEMMA CRMOtherSteps ==
  ASSUME CRMInv
  PROVE  /\ \A j \in Searches : Respond(j) => CRMInv'
         /\ \A i \in CRMIsps, e \in Endpoints : SaveConnector(i, e) => CRMInv'
         /\ CRMMinute => CRMInv'
<1>1. ASSUME NEW j \in Searches, Respond(j) PROVE CRMInv'
  <2>1. search' \in [Searches -> {Resting} \cup SearchRec] /\ UNCHANGED <<endpoint, cache>>
    BY <1>1 DEF Respond, CRMInv
  <2>2. Resting.step = "rest"
    BY DEF Resting
  <2>3. \A o \in Searches : search'[o].step # "rest" => SearchOK(Isp[o], search'[o])
    BY <1>1, <2>2 DEF Respond, CRMInv
  <2>. QED BY <2>1, <2>3, CacheFrame DEF CRMInv
<1>2. ASSUME NEW i \in CRMIsps, NEW e \in Endpoints, SaveConnector(i, e) PROVE CRMInv'
  <2>1. endpoint' \in [CRMIsps -> Endpoints] /\ UNCHANGED search /\ cache' = <<>>
    BY <1>2 DEF SaveConnector, CRMInv
  <2>2. DOMAIN cache' = {}
    BY <2>1
  <2>3. CacheOK'
    BY <2>2, FS_EmptySet, CRMAssumption DEF CacheOK
  <2>. QED BY <2>1, <2>3 DEF CRMInv
<1>3. ASSUME CRMMinute PROVE CRMInv'
  <2>. DEFINE D == {x \in DOMAIN cache : cache[x].left > 0}
  <2>1. cache' = [k \in D |-> [cache[k] EXCEPT !.left = @ - 1]] /\ UNCHANGED <<endpoint, search>>
    BY <1>3 DEF CRMMinute
  <2>2. DOMAIN cache' = D /\ D \subseteq DOMAIN cache
    BY <2>1
  <2>3. IsFiniteSet(DOMAIN cache) /\ Cardinality(DOMAIN cache) \in Nat /\ Cardinality(DOMAIN cache) <= CacheMax
    BY FS_CardinalityType DEF CRMInv, CacheOK
  <2>4. IsFiniteSet(D) /\ Cardinality(D) \in Nat /\ Cardinality(D) <= CacheMax
    <3>1. IsFiniteSet(D) /\ Cardinality(D) <= Cardinality(DOMAIN cache)
      BY <2>2, <2>3, FS_Subset
    <3>2. Cardinality(D) \in Nat
      BY <3>1, FS_CardinalityType
    <3>. QED BY <2>3, <3>1, <3>2, CRMAssumption
  <2>5. ASSUME NEW k \in D
        PROVE  cache'[k] \in [ans : Outs \ {"none"}, left : 0..2] /\ cache'[k].ans = Answers[k[1]][k[2]][k[3]]
    <3>1. /\ cache[k] \in [ans : Outs \ {"none"}, left : 0..2] /\ cache[k].ans = Answers[k[1]][k[2]][k[3]]
          /\ cache[k].left > 0
      BY DEF CRMInv, CacheOK
    <3>2. cache'[k] = [cache[k] EXCEPT !.left = @ - 1]
      BY <2>1
    <3>3. cache'[k] = [cache[k] EXCEPT !.left = cache[k].left - 1] /\ cache[k].left - 1 \in 0..2
      BY <3>1, <3>2
    <3>. QED BY <3>1, <3>3
  <2>6. D \subseteq Keys
    BY DEF CRMInv, CacheOK
  <2>. HIDE DEF D
  <2>7. CacheOK'
    BY <2>2, <2>4, <2>5, <2>6 DEF CacheOK
  <2>. QED BY <2>1, <2>7 DEF CRMInv
<1>. QED BY <1>1, <1>2, <1>3

LEMMA CRMInitInv == CRMInit => CRMInv
<1>. SUFFICES ASSUME CRMInit PROVE CRMInv
  OBVIOUS
<1>1. DOMAIN cache = {} /\ endpoint \in [CRMIsps -> Endpoints]
  BY DEF CRMInit, Endpoints
<1>2. CacheOK
  BY <1>1, FS_EmptySet, CRMAssumption DEF CacheOK
<1>3. search \in [Searches -> {Resting} \cup SearchRec] /\ \A j \in Searches : search[j].step = "rest"
  BY DEF CRMInit, Resting
<1>. QED BY <1>1, <1>2, <1>3 DEF CRMInv

LEMMA CRMNextInv ==
  ASSUME CRMInv, [CRMNext]_crmVars PROVE CRMInv'
<1>1. CASE UNCHANGED crmVars
  <2>1. CacheOK'
    BY <1>1, CacheFrame DEF crmVars, CRMInv
  <2>. QED BY <1>1, <2>1 DEF crmVars, CRMInv
<1>. QED BY <1>1, BeginStep, FailsStep, ScanRowStep, SearchMoveSteps, BatchStep, ApplyLookupStep, CRMOtherSteps DEF CRMNext

LEMMA CRMSound ==
  ASSUME CRMInv PROVE CRMTypeOK /\ EnrichmentSound
<1>1. CRMTypeOK
  BY DEF CRMInv, CRMTypeOK, CacheOK, SearchRec, Resting
<1>2. CRMCacheBounded
  BY DEF CRMInv, CacheOK, CRMCacheBounded
<1>3. ASSUME NEW j \in Searches, search[j].step # "rest"
      PROVE  DOMAIN search[j].rows = 1..Len(search[j].rows)
  BY <1>3, SearchIs DEF SearchRec
<1>4. RightSubscriber
  <2>1. ASSUME NEW j \in Searches, search[j].step # "rest", NEW r \in 1..Len(search[j].rows),
               search[j].out[r] \notin Own
        PROVE  search[j].out[r] = Answers[Isp[j]][search[j].ep][search[j].rows[r]]
    BY <2>1, SearchIs DEF SearchRight, RowRight
  <2>. QED BY <1>3, <2>1 DEF RightSubscriber, Own
<1>5. CountsAddUp
  <2>. SUFFICES ASSUME NEW j \in Searches, search[j].step = "done"
                PROVE  /\ Total(search[j].sum) = Len(search[j].rows)
                       /\ search[j].next # 0 => \A r \in DOMAIN search[j].rows : search[j].out[r] # "none"
    BY DEF CountsAddUp, Total
  <2>1. SearchCounted(search[j]) /\ DOMAIN search[j].rows = 1..Len(search[j].rows) /\ Len(search[j].rows) \in Nat
    BY <1>3, SearchIs DEF SearchRec
  <2>2. CASE search[j].next = 0
    BY <2>1, <2>2 DEF SearchCounted
  <2>3. CASE search[j].next # 0
    <3>1. Told(search[j]) = 1..Len(search[j].rows)
      BY <2>1, <2>3 DEF Told, SearchCounted
    <3>2. Cardinality(1..Len(search[j].rows)) = Len(search[j].rows)
      BY <2>1, FS_Interval
    <3>. QED BY <2>1, <2>3, <3>1, <3>2 DEF SearchCounted
  <2>. QED BY <2>2, <2>3
<1>. QED BY <1>1, <1>2, <1>4, <1>5 DEF EnrichmentSound

\* Whatever other searches, expiries and saved connectors do between a search's steps, a
\* row names the subscriber its own tenant's CRM knows at the endpoint the search started
\* with, a finished search has counted every row once, and the cache keeps its bound
\* (crm.go, enrichCRMRows and crmCachePut).
THEOREM EnrichmentStaysSound == Spec => []EnrichmentSound
<1>1. Init => CRMInv
  BY CRMInitInv DEF Init
<1>2. CRMInv /\ [Next]_consoleVars => CRMInv'
  BY CRMNextInv, PartSteps
<1>3. CRMInv => EnrichmentSound
  BY CRMSound
<1>. QED BY <1>1, <1>2, <1>3, PTL DEF Spec

-----------------------------------------------------------------------------
(* The console as a whole.                                                 *)

ConsoleInv ==
  AccInv /\ PolInv /\ TFInv /\ LoginInv /\ CRMInv /\ AuditInv /\ SetInv /\ ExpInv /\ RollInv /\ DashInv

LEMMA ConsoleTypes == ASSUME ConsoleInv PROVE TypeOK
<1>1. AccTypeOK
  <2>1. TablesOK
    BY DEF ConsoleInv, AccInv
  <2>. QED BY <2>1, AccountsAssumption DEF TablesOK, AccTypeOK, IspRow
<1>2. PolTypeOK /\ TFTypeOK /\ LoginTypeOK /\ AuditTypeOK /\ DashTypeOK
  BY DEF ConsoleInv, PolInv, TFInv, LoginInv, AuditInv, DashInv
<1>3. CRMTypeOK
  BY CRMSound DEF ConsoleInv
<1>4. SetTypeOK
  BY DEF ConsoleInv, SetInv, SetTypes, SetTypeOK, Values
<1>5. ExpTypeOK
  <2>1. ExpTypes
    BY DEF ConsoleInv, ExpInv
  <2>2. export.status \in {"none", "queued", "running", "complete", "failed"}
    BY <2>1 DEF ExpTypes, ExpJobs, NoJob
  <2>. QED BY <2>1, <2>2 DEF ExpTypes, ExpTypeOK
<1>6. RollTypeOK
  <2>1. RollTypes
    BY DEF ConsoleInv, RollInv
  <2>2. job.step \in {"ensure", "backfill", "backfillSubs", "seed", "idle", "hourly", "subs"}
    BY <2>1 DEF RollTypes, RollJobs, Ensuring
  <2>. QED BY <2>1, <2>2 DEF RollTypes, RollTypeOK
<1>. QED BY <1>1, <1>2, <1>3, <1>4, <1>5, <1>6 DEF TypeOK

\* The state of every part of the console keeps its type, and policies, devices and
\* tenants fit together, whatever the parts do (Policies).
THEOREM ConsoleStaysSound == Spec => []ConsoleSound
<1>1. Init => ConsoleInv
  BY AccInitInv, PolInitInv, TFInitInv, LoginInitInv, CRMInitInv, AuditInitInv, SetInitInv, ExpInitInv,
     RollInitInv, DashInitInv DEF Init, ConsoleInv
<1>2. ConsoleInv /\ [Next]_consoleVars => ConsoleInv'
  BY AccNextInv, PolNextInv, TFNextInv, LoginNextInv, CRMNextInv, AuditNextInv, SetNextInv, ExpNextInv,
     RollNextInv, DashNextInv, PartSteps DEF ConsoleInv
<1>3. ConsoleInv => ConsoleSound
  BY ConsoleTypes DEF ConsoleInv, PolInv, ConsoleSound
<1>. QED BY <1>1, <1>2, <1>3, PTL DEF Spec
=============================================================================
