----------------------------- MODULE AuditChain -----------------------------
(* The hash chain of the query audit: LogQuery and VerifyAuditChain of           *)
(* internal/director/store/mysql.go.  A writer reads the last row's hash FOR     *)
(* UPDATE and inserts its own row with it; the error of that read is discarded,  *)
(* so a writer whose read fails inserts a row without a predecessor.             *)
EXTENDS Naturals, FiniteSets

CONSTANTS
  Writers,  \* searches and exports that log themselves
  MaxRows   \* bound: audit ids ever given out

ASSUME AuditAssumption == MaxRows \in Nat

VARIABLES
  audit,    \* query_audit: id -> [prev]; a row's hash is its id, 0 is the empty string
  nextRow,  \* AUTO_INCREMENT
  locks,    \* transactions that hold the last row, or the gap of the empty table
  log,      \* the writers: step, the hash read, whether the read failed, the id
  blind     \* ids of rows whose writer's read failed

auditVars == <<audit, nextRow, locks, log, blind>>

NoLog == [step |-> "idle", prev |-> 0, blind |-> FALSE, id |-> 0]
AuditInit ==
  /\ audit = <<>> /\ nextRow = 1 /\ locks = {} /\ blind = {}
  /\ log = [w \in Writers |-> NoLog]

AuditTypeOK ==
  /\ DOMAIN audit \subseteq 1..MaxRows /\ locks \subseteq Writers /\ blind \subseteq 1..MaxRows
  /\ \A w \in Writers : log[w].step \in {"idle", "read", "insert"}

Last == IF DOMAIN audit = {} THEN 0
        ELSE CHOOSE i \in DOMAIN audit : \A j \in DOMAIN audit : j <= i

\* Mutant: the last row is read without FOR UPDATE.
SelectLastPlain(w) ==
  /\ log[w].step = "idle"
  /\ log' = [log EXCEPT ![w] = [NoLog EXCEPT !.step = "read", !.prev = Last]]
  /\ UNCHANGED <<audit, nextRow, locks, blind>>

\* SELECT ... FOR UPDATE: exclusive on the last row; on an empty table it takes the
\* gap, which several may hold.
SelectLast(w) ==
  /\ log[w].step = "idle"
  /\ DOMAIN audit # {} => locks = {}
  /\ log' = [log EXCEPT ![w] = [NoLog EXCEPT !.step = "read", !.prev = Last]]
  /\ locks' = locks \cup {w}
  /\ UNCHANGED <<audit, nextRow, blind>>
\* The read fails: a deadlock victim, a lock timeout.  LogQuery goes on without it.
SelectFails(w) ==
  /\ log[w].step = "idle"
  /\ log' = [log EXCEPT ![w] = [NoLog EXCEPT !.step = "read", !.blind = TRUE]]
  /\ UNCHANGED <<audit, nextRow, locks, blind>>

\* INSERT takes its id first and then waits for the locks of others.
InsertRow(w) ==
  /\ log[w].step = "read" /\ nextRow <= MaxRows
  /\ nextRow' = nextRow + 1
  /\ log' = [log EXCEPT ![w].step = "insert", ![w].id = nextRow]
  /\ UNCHANGED <<audit, locks, blind>>
Commit(w) ==
  LET l == log[w] IN
  /\ l.step = "insert" /\ locks \subseteq {w}
  /\ audit' = [i \in DOMAIN audit \cup {l.id} |-> IF i = l.id THEN [prev |-> l.prev] ELSE audit[i]]
  /\ blind' = IF l.blind THEN blind \cup {l.id} ELSE blind
  /\ locks' = locks \ {w} /\ log' = [log EXCEPT ![w] = NoLog]
  /\ UNCHANGED nextRow
\* A deadlock, a timeout or a lost connection; the caller carries on (search.go:179).
Rollback(w) ==
  /\ log[w].step # "idle"
  /\ log' = [log EXCEPT ![w] = NoLog] /\ locks' = locks \ {w}
  /\ UNCHANGED <<audit, nextRow, blind>>

AuditNext ==
  \E w \in Writers : SelectLast(w) \/ SelectFails(w) \/ InsertRow(w) \/ Commit(w) \/ Rollback(w)

-----------------------------------------------------------------------------
\* VerifyAuditChain's comparison at row i: prev_hash is the hash of the row before.
Before(i) == {j \in DOMAIN audit : j < i}
Linked(i) == audit[i].prev = IF Before(i) = {} THEN 0 ELSE CHOOSE j \in Before(i) : \A k \in Before(i) : k <= j

\* The chain VerifyAuditChain walks breaks only at a row written blind or right
\* after one: as long as every writer could read the last hash, concurrent searches
\* and lost transactions leave a chain that verifies.
ChainVerifies ==
  \A i \in DOMAIN audit :
    Linked(i) \/ i \in blind \/ \E j \in blind : j < i /\ \A k \in Before(i) : k <= j
=============================================================================
