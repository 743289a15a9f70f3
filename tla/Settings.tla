------------------------------ MODULE Settings ------------------------------
(* Runtime settings: internal/director/settings.go on the collector, and the     *)
(* management gateway in front of it (management.go, management_settings.go).    *)
(* A section lives in the collector's memory, in the settings table and in the   *)
(* dataplane; handlePutSettings changes the three one after another.             *)
EXTENDS Naturals

CONSTANTS
  Puts,     \* PUT requests in flight
  MaxForms  \* bound: forms ever filled in, and mishaps

ASSUME SettingsAssumption == MaxForms \in Nat /\ 0 \notin Puts

VARIABLES
  memory,    \* Server.settings: section -> [form, secret]; a connector is a section
  table,     \* the settings table
  applied,   \* what the applier last pushed into the dataplane
  applyMu,   \* applyMu: the request that holds it, or 0
  put,       \* the requests
  direct,    \* the console is served by the collector itself, without the gateway
  settingsGate, \* the gateway's mutations mutex: its holder, or 0
  mishap,    \* sections a save of which went wrong since the start
  acked,     \* the value of each connector last answered with ok
  forms      \* forms filled in so far

setVars == <<memory, table, applied, applyMu, put, direct, settingsGate, mishap, acked, forms>>

\* One section of those that are clamped and hold a secret, and the crm section,
\* which is stored as one text with a connector for each of two tenants.
Connectors == {"crm1", "crm2"}
Sections == {"notifications"} \cup Connectors
Applied == Sections \ Connectors

\* A form is the number of its filling in; 0 is the default.  Form 1 of the
\* notifications holds a value out of range: the gateway refuses it, the collector clamps it.
OutOfRange(s, f) == s = "notifications" /\ f = 1
validateSettingsForm(s, f) == ~OutOfRange(s, f)
sanitize(s, f) == IF OutOfRange(s, f) THEN 0 ELSE f
Default == [form |-> 0, secret |-> 0]

NoPut == [step |-> "none"]
SetInit ==
  /\ memory = [s \in Sections |-> Default] /\ table = memory
  /\ applied = [s \in Applied |-> Default]
  /\ applyMu = 0 /\ settingsGate = 0 /\ put = [p \in Puts |-> NoPut]
  /\ direct \in BOOLEAN /\ mishap = {} /\ forms = 0
  /\ acked = [c \in Connectors |-> Default]

SetTypeOK ==
  /\ memory \in [Sections -> [form : 0..MaxForms, secret : 0..MaxForms]]
  /\ table \in [Sections -> [form : 0..MaxForms, secret : 0..MaxForms]]
  /\ mishap \subseteq Sections

-----------------------------------------------------------------------------
(* The gateway.                                                              *)

\* settingsVersions: what the collector answers, with its secrets blanked, and the
\* stored text of the section.
settingsVersion(s) ==
  <<memory[s].form, IF s \in Connectors THEN [c \in Connectors |-> table[c]] ELSE table[s]>>

\* GET /settings shows the section and its version; a form is filled in, with a new
\* secret or a blank one.
OpenForm(p, s, newSecret) ==
  /\ put[p] = NoPut /\ forms < MaxForms /\ forms' = forms + 1
  /\ direct \/ settingsGate = 0
  /\ put' = [put EXCEPT ![p] =
       [step |-> IF direct THEN "decoded" ELSE "form", section |-> s, form |-> forms + 1,
        secret |-> IF newSecret THEN forms + 1 ELSE 0, seen |-> settingsVersion(s), base |-> memory[s]]]
  /\ UNCHANGED <<memory, table, applied, applyMu, direct, settingsGate, mishap, acked>>

\* managementHandler takes the mutex; checkRuntimeSettings refuses an invalid form
\* and one opened on another version, and the request goes on to the collector.
checkRuntimeSettings(p) ==
  LET r == put[p]
      ok == validateSettingsForm(r.section, r.form) /\ r.seen = settingsVersion(r.section)
  IN
  /\ r.step = "form" /\ settingsGate = 0
  /\ put' = [put EXCEPT ![p] = IF ok THEN [r EXCEPT !.step = "decoded", !.base = memory[r.section]] ELSE NoPut]
  /\ settingsGate' = IF ok THEN p ELSE 0
  /\ UNCHANGED <<memory, table, applied, applyMu, direct, mishap, acked, forms>>

Release(p) == settingsGate' = IF settingsGate = p THEN 0 ELSE settingsGate
Done(p) == put' = [put EXCEPT ![p] = NoPut] /\ Release(p)
At(p, step) == put[p].step = step
Go(p, step) == put' = [put EXCEPT ![p].step = step] /\ UNCHANGED settingsGate

\* The operator gives up: the gateway lets go of the mutex, the collector goes on.
Abandon(p) ==
  /\ settingsGate = p /\ settingsGate' = 0
  /\ mishap' = mishap \cup {put[p].section}
  /\ UNCHANGED <<memory, table, applied, applyMu, put, direct, acked, forms>>

-----------------------------------------------------------------------------
(* handlePutSettings, sections other than crm: memory, table, dataplane.     *)

Merged(r) == [form |-> sanitize(r.section, r.form),
              secret |-> IF r.secret = 0 THEN memory[r.section].secret ELSE r.secret]
SetMemory(p) ==
  /\ At(p, "decoded") /\ put[p].section \notin Connectors
  /\ memory' = [memory EXCEPT ![put[p].section] = Merged(put[p])]
  /\ put' = [put EXCEPT ![p].step = "persist", ![p].base = Merged(put[p])]
  /\ UNCHANGED <<table, applied, applyMu, direct, settingsGate, mishap, acked, forms>>
PutSetting(p) ==
  /\ At(p, "persist")
  /\ table' = [table EXCEPT ![put[p].section] = put[p].base]
  /\ Go(p, "apply")
  /\ UNCHANGED <<memory, applied, applyMu, direct, mishap, acked, forms>>
\* The write fails, or its answer is lost; memory keeps the new value.
PutSettingFails(p, written) ==
  /\ At(p, "persist")
  /\ table' = IF written THEN [table EXCEPT ![put[p].section] = put[p].base] ELSE table
  /\ mishap' = mishap \cup {put[p].section}
  /\ Done(p)
  /\ UNCHANGED <<memory, applied, applyMu, direct, acked, forms>>

\* Mutant: two saves may be in Apply at once.
ApplyUnlocked(p) ==
  /\ At(p, "apply")
  /\ put' = [put EXCEPT ![p].step = "push", ![p].base = memory]
  /\ UNCHANGED <<memory, table, applied, applyMu, direct, settingsGate, mishap, acked, forms>>

\* Apply: the settings as they are now, then the applier, all under applyMu.
Apply(p) ==
  /\ At(p, "apply") /\ applyMu = 0 /\ applyMu' = p
  /\ put' = [put EXCEPT ![p].step = "push", ![p].base = memory]
  /\ UNCHANGED <<memory, table, applied, direct, settingsGate, mishap, acked, forms>>
Applier(p) ==
  /\ At(p, "push")
  /\ applied' = [s \in Applied |-> put[p].base[s]]
  /\ applyMu' = 0 /\ Done(p)
  /\ UNCHANGED <<memory, table, direct, mishap, acked, forms>>

-----------------------------------------------------------------------------
(* handlePutSettings, a crm connector: all of it under applyMu.              *)

\* The connectors are read, the tenant's own is replaced, and all are stored.
MergeConnector(p) ==
  /\ At(p, "decoded") /\ put[p].section \in Connectors
  /\ applyMu = 0 /\ applyMu' = p
  /\ put' = [put EXCEPT ![p].step = "crm",
       ![p].base = [c \in Connectors |-> IF c = put[p].section THEN Merged(put[p]) ELSE memory[c]]]
  /\ UNCHANGED <<memory, table, applied, direct, settingsGate, mishap, acked, forms>>
WithConnectors(f, cs) == [s \in Sections |-> IF s \in Connectors THEN cs[s] ELSE f[s]]
PutConnector(p) ==
  /\ At(p, "crm")
  /\ table' = WithConnectors(table, put[p].base)
  /\ Go(p, "crmsaved")
  /\ UNCHANGED <<memory, applied, applyMu, direct, mishap, acked, forms>>
PutConnectorFails(p, written) ==
  /\ At(p, "crm") /\ applyMu' = 0 /\ Done(p)
  /\ table' = IF written THEN WithConnectors(table, put[p].base) ELSE table
  /\ mishap' = mishap \cup Connectors
  /\ UNCHANGED <<memory, applied, direct, acked, forms>>
SetConnector(p) ==
  /\ At(p, "crmsaved") /\ applyMu' = 0 /\ Done(p)
  /\ memory' = WithConnectors(memory, put[p].base)
  /\ acked' = [acked EXCEPT ![put[p].section] = put[p].base[put[p].section]]
  /\ UNCHANGED <<table, applied, direct, mishap, forms>>

-----------------------------------------------------------------------------
\* The collector restarts: InitSettings, applyPersisted and the first apply.
Restart ==
  /\ forms < MaxForms /\ forms' = forms + 1
  /\ memory' = table /\ applied' = [s \in Applied |-> table[s]]
  /\ applyMu' = 0 /\ settingsGate' = 0 /\ mishap' = {}
  /\ put' = [p \in Puts |-> IF At(p, "form") THEN put[p] ELSE NoPut]
  /\ acked' = [c \in Connectors |-> table[c]]
  /\ UNCHANGED <<table, direct>>

SetNext ==
  \/ \E p \in Puts, s \in Sections, n \in BOOLEAN : OpenForm(p, s, n)
  \/ \E p \in Puts :
       \/ checkRuntimeSettings(p) \/ Abandon(p) \/ SetMemory(p) \/ PutSetting(p) \/ Apply(p) \/ Applier(p)
       \/ MergeConnector(p) \/ PutConnector(p) \/ SetConnector(p)
       \/ \E written \in BOOLEAN : PutSettingFails(p, written) \/ PutConnectorFails(p, written)
  \/ Restart

-----------------------------------------------------------------------------
\* Saves settle on one value.  With no save under way the dataplane runs what is in
\* memory, however many saves raced: they "converge" (settings.go:153).  Saves of two
\* tenants' connectors "cannot race and overwrite one another's" (settings.go:274):
\* memory and table hold what each was last told was saved.  Through the gateway
\* every section in memory is the stored one, so that a restart changes nothing.  All
\* this but for the sections a save of which went wrong.
Settled == \A p \in Puts : put[p].step \in {"none", "form"}
SettingsKept ==
  /\ Settled => \A s \in Applied \ mishap : applied[s] = memory[s]
  /\ applyMu = 0 => \A c \in Connectors \ mishap : memory[c] = acked[c] /\ table[c] = acked[c]
  /\ Settled /\ ~direct => \A s \in Sections \ mishap : table[s] = memory[s]
=============================================================================
