------------------------------ MODULE Archive ------------------------------
(***************************************************************************)
(* Retention and cold archive of one day of flow_logs: the auto-archive    *)
(* sweep and the manual archive endpoint (internal/director/retention.go)  *)
(* over archive.ExportDay, the hot-storage TTL that settings apply         *)
(* (cmd/natlog), and a search that joins hot and cold storage              *)
(* (internal/director/cold.go).  Any call to ClickHouse, S3 or MySQL may   *)
(* fail, before or after its effect, and the process may die anywhere.     *)
(***************************************************************************)
EXTENDS Integers, FiniteSets

CONSTANTS
  Rows,         \* flow records whose event_date is the day
  ISPs,         \* values of isp_id, registered or not
  Isp,          \* row -> isp_id
  Registered,   \* the tenants at the start
  Deletable,    \* tenants the director may delete
  LateRows,     \* rows that may be inserted after the day is over
  Manual,       \* archiving by hand: "never", "any", or "careful", which is not
                \* before the day is over, nor while it has rows of no tenant
  Configs,      \* settings: [after : ArchiveAfterDays, ret : Retention.Days]
  Reconfigure,  \* TRUE: the director saves settings while days age
  DefaultAfter, \* hot window when ArchiveAfterDays < 1; 7 in the code
  SweepDaily,   \* TRUE: no day passes without a sweep that ends without a failure
  MaxAge,       \* bound: age of the day
  MaxFaults,    \* bound: failed calls and crashes
  NoIsp         \* no tenant in work

ASSUME ArchiveAssumption ==
  /\ IsFiniteSet(Rows) /\ Isp \in [Rows -> ISPs] /\ NoIsp \notin ISPs
  /\ Registered \subseteq ISPs /\ Deletable \subseteq ISPs
  /\ LateRows \subseteq Rows
  /\ Configs \subseteq [after : Nat, ret : Nat \ {0}] /\ Configs # {}
  /\ Manual \in {"never", "any", "careful"} /\ DefaultAfter \in Nat \ {0}
  /\ MaxAge \in Nat /\ MaxFaults \in Nat
  /\ Reconfigure \in BOOLEAN /\ SweepDaily \in BOOLEAN

VARIABLES
  arrived,    \* rows inserted so far
  hot,        \* rows in the partition of the day
  uploaded,   \* tenants with an object in S3
  obj,        \* isp -> rows of its object
  marked,     \* the day is in archived_days
  isps,       \* the isps table
  act,        \* the sweep and the manual archive request
  swept,      \* a sweep of today has ended without a failure
  age,        \* today() - event_date
  settings,   \* Server.settings: archive window and retention
  saved,      \* the settings table
  due,        \* a saved setting is still to be applied
  lastRet,    \* TTL the applier asked for last
  ttl,        \* TTL of the table
  expired,    \* rows the TTL removed
  srch,       \* one search
  faults      \* failures so far

ttlVars == <<settings, saved, due, lastRet, ttl>>
s3Vars == <<uploaded, obj>>
vars == <<arrived, hot, s3Vars, marked, isps, act, swept, age, ttlVars, expired,
          srch, faults>>

Actors == {"sweep", "manual"}
RowsOf(i) == {r \in Rows : Isp[r] = i}
Archived == UNION {obj[i] : i \in ISPs}
Rest == [pc |-> "idle", todo |-> {}, isp |-> NoIsp, cu |-> 0, total |-> 0,
         failed |-> FALSE]
NoSearch == [pc |-> "idle", scope |-> {}, need |-> {}, saw |-> FALSE,
             cold |-> FALSE, hot |-> {}, s3 |-> {}, err |-> FALSE, quiet |-> TRUE]

\* The sweep falls back to a week when the window is not set.
HotWindow == IF settings.after < 1 THEN DefaultAfter ELSE settings.after

\* Mutant: one day of margin less.
ThinTTL(s) == IF s.ret < s.after + 1 THEN s.after + 1 ELSE s.ret

\* The applier raises the TTL above the archive window by two days.
EffectiveTTL(s) == IF s.ret < s.after + 2 THEN s.after + 2 ELSE s.ret

TypeOK ==
  /\ arrived \subseteq Rows /\ hot \subseteq arrived /\ expired \subseteq arrived
  /\ uploaded \subseteq ISPs /\ obj \in [ISPs -> SUBSET Rows]
  /\ \A i \in ISPs : obj[i] \subseteq (IF i \in uploaded THEN RowsOf(i) ELSE {})
  /\ marked \in BOOLEAN /\ swept \in BOOLEAN /\ due \in BOOLEAN
  /\ isps \subseteq ISPs
  /\ act \in [Actors -> [pc : {"idle", "check", "count", "stat", "insert",
                               "compare", "mark", "drop"},
                         todo : SUBSET ISPs, isp : ISPs \cup {NoIsp},
                         cu : 0..Cardinality(Rows), total : 0..Cardinality(Rows),
                         failed : BOOLEAN]]
  /\ age \in 0..MaxAge /\ faults \in 0..MaxFaults
  /\ settings \in Configs /\ saved \in Configs /\ lastRet \in Nat /\ ttl \in Nat \ {0}
  /\ srch \in [pc : {"idle", "days", "hot", "cold", "done"}, scope : SUBSET Rows,
               need : SUBSET Rows, saw : BOOLEAN, cold : BOOLEAN,
               hot : SUBSET Rows, s3 : SUBSET Rows, err : BOOLEAN, quiet : BOOLEAN]

Init ==
  /\ arrived = {} /\ hot = {} /\ expired = {}
  /\ uploaded = {} /\ obj = [i \in ISPs |-> {}]
  /\ marked = FALSE /\ isps = Registered
  /\ act = [a \in Actors |-> Rest] /\ swept = FALSE
  /\ age = 0 /\ faults = 0
  /\ settings \in Configs /\ saved = settings /\ due = FALSE
  /\ lastRet = EffectiveTTL(settings) /\ ttl = EffectiveTTL(settings)
  /\ srch = NoSearch

\* A call fails or succeeds.
Fault == faults < MaxFaults /\ faults' = faults + 1
Fine == UNCHANGED faults

\* Actor a moves on; a sweep that ends without a failure (not by a mismatch or an
\* object in the way, either) has done today's work.
Become(a, rec) ==
  /\ act' = [act EXCEPT ![a] = rec]
  /\ swept' = (swept \/ (/\ a = "sweep" /\ rec = Rest /\ faults' = faults
                         /\ act[a].pc \in {"count", "drop"}))
Goto(a, step) == Become(a, [act[a] EXCEPT !.pc = step])

-----------------------------------------------------------------------------
(* The collector inserts, days pass, tenants go, the TTL removes.          *)

Arrive(r) ==
  /\ r \notin arrived /\ (age = 0 \/ r \in LateRows)
  /\ arrived' = arrived \cup {r} /\ hot' = hot \cup {r}
  /\ UNCHANGED <<s3Vars, marked, isps, act, swept, age, ttlVars, expired, srch, faults>>

\* daysOlderThan: the day has rows and is older than the hot window.
Eligible == hot # {} /\ age > HotWindow

NextDay ==
  /\ age < MaxAge /\ age' = age + 1
  /\ SweepDaily => act["sweep"] = Rest /\ (Eligible => swept)
  /\ swept' = FALSE
  /\ UNCHANGED <<arrived, hot, s3Vars, marked, isps, act, ttlVars, expired, srch, faults>>

DeleteISP(i) ==
  /\ i \in Deletable \cap isps /\ isps' = isps \ {i}
  /\ UNCHANGED <<arrived, hot, s3Vars, marked, act, swept, age, ttlVars, expired,
                 srch, faults>>

\* TTL event_date + INTERVAL ttl DAY.
Expire ==
  /\ hot # {} /\ age >= ttl
  /\ hot' = {} /\ expired' = expired \cup hot
  /\ srch' = [srch EXCEPT !.quiet = FALSE]
  /\ UNCHANGED <<arrived, s3Vars, marked, isps, act, swept, age, ttlVars, faults>>

-----------------------------------------------------------------------------
(* Settings: the window and the TTL.                                       *)

\* handlePutSettings changes the settings in memory and persists them; when
\* that fails it returns without applying them.
PutSettings(s) ==
  /\ Reconfigure /\ settings' = s
  /\ \/ saved' = s /\ due' = TRUE /\ Fine
     \/ saved' \in {saved, s} /\ UNCHANGED due /\ Fault
  /\ UNCHANGED <<arrived, hot, s3Vars, marked, isps, act, swept, age, lastRet, ttl,
                 expired, srch>>

\* The applier: SetTTLDays when the effective value changes.
Apply ==
  LET want == EffectiveTTL(settings) IN
  /\ due /\ due' = FALSE
  /\ lastRet' = want
  /\ \/ ttl' = (IF want # lastRet THEN want ELSE ttl) /\ Fine
     \/ want # lastRet /\ ttl' \in {ttl, want} /\ Fault
  /\ UNCHANGED <<arrived, hot, s3Vars, marked, isps, act, swept, age, settings,
                 saved, expired, srch>>

-----------------------------------------------------------------------------
(* ArchiveSweep, handleArchive and the ExportDay both call per tenant.     *)

store == <<arrived, hot, s3Vars, marked, isps, age, ttlVars, expired, srch>>

SweepBegin ==
  /\ act["sweep"] = Rest /\ Eligible /\ Fine
  /\ Become("sweep", [Rest EXCEPT !.pc = "check", !.todo = isps])
  /\ UNCHANGED store

\* Mutant: a day already archived is skipped.
SweepCheckSkips ==
  /\ act["sweep"].pc = "check" /\ Fine
  /\ IF marked THEN Become("sweep", Rest) ELSE Goto("sweep", "count")
  /\ UNCHANGED store

\* IsDayArchived; its error is ignored and reads as "not archived".
SweepCheck ==
  /\ act["sweep"].pc = "check"
  /\ \/ Fine /\ Goto("sweep", IF marked THEN "drop" ELSE "count")
     \/ Fault /\ Goto("sweep", "count")
  /\ UNCHANGED store

ManualBegin ==
  /\ Manual # "never" /\ act["manual"] = Rest /\ Fine
  /\ Manual = "careful" => age > 0 /\ \A r \in hot : Isp[r] \in isps
  /\ Become("manual", [Rest EXCEPT !.pc = "count", !.todo = isps])
  /\ UNCHANGED store

\* ExportDay returned an error: the sweep leaves the day for the next sweep,
\* the manual request goes on with the next tenant.
ExportFails(a, todo) ==
  Become(a, IF a = "sweep" THEN Rest
            ELSE [Rest EXCEPT !.pc = "count", !.todo = todo,
                              !.total = act[a].total, !.failed = TRUE])

\* ExportDay returned the rows it had counted first.
Exported(a) ==
  Become(a, [act[a] EXCEPT !.pc = "count", !.isp = NoIsp, !.cu = 0,
                           !.total = @ + act[a].cu])

\* The next tenant: an empty day writes no object.
Count(a) ==
  /\ act[a].pc = "count"
  /\ \E i \in act[a].todo :
       LET cu == Cardinality(hot \cap RowsOf(i))
           rest == act[a].todo \ {i}
       IN  \/ /\ Fine
              /\ Become(a, IF cu = 0 THEN [act[a] EXCEPT !.todo = rest]
                           ELSE [act[a] EXCEPT !.pc = "stat", !.todo = rest,
                                               !.isp = i, !.cu = cu])
           \/ Fault /\ ExportFails(a, rest)
  /\ UNCHANGED store

\* Mutant: an existing object is taken for complete.
StatTrusts(a) ==
  LET i == act[a].isp IN
  /\ act[a].pc = "stat" /\ Fine
  /\ IF i \notin uploaded THEN Goto(a, "insert") ELSE Exported(a)
  /\ UNCHANGED store

\* An object left by an earlier attempt counts only if its rows do; a Stat
\* error reads as "no object".
Stat(a) ==
  LET i == act[a].isp IN
  /\ act[a].pc = "stat"
  /\ \/ i \notin uploaded /\ Fine /\ Goto(a, "insert")
     \/ /\ i \in uploaded /\ Fine
        /\ IF Cardinality(obj[i]) = act[a].cu THEN Exported(a)
                                              ELSE ExportFails(a, act[a].todo)
     \/ Fault /\ Goto(a, "insert")
     \/ i \in uploaded /\ Fault /\ ExportFails(a, act[a].todo)
  /\ UNCHANGED store

\* ClickHouse streams the tenant's rows to S3 and refuses to overwrite.
Insert(a) ==
  LET i == act[a].isp
      put == /\ i \notin uploaded /\ uploaded' = uploaded \cup {i}
             /\ obj' = [obj EXCEPT ![i] = hot \cap RowsOf(i)]
  IN
  /\ act[a].pc = "insert"
  /\ \/ put /\ Fine /\ Exported(a)
     \/ i \in uploaded /\ UNCHANGED s3Vars /\ Fine /\ ExportFails(a, act[a].todo)
     \/ /\ put \/ UNCHANGED s3Vars
        /\ Fault /\ ExportFails(a, act[a].todo)
  /\ UNCHANGED <<arrived, hot, marked, isps, age, ttlVars, expired, srch>>

\* All tenants are done.
ExportsDone(a) ==
  /\ act[a].pc = "count" /\ act[a].todo = {} /\ Fine
  /\ IF act[a].total = 0 \/ act[a].failed THEN Become(a, Rest)
     ELSE Goto(a, IF a = "sweep" THEN "compare" ELSE "mark")
  /\ UNCHANGED store

\* Mutant: whatever the tenants exported is enough.
CompareSkipped ==
  /\ act["sweep"].pc = "compare" /\ Fine /\ Goto("sweep", "mark")
  /\ UNCHANGED store

\* rowsOnDay: drop only a partition every row of which was exported.
Compare ==
  /\ act["sweep"].pc = "compare"
  /\ \/ /\ Fine
        /\ IF Cardinality(hot) = act["sweep"].total THEN Goto("sweep", "mark")
                                                    ELSE Become("sweep", Rest)
     \/ Fault /\ Become("sweep", Rest)
  /\ UNCHANGED store

MarkDayArchived(a) ==
  /\ act[a].pc = "mark"
  /\ \/ /\ marked' = TRUE /\ Fine
        /\ IF a = "sweep" THEN Goto(a, "drop") ELSE Become(a, Rest)
     \/ marked' \in {marked, TRUE} /\ Fault /\ Become(a, Rest)
  /\ UNCHANGED <<arrived, hot, s3Vars, isps, age, ttlVars, expired, srch>>

DropDay ==
  /\ act["sweep"].pc = "drop"
  /\ \/ hot' = {} /\ Fine
     \/ hot' \in {hot, {}} /\ Fault
  /\ Become("sweep", Rest)
  /\ srch' = [srch EXCEPT !.quiet = FALSE]
  /\ UNCHANGED <<arrived, s3Vars, marked, isps, age, ttlVars, expired>>

-----------------------------------------------------------------------------
(* searchAll, for an explicit window that covers the day.                  *)

base == <<arrived, hot, s3Vars, marked, isps, act, swept, age, ttlVars, expired>>
Search(rec) == srch' = rec /\ UNCHANGED base

\* ListArchivedDays; an error reads as "nothing archived".
SearchBegin ==
  /\ srch.pc \in {"idle", "done"}
  /\ \E scope \in {Rows} \cup {RowsOf(i) : i \in ISPs} :
       LET start == [NoSearch EXCEPT !.pc = "days", !.scope = scope,
                                     !.need = scope \cap (arrived \ expired)]
       IN  \/ Search([start EXCEPT !.saw = marked]) /\ Fine
           \/ Search([start EXCEPT !.err = TRUE]) /\ Fault

ColdInverted(inHot) == srch.saw /\ inHot

\* selectArchivedDays skips a day that hot storage still serves.
ColdDay(inHot) == srch.saw /\ ~inHot

\* dayFlowCounts; an error reads as "no day is hot".
SearchDays ==
  /\ srch.pc = "days"
  /\ \/ /\ Search([srch EXCEPT !.pc = "hot",
                     !.cold = ColdDay(hot \cap srch.scope # {})])
        /\ Fine
     \/ Search([srch EXCEPT !.pc = "hot", !.cold = ColdDay(FALSE), !.err = TRUE])
        /\ Fault

\* SearchCount and Search on the hot table; an error is returned.
SearchHot ==
  /\ srch.pc = "hot"
  /\ \/ /\ Search([srch EXCEPT !.pc = IF srch.cold THEN "cold" ELSE "done",
                               !.hot = hot \cap srch.scope])
        /\ Fine
     \/ Search(NoSearch) /\ Fault

\* walkColdDays; an error is returned.
SearchCold ==
  /\ srch.pc = "cold"
  /\ \/ Search([srch EXCEPT !.pc = "done", !.s3 = Archived \cap srch.scope]) /\ Fine
     \/ Search(NoSearch) /\ Fault

-----------------------------------------------------------------------------
\* The process dies and restarts; the applier runs with the settings read back,
\* and its SetTTLDays may fail too.
Crash ==
  /\ Fault
  /\ act' = [a \in Actors |-> Rest] /\ srch' = NoSearch
  /\ settings' = saved /\ due' = FALSE
  /\ lastRet' = EffectiveTTL(saved) /\ ttl' \in {ttl, EffectiveTTL(saved)}
  /\ UNCHANGED <<arrived, hot, s3Vars, marked, isps, swept, age, saved, expired>>

ActorStep(a) ==
  Count(a) \/ Stat(a) \/ Insert(a) \/ ExportsDone(a) \/ MarkDayArchived(a)
SweepStep == SweepBegin \/ SweepCheck \/ ActorStep("sweep") \/ Compare \/ DropDay
SearchStep == SearchBegin \/ SearchDays \/ SearchHot \/ SearchCold

Next ==
  \/ \E r \in Rows : Arrive(r)
  \/ NextDay \/ Expire
  \/ \E i \in ISPs : DeleteISP(i)
  \/ \E s \in Configs : PutSettings(s)
  \/ Apply
  \/ SweepStep
  \/ ManualBegin \/ ActorStep("manual")
  \/ SearchStep
  \/ Crash

Spec == Init /\ [][Next]_vars

\* Days pass and the scheduler sweeps every six hours; a sweep runs to its end.
FairSpec == Spec /\ WF_vars(SweepStep) /\ WF_vars(NextDay)

-----------------------------------------------------------------------------
(* What retention and archive promise.                                     *)

\* A sweep "never drops a partition unless the existing archive verification
\* proves every hot row was exported" (docs/ENTERPRISE-FEATURES.md:20-21), and
\* marks the day first, because cold search finds it only by its marker: every
\* row that arrived and did not reach its TTL is hot, or archived and marked.
NothingLost ==
  arrived \ expired \subseteq hot \cup (IF marked THEN Archived ELSE {})

\* The rows the sweep counts as exported when it decides to drop the day are in
\* S3, stragglers, retries and leftover objects notwithstanding ("to prove an
\* export covered the whole partition before it is dropped", retention.go:148).
ExportedRowsExist ==
  act["sweep"].pc = "mark" => Cardinality(Archived) >= act["sweep"].total

\* A marker means that S3 holds the whole day, save what the TTL removed first; a
\* partial export must not claim it (retention.go:397).
MarkedMeansWhole == marked => arrived \ expired \subseteq Archived

\* The TTL never removes a row before the sweep could archive it ("Safety
\* invariant", cmd/natlog/main.go:282-285).
TTLSafe == expired \subseteq Archived

\* Hot and cold results are concatenated, so no record may come from both
\* (cold.go:331-336).
NoDuplicates == srch.pc = "done" /\ ~srch.err => srch.hot \cap srch.s3 = {}

\* A search during which nothing was dropped returns every record of its scope
\* that had arrived when it began and had not reached its TTL, wherever it is kept.
SearchFinds ==
  srch.pc = "done" /\ srch.quiet /\ ~srch.err => srch.need \subseteq srch.hot \cup srch.s3

\* A search returns every record of its scope, and none twice.
SearchExact == NoDuplicates /\ SearchFinds

\* No row leaves hot storage before S3 holds it, and a marked day is whole.
DaySound == TypeOK /\ NothingLost /\ MarkedMeansWhole

\* Every row is in S3, marked and gone from hot storage in the end, whatever
\* call failed on the way.
EventuallyArchived ==
  \A r \in Rows : r \in arrived ~> (marked /\ r \in Archived \ hot)
=============================================================================
