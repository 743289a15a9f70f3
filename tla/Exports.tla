------------------------------ MODULE Exports -------------------------------
(* Asynchronous CSV exports, internal/director/export_jobs.go: a job reads its   *)
(* result page by page, newest rows first, with OFFSET, while rows arrive and    *)
(* the retention sweep drops the oldest day.                                     *)
EXTENDS Naturals, Sequences, FiniteSets

CONSTANTS
  Instants,   \* flow_start values, 1..n: a row of the search's answer is its instant
  PageSize,   \* page (5000)
  MaxOffset,  \* where paging ends (5000000)
  MaxBegins \* bound: jobs begun, and restarts of the director

ASSUME ExportsAssumption ==
  PageSize \in Nat \ {0} /\ MaxOffset \in Nat /\ MaxBegins \in Nat /\ Instants \subseteq Nat /\ IsFiniteSet(Instants)

VARIABLES
  hot,       \* matching rows in flow_logs
  arrived,   \* rows that are, or were, there
  export,    \* the job, or NoJob: status, offset, rows of the file so far, path, and
             \* whether the last page was full (cut)
  files,     \* temporary files on disk: the contents of each
  kept,      \* rows that have been there since the job started
  begins     \* jobs started and restarts so far

expVars == <<hot, arrived, export, files, kept, begins>>

NoJob == [status |-> "none"]
ExpInit ==
  /\ hot \in SUBSET Instants /\ arrived = hot /\ export = NoJob /\ files = {} /\ kept = {} /\ begins = 0

ExpTypeOK ==
  /\ kept \subseteq hot /\ hot \subseteq arrived /\ arrived \subseteq Instants
  /\ export.status \in {"none", "queued", "running", "complete", "failed"}

-----------------------------------------------------------------------------
(* FlowReader.Search: one page.                                              *)

\* Mutant: the oldest rows come first.
RankOldest(r) == Cardinality({x \in hot : x < r})

\* The place of a row in ORDER BY flow_start DESC.
Rank(r) == Cardinality({x \in hot : x > r})
Search(offset) == {r \in hot : offset <= Rank(r) /\ Rank(r) < offset + PageSize}

-----------------------------------------------------------------------------
(* The job.                                                                  *)

\* handleExportCreate; one job at a time is enough, they share nothing.
handleExportCreate ==
  /\ export.status \in {"none", "complete", "failed"} /\ begins <= MaxBegins
  /\ begins' = begins + 1
  /\ export' = [status |-> "queued", step |-> "create", offset |-> 0, rows |-> {}, path |-> FALSE,
               cut |-> FALSE]
  /\ kept' = hot
  /\ UNCHANGED <<hot, arrived, files>>

Running == export.status \in {"queued", "running"}
CreateTemp ==
  /\ Running /\ export.step = "create"
  /\ export' = [export EXCEPT !.status = "running", !.step = "page"]
  /\ files' = files \cup {begins}
  /\ UNCHANGED <<hot, arrived, kept, begins>>
\* One turn of the loop: a page is read, named, enriched, written and flushed.  A
\* short page, or the end of the range, ends it.
ExportPage ==
  LET page == Search(export.offset)
      full == Cardinality(page) >= PageSize
      more == full /\ export.offset + PageSize < MaxOffset
  IN
  /\ Running /\ export.step = "page"
  /\ export' = [export EXCEPT !.rows = @ \cup page, !.offset = @ + PageSize,
                              !.step = IF more THEN "page" ELSE "sync", !.cut = full /\ ~more]
  /\ UNCHANGED <<hot, arrived, files, kept, begins>>
\* f.Sync, then the path under the lock, then LogQuery, whose failure is ignored.
SyncFile ==
  /\ Running /\ export.step = "sync"
  /\ export' = [export EXCEPT !.step = "log", !.path = TRUE]
  /\ UNCHANGED <<hot, arrived, files, kept, begins>>
CompleteExport ==
  /\ Running /\ export.step = "log"
  /\ export' = [export EXCEPT !.step = "end", !.status = "complete"]
  /\ UNCHANGED <<hot, arrived, files, kept, begins>>
\* No file, a failed search, write or sync, or 30 minutes: the file is removed.
FailExport ==
  /\ Running /\ export.step # "log"
  /\ export' = [export EXCEPT !.step = "end", !.status = "failed"]
  /\ files' = files \ {begins}
  /\ UNCHANGED <<hot, arrived, kept, begins>>
\* The director restarts: jobs are forgotten, their files stay.
ForgetExports ==
  /\ export # NoJob /\ begins <= MaxBegins /\ begins' = begins + 1
  /\ export' = NoJob
  /\ UNCHANGED <<hot, arrived, files, kept>>

-----------------------------------------------------------------------------
(* The table meanwhile.                                                      *)

ArriveRow(r) ==
  /\ r \notin arrived /\ hot' = hot \cup {r} /\ arrived' = arrived \cup {r}
  /\ UNCHANGED <<export, files, kept, begins>>
\* The sweep drops the oldest day, here the rows before an instant.
DropOldest(t) ==
  /\ hot' = {r \in hot : r >= t} /\ hot' # hot /\ kept' = kept \cap hot'
  /\ UNCHANGED <<arrived, export, files, begins>>

ExpNext ==
  \/ handleExportCreate \/ CreateTemp \/ ExportPage \/ SyncFile \/ CompleteExport \/ FailExport \/ ForgetExports
  \/ \E r \in Instants : ArriveRow(r)
  \/ \E t \in Instants : DropOldest(t)

-----------------------------------------------------------------------------
\* A complete export is whole although its pages are counted from the top of a
\* result that changes under them (export_jobs.go:122): every matching row that was
\* there from the job's start to its last page is in the file, unless the range of
\* offsets ended first; it can be downloaded, and a failed job leaves no file.
ExportWhole ==
  /\ export.status = "complete" =>
       /\ kept \subseteq export.rows \/ export.cut
       /\ export.path /\ files # {}
  /\ export.status = "failed" => begins \notin files
=============================================================================
