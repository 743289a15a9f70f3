------------------------------- MODULE Rollup -------------------------------
(* The dashboard's pre-aggregated tables, internal/director/rollup.go: rows of   *)
(* flow_logs are summed into flow_rollup and flow_rollup_subs by the window of   *)
(* created_at between two watermarks.  Sums cannot be taken back, so a window    *)
(* may be skipped but not summed twice.                                          *)
EXTENDS Naturals

CONSTANTS
  Flows,     \* rows of flow_logs
  Settle,    \* the lag of the cutoff behind the clock (10 seconds)
  Horizon,   \* bound: how far the clock goes
  MaxBreaks  \* bound: failed statements and restarts

ASSUME RollupAssumption == Settle \in Nat /\ Horizon \in Nat \ {0} /\ MaxBreaks \in Nat

VARIABLES
  clock,
  flow,      \* of each row: its created_at (0 while not written) and whether it is visible yet
  late,      \* rows that became visible Settle or more after their created_at
  watermark, \* the timestamps in flow_rollup_state
  hourly,    \* how often each row is in the sums of flow_rollup
  subs,      \* ... and of flow_rollup_subs
  job,       \* the rollup goroutine: what it does next, with which window
  gap,       \* instants whose window was given up
  unsure,    \* EnsureRollups misread flow_rollup as empty
  breaks

rollVars == <<clock, flow, late, watermark, hourly, subs, job, gap, unsure, breaks>>

\* Mutant: the window includes the old watermark.
BetweenClosed(lo, hi) == {t \in 1..Horizon : lo <= t /\ t <= hi}

Between(lo, hi) == {t \in 1..Horizon : lo < t /\ t <= hi}
Greatest(ts) == IF ts = {} THEN 0 ELSE CHOOSE t \in ts : \A u \in ts : u <= t
\* A cutoff before the clock's start is 0.
Cutoff == IF clock > Settle THEN clock - Settle ELSE 0
Job(step, lo, hi) == [step |-> step, lo |-> lo, hi |-> hi]

RollInit ==
  /\ clock = 1 /\ flow = [f \in Flows |-> [created |-> 0, visible |-> FALSE]] /\ late = {}
  /\ watermark = {} /\ hourly = [f \in Flows |-> 0] /\ subs = hourly
  /\ job = Job("ensure", 0, 0) /\ gap = {} /\ unsure = FALSE /\ breaks = 0

RollTypeOK ==
  /\ clock \in 1..Horizon /\ late \subseteq Flows /\ watermark \subseteq 0..Horizon /\ gap \subseteq 0..Horizon
  /\ job.step \in {"ensure", "backfill", "backfillSubs", "seed", "idle", "hourly", "subs"}

-----------------------------------------------------------------------------
(* The writers of flow_logs and the clock.                                   *)

WriteFlow(f) ==
  /\ flow[f].created = 0 /\ flow' = [flow EXCEPT ![f].created = clock]
  /\ UNCHANGED <<clock, late, watermark, hourly, subs, job, gap, unsure, breaks>>
ShowFlow(f) ==
  /\ flow[f].created # 0 /\ ~flow[f].visible
  /\ flow' = [flow EXCEPT ![f].visible = TRUE]
  /\ late' = IF clock >= flow[f].created + Settle THEN late \cup {f} ELSE late
  /\ UNCHANGED <<clock, watermark, hourly, subs, job, gap, unsure, breaks>>
PassTime ==
  /\ clock < Horizon /\ clock' = clock + 1
  /\ UNCHANGED <<flow, late, watermark, hourly, subs, job, gap, unsure, breaks>>

\* rollupInsertHourly and rollupInsertSubs over a window.
Summed(sum, lo, hi) ==
  [f \in Flows |-> IF flow[f].visible /\ flow[f].created \in Between(lo, hi) THEN sum[f] + 1 ELSE sum[f]]

-----------------------------------------------------------------------------
(* EnsureRollups, once per start.                                            *)

\* Seeded already; or an empty rollup to fill; or one that has rows, left by the
\* materialized views or by a start that did not get to the watermark.
EnsureRollups(misread) ==
  /\ job.step = "ensure"
  /\ job' = IF watermark # {} THEN Job("idle", 0, 0)
            ELSE IF misread \/ \A f \in Flows : hourly[f] = 0 THEN Job("backfill", 0, Cutoff)
            ELSE Job("seed", 0, Cutoff)
  /\ misread => watermark = {} /\ breaks < MaxBreaks
  /\ breaks' = IF misread THEN breaks + 1 ELSE breaks
  /\ unsure' = (unsure \/ (misread /\ \E f \in Flows : hourly[f] > 0))
  /\ gap' = IF job'.step = "seed" THEN gap \cup (0..Cutoff) ELSE gap
  /\ UNCHANGED <<clock, flow, late, watermark, hourly, subs>>
BackfillHourly ==
  /\ job.step = "backfill" /\ job' = [job EXCEPT !.step = "backfillSubs"]
  /\ hourly' = Summed(hourly, 0, job.hi)
  /\ UNCHANGED <<clock, flow, late, watermark, subs, gap, unsure, breaks>>
BackfillSubs ==
  /\ job.step = "backfillSubs" /\ job' = [job EXCEPT !.step = "seed"]
  /\ subs' = Summed(subs, 0, job.hi)
  /\ UNCHANGED <<clock, flow, late, watermark, hourly, gap, unsure, breaks>>
SeedWatermark ==
  /\ job.step = "seed" /\ job' = Job("idle", 0, 0)
  /\ watermark' = watermark \cup {job.hi}
  /\ UNCHANGED <<clock, flow, late, hourly, subs, gap, unsure, breaks>>

-----------------------------------------------------------------------------
(* RollupTick.                                                               *)

\* The watermark is read and moved before the window is summed.
RollupTick ==
  LET wm == Greatest(watermark) IN
  /\ job.step = "idle" /\ watermark # {} /\ Cutoff > wm
  /\ watermark' = watermark \cup {Cutoff}
  /\ job' = Job("hourly", wm, Cutoff)
  /\ UNCHANGED <<clock, flow, late, hourly, subs, gap, unsure, breaks>>
TickHourly ==
  /\ job.step = "hourly" /\ job' = [job EXCEPT !.step = "subs"]
  /\ hourly' = Summed(hourly, job.lo, job.hi)
  /\ UNCHANGED <<clock, flow, late, watermark, subs, gap, unsure, breaks>>
TickSubs ==
  /\ job.step = "subs" /\ job' = Job("idle", 0, 0)
  /\ subs' = Summed(subs, job.lo, job.hi)
  /\ UNCHANGED <<clock, flow, late, watermark, hourly, gap, unsure, breaks>>

\* A statement fails, its work done or not, or the process stops and starts again.
\* A tick is given up; a failed EnsureRollups is tried again at the next start.
Break(done) ==
  LET ensuring == job.step \in {"ensure", "backfill", "backfillSubs", "seed"} IN
  /\ breaks < MaxBreaks /\ breaks' = breaks + 1
  /\ hourly' = IF done /\ job.step \in {"backfill", "hourly"} THEN Summed(hourly, job.lo, job.hi) ELSE hourly
  /\ subs' = IF done /\ job.step \in {"backfillSubs", "subs"} THEN Summed(subs, job.lo, job.hi) ELSE subs
  /\ watermark' = IF done /\ job.step = "seed" THEN watermark \cup {job.hi} ELSE watermark
  /\ gap' = IF ensuring THEN gap ELSE gap \cup Between(job.lo, job.hi)
  /\ job' \in {Job("ensure", 0, 0)} \cup (IF ensuring THEN {} ELSE {Job("idle", 0, 0)})
  /\ UNCHANGED <<clock, flow, late, unsure>>

RollNext ==
  \/ \E f \in Flows : WriteFlow(f) \/ ShowFlow(f)
  \/ PassTime
  \/ \E misread \in BOOLEAN : EnsureRollups(misread)
  \/ BackfillHourly \/ BackfillSubs \/ SeedWatermark
  \/ RollupTick \/ TickHourly \/ TickSubs
  \/ \E done \in BOOLEAN : Break(done)

-----------------------------------------------------------------------------
\* "at worst a one-off ~2-min gap in the approximate dashboard, never silent drift"
\* (rollup.go:135-136): through failures, retries and restarts no row that showed within
\* the settle lag is summed twice in either table, and between ticks each one up to
\* the watermark is summed once in both, unless its window was given up.  (Not so
\* once a failed count made EnsureRollups fill a table that was not empty.)
RollupOnce ==
  unsure \/ \A f \in Flows \ late :
    /\ hourly[f] <= 1 /\ subs[f] <= 1
    /\ job.step = "idle" /\ flow[f].visible /\ flow[f].created <= Greatest(watermark)
         /\ flow[f].created \notin gap => hourly[f] = 1 /\ subs[f] = 1
=============================================================================
