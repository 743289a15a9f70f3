--------------------------- MODULE IngestMonitor ----------------------------
(* The ingest monitor, internal/director/ingestmon.go.  Its one goroutine runs  *)
(* three checks on three disjoint parts of ingestMonState: ClickHouse answers,  *)
(* flows that arrive are stored, no part has been set aside as broken.          *)
EXTENDS Notify

CONSTANTS
  Remind,      \* remindInterval, in ticks: never zero, an unset one is 6 hours
  StallTicks,  \* ingestStallTicks
  MaxParts     \* bound: broken parts ClickHouse ever holds

ASSUME IngestMonitorAssumption ==
  Remind \in Nat \ {0} /\ StallTicks \in Nat \ {0} /\ MaxParts \in Nat

VARIABLES
  db,     \* up: ClickHouse answers; dbDown, lastDBAlert: the monitor's state
  flows,  \* work: what the last minute did; havePrev, stalled, alerted, lastAlert
  parts   \* now: broken parts in ClickHouse; broken, lastBrokenAlert
\* Each also holds "told": what the operator has been told about the present trouble.

ingVars == <<db, flows, parts>>
IngAges == 0..Remind \cup {Never}

IngTypeOK ==
  /\ db \in [up : BOOLEAN, dbDown : BOOLEAN, lastDBAlert : IngAges, told : {"nothing", "down", "up"}]
  /\ flows \in [work : {"idle", "stored", "stuck"}, havePrev : BOOLEAN, stalled : 0..StallTicks,
                alerted : BOOLEAN, lastAlert : IngAges, told : {"nothing", "stalled", "resumed"}]
  /\ parts \in [now : 0..MaxParts, broken : 0..MaxParts, lastBrokenAlert : IngAges, told : 0..MaxParts]

IngInit ==
  /\ db = [up |-> TRUE, dbDown |-> FALSE, lastDBAlert |-> Never, told |-> "nothing"]
  /\ flows = [work |-> "idle", havePrev |-> FALSE, stalled |-> 0, alerted |-> FALSE,
              lastAlert |-> Never, told |-> "nothing"]
  /\ parts = [now |-> 0, broken |-> 0, lastBrokenAlert |-> Never, told |-> 0]

\* The last alert of its kind is recent enough for the next one to wait.
Recent(age) == age # Never /\ age < Remind

-----------------------------------------------------------------------------
(* clickHouseHealthCheck                                                     *)

\* The ping answers after it had not: the recovery is told, or lost, once.
DBRecovered(o) ==
  /\ db.up /\ db.dbDown
  /\ db' = [db EXCEPT !.dbDown = FALSE,
                      !.told = IF alerting /\ Delivered(o) THEN "up" ELSE @]

\* The ping fails: an alert counts as sent only when the notifier says so.
DBDown(o) ==
  /\ ~db.up
  /\ db' = IF ~alerting \/ Recent(db.lastDBAlert)
           THEN [db EXCEPT !.dbDown = TRUE]
           ELSE [db EXCEPT !.dbDown = TRUE,
                           !.told = IF Delivered(o) THEN "down" ELSE @,
                           !.lastDBAlert = IF Failed(o) THEN @ ELSE 0]

clickHouseHealthCheck(o) == DBRecovered(o) \/ DBDown(o)

-----------------------------------------------------------------------------
(* ingestTick and evalIngestTick                                             *)

\* The first sample of a process only sets the baseline.
Baseline ==
  /\ ~flows.havePrev
  /\ flows' = [flows EXCEPT !.havePrev = TRUE, !.stalled = 0]

\* Work arrived, or batches died, and nothing was inserted.
Stalled(o) ==
  LET n == IF flows.stalled < StallTicks THEN flows.stalled + 1 ELSE StallTicks
      alert == n = StallTicks /\ (~flows.alerted \/ ~Recent(flows.lastAlert))
  IN  /\ flows.havePrev /\ flows.work = "stuck"
      /\ flows' = IF alert
                  THEN [flows EXCEPT !.stalled = n, !.alerted = TRUE, !.lastAlert = 0,
                                     !.told = IF alerting /\ Delivered(o) THEN "stalled" ELSE @]
                  ELSE [flows EXCEPT !.stalled = n]

\* Something was inserted; an idle minute, in contrast, leaves the state as it is.
Resumed(o) ==
  /\ flows.havePrev /\ flows.work = "stored"
  /\ flows' = [flows EXCEPT !.stalled = 0, !.alerted = FALSE,
                            !.told = IF flows.alerted /\ alerting /\ Delivered(o) THEN "resumed" ELSE @]

ingestTick(o) == Baseline \/ Stalled(o) \/ Resumed(o)

-----------------------------------------------------------------------------
\* Mutant: growth is recorded whether or not its alert goes out.
brokenPartsCheckRecords(o) ==
  parts' = [parts EXCEPT !.told = IF alerting /\ Delivered(o) /\ parts.now > parts.broken THEN parts.now ELSE @,
                         !.broken = parts.now]

\* brokenPartsCheck: growth is kept unrecorded until an alert has gone out.
brokenPartsCheck(o) ==
  IF parts.now <= parts.broken
  THEN parts' = [parts EXCEPT !.broken = parts.now]
  ELSE /\ alerting /\ ~Recent(parts.lastBrokenAlert)
       /\ parts' = [parts EXCEPT !.told = IF Delivered(o) THEN parts.now ELSE @,
                                 !.broken = IF Failed(o) THEN @ ELSE parts.now,
                                 !.lastBrokenAlert = IF Failed(o) THEN @ ELSE 0]

-----------------------------------------------------------------------------
(* The world around it.                                                      *)

ClickHouse(up) == db' = [db EXCEPT !.up = up, !.told = IF db.up /\ ~up THEN "nothing" ELSE @]

Work(w) ==
  flows' = [flows EXCEPT !.work = w,
                         !.told = IF w = "stuck" /\ flows.work # "stuck" THEN "nothing" ELSE @]

\* ClickHouse sets parts aside; the operator who removes them knows what is left.
BrokenParts(n) ==
  /\ n # parts.now
  /\ parts' = [parts EXCEPT !.now = n, !.told = IF n < @ THEN n ELSE @]

DBMinute == db' = [db EXCEPT !.lastDBAlert = Older(@, Remind)]
FlowsMinute == flows' = [flows EXCEPT !.lastAlert = Older(@, Remind)]
PartsMinute == parts' = [parts EXCEPT !.lastBrokenAlert = Older(@, Remind)]

\* A restarted process starts from the zero ingestMonState.
IngRestart ==
  /\ Restarted
  /\ db' = [db EXCEPT !.dbDown = FALSE, !.lastDBAlert = Never]
  /\ flows' = [flows EXCEPT !.havePrev = FALSE, !.stalled = 0, !.alerted = FALSE, !.lastAlert = Never]
  /\ parts' = [parts EXCEPT !.broken = 0, !.lastBrokenAlert = Never]

DBNext ==
  \/ \E o \in Outcomes : clickHouseHealthCheck(o)
  \/ \E up \in BOOLEAN : ClickHouse(up)
  \/ DBMinute
FlowsNext ==
  \/ \E o \in Outcomes : ingestTick(o)
  \/ \E w \in {"idle", "stored", "stuck"} : Work(w)
  \/ FlowsMinute
PartsNext ==
  \/ \E o \in Outcomes : brokenPartsCheck(o)
  \/ \E n \in 0..MaxParts : BrokenParts(n)
  \/ PartsMinute
IngSave == SaveNotifications /\ UNCHANGED ingVars

DBDelivers == \E o \in Outcomes : DBDown(o) /\ db'.told = "down"
StallDelivers == \E o \in Outcomes : Stalled(o) /\ flows'.told = "stalled"
PartsDelivers == \E o \in Outcomes : brokenPartsCheck(o) /\ parts'.told = parts.now

-----------------------------------------------------------------------------
\* The "silent 4-day outage" guard "must page someone" (ingestmon.go:50-54), and a
\* "gated/failed send is retried on the next check instead of lost forever"
\* (ingestmon.go:255-256): trouble that lasts is told in the end, whichever mails
\* were lost, gated by the reminder interval or switched off at first.
DBPaged == (alerting /\ ~db.up) ~> (db.told = "down" \/ db.up \/ ~alerting)
StallPaged ==
  (alerting /\ flows.work = "stuck") ~> (flows.told = "stalled" \/ flows.work # "stuck" \/ ~alerting)
PartsPaged ==
  \A n \in 1..MaxParts :
    (alerting /\ parts.now = n /\ n > parts.broken) ~> (parts.told >= n \/ parts.now # n \/ ~alerting)
IngestPaged == DBPaged /\ StallPaged /\ PartsPaged
=============================================================================
