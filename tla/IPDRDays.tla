------------------------------ MODULE IPDRDays ------------------------------
(* Per-day answerability figures, internal/director/ipdrdays.go, and what the     *)
(* compliance audit makes of them (compliance.go).  A pass compares the live row  *)
(* count of every day with the stored one and measures a few days, newest first,  *)
(* while rows go on arriving.                                                     *)
EXTENDS Naturals, FiniteSets, Functions

CONSTANTS
  LastDay,   \* the days are 1..LastDay
  DayBudget, \* ipdrDayBudget
  MaxDayRows \* bound: rows of all days

ASSUME IPDRAssumption == LastDay \in Nat /\ DayBudget \in Nat \ {0} /\ MaxDayRows \in Nat

VARIABLES
  live,      \* day -> [flows, translated] in flow_logs; no rows, no day
  stored,    \* flow_ipdr_days: day -> the same, or NoFigure
  pass,      \* the backfill goroutine: step, the counts it read, the days left to measure
  droppedDays \* days dropped by archive or retention

dayVars == <<live, stored, pass, droppedDays>>

DayNos == 1..LastDay
NoFigure == [flows |-> 0, translated |-> 0]
PassIdle == [step |-> "idle", counts |-> <<>>, work |-> {}]

DayInit ==
  /\ live = [d \in DayNos |-> NoFigure] /\ stored = live /\ pass = PassIdle /\ droppedDays = {}

DayTypeOK ==
  /\ \A d \in DayNos : live[d].translated <= live[d].flows /\ stored[d].translated <= stored[d].flows
  /\ pass.step \in {"idle", "counted", "measure"} /\ Cardinality(pass.work) <= DayBudget

-----------------------------------------------------------------------------
\* Mutant: only a day without a figure needs work.
StaleMissing(counts, d) == counts[d] > 0 /\ stored[d].flows = 0

\* ipdrDaysNeedingWork: the newest days whose stored count is not the live one.
Stale(counts, d) == counts[d] > 0 /\ stored[d].flows # counts[d]
Newest(ds) == CHOOSE d \in ds : \A e \in ds : e <= d
NeedingWork(ds) == {d \in ds : Cardinality({e \in ds : e > d}) < DayBudget}

\* ipdrDayPass: dayFlowCounts, then storedIPDRDays, then day after day.
dayFlowCounts ==
  /\ pass.step = "idle"
  /\ pass' = [PassIdle EXCEPT !.step = "counted", !.counts = [d \in DayNos |-> live[d].flows]]
  /\ UNCHANGED <<live, stored, droppedDays>>
ipdrDaysNeedingWork ==
  /\ pass.step = "counted"
  /\ pass' = [pass EXCEPT !.step = "measure", !.counts = <<>>,
                          !.work = NeedingWork({d \in DayNos : Stale(pass.counts, d)})]
  /\ UNCHANGED <<live, stored, droppedDays>>
PassOn ==
  LET left == pass.work \ {Newest(pass.work)}
  IN  pass' = IF left = {} THEN PassIdle ELSE [pass EXCEPT !.work = left]
\* The day as it is now; the new row replaces the old one.  A day without rows
\* leaves its old row.
computeIPDRDay(d) ==
  /\ pass.step = "measure" /\ pass.work # {} /\ Newest(pass.work) = d
  /\ stored' = IF live[d].flows = 0 THEN stored ELSE [stored EXCEPT ![d] = live[d]]
  /\ PassOn /\ UNCHANGED <<live, droppedDays>>
\* The scan fails or times out: the pass goes on with the next day.
DayNotMeasured ==
  /\ pass.step = "measure" /\ pass.work # {} /\ PassOn
  /\ UNCHANGED <<live, stored, droppedDays>>
\* Nothing to do, an unreadable table, or a restart.
PassEnds ==
  /\ pass.step = "counted" \/ (pass.step = "measure" /\ pass.work = {})
  /\ pass' = PassIdle
  /\ UNCHANGED <<live, stored, droppedDays>>

-----------------------------------------------------------------------------
RowsNow == FoldFunction(LAMBDA f, n : f.flows + n, 0, live)
ArriveFlow(d, translated) ==
  /\ RowsNow < MaxDayRows
  /\ live' = [live EXCEPT ![d] = [flows |-> @.flows + 1,
                                  translated |-> IF translated THEN @.translated + 1 ELSE @.translated]]
  /\ UNCHANGED <<stored, pass, droppedDays>>
DropDay(d) ==
  /\ live[d].flows > 0 /\ d \notin droppedDays
  /\ live' = [live EXCEPT ![d] = NoFigure] /\ droppedDays' = droppedDays \cup {d}
  /\ UNCHANGED <<stored, pass>>

Measure == DayNotMeasured \/ \E d \in DayNos : computeIPDRDay(d)
DayNext ==
  \/ dayFlowCounts \/ ipdrDaysNeedingWork \/ Measure \/ PassEnds
  \/ \E d \in DayNos : DropDay(d) \/ \E tr \in BOOLEAN : ArriveFlow(d, tr)

-----------------------------------------------------------------------------
\* TranslationsByDay trusts a figure measured over as many rows as there are now.
TranslatedKnown(d) == live[d].flows > 0 /\ stored[d].flows = live[d].flows
unanswerableDays == {d \in DayNos : TranslatedKnown(d) /\ stored[d].translated = 0}

\* A day is called unanswerable only if no row of it is translated, whatever arrives
\* while it is measured: "a measurement that has not happened is not evidence"
\* (compliance.go:267).  Days that were dropped are not covered: a figure left behind
\* is trusted when late rows reach the same count.
NoneTranslated == \A d \in unanswerableDays \ droppedDays : live[d].translated = 0

\* The audit's figures are complete in the end: once rows stop arriving every day becomes
\* known, "self-healing rather than a one-shot migration" (ipdrdays.go:130).
DaysMeasured ==
  \A d \in DayNos : <>[](live[d].flows > 0 /\ d \notin droppedDays => TranslatedKnown(d))
=============================================================================
