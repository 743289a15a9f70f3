------------------------------ MODULE Monitors ------------------------------
(* The director's periodic work side by side: the monitors, which share the      *)
(* notifier and its settings and nothing else, the per-day figures of the        *)
(* compliance audit, and the RADIUS session cache.  A behaviour follows one of   *)
(* them while the state of the others rests: every monitor is explored against   *)
(* every behaviour of the notifier, and the state space is the sum of theirs,    *)
(* not the product.                                                              *)
EXTENDS DeviceMonitor, IngestMonitor, Compliance, DailySummary, IPDRDays, RadiusCache

monVars == <<devVars, ingVars, compVars, sumVars, dayVars, radVars, notifyVars, watched>>

Init ==
  /\ watched \in {"devices", "database", "inserts", "parts", "compliance", "summary", "figures", "radius"}
  /\ alerting \in BOOLEAN /\ restarts = 0
  /\ watched \in {"figures", "radius"} => alerting   \* these send nothing
  /\ DevInit /\ IngInit /\ CompInit /\ SumInit /\ DayInit /\ RadInit
  /\ watched # "radius" => sid

\* The part that is followed; the others rest.
Dev == watched = "devices" /\ UNCHANGED <<watched, ingVars, compVars, sumVars, dayVars, radVars>>
Ing == UNCHANGED <<watched, devVars, compVars, sumVars, dayVars, radVars>>
DB == watched = "database" /\ Ing /\ UNCHANGED <<flows, parts, notifyVars>>
Inserts == watched = "inserts" /\ Ing /\ UNCHANGED <<db, parts, notifyVars>>
Parts == watched = "parts" /\ Ing /\ UNCHANGED <<db, flows, notifyVars>>
Comp == watched = "compliance" /\ UNCHANGED <<watched, devVars, ingVars, sumVars, dayVars, radVars>>
Sum == watched = "summary" /\ UNCHANGED <<watched, devVars, ingVars, compVars, dayVars, radVars>>
Day == watched = "figures" /\ UNCHANGED <<watched, devVars, ingVars, compVars, sumVars, radVars, notifyVars>>
Rad == watched = "radius" /\ UNCHANGED <<watched, devVars, ingVars, compVars, sumVars, dayVars, notifyVars>>

Next ==
  \/ Dev /\ DevNext
  \/ DB /\ DBNext
  \/ Inserts /\ FlowsNext
  \/ Parts /\ PartsNext
  \/ watched \in {"database", "inserts", "parts"} /\ Ing /\ (IngRestart \/ IngSave)
  \/ Comp /\ CompNext
  \/ Sum /\ SumNext
  \/ Day /\ DayNext
  \/ Rad /\ RadNext

TypeOK ==
  /\ DevTypeOK /\ IngTypeOK /\ CompTypeOK /\ SumTypeOK /\ DayTypeOK /\ RadTypeOK /\ alerting \in BOOLEAN

Spec == Init /\ [][Next]_monVars

\* The monitors' state is typed, grades say who can answer, the summary is mailed once,
\* and no day with translated rows is called unanswerable (Compliance, DailySummary,
\* IPDRDays).
MonitorsSound == TypeOK /\ GradeSound /\ DailyOnce /\ NoneTranslated

-----------------------------------------------------------------------------
(* Fairness.  watched never changes, so a condition on a disjunction over the    *)
(* parts is one condition for each part.                                         *)

\* Time passes; passes over the days begin; the NAS repeats its interim updates.
Clock ==
  \/ Dev /\ DevMinute
  \/ DB /\ DBMinute
  \/ Inserts /\ FlowsMinute
  \/ Parts /\ PartsMinute
  \/ Comp /\ AuditPause
  \/ Day /\ dayFlowCounts
  \/ Rad /\ InterimUpdate
\* The tickers fire; a pass and a lookup that began end.
Ticker ==
  \/ Dev /\ runHealthCheck
  \/ \E o \in Outcomes :
       \/ DB /\ clickHouseHealthCheck(o)
       \/ Inserts /\ ingestTick(o)
       \/ Parts /\ brokenPartsCheck(o)
       \/ Comp /\ complianceTick(o)
  \/ Day /\ PassEnds
  \/ Rad /\ LookupDelete
\* A send or a scan ends, if only by its timeout.
Ends == (Dev /\ SendAny) \/ (Day /\ Measure)
\* The relay does not lose every mail for ever.
MailArrives(d) ==
  \/ d \in Devices /\ Dev /\ SendDelivers(d)
  \/ DB /\ DBDelivers
  \/ Inserts /\ StallDelivers
  \/ Parts /\ PartsDelivers
  \/ d \in Exporters /\ Comp /\ TickDelivers(d)
\* Nor do the table reads, one day's scan, or one session's updates fail for ever.
ReadSucceeds == Day /\ ipdrDaysNeedingWork
Arrives(n) ==
  \/ n \in DayNos /\ Day /\ computeIPDRDay(n)
  \/ n \in 1..MaxSessions /\ Rad /\ InterimArrives(n)

FairSpec ==
  /\ Spec
  /\ WF_monVars(Clock) /\ WF_monVars(Ticker) /\ WF_monVars(Ends) /\ SF_monVars(ReadSucceeds)
  /\ \A d \in Devices \cup Exporters : SF_monVars(MailArrives(d))
  /\ \A n \in DayNos \cup 1..MaxSessions : SF_monVars(Arrives(n))
=============================================================================
