------------------------------- MODULE Intake -------------------------------
(* The two ways into the collector: datagrams (Ingest) and syslog connections    *)
(* (TCPReceiver).  They share nothing but the pipeline behind them, so a         *)
(* behaviour follows one while the other rests.                                  *)
EXTENDS Ingest, TCPReceiver

VARIABLE intake   \* the one this behaviour is about

IntakeInit == Init /\ TCPInit /\ intake \in {"datagrams", "connections"}
IntakeNext ==
  /\ UNCHANGED intake
  /\ \/ intake = "datagrams" /\ Next /\ UNCHANGED tcpVars
     \/ intake = "connections" /\ TCPNext /\ UNCHANGED vars
IntakeSpec == IntakeInit /\ [][IntakeNext]_<<vars, tcpVars, intake>>
=============================================================================
