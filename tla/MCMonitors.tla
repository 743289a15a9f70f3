----------------------------- MODULE MCMonitors -----------------------------
(* The instance of Monitors for TLC: one window for every grade. *)
EXTENDS Monitors

CONSTANT d1

MCWindows ==
  {[Quiet EXCEPT !.translated = 1, !.withPort = 1], [Quiet EXCEPT !.translated = 2, !.withPort = 1],
   [Quiet EXCEPT !.translated = 1, !.sameAsSrc = 1], [Quiet EXCEPT !.noNATField = 1],
   [Quiet EXCEPT !.sameAsSrc = 1], [Quiet EXCEPT !.dropped = 1]}
=============================================================================
