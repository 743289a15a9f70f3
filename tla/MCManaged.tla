----------------------------- MODULE MCManaged -----------------------------
(* Instances of Managed for TLC. *)
EXTENDS Managed, TLC

CONSTANTS a1, a2, a3, k1, k2, t1, t2

\* Two addresses, one of which is written in two ways.
TwoSpellings == (a1 :> k1) @@ (a2 :> k1) @@ (a3 :> k2)
============================================================================
