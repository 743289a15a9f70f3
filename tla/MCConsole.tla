------------------------------ MODULE MCConsole -----------------------------
(* The instance of Console for TLC.  Two tenants, each with one search in        *)
(* flight; the CRMs of the tenants answer differently at every endpoint.         *)
EXTENDS Console, TLC

CONSTANTS q1, q2

MCIsp == [j \in {1, 2} |-> j]
MCPages == {<<"a", "a">>, <<"z", "b">>}
MCSubscribers == <<<<"s11", "s12">>, <<"s21", "s22">>>>
MCAnswers ==
  [i \in {1, 2} |-> [e \in {1, 2} |-> [l \in {"a", "b"} |->
     IF l = "b" THEN "not_found" ELSE MCSubscribers[i][e]]]]

\* Requests are interchangeable, and only safety is checked here.
MCSymmetry == Permutations({q1, q2})
=============================================================================
