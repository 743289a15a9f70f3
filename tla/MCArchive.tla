----------------------------- MODULE MCArchive -----------------------------
(* Instances of Archive for TLC. *)
EXTENDS Archive, TLC

CONSTANTS f1, f2, f3, i1, i2, i0

\* Tenants i1 and i2; i0 is no tenant's id.
TwoTenants == (f1 :> i1) @@ (f2 :> i2) @@ (f3 :> i1)
OneEach == (f1 :> i1) @@ (f2 :> i2)
OneForeign == (f1 :> i1) @@ (f2 :> i2) @@ (f3 :> i0)

AfterOne == {[after |-> 1, ret |-> 1]}
AfterOneOrSo == {[after |-> 1, ret |-> 8], [after |-> 1, ret |-> 9]}
Retentions == [after : {2}, ret : {1, 3, 9}]
============================================================================
