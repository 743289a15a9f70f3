---------------------------- MODULE MCWriterPool ----------------------------
(* Instances of WriterPool for TLC. *)
EXTENDS WriterPool, TLC

CONSTANTS r1, r2, r3, p1, p2

\* r1 and r3 share a shard in every pool, r2 has another one in a pool of two.
SpreadHash == (r1 :> 0) @@ (r2 :> 3) @@ (r3 :> 1)
OneThenTwo == <<1, 2>>
OneThenOne == <<1, 1>>
AllModes == {"block", "drop_old", "drop_new"}
BlockOnly == {"block"}
UpToTwo == {1, 2}
JustTwo == {2}
=============================================================================
