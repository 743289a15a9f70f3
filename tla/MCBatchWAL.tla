---------------------------- MODULE MCBatchWAL ----------------------------
(* Instances of BatchWAL for TLC. *)
EXTENDS WALDelivery, TLC

CONSTANTS b1, b2, b3, s1, s2

\* Batches b1 and b3 are clean; b2 has a row that ClickHouse cannot encode.
OneBadRow == {<<b2, 2>>}
OnlyBadRow == {<<b2, 1>>}
NoBadRow == {}
TwoRows == {1, 2}
OneRow == {1}

\* Shards are interchangeable; so are the two clean batches.
Sym == Permutations({s1, s2}) \cup Permutations({b1, b3})
===========================================================================
