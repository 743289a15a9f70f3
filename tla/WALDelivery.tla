----------------------------- MODULE WALDelivery ----------------------------
(* BatchWAL implements Delivery.  The disk answers for a batch when its file     *)
(* survives every power loss, a shard when it holds the batch without one.       *)
EXTENDS BatchWAL

custody ==
  [b \in Batches |->
     IF b \in pending THEN "queue"
     ELSE IF Held(b) THEN "disk"
     ELSE IF \E s \in Shards : held[s] = b THEN "memory" ELSE "none"]

D == INSTANCE Delivery WITH
       RowsOf <- Rows, table <- db, counted <- lost \cup rejected, died <- wiped

\* On a table without deduplication the writer keeps the log's promise: Begin,
\* flush, salvage, Save, replay, crash and recovery only ever hand a batch on,
\* never drop one between two owners (docs/WAL.md, "State machine"), and the disk
\* lets go of it only when ClickHouse has every row.
Delivers == D!Spec
=============================================================================
