------------------------------ MODULE Delivery ------------------------------
(* What the write-ahead log promises the pipeline, without files, shards or      *)
(* retries: who answers for a batch.  It waits in the queues, then a shard holds *)
(* it in memory, then the disk does, then nobody has to.  One step may move      *)
(* several batches, because a crash ends every shard at once.                    *)
CONSTANTS
  Batches,   \* the batches
  RowsOf(_)  \* the rows of a batch

VARIABLES
  custody,  \* batch -> who answers for it
  table,    \* rows delivered to the database
  counted,  \* rows the operator was told of: dropped or refused
  died      \* batches that died with the process

deliveryVars == <<custody, table, counted, died>>

Init ==
  /\ custody = [b \in Batches |-> "queue"]
  /\ table = {} /\ counted = {} /\ died = {}

\* A batch leaves the queue for memory, and memory for the disk.
Handed(from, to) == <<from, to>> \in {<<"queue", "memory">>, <<"memory", "disk">>}

\* Memory may let go of a batch whose rows are all delivered, told of, or lost in a
\* crash; the disk only of one that is delivered whole.
Discharged(b, from, to) ==
  /\ to = "none"
  /\ \/ from = "memory" /\ (RowsOf(b) \subseteq table' \cup counted' \/ b \in died')
     \/ from = "disk" /\ RowsOf(b) \subseteq table'

\* A file whose removal a power loss undid is the disk's again: it will be
\* delivered once more.
Resurfaced(from, to) == from = "none" /\ to = "disk"

Move(b) ==
  LET from == custody[b]
      to == custody'[b]
  IN  from = to \/ Handed(from, to) \/ Discharged(b, from, to) \/ Resurfaced(from, to)

\* Rows are delivered out of somebody's custody, and stay delivered and counted; a
\* crash takes batches from memory only.
Next ==
  /\ custody' \in [Batches -> {"queue", "memory", "disk", "none"}]
  /\ \A b \in Batches : Move(b)
  /\ table \subseteq table' /\ counted \subseteq counted' /\ died \subseteq died'
  /\ table' \ table \subseteq UNION {RowsOf(b) : b \in {c \in Batches : custody[c] \in {"memory", "disk"}}}
  /\ \A b \in died' \ died : custody[b] = "memory"

Spec == Init /\ [][Next]_deliveryVars
=============================================================================
