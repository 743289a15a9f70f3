--------------------------- MODULE BatchWALProofs ---------------------------
(***************************************************************************)
(* Proofs about BatchWAL, for any batches, shards, bounds and faults.      *)
(*                                                                         *)
(* GuardedSurvives is not inductive: it does not say whose file a shard or *)
(* the replay loop is about to remove.  WALInv adds the ownership of the   *)
(* files: what each step of flush knows of its own file (ShardOK), that no *)
(* two shards share one (Exclusive), that the replay loop only holds ready *)
(* files (ReplayOK), that names above seq are unused (Fresh), and that a   *)
(* dead process holds nothing (DownOK).                                    *)
(***************************************************************************)
EXTENDS BatchWAL, FiniteSetTheorems, TLAPS

Owning == {"send", "salvage", "done", "release", "quarantine", "saveReady"}
Writing == {"write", "saveWrite"}
Activating == {"activate", "saveActivate"}

ShardOK(s) ==
  /\ pc[s] = "idle" => held[s] = NoBatch /\ wal[s] = 0
  /\ pc[s] # "idle" => held[s] \in Batches
  /\ pc[s] \in {"idle", "write", "activate", "send"} => tries[s] < Attempts
  /\ pc[s] \in (Writing \cup Activating \cup Owning) \ {"send", "salvage"}
       => wal[s] # 0
  /\ pc[s] = "save" => wal[s] = 0
  /\ wal[s] # 0 => wal[s] <= seq
  /\ wal[s] # 0 /\ pc[s] \in Writing => loc[wal[s]] = "none" /\ past[wal[s]] = {}
  /\ wal[s] # 0 /\ pc[s] \in Activating
       => loc[wal[s]] = "tmp" /\ content[wal[s]] = held[s] /\ past[wal[s]] = {}
  /\ wal[s] # 0 /\ pc[s] \in Owning
       => loc[wal[s]] = "active" /\ content[wal[s]] = held[s] /\ past[wal[s]] = {}
  /\ ~Dedup /\ pc[s] = "done" => Rows(held[s]) \subseteq db

Exclusive == \A s, t \in Shards : s # t /\ wal[s] # 0 => wal[s] # wal[t]

ReplayOK ==
  /\ rpc = "idle" <=> rname = 0
  /\ rname # 0 => loc[rname] = "ready" /\ content[rname] \in Batches
  /\ ~Dedup /\ rpc = "done" => Rows(content[rname]) \subseteq db

\* Every file outside .tmp holds a batch.
Filled == \A n \in Names : loc[n] \in OnDisk \/ past[n] \cap OnDisk # {}
                             => content[n] \in Batches

Fresh == up => \A n \in Names : n > seq => loc[n] = "none" /\ past[n] = {}

DownOK == ~up => rname = 0 /\ \A s \in Shards : pc[s] = "idle"

WALInv ==
  /\ TypeOK
  /\ \A s \in Shards : ShardOK(s)
  /\ Exclusive
  /\ ReplayOK
  /\ Filled
  /\ Fresh
  /\ DownOK
  /\ ~Dedup => GuardedSurvives

-----------------------------------------------------------------------------
(* What the database does to its own state.                                *)

DbType ==
  /\ db \subseteq Batches \X RowIdx
  /\ dups \subseteq db
  /\ seen \subseteq Names \X (RowIdx \cup {0})

\* Rows of a batch are rows.
LEMMA RowsType ==
  ASSUME NEW b \in Batches PROVE Rows(b) \subseteq Batches \X RowIdx
BY DEF Rows

\* A committed insert only adds rows, and adds all of them.
LEMMA CommitGrows ==
  ASSUME DbType, NEW rows \in SUBSET (Batches \X RowIdx),
         NEW t \in SUBSET (Names \X (RowIdx \cup {0})), Commit(rows, t)
  PROVE  DbType' /\ db \subseteq db' /\ rows \subseteq db'
BY DEF DbType, Commit

\* A token is a set of at most one pair of a name and an index.
LEMMA TokenType ==
  ASSUME NEW n \in Names \cup {0}, NEW i \in RowIdx \cup {0}
  PROVE  DedupToken(n, i) \subseteq Names \X (RowIdx \cup {0})
BY WALAssumption DEF DedupToken, Names

\* An acknowledged insert grows the table, and stores the whole batch when the
\* table does not deduplicate.
LEMMA InsertGrows ==
  ASSUME DbType, NEW b \in Batches, NEW n \in Names \cup {0},
         Insert(Rows(b), DedupToken(n, 0))
  PROVE  DbType' /\ db \subseteq db' /\ (~Dedup => Rows(b) \subseteq db')
<1>1. DedupToken(n, 0) \subseteq Names \X (RowIdx \cup {0})
  BY TokenType
<1>2. CASE Suppressed(DedupToken(n, 0))
  BY <1>2 DEF Insert, Suppressed, dbVars, DbType
<1>3. CASE ~Suppressed(DedupToken(n, 0))
  BY <1>1, <1>3, RowsType, CommitGrows DEF Insert
<1>. QED BY <1>2, <1>3

LEMMA InsertRowsGrows ==
  ASSUME DbType, NEW rows \in SUBSET (Batches \X RowIdx),
         NEW n \in Names \cup {0}, InsertRows(rows, n)
  PROVE  DbType' /\ db \subseteq db'
<1>. DEFINE fresh == {r \in rows : ~Suppressed(DedupToken(n, r[2]))}
            tok == UNION {DedupToken(n, r[2]) : r \in fresh}
<1>1. Commit(fresh, tok)
  BY DEF InsertRows
<1>2. \A r \in rows : r[2] \in RowIdx
  OBVIOUS
<1>3. tok \subseteq Names \X (RowIdx \cup {0})
  BY <1>2, TokenType
<1>. QED BY <1>1, <1>3, CommitGrows

\* Each way send can end leaves the table well-typed and at least as full.
LEMMA SendGrows ==
  ASSUME DbType, NEW b \in Batches, NEW n \in Names \cup {0},
         SendAcked(b, n) \/ SendRefused(b) \/ SendFailed(b, n)
  PROVE  DbType' /\ db \subseteq db'
<1>1. CASE Insert(Rows(b), DedupToken(n, 0))
  BY <1>1, InsertGrows
<1>2. CASE UNCHANGED dbVars
  BY <1>2 DEF dbVars, DbType
<1>. QED BY <1>1, <1>2 DEF SendAcked, SendRefused, SendFailed

\* So does salvage, which counts only rows that cannot be encoded.
LEMMA SalvageGrows ==
  ASSUME DbType, rejected \subseteq BadRows, NEW b \in Batches,
         NEW n \in Names \cup {0}, NEW D \in SUBSET Rows(b), NEW L \in SUBSET D,
         Salvage(b, n, D, L)
  PROVE  DbType' /\ db \subseteq db' /\ rejected' \subseteq BadRows
<1>1. (Good(b) \ D) \cup L \subseteq Batches \X RowIdx
  BY RowsType DEF Good
<1>2. InsertRows((Good(b) \ D) \cup L, n) /\ rejected' = rejected \cup ((Rows(b) \cap BadRows) \ D)
  BY DEF Salvage
<1>. QED BY <1>1, <1>2, InsertRowsGrows

-----------------------------------------------------------------------------
(* Frames: what a step that touches only the file n leaves intact.         *)

Others(n) == \A m \in Names \ {n} :
               loc'[m] = loc[m] /\ content'[m] = content[m] /\ past'[m] \subseteq past[m]

\* Only shard s moves, and it keeps its file name, drops it or takes the next.
OnlyShard(s) ==
  /\ \A t \in Shards \ {s} : pc'[t] = pc[t] /\ held'[t] = held[t]
                             /\ wal'[t] = wal[t] /\ tries'[t] = tries[t]
  /\ wal'[s] \in {0, wal[s], seq + 1}

\* The process runs, and neither the sequence number nor the table goes back.
Running == up /\ up' /\ seq <= seq' /\ db \subseteq db'

\* File n holds a batch, and a batch that was safe in n is still safe.
Keeps(n) ==
  /\ loc'[n] \in OnDisk \/ past'[n] \cap OnDisk # {} => content'[n] \in Batches
  /\ ~Dedup /\ {loc[n]} \cup past[n] \subseteq OnDisk
       => \/ Rows(content[n]) \subseteq db'
          \/ content'[n] = content[n] /\ {loc'[n]} \cup past'[n] \subseteq OnDisk

\* No batch becomes guarded except by having its file on disk.
GuardsHeld == \A b \in guarded' : b \in guarded \/ Held(b)'

\* A shard's file is never the one the replay loop holds.
LEMMA OwnersDiffer ==
  ASSUME WALInv, NEW s \in Shards, wal[s] # 0, rname # 0
  PROVE  wal[s] # rname
<1>1. pc[s] \in Writing \cup Activating \cup Owning
  BY DEF WALInv, TypeOK, ShardOK, Steps, Writing, Activating, Owning
<1>2. loc[wal[s]] # "ready"
  BY <1>1 DEF WALInv, ShardOK
<1>. QED BY <1>2 DEF WALInv, ReplayOK

\* A shard whose own fields and file a step leaves alone stays in order.
LEMMA ShardFrame ==
  ASSUME WALInv, TypeOK', NEW t \in Shards,
         pc'[t] = pc[t], held'[t] = held[t], wal'[t] = wal[t], tries'[t] = tries[t],
         seq <= seq', db \subseteq db',
         wal[t] # 0 => /\ loc'[wal[t]] = loc[wal[t]]
                       /\ content'[wal[t]] = content[wal[t]]
                       /\ past'[wal[t]] \subseteq past[wal[t]]
  PROVE  ShardOK(t)'
<1>1. ShardOK(t)
  BY DEF WALInv
<1>2. wal[t] # 0 => wal[t] <= seq'
  BY <1>1, WALAssumption DEF WALInv, TypeOK, ShardOK, Names
<1>3. ~Dedup /\ pc[t] = "done" => Rows(held[t]) \subseteq db'
  BY <1>1 DEF ShardOK
<1>. QED BY <1>1, <1>2, <1>3 DEF ShardOK

\* A step of shard s on its own file leaves the other shards in order.
LEMMA OtherShards ==
  ASSUME WALInv, TypeOK', NEW s \in Shards, Others(wal[s]), Running, OnlyShard(s)
  PROVE  \A t \in Shards \ {s} : ShardOK(t)'
<1>. TAKE t \in Shards \ {s}
<1>1. wal[t] # 0 => wal[t] \in Names \ {wal[s]}
  BY DEF WALInv, TypeOK, Exclusive
<1>. QED BY <1>1, ShardFrame DEF Others, Running, OnlyShard

\* A step on a file the replay loop does not hold leaves the loop in order.
LEMMA ReplayFrame ==
  ASSUME WALInv, NEW n, n # rname \/ rname = 0, Others(n),
         rpc' = rpc, rname' = rname, db \subseteq db'
  PROVE  ReplayOK'
<1>1. rname # 0 => loc'[rname] = loc[rname] /\ content'[rname] = content[rname]
  BY DEF WALInv, TypeOK, Others
<1>2. rpc = "done" => rname # 0
  BY DEF WALInv, ReplayOK
<1>. QED BY <1>1, <1>2 DEF WALInv, ReplayOK

\* The conjuncts about the directory, after a step of the running process that
\* touches only file n.
LEMMA DiskFrame ==
  ASSUME WALInv, TypeOK', Running, GuardsHeld, NEW n \in Names \cup {0}, Others(n),
         n \in Names => n <= seq' /\ Keeps(n)
  PROVE  Filled' /\ Fresh' /\ DownOK' /\ (~Dedup => GuardedSurvives)'
<1>1. Filled'
  <2>. SUFFICES ASSUME NEW m \in Names,
                       loc'[m] \in OnDisk \/ past'[m] \cap OnDisk # {}, m # n
                PROVE  content'[m] \in Batches
    BY DEF Filled, Keeps
  <2>. QED BY DEF Others, WALInv, Filled
<1>2. Fresh'
  <2>. SUFFICES ASSUME NEW m \in Names, m > seq'
                PROVE  loc'[m] = "none" /\ past'[m] = {}
    BY DEF Fresh
  <2>1. m > seq /\ m # n
    BY WALAssumption DEF WALInv, TypeOK, Names, Running
  <2>. QED BY <2>1 DEF Others, WALInv, Fresh, Running
<1>3. DownOK'
  BY DEF DownOK, Running
<1>4. ASSUME ~Dedup PROVE GuardedSurvives'
  <2>. SUFFICES ASSUME NEW b \in guarded, ~(Rows(b) \subseteq db')
                PROVE  Held(b)'
    BY DEF GuardedSurvives, GuardsHeld
  <2>1. Held(b)
    BY <1>4 DEF WALInv, GuardedSurvives, Running
  <2>2. PICK m \in Names : content[m] = b /\ {loc[m]} \cup past[m] \subseteq OnDisk
    BY <2>1 DEF Held
  <2>3. content'[m] = b /\ {loc'[m]} \cup past'[m] \subseteq OnDisk
    BY <1>4, <2>2 DEF Others, Keeps
  <2>. QED BY <2>3 DEF Held
<1>. QED BY <1>1, <1>2, <1>3, <1>4

-----------------------------------------------------------------------------
(* The steps of shard.flush preserve WALInv.                               *)

\* The conjuncts that speak of more than shard s, after a step of shard s.
LEMMA ShardStepInv ==
  ASSUME WALInv, TypeOK', NEW s \in Shards, Running, OnlyShard(s), Others(wal[s]),
         rpc' = rpc, rname' = rname, GuardsHeld, ShardOK(s)',
         wal[s] # 0 => Keeps(wal[s])
  PROVE  WALInv'
<1>1. \A t \in Shards : ShardOK(t)'
  BY OtherShards
<1>2. Exclusive'
  <2>1. \A t \in Shards : wal[t] # 0 => wal[t] <= seq
    BY DEF WALInv, ShardOK
  <2>2. seq \in Nat /\ \A t \in Shards : wal[t] \in Nat
    BY WALAssumption DEF WALInv, TypeOK, Names
  <2>3. \A t \in Shards : wal[t] # seq + 1
    BY <2>1, <2>2
  <2>. QED BY <2>3 DEF WALInv, Exclusive, OnlyShard
<1>3. ReplayOK'
  <2>1. wal[s] # rname \/ rname = 0
    BY OwnersDiffer
  <2>. QED BY <2>1, ReplayFrame DEF Running
<1>4. Filled' /\ Fresh' /\ DownOK' /\ (~Dedup => GuardedSurvives)'
  <2>1. wal[s] \in Names \cup {0} /\ 0 \notin Names
    BY WALAssumption DEF WALInv, TypeOK, Names
  <2>2. wal[s] # 0 => wal[s] <= seq'
    BY <2>1, WALAssumption DEF WALInv, ShardOK, TypeOK, Names, Running
  <2>. QED BY <2>1, <2>2, DiskFrame
<1>. QED BY <1>1, <1>2, <1>3, <1>4 DEF WALInv

\* The name that Begin takes is the next one, and no file has it.
LEMMA ReserveNext ==
  ASSUME WALInv, up, NEW s \in Shards, NEW step \in Steps, Reserve(s, step)
  PROVE  /\ wal' \in [Shards -> Names \cup {0}] /\ pc' \in [Shards -> Steps]
         /\ seq' \in 0..MaxSeq /\ seq < seq' /\ UNCHANGED <<nfiles, nbytes>>
         /\ wal'[s] = seq' /\ seq' = seq + 1 /\ seq' \in Names /\ seq' # 0
         /\ pc'[s] = step /\ loc[seq'] = "none" /\ past[seq'] = {}
         /\ \A t \in Shards \ {s} : pc'[t] = pc[t] /\ wal'[t] = wal[t]
<1>1. seq' = seq + 1 /\ seq' \in 0..MaxSeq /\ seq' \in Names /\ seq < seq' /\ seq' # 0
  BY WALAssumption DEF WALInv, TypeOK, Reserve, Names
<1>2. /\ wal' = [wal EXCEPT ![s] = seq + 1] /\ pc' = [pc EXCEPT ![s] = step]
      /\ UNCHANGED <<nfiles, nbytes>>
  BY DEF Reserve, Goto
<1>3. loc[seq'] = "none" /\ past[seq'] = {}
  BY <1>1 DEF WALInv, Fresh
<1>. QED BY <1>1, <1>2, <1>3 DEF WALInv, TypeOK

LEMMA FlushBeginInv ==
  ASSUME WALInv, NEW s \in Shards, FlushBegin(s) PROVE WALInv'
<1>. USE WALAssumption
<1>1. PICK b \in pending : pending' = pending \ {b} /\ held' = [held EXCEPT ![s] = b]
  BY DEF FlushBegin
<1>u. /\ up /\ pc[s] = "idle"
      /\ UNCHANGED <<up, diskVars, tries, replayVars, envVars, dbVars, ghostVars>>
  BY DEF FlushBegin
<1>2. b \in Batches /\ wal[s] = 0 /\ tries[s] < Attempts
  BY <1>u DEF WALInv, ShardOK, TypeOK
<1>3. /\ pending' \subseteq Batches /\ held' \in [Shards -> Batches \cup {NoBatch}]
      /\ held'[s] = b /\ \A t \in Shards \ {s} : held'[t] = held[t]
  BY <1>1, <1>2 DEF WALInv, TypeOK
<1>4. /\ seq' \in 0..MaxSeq /\ seq <= seq' /\ UNCHANGED <<nfiles, nbytes>>
      /\ pc' \in [Shards -> Steps] /\ wal' \in [Shards -> Names \cup {0}]
      /\ OnlyShard(s) /\ ShardOK(s)'
  <2>1. CASE Reserve(s, "write")
    <3>1. /\ wal' \in [Shards -> Names \cup {0}] /\ pc' \in [Shards -> Steps]
          /\ seq' \in 0..MaxSeq /\ seq < seq' /\ UNCHANGED <<nfiles, nbytes>>
          /\ wal'[s] = seq' /\ seq' = seq + 1 /\ seq' \in Names /\ seq' # 0
          /\ pc'[s] = "write" /\ loc[seq'] = "none" /\ past[seq'] = {}
          /\ \A t \in Shards \ {s} : pc'[t] = pc[t] /\ wal'[t] = wal[t]
      BY <1>u, <2>1, ReserveNext DEF Steps
    <3>2. OnlyShard(s) /\ seq <= seq'
      BY <1>u, <1>3, <3>1 DEF OnlyShard, WALInv, TypeOK
    <3>3. ShardOK(s)'
      BY <1>u, <1>2, <1>3, <3>1 DEF ShardOK, diskVars, Names, Writing, Activating, Owning
    <3>. QED BY <3>1, <3>2, <3>3
  <2>2. CASE Goto(s, "send") /\ UNCHANGED <<wal, spoolVars>>
    <3>1. pc' \in [Shards -> Steps] /\ pc'[s] = "send" /\ OnlyShard(s)
      BY <1>u, <1>3, <2>2 DEF Goto, OnlyShard, WALInv, TypeOK, Steps
    <3>2. ShardOK(s)'
      BY <1>u, <1>2, <1>3, <2>2, <3>1 DEF ShardOK, Writing, Activating, Owning
    <3>. QED BY <2>2, <3>1, <3>2 DEF spoolVars, WALInv, TypeOK
  <2>. QED BY <2>1, <2>2 DEF FlushBegin
<1>5. TypeOK'
  BY <1>u, <1>3, <1>4 DEF WALInv, TypeOK, diskVars, replayVars, envVars, dbVars, ghostVars
<1>6. Running /\ Others(wal[s]) /\ GuardsHeld
  BY <1>u, <1>4 DEF Running, Others, GuardsHeld, diskVars, dbVars, ghostVars
<1>. QED BY <1>u, <1>2, <1>4, <1>5, <1>6, ShardStepInv DEF replayVars

\* A shard that returns from flush is idle and owns nothing.
LEMMA ReturnOK ==
  ASSUME TypeOK, NEW s \in Shards, Return(s)
  PROVE  /\ pc' \in [Shards -> Steps] /\ held' \in [Shards -> Batches \cup {NoBatch}]
         /\ wal' \in [Shards -> Names \cup {0}] /\ tries' \in [Shards -> 0..Attempts]
         /\ ShardOK(s)' /\ OnlyShard(s)
BY WALAssumption DEF TypeOK, Return, Goto, OnlyShard, ShardOK, Steps, Writing,
   Activating, Owning

\* Writing the .tmp file disturbs no file but the shard's own, which holds
\* nothing that a restart would keep.
LEMMA WriteFrame ==
  ASSUME WALInv, NEW s \in Shards, NEW from \in Writing, NEW to \in Activating,
         pc[s] = from, up, UNCHANGED <<up, past, spoolVars, dbVars, guarded>>,
         \/ UNCHANGED <<loc, content>>
         \/ /\ loc' = [loc EXCEPT ![wal[s]] = "tmp"]
            /\ content' = [content EXCEPT ![wal[s]] = held[s]]
  PROVE  /\ Running /\ Others(wal[s]) /\ GuardsHeld /\ Keeps(wal[s])
         /\ wal[s] \in Names /\ held[s] \in Batches
         /\ loc' \in [Names -> Locs] /\ content' \in [Names -> Batches \cup {NoBatch}]
<1>1. /\ wal[s] \in Names /\ held[s] \in Batches
      /\ loc[wal[s]] = "none" /\ past[wal[s]] = {}
  BY WALAssumption DEF WALInv, TypeOK, ShardOK, Writing, Activating, Owning
<1>2. Running /\ GuardsHeld
  BY DEF WALInv, TypeOK, Running, GuardsHeld, spoolVars, dbVars
<1>3. Others(wal[s])
  BY <1>1 DEF WALInv, TypeOK, Others
<1>4. Keeps(wal[s])
  BY <1>1 DEF WALInv, TypeOK, Keeps, OnDisk
<1>. QED BY <1>1, <1>2, <1>3, <1>4 DEF WALInv, TypeOK, Locs

LEMMA FlushWriteInv ==
  ASSUME WALInv, NEW s \in Shards, FlushWrite(s) PROVE WALInv'
<1>. USE WALAssumption DEF FlushWrite, WriteTmp
<1>1. /\ Running /\ Others(wal[s]) /\ GuardsHeld /\ Keeps(wal[s])
      /\ wal[s] \in Names /\ held[s] \in Batches
      /\ loc' \in [Names -> Locs] /\ content' \in [Names -> Batches \cup {NoBatch}]
  BY WriteFrame DEF Writing, Activating
<1>2. TypeOK'
  BY <1>1 DEF WALInv, TypeOK, Unprotected, Goto, Steps, spoolVars, replayVars,
     envVars, dbVars
<1>3. ShardOK(s)'
  BY <1>1 DEF WALInv, TypeOK, ShardOK, Unprotected, Goto, spoolVars, dbVars,
     Writing, Activating, Owning
<1>4. OnlyShard(s)
  BY DEF WALInv, TypeOK, Unprotected, Goto, OnlyShard
<1>. QED BY <1>1, <1>2, <1>3, <1>4, ShardStepInv DEF replayVars

LEMMA SaveWriteInv ==
  ASSUME WALInv, NEW s \in Shards, SaveWrite(s) PROVE WALInv'
<1>. USE WALAssumption DEF SaveWrite, WriteTmp
<1>1. /\ Running /\ Others(wal[s]) /\ GuardsHeld /\ Keeps(wal[s])
      /\ wal[s] \in Names /\ held[s] \in Batches
      /\ loc' \in [Names -> Locs] /\ content' \in [Names -> Batches \cup {NoBatch}]
  BY WriteFrame DEF Writing, Activating
<1>2. TypeOK' /\ ShardOK(s)' /\ OnlyShard(s)
  <2>1. CASE GiveUp(s)
    <3>1. Return(s) /\ lost' \subseteq Batches \X RowIdx
      BY <1>1, <2>1, RowsType DEF GiveUp, WALInv, TypeOK
    <3>. QED
      BY <1>1, <3>1, ReturnOK DEF WALInv, TypeOK, spoolVars, replayVars, envVars, dbVars
  <2>2. CASE Goto(s, "saveActivate") /\ UNCHANGED <<held, wal, tries, lost>>
             /\ loc' = [loc EXCEPT ![wal[s]] = "tmp"]
             /\ content' = [content EXCEPT ![wal[s]] = held[s]]
    <3>1. TypeOK' /\ OnlyShard(s)
      BY <1>1, <2>2 DEF WALInv, TypeOK, Goto, OnlyShard, Steps, spoolVars,
         replayVars, envVars, dbVars
    <3>. QED
      BY <1>1, <2>2, <3>1 DEF WALInv, TypeOK, ShardOK, Goto, spoolVars, dbVars,
         Writing, Activating, Owning
  <2>. QED BY <2>1, <2>2
<1>. QED BY <1>1, <1>2, ShardStepInv DEF replayVars

\* The rename to .active touches only the shard's own file; when it succeeds
\* the batch is guarded and its file on disk.
LEMMA ActivateFrame ==
  ASSUME WALInv, NEW s \in Shards, pc[s] \in Activating, up,
         UNCHANGED <<up, content, seq, dbVars>>,
         \/ /\ loc' = [loc EXCEPT ![wal[s]] = "active"] /\ SyncDir
            /\ guarded' = guarded \cup {held[s]}
         \/ /\ \/ loc' = [loc EXCEPT ![wal[s]] = "none"] /\ UNCHANGED past
               \/ /\ loc' = [loc EXCEPT ![wal[s]] = "none"]
                  /\ past' = [past EXCEPT ![wal[s]] = @ \cup {"active"}]
               \/ /\ loc' = [loc EXCEPT ![wal[s]] = "active"]
                  /\ past' = [past EXCEPT ![wal[s]] = @ \cup {"none"}]
            /\ UNCHANGED guarded
  PROVE  /\ Running /\ Others(wal[s]) /\ GuardsHeld /\ Keeps(wal[s])
         /\ wal[s] \in Names /\ held[s] \in Batches /\ content[wal[s]] = held[s]
         /\ loc' \in [Names -> Locs] /\ past' \in [Names -> SUBSET Locs]
<1>1. /\ wal[s] \in Names /\ held[s] \in Batches /\ content[wal[s]] = held[s]
      /\ loc[wal[s]] = "tmp" /\ past[wal[s]] = {}
  BY WALAssumption DEF WALInv, TypeOK, ShardOK, Writing, Activating, Owning
<1>2. Running
  BY DEF WALInv, TypeOK, Running, dbVars
<1>3. Others(wal[s])
  BY <1>1 DEF WALInv, TypeOK, Others, SyncDir
<1>4. Keeps(wal[s])
  BY <1>1 DEF WALInv, TypeOK, Keeps, OnDisk
<1>5. GuardsHeld
  BY <1>1 DEF WALInv, TypeOK, GuardsHeld, Held, OnDisk, SyncDir
<1>6. loc' \in [Names -> Locs] /\ past' \in [Names -> SUBSET Locs]
  BY <1>1 DEF WALInv, TypeOK, Locs, SyncDir
<1>. QED BY <1>1, <1>2, <1>3, <1>4, <1>5, <1>6

LEMMA FlushActivateInv ==
  ASSUME WALInv, NEW s \in Shards, FlushActivate(s) PROVE WALInv'
<1>. USE WALAssumption DEF FlushActivate, Activate
<1>1. /\ Running /\ Others(wal[s]) /\ GuardsHeld /\ Keeps(wal[s])
      /\ wal[s] \in Names /\ held[s] \in Batches /\ content[wal[s]] = held[s]
      /\ loc' \in [Names -> Locs] /\ past' \in [Names -> SUBSET Locs]
  BY ActivateFrame DEF Activating
<1>2. TypeOK'
  BY <1>1 DEF WALInv, TypeOK, Unprotected, Goto, Steps, replayVars, envVars, dbVars
<1>3. ShardOK(s)'
  BY <1>1 DEF WALInv, TypeOK, ShardOK, Unprotected, Goto, SyncDir, dbVars,
     Writing, Activating, Owning
<1>4. OnlyShard(s)
  BY DEF WALInv, TypeOK, Unprotected, Goto, OnlyShard
<1>. QED BY <1>1, <1>2, <1>3, <1>4, ShardStepInv DEF replayVars

LEMMA SaveActivateInv ==
  ASSUME WALInv, NEW s \in Shards, SaveActivate(s) PROVE WALInv'
<1>. USE WALAssumption DEF SaveActivate, Activate
<1>1. /\ Running /\ Others(wal[s]) /\ GuardsHeld /\ Keeps(wal[s])
      /\ wal[s] \in Names /\ held[s] \in Batches /\ content[wal[s]] = held[s]
      /\ loc' \in [Names -> Locs] /\ past' \in [Names -> SUBSET Locs]
  BY ActivateFrame DEF Activating
<1>2. TypeOK' /\ ShardOK(s)' /\ OnlyShard(s)
  <2>1. CASE GiveUp(s) /\ UNCHANGED <<nfiles, nbytes, guarded>>
    <3>1. Return(s) /\ lost' \subseteq Batches \X RowIdx
      BY <1>1, <2>1, RowsType DEF GiveUp, WALInv, TypeOK
    <3>. QED
      BY <1>1, <2>1, <3>1, ReturnOK DEF WALInv, TypeOK, replayVars, envVars, dbVars
  <2>2. CASE /\ Goto(s, "saveReady") /\ UNCHANGED <<held, wal, tries, lost>>
             /\ nfiles' = nfiles + 1 /\ nbytes' = nbytes + 1
             /\ guarded' = guarded \cup {held[s]}
             /\ loc' = [loc EXCEPT ![wal[s]] = "active"] /\ SyncDir
    <3>1. TypeOK' /\ OnlyShard(s)
      BY <1>1, <2>2 DEF WALInv, TypeOK, Goto, OnlyShard, Steps, replayVars, envVars,
         dbVars
    <3>. QED
      BY <1>1, <2>2, <3>1 DEF WALInv, TypeOK, ShardOK, Goto, SyncDir, dbVars,
         Writing, Activating, Owning
  <2>. QED BY <2>1, <2>2
<1>. QED BY <1>1, <1>2, ShardStepInv DEF replayVars

LEMMA FlushSaveInv ==
  ASSUME WALInv, NEW s \in Shards, FlushSave(s) PROVE WALInv'
<1>. USE WALAssumption DEF FlushSave
<1>1. held[s] \in Batches /\ wal[s] = 0
  BY DEF WALInv, ShardOK
<1>2. Running /\ Others(wal[s]) /\ GuardsHeld
  BY DEF WALInv, TypeOK, Reserve, Running, Others, GuardsHeld, diskVars, spoolVars, dbVars
<1>3. TypeOK' /\ ShardOK(s)' /\ OnlyShard(s)
  <2>1. CASE GiveUp(s) /\ UNCHANGED spoolVars
    <3>1. Return(s) /\ lost' \subseteq Batches \X RowIdx
      BY <1>1, <2>1, RowsType DEF GiveUp, WALInv, TypeOK
    <3>. QED
      BY <2>1, <3>1, ReturnOK DEF WALInv, TypeOK, diskVars, spoolVars, replayVars,
         envVars, dbVars
  <2>2. CASE Reserve(s, "saveWrite") /\ UNCHANGED <<held, tries, lost>>
    <3>1. /\ wal' \in [Shards -> Names \cup {0}] /\ pc' \in [Shards -> Steps]
          /\ seq' \in 0..MaxSeq /\ seq < seq' /\ UNCHANGED <<nfiles, nbytes>>
          /\ wal'[s] = seq' /\ seq' = seq + 1 /\ seq' \in Names /\ seq' # 0
          /\ pc'[s] = "saveWrite" /\ loc[seq'] = "none" /\ past[seq'] = {}
          /\ \A t \in Shards \ {s} : pc'[t] = pc[t] /\ wal'[t] = wal[t]
      BY <2>2, ReserveNext DEF Steps
    <3>2. TypeOK' /\ OnlyShard(s)
      BY <2>2, <3>1 DEF WALInv, TypeOK, OnlyShard, diskVars, replayVars, envVars, dbVars
    <3>3. ShardOK(s)'
      BY <1>1, <2>2, <3>1 DEF ShardOK, diskVars, Names, Writing, Activating, Owning
    <3>. QED BY <3>2, <3>3
  <2>. QED BY <2>1, <2>2
<1>. QED BY <1>1, <1>2, <1>3, ShardStepInv DEF replayVars

\* What a call to ClickHouse does to the environment.
LEMMA EnvType ==
  ASSUME TypeOK, Outage \/ UNCHANGED envVars
  PROVE  chUp' \in BOOLEAN /\ outages' \in 0..MaxOutages /\ crashes' \in 0..MaxCrashes
<1>1. CASE Outage
  <2>1. outages \in 0..MaxOutages /\ crashes \in 0..MaxCrashes
    BY DEF TypeOK
  <2>2. chUp' = FALSE /\ outages' = outages + 1 /\ outages < MaxOutages /\ crashes' = crashes
    BY <1>1 DEF Outage
  <2>3. outages' \in 0..MaxOutages /\ crashes' \in 0..MaxCrashes
    BY <2>1, <2>2, WALAssumption
  <2>. QED BY <2>2, <2>3
<1>2. CASE UNCHANGED envVars
  BY <1>2 DEF TypeOK, envVars
<1>. QED BY <1>1, <1>2

LEMMA FlushSendInv ==
  ASSUME WALInv, NEW s \in Shards, FlushSend(s) PROVE WALInv'
<1>. USE WALAssumption
<1>. DEFINE b == held[s]
            n == wal[s]
<1>u. /\ up /\ pc[s] = "send"
      /\ UNCHANGED <<up, diskVars, spoolVars, pending, replayVars, lost, rejected,
                     guarded, wiped>>
  BY DEF FlushSend
<1>1. /\ b \in Batches /\ n \in Names \cup {0} /\ tries[s] < Attempts
      /\ n # 0 => loc[n] = "active" /\ content[n] = b /\ past[n] = {} /\ n <= seq
  BY <1>u DEF WALInv, TypeOK, ShardOK, Owning
<1>2. DbType' /\ db \subseteq db'
  <2>1. SendAcked(b, n) \/ SendRefused(b) \/ SendFailed(b, n)
    BY DEF FlushSend
  <2>. QED BY <1>1, <2>1, SendGrows DEF WALInv, TypeOK, DbType
<1>3. Running /\ Others(n) /\ GuardsHeld /\ (n # 0 => Keeps(n))
  <2>1. Running
    BY <1>u, <1>2 DEF WALInv, TypeOK, Running, spoolVars
  <2>2. Others(n) /\ GuardsHeld
    BY <1>u DEF Others, GuardsHeld, diskVars
  <2>3. n # 0 => Keeps(n)
    BY <1>1, <1>u DEF Keeps, diskVars
  <2>. QED BY <2>1, <2>2, <2>3
<1>4. /\ chUp' \in BOOLEAN /\ outages' \in 0..MaxOutages /\ crashes' \in 0..MaxCrashes
      /\ bare' \subseteq Batches
  <2>1. Outage \/ UNCHANGED envVars
    BY DEF FlushSend, SendAcked, SendRefused, SendFailed
  <2>2. bare' = bare \/ bare' = bare \cup {b}
    BY DEF FlushSend
  <2>. QED BY <1>1, <2>1, <2>2, EnvType DEF WALInv, TypeOK
<1>5. /\ pc' \in [Shards -> Steps] /\ held' \in [Shards -> Batches \cup {NoBatch}]
      /\ wal' \in [Shards -> Names \cup {0}] /\ tries' \in [Shards -> 0..Attempts]
      /\ ShardOK(s)' /\ OnlyShard(s)
  <2>1. CASE Return(s)
    BY <2>1, ReturnOK DEF WALInv
  <2>2. ASSUME NEW step \in {"send", "salvage", "done", "save", "release"},
               Goto(s, step), UNCHANGED <<held, wal>>, tries' \in [Shards -> 0..Attempts],
               \A t \in Shards \ {s} : tries'[t] = tries[t],
               step = "send" => tries'[s] < Attempts,
               step \in {"done", "release"} => n # 0,
               step = "save" => n = 0,
               ~Dedup /\ step = "done" => Rows(b) \subseteq db'
        PROVE  /\ pc' \in [Shards -> Steps] /\ held' \in [Shards -> Batches \cup {NoBatch}]
               /\ wal' \in [Shards -> Names \cup {0}] /\ tries' \in [Shards -> 0..Attempts]
               /\ ShardOK(s)' /\ OnlyShard(s)
    <3>1. pc' \in [Shards -> Steps] /\ OnlyShard(s) /\ pc'[s] = step
      BY <2>2 DEF WALInv, TypeOK, Goto, Steps, OnlyShard
    <3>2. ShardOK(s)'
      BY <1>u, <1>1, <2>2, <3>1 DEF ShardOK, diskVars, spoolVars, Writing, Activating,
         Owning
    <3>. QED BY <2>2, <3>1, <3>2 DEF WALInv, TypeOK
  <2>3. CASE SendAcked(b, n) /\ Goto(s, "done") /\ UNCHANGED <<held, wal, tries>> /\ n # 0
    <3>1. ~Dedup => Rows(b) \subseteq db'
      BY <1>1, <2>3, InsertGrows DEF SendAcked, WALInv, TypeOK, DbType
    <3>. QED BY <2>2, <2>3, <3>1 DEF WALInv, TypeOK
  <2>4. CASE Goto(s, "salvage") /\ UNCHANGED <<held, wal, tries>>
    BY <2>2, <2>4 DEF WALInv, TypeOK
  <2>5. CASE /\ tries' = [tries EXCEPT ![s] = @ + 1]
             /\ Goto(s, IF tries[s] + 1 < Attempts THEN "send"
                        ELSE IF n = 0 THEN "save" ELSE "release")
             /\ UNCHANGED <<held, wal>>
    <3>1. /\ tries' \in [Shards -> 0..Attempts] /\ tries'[s] = tries[s] + 1
          /\ \A t \in Shards \ {s} : tries'[t] = tries[t]
      BY <1>1, <2>5 DEF WALInv, TypeOK
    <3>. QED BY <2>2, <2>5, <3>1
  <2>. QED BY <2>1, <2>3, <2>4, <2>5 DEF FlushSend
<1>6. TypeOK'
  BY <1>u, <1>2, <1>4, <1>5 DEF WALInv, TypeOK, DbType, diskVars, spoolVars, replayVars
<1>. QED BY <1>u, <1>3, <1>5, <1>6, ShardStepInv DEF replayVars

LEMMA FlushSalvageInv ==
  ASSUME WALInv, NEW s \in Shards, FlushSalvage(s) PROVE WALInv'
<1>. USE WALAssumption
<1>. DEFINE b == held[s]
            n == wal[s]
<1>u. /\ up /\ pc[s] = "salvage"
      /\ UNCHANGED <<up, diskVars, spoolVars, pending, replayVars, guarded, bare, wiped>>
  BY DEF FlushSalvage
<1>1. /\ b \in Batches /\ n \in Names \cup {0}
      /\ n # 0 => loc[n] = "active" /\ content[n] = b /\ past[n] = {} /\ n <= seq
  BY <1>u DEF WALInv, TypeOK, ShardOK, Owning
<1>2. PICK D \in SUBSET Rows(b), L \in SUBSET Rows(b) :
        /\ L \subseteq D /\ Salvage(b, n, D, L)
        /\ \/ n = 0 /\ lost' = lost \cup D /\ Return(s)
           \/ /\ n # 0 /\ Goto(s, IF D # {} THEN "release" ELSE "quarantine")
              /\ UNCHANGED <<held, wal, tries, lost>>
  BY DEF FlushSalvage
<1>3. DbType' /\ db \subseteq db' /\ rejected' \subseteq BadRows
  <2>1. DbType /\ rejected \subseteq BadRows
    BY DEF WALInv, TypeOK, DbType
  <2>2. L \in SUBSET D
    BY <1>2
  <2>. QED BY <1>1, <1>2, <2>1, <2>2, SalvageGrows
<1>4. /\ chUp' \in BOOLEAN /\ outages' \in 0..MaxOutages /\ crashes' \in 0..MaxCrashes
      /\ lost' \subseteq Batches \X RowIdx
  <2>1. Outage \/ UNCHANGED envVars
    BY <1>2 DEF Salvage
  <2>2. lost' \subseteq Batches \X RowIdx
    BY <1>1, <1>2, RowsType DEF WALInv, TypeOK
  <2>. QED BY <2>1, <2>2, EnvType DEF WALInv
<1>5. Running /\ Others(n) /\ GuardsHeld /\ (n # 0 => Keeps(n))
  <2>1. Running
    BY <1>u, <1>3 DEF WALInv, TypeOK, Running, spoolVars
  <2>2. Others(n) /\ GuardsHeld
    BY <1>u DEF Others, GuardsHeld, diskVars
  <2>3. n # 0 => Keeps(n)
    BY <1>1, <1>u DEF Keeps, diskVars
  <2>. QED BY <2>1, <2>2, <2>3
<1>6. /\ pc' \in [Shards -> Steps] /\ held' \in [Shards -> Batches \cup {NoBatch}]
      /\ wal' \in [Shards -> Names \cup {0}] /\ tries' \in [Shards -> 0..Attempts]
      /\ ShardOK(s)' /\ OnlyShard(s)
  <2>1. CASE Return(s)
    BY <2>1, ReturnOK DEF WALInv
  <2>2. CASE /\ n # 0 /\ Goto(s, IF D # {} THEN "release" ELSE "quarantine")
             /\ UNCHANGED <<held, wal, tries, lost>>
    <3>1. pc' \in [Shards -> Steps] /\ OnlyShard(s) /\ pc'[s] \in {"release", "quarantine"}
      BY <2>2 DEF WALInv, TypeOK, Goto, Steps, OnlyShard
    <3>2. ShardOK(s)'
      BY <1>u, <1>1, <2>2, <3>1 DEF ShardOK, diskVars, spoolVars, Writing, Activating,
         Owning
    <3>. QED BY <2>2, <3>1, <3>2 DEF WALInv, TypeOK
  <2>. QED BY <1>2, <2>1, <2>2
<1>7. TypeOK'
  BY <1>u, <1>3, <1>4, <1>6 DEF WALInv, TypeOK, DbType, diskVars, spoolVars, replayVars
<1>. QED BY <1>u, <1>5, <1>6, <1>7, ShardStepInv DEF replayVars

\* Removing, releasing or setting aside a file touches only that file.
LEMMA MoveFrame ==
  ASSUME TypeOK, NEW n \in Names, NEW to \in Locs,
         MoveFile(n, to) \/ UNCHANGED <<loc, past>>, UNCHANGED content
  PROVE  /\ Others(n)
         /\ loc' \in [Names -> Locs] /\ past' \in [Names -> SUBSET Locs]
         /\ loc'[n] \in {loc[n], to} /\ past'[n] \subseteq past[n] \cup {loc[n]}
<1>1. CASE UNCHANGED <<loc, past>>
  BY <1>1 DEF TypeOK, Others
<1>2. CASE loc' = [loc EXCEPT ![n] = to] /\ SyncDir
  BY <1>2 DEF TypeOK, Others, SyncDir
<1>3. CASE loc' = [loc EXCEPT ![n] = to] /\ NoSync(n)
  BY <1>3 DEF TypeOK, Others, NoSync
<1>. QED BY <1>1, <1>2, <1>3 DEF MoveFile

\* The counters stay natural numbers.
LEMMA Minus1Type ==
  ASSUME NEW x \in Nat PROVE Minus1(x) \in Nat
BY DEF Minus1

\* Done, Ready and Quarantine, and their failures, seen from outside.
LEMMA FileMoves ==
  ASSUME TypeOK, NEW n \in Names, NEW to \in {"none", "ready", "quarantine"},
         \/ to = "none" /\ Done(n)
         \/ to = "ready" /\ (Ready(n) \/ (DiskError /\ UNCHANGED content))
         \/ to = "quarantine" /\ (Quarantine(n) \/ (DiskError /\ UNCHANGED content))
  PROVE  /\ Others(n) /\ UNCHANGED <<content, seq>>
         /\ nfiles' \in Nat /\ nbytes' \in Nat
         /\ loc' \in [Names -> Locs] /\ past' \in [Names -> SUBSET Locs]
         /\ loc'[n] \in {loc[n], to} /\ past'[n] \subseteq past[n] \cup {loc[n]}
<1>1. MoveFile(n, to) \/ UNCHANGED <<loc, past>>
  BY DEF Done, Ready, Quarantine, DiskError
<1>2. UNCHANGED <<content, seq>> /\ nfiles' \in {nfiles, Minus1(nfiles)}
      /\ nbytes' \in {nbytes, Minus1(nbytes)}
  BY DEF Done, Ready, Quarantine, DiskError, spoolVars
<1>. QED BY <1>1, <1>2, MoveFrame, Minus1Type DEF TypeOK, Locs

LEMMA FlushFinishInv ==
  ASSUME WALInv, NEW s \in Shards, FlushFinish(s) PROVE WALInv'
<1>. USE WALAssumption
<1>. DEFINE n == wal[s]
<1>u. up /\ Return(s) /\ UNCHANGED <<up, pending, replayVars, envVars, dbVars, ghostVars>>
  BY DEF FlushFinish
<1>1. pc[s] \in {"done", "release", "quarantine"}
  BY DEF FlushFinish
<1>2. /\ n \in Names /\ held[s] \in Batches /\ loc[n] = "active" /\ content[n] = held[s]
      /\ past[n] = {} /\ (~Dedup /\ pc[s] = "done" => Rows(held[s]) \subseteq db)
  BY <1>1 DEF WALInv, TypeOK, ShardOK, Owning
<1>3. PICK to \in {"none", "ready", "quarantine"} :
        /\ to = "none" => pc[s] = "done"
        /\ \/ to = "none" /\ Done(n)
           \/ to = "ready" /\ (Ready(n) \/ (DiskError /\ UNCHANGED content))
           \/ to = "quarantine" /\ (Quarantine(n) \/ (DiskError /\ UNCHANGED content))
  BY DEF FlushFinish
<1>4. /\ Others(n) /\ UNCHANGED <<content, seq>>
      /\ nfiles' \in Nat /\ nbytes' \in Nat
      /\ loc' \in [Names -> Locs] /\ past' \in [Names -> SUBSET Locs]
      /\ loc'[n] \in {loc[n], to} /\ past'[n] \subseteq past[n] \cup {loc[n]}
  BY <1>2, <1>3, FileMoves DEF WALInv
<1>5. Running /\ GuardsHeld
  BY <1>u, <1>4 DEF WALInv, TypeOK, Running, GuardsHeld, dbVars, ghostVars
<1>6. Keeps(n)
  BY <1>u, <1>2, <1>3, <1>4 DEF Keeps, OnDisk, dbVars
<1>7. ShardOK(s)' /\ OnlyShard(s) /\ TypeOK'
  BY <1>u, <1>4, ReturnOK DEF WALInv, TypeOK, replayVars, envVars, dbVars, ghostVars
<1>. QED BY <1>u, <1>4, <1>5, <1>6, <1>7, ShardStepInv DEF replayVars

LEMMA SaveReadyInv ==
  ASSUME WALInv, NEW s \in Shards, SaveReady(s) PROVE WALInv'
<1>. USE WALAssumption
<1>. DEFINE n == wal[s]
<1>u. /\ up /\ pc[s] = "saveReady"
      /\ UNCHANGED <<up, content, pending, replayVars, envVars, dbVars, rejected, guarded,
                     bare, wiped, spoolVars>>
      /\ Return(s) /\ (lost' = lost \/ lost' = lost \cup Rows(held[s]))
  BY DEF SaveReady, GiveUp
<1>1. /\ n \in Names /\ held[s] \in Batches /\ loc[n] = "active" /\ content[n] = held[s]
      /\ past[n] = {}
  BY <1>u DEF WALInv, TypeOK, ShardOK, Owning
<1>2. MoveFile(n, "ready") \/ UNCHANGED <<loc, past>>
  BY DEF SaveReady, MoveFile
<1>3. /\ Others(n)
      /\ loc' \in [Names -> Locs] /\ past' \in [Names -> SUBSET Locs]
      /\ loc'[n] \in {loc[n], "ready"} /\ past'[n] \subseteq past[n] \cup {loc[n]}
  BY <1>u, <1>1, <1>2, MoveFrame DEF WALInv, Locs
<1>4. Running /\ GuardsHeld
  BY <1>u DEF WALInv, TypeOK, Running, GuardsHeld, dbVars, spoolVars
<1>5. Keeps(n)
  BY <1>u, <1>1, <1>3 DEF Keeps, OnDisk
<1>6. lost' \subseteq Batches \X RowIdx
  BY <1>u, <1>1, RowsType DEF WALInv, TypeOK
<1>7. ShardOK(s)' /\ OnlyShard(s) /\ TypeOK'
  BY <1>u, <1>3, <1>6, ReturnOK DEF WALInv, TypeOK, spoolVars, replayVars, envVars, dbVars
<1>. QED BY <1>u, <1>3, <1>4, <1>5, <1>7, ShardStepInv DEF replayVars

\* Every step of a shard preserves the invariant.
LEMMA ShardStepsInv ==
  ASSUME WALInv, NEW s \in Shards, ShardStep(s) PROVE WALInv'
BY FlushBeginInv, FlushWriteInv, FlushActivateInv, FlushSendInv, FlushSalvageInv,
   FlushFinishInv, FlushSaveInv, SaveWriteInv, SaveActivateInv, SaveReadyInv DEF ShardStep

-----------------------------------------------------------------------------
(* The steps of Manager.replay preserve WALInv.                            *)

\* The conjuncts that a step of the replay loop on its file n cannot disturb.
LEMMA ReplayStepInv ==
  ASSUME WALInv, TypeOK', ReplayOK', Running, GuardsHeld, UNCHANGED shardVars,
         NEW n \in Names \cup {0}, Others(n),
         n # 0 => n <= seq' /\ Keeps(n) /\ loc[n] = "ready"
  PROVE  WALInv'
<1>1. ASSUME NEW t \in Shards PROVE ShardOK(t)'
  <2>1. wal[t] # 0 => wal[t] \in Names \ {n}
    <3>1. wal[t] # 0 => pc[t] \in Writing \cup Activating \cup Owning
      BY DEF WALInv, TypeOK, ShardOK, Steps, Writing, Activating, Owning
    <3>2. wal[t] # 0 => loc[wal[t]] # "ready"
      BY <3>1 DEF WALInv, ShardOK
    <3>. QED BY <3>2 DEF WALInv, TypeOK
  <2>. QED BY <2>1, ShardFrame DEF Others, Running, shardVars
<1>2. Exclusive'
  BY DEF WALInv, Exclusive, shardVars
<1>3. Filled' /\ Fresh' /\ DownOK' /\ (~Dedup => GuardedSurvives)'
  <2>1. 0 \notin Names
    BY WALAssumption DEF Names
  <2>. QED BY <2>1, DiskFrame
<1>. QED BY <1>1, <1>2, <1>3 DEF WALInv

\* The file the replay loop holds is known to New's counting and holds a batch.
LEMMA ReplayFile ==
  ASSUME WALInv, up, rpc # "idle"
  PROVE  /\ rname \in Names /\ loc[rname] = "ready" /\ content[rname] \in Batches
         /\ rname <= seq
         /\ ~Dedup /\ rpc = "done" => Rows(content[rname]) \subseteq db
<1>1. rname \in Names /\ loc[rname] = "ready" /\ content[rname] \in Batches
  BY DEF WALInv, TypeOK, ReplayOK
<1>2. rname <= seq
  BY <1>1, WALAssumption DEF WALInv, TypeOK, Fresh, Names
<1>. QED BY <1>1, <1>2 DEF WALInv, ReplayOK

\* fails stays within replayMaxAttempts.
LEMMA CountFailureType ==
  ASSUME TypeOK, NEW n \in Names, CountFailure(n)
  PROVE  /\ fails' \in [Names -> 0..ReplayMax]
         /\ \/ rpc' = "quarantine" /\ rname' = n
            \/ rpc' = "idle" /\ rname' = 0
<1>. DEFINE f == IF fails[n] < ReplayMax THEN fails[n] + 1 ELSE ReplayMax
<1>1. f \in 0..ReplayMax
  BY WALAssumption DEF TypeOK
<1>2. fails' = [fails EXCEPT ![n] = f]
  BY DEF CountFailure
<1>. QED BY <1>1, <1>2 DEF TypeOK, CountFailure, RGoto

LEMMA ReplayTakeInv ==
  ASSUME WALInv, ReplayTake PROVE WALInv'
<1>. USE WALAssumption
<1>u. /\ up /\ rpc = "idle" /\ rname = 0
      /\ UNCHANGED <<up, pending, shardVars, fails, envVars, dbVars, ghostVars>>
  BY DEF ReplayTake, WALInv, ReplayOK
<1>1. PICK n \in ReadyNames :
        \/ RGoto("send", n) /\ UNCHANGED <<diskVars, spoolVars>>
        \/ /\ Quarantine(n) \/ (DiskError /\ UNCHANGED content)
           /\ UNCHANGED <<rpc, rname>>
  BY DEF ReplayTake
<1>2. n \in Names /\ loc[n] = "ready" /\ content[n] \in Batches /\ n <= seq
  BY <1>u DEF WALInv, TypeOK, ReadyNames, Filled, Fresh, OnDisk, Names
<1>3. CASE RGoto("send", n) /\ UNCHANGED <<diskVars, spoolVars>>
  <2>1. TypeOK'
    BY <1>u, <1>2, <1>3 DEF WALInv, TypeOK, RGoto, shardVars, diskVars, spoolVars,
       envVars, dbVars, ghostVars
  <2>2. ReplayOK'
    BY <1>u, <1>2, <1>3 DEF ReplayOK, RGoto, diskVars, Names
  <2>3. Running /\ GuardsHeld /\ Others(0)
    BY <1>u, <1>3 DEF WALInv, TypeOK, Running, GuardsHeld, Others, diskVars, spoolVars,
       dbVars, ghostVars
  <2>. QED BY <1>u, <2>1, <2>2, <2>3, ReplayStepInv
<1>4. CASE /\ Quarantine(n) \/ (DiskError /\ UNCHANGED content)
           /\ UNCHANGED <<rpc, rname>>
  <2>1. /\ Others(n) /\ UNCHANGED <<content, seq>>
        /\ nfiles' \in Nat /\ nbytes' \in Nat
        /\ loc' \in [Names -> Locs] /\ past' \in [Names -> SUBSET Locs]
        /\ loc'[n] \in {loc[n], "quarantine"} /\ past'[n] \subseteq past[n] \cup {loc[n]}
    BY <1>2, <1>4, FileMoves DEF WALInv
  <2>2. TypeOK'
    BY <1>u, <1>4, <2>1 DEF WALInv, TypeOK, shardVars, envVars, dbVars, ghostVars
  <2>3. ReplayOK'
    BY <1>u, <1>4 DEF ReplayOK
  <2>4. Running /\ GuardsHeld
    BY <1>u, <2>1 DEF WALInv, TypeOK, Running, GuardsHeld, dbVars, ghostVars
  <2>5. Keeps(n)
    BY <1>2, <2>1 DEF Keeps, OnDisk
  <2>. QED BY <1>u, <1>2, <2>1, <2>2, <2>3, <2>4, <2>5, ReplayStepInv
<1>. QED BY <1>1, <1>3, <1>4

\* A replay step that leaves the directory alone.
LEMMA ReplayCallInv ==
  ASSUME WALInv, up, UNCHANGED <<up, diskVars, spoolVars, pending, shardVars, lost,
                                 guarded, bare, wiped>>,
         DbType', db \subseteq db', rejected' \subseteq BadRows,
         Outage \/ UNCHANGED envVars, fails' \in [Names -> 0..ReplayMax],
         rpc # "idle",
         \/ rpc' = "idle" /\ rname' = 0
         \/ rpc' \in {"salvage", "done", "quarantine"} /\ rname' = rname,
         ~Dedup /\ rpc' = "done" => Rows(content[rname]) \subseteq db'
  PROVE  WALInv'
<1>. USE WALAssumption
<1>1. chUp' \in BOOLEAN /\ outages' \in 0..MaxOutages /\ crashes' \in 0..MaxCrashes
  BY EnvType DEF WALInv
<1>2. TypeOK'
  BY <1>1 DEF WALInv, TypeOK, DbType, diskVars, spoolVars, shardVars
<1>3. ReplayOK'
  BY ReplayFile DEF ReplayOK, diskVars, Names
<1>4. Running /\ GuardsHeld /\ Others(0)
  BY DEF WALInv, TypeOK, Running, GuardsHeld, Others, diskVars, spoolVars
<1>. QED BY <1>2, <1>3, <1>4, ReplayStepInv

LEMMA ReplaySendInv ==
  ASSUME WALInv, ReplaySend PROVE WALInv'
<1>. USE WALAssumption
<1>. DEFINE n == rname
            b == content[rname]
<1>u. /\ up /\ rpc = "send"
      /\ UNCHANGED <<up, diskVars, spoolVars, pending, shardVars, ghostVars>>
  BY DEF ReplaySend
<1>1. n \in Names /\ b \in Batches
  BY <1>u, ReplayFile
<1>2. /\ DbType' /\ db \subseteq db' /\ (Outage \/ UNCHANGED envVars)
  <2>1. SendAcked(b, n) \/ SendRefused(b) \/ SendFailed(b, n)
    BY DEF ReplaySend
  <2>2. DbType' /\ db \subseteq db'
    BY <1>1, <2>1, SendGrows DEF WALInv, TypeOK, DbType
  <2>. QED BY <2>1, <2>2 DEF SendAcked, SendRefused, SendFailed
<1>3. CASE SendAcked(b, n) /\ fails' = [fails EXCEPT ![n] = 0] /\ RGoto("done", n)
  <2>1. ~Dedup => Rows(b) \subseteq db'
    BY <1>1, <1>3, InsertGrows DEF SendAcked, WALInv, TypeOK, DbType
  <2>2. fails' \in [Names -> 0..ReplayMax]
    <3>1. 0 \in 0..ReplayMax /\ fails \in [Names -> 0..ReplayMax]
      BY DEF WALInv, TypeOK
    <3>. QED BY <1>3, <3>1
  <2>. QED BY <1>u, <1>2, <1>3, <2>1, <2>2, ReplayCallInv DEF RGoto, ghostVars, WALInv, TypeOK
<1>4. CASE RGoto("salvage", n) /\ UNCHANGED fails
  BY <1>u, <1>2, <1>4, ReplayCallInv DEF RGoto, ghostVars, WALInv, TypeOK
<1>5. CASE CountFailure(n)
  BY <1>u, <1>1, <1>2, <1>5, CountFailureType, ReplayCallInv DEF ghostVars, WALInv, TypeOK
<1>. QED BY <1>3, <1>4, <1>5 DEF ReplaySend

LEMMA ReplaySalvageInv ==
  ASSUME WALInv, ReplaySalvage PROVE WALInv'
<1>. USE WALAssumption
<1>. DEFINE n == rname
            b == content[rname]
<1>u. /\ up /\ rpc = "salvage"
      /\ UNCHANGED <<up, diskVars, spoolVars, pending, shardVars, lost, guarded, bare, wiped>>
  BY DEF ReplaySalvage
<1>1. n \in Names /\ b \in Batches
  BY <1>u, ReplayFile
<1>2. PICK D \in SUBSET Rows(b), L \in SUBSET Rows(b) :
        /\ L \subseteq D /\ Salvage(b, n, D, L)
        /\ \/ CountFailure(n)
           \/ fails' = [fails EXCEPT ![n] = 0] /\ RGoto("quarantine", n)
  BY DEF ReplaySalvage
<1>3. DbType' /\ db \subseteq db' /\ rejected' \subseteq BadRows
  <2>1. DbType /\ rejected \subseteq BadRows
    BY DEF WALInv, TypeOK, DbType
  <2>2. L \in SUBSET D
    BY <1>2
  <2>. QED BY <1>1, <1>2, <2>1, <2>2, SalvageGrows
<1>4. Outage \/ UNCHANGED envVars
  BY <1>2 DEF Salvage
<1>5. CASE CountFailure(n)
  BY <1>u, <1>1, <1>3, <1>4, <1>5, CountFailureType, ReplayCallInv DEF WALInv
<1>6. CASE fails' = [fails EXCEPT ![n] = 0] /\ RGoto("quarantine", n)
  <2>1. fails' \in [Names -> 0..ReplayMax]
    <3>1. 0 \in 0..ReplayMax /\ fails \in [Names -> 0..ReplayMax]
      BY DEF WALInv, TypeOK
    <3>. QED BY <1>6, <3>1
  <2>. QED BY <1>u, <1>3, <1>4, <1>6, <2>1, ReplayCallInv DEF RGoto
<1>. QED BY <1>2, <1>5, <1>6

\* The two steps in which the replay loop lets go of its file.
LEMMA ReplayEndInv ==
  ASSUME WALInv, ReplayDone \/ ReplayQuarantine PROVE WALInv'
<1>. USE WALAssumption
<1>. DEFINE n == rname
<1>u. /\ up /\ rpc \in {"done", "quarantine"} /\ RGoto("idle", 0)
      /\ UNCHANGED <<up, pending, shardVars, envVars, dbVars, ghostVars>>
      /\ fails' = fails \/ fails' = [fails EXCEPT ![n] = 0]
  BY DEF ReplayDone, ReplayQuarantine
<1>1. /\ n \in Names /\ loc[n] = "ready" /\ content[n] \in Batches /\ n <= seq
      /\ ~Dedup /\ rpc = "done" => Rows(content[n]) \subseteq db
  BY <1>u, ReplayFile
<1>2. PICK to \in {"none", "quarantine"} :
        /\ to = "none" => rpc = "done"
        /\ \/ to = "none" /\ Done(n)
           \/ to = "quarantine" /\ (Quarantine(n) \/ (DiskError /\ UNCHANGED content))
  BY DEF ReplayDone, ReplayQuarantine
<1>3. /\ Others(n) /\ UNCHANGED <<content, seq>>
      /\ nfiles' \in Nat /\ nbytes' \in Nat
      /\ loc' \in [Names -> Locs] /\ past' \in [Names -> SUBSET Locs]
      /\ loc'[n] \in {loc[n], to} /\ past'[n] \subseteq past[n] \cup {loc[n]}
  BY <1>1, <1>2, FileMoves DEF WALInv
<1>4. TypeOK'
  BY <1>u, <1>3 DEF WALInv, TypeOK, RGoto, shardVars, envVars, dbVars, ghostVars
<1>5. ReplayOK'
  BY <1>u DEF ReplayOK, RGoto
<1>6. Running /\ GuardsHeld
  BY <1>u, <1>3 DEF WALInv, TypeOK, Running, GuardsHeld, dbVars, ghostVars
<1>7. Keeps(n)
  BY <1>u, <1>1, <1>2, <1>3 DEF Keeps, OnDisk, dbVars
<1>. QED BY <1>u, <1>1, <1>3, <1>4, <1>5, <1>6, <1>7, ReplayStepInv

-----------------------------------------------------------------------------
(* Death, restart and the environment preserve WALInv.                     *)

LEMMA ChInv ==
  ASSUME WALInv, ChDown \/ ChUp PROVE WALInv'
<1>1. UNCHANGED <<up, diskVars, spoolVars, pending, shardVars, replayVars, dbVars, ghostVars>>
  BY DEF ChDown, ChUp
<1>2. chUp' \in BOOLEAN /\ outages' \in 0..MaxOutages /\ crashes' \in 0..MaxCrashes
  BY EnvType DEF ChDown, ChUp, WALInv, TypeOK
<1>3. TypeOK'
  BY <1>1, <1>2 DEF WALInv, TypeOK, diskVars, spoolVars, shardVars, replayVars, dbVars, ghostVars
<1>4. (\A s \in Shards : ShardOK(s)') /\ Exclusive' /\ ReplayOK'
  BY <1>1 DEF WALInv, ShardOK, Exclusive, ReplayOK, diskVars, spoolVars, shardVars,
     replayVars, dbVars
<1>5. Filled' /\ Fresh' /\ DownOK' /\ (~Dedup => GuardedSurvives)'
  BY <1>1 DEF WALInv, Filled, Fresh, DownOK, GuardedSurvives, Held, diskVars, spoolVars,
     shardVars, replayVars, dbVars, ghostVars
<1>. QED BY <1>3, <1>4, <1>5 DEF WALInv

LEMMA CrashInv ==
  ASSUME WALInv, Crash PROVE WALInv'
<1>. USE WALAssumption
<1>1. PICK l \in [{n \in Names : past[n] # {}} -> Locs] :
        /\ \A n \in DOMAIN l : l[n] \in {loc[n]} \cup past[n]
        /\ loc' = [n \in Names |-> IF past[n] = {} THEN loc[n] ELSE l[n]]
  BY DEF Crash
<1>2. /\ loc' \in [Names -> Locs]
      /\ \A n \in Names : loc'[n] \in {loc[n]} \cup past[n]
  BY <1>1 DEF WALInv, TypeOK
<1>3. past' \in [Names -> SUBSET Locs] /\ \A n \in Names : past'[n] = {}
  BY DEF Crash, SyncDir
<1>4. UNCHANGED <<content, pending, chUp, outages, dbVars, lost, rejected, guarded, bare>>
      /\ up' = FALSE
  BY DEF Crash
<1>5. wiped' \subseteq Batches
  BY DEF WALInv, TypeOK, Crash
<1>6. /\ pc' \in [Shards -> Steps] /\ held' \in [Shards -> Batches \cup {NoBatch}]
      /\ wal' \in [Shards -> Names \cup {0}] /\ tries' \in [Shards -> 0..Attempts]
      /\ \A s \in Shards : pc'[s] = "idle" /\ held'[s] = NoBatch /\ wal'[s] = 0 /\ tries'[s] = 0
      /\ rpc' = "idle" /\ rname' = 0
  BY DEF Crash, Steps, RGoto
<1>7. /\ fails' \in [Names -> 0..ReplayMax] /\ seq' \in 0..MaxSeq /\ nfiles' \in Nat
      /\ nbytes' \in Nat /\ crashes' \in 0..MaxCrashes
  BY DEF Crash, WALInv, TypeOK
<1>8. TypeOK'
  BY <1>2, <1>3, <1>4, <1>5, <1>6, <1>7 DEF WALInv, TypeOK, dbVars
<1>9. (\A s \in Shards : ShardOK(s)') /\ Exclusive' /\ ReplayOK' /\ DownOK'
  BY <1>6 DEF ShardOK, Exclusive, ReplayOK, DownOK, Writing, Activating, Owning
<1>10. Filled' /\ Fresh'
  BY <1>2, <1>3, <1>4 DEF WALInv, Filled, Fresh
<1>11. ASSUME ~Dedup PROVE GuardedSurvives'
  <2>. SUFFICES ASSUME NEW b \in guarded, ~(Rows(b) \subseteq db) PROVE Held(b)'
    BY <1>4 DEF GuardedSurvives, dbVars
  <2>1. PICK m \in Names : content[m] = b /\ {loc[m]} \cup past[m] \subseteq OnDisk
    BY <1>11 DEF WALInv, GuardedSurvives, Held
  <2>2. content'[m] = b /\ {loc'[m]} \cup past'[m] \subseteq OnDisk
    BY <1>2, <1>3, <1>4, <2>1
  <2>. QED BY <2>2 DEF Held
<1>. QED BY <1>8, <1>9, <1>10, <1>11 DEF WALInv

\* A set of names can be counted.
LEMMA CountNames ==
  ASSUME NEW S \in SUBSET Names PROVE Cardinality(S) \in Nat
<1>1. IsFiniteSet(1..MaxSeq)
  BY WALAssumption, FS_Interval
<1>2. IsFiniteSet(S)
  BY <1>1, FS_Subset DEF Names
<1>. QED BY <1>2, FS_CardinalityType

LEMMA NewInv ==
  ASSUME WALInv, New PROVE WALInv'
<1>. USE WALAssumption
<1>. DEFINE kept == {n \in Names : loc[n] \in OnDisk}
<1>1. /\ ~up /\ up' = TRUE /\ RecoverSeq(kept)
      /\ UNCHANGED <<content, pending, shardVars, replayVars, envVars, dbVars, ghostVars>>
  BY DEF New
<1>2. /\ loc' \in [Names -> Locs]
      /\ \A n \in Names : \/ loc[n] \in {"none", "tmp"} /\ loc'[n] = "none"
                          \/ loc[n] \in OnDisk /\ loc'[n] \in OnDisk
  BY DEF New, Adopt, WALInv, TypeOK, Locs, OnDisk
<1>3. past' \in [Names -> SUBSET Locs] /\ \A n \in Names : past'[n] = {}
  BY DEF New, SyncDir
<1>4. nfiles' \in Nat /\ nbytes' \in Nat
  BY CountNames DEF New
<1>5. seq' \in 0..MaxSeq
  BY <1>1 DEF RecoverSeq, Names
<1>6. TypeOK'
  BY <1>1, <1>2, <1>3, <1>4, <1>5 DEF WALInv, TypeOK, shardVars, replayVars, envVars,
     dbVars, ghostVars
<1>7. /\ rname = 0 /\ rpc = "idle"
      /\ \A s \in Shards : pc[s] = "idle" /\ held[s] = NoBatch /\ wal[s] = 0 /\ tries[s] < Attempts
  BY <1>1 DEF WALInv, DownOK, ReplayOK, ShardOK
<1>8. (\A s \in Shards : ShardOK(s)') /\ Exclusive' /\ ReplayOK' /\ DownOK'
  BY <1>1, <1>7 DEF ShardOK, Exclusive, ReplayOK, DownOK, Writing, Activating, Owning,
     shardVars, replayVars
<1>9. Filled'
  BY <1>1, <1>2, <1>3 DEF WALInv, Filled, OnDisk
<1>10. Fresh'
  <2>. SUFFICES ASSUME NEW n \in Names, n > seq' PROVE loc'[n] = "none"
    BY <1>3 DEF Fresh
  <2>1. n \notin kept
    BY <1>1, <1>5 DEF RecoverSeq, Names
  <2>. QED BY <1>2, <2>1
<1>11. ASSUME ~Dedup PROVE GuardedSurvives'
  <2>. SUFFICES ASSUME NEW b \in guarded, ~(Rows(b) \subseteq db) PROVE Held(b)'
    BY <1>1 DEF GuardedSurvives, dbVars, ghostVars
  <2>1. PICK m \in Names : content[m] = b /\ {loc[m]} \cup past[m] \subseteq OnDisk
    BY <1>11 DEF WALInv, GuardedSurvives, Held
  <2>2. content'[m] = b /\ {loc'[m]} \cup past'[m] \subseteq OnDisk
    BY <1>1, <1>2, <1>3, <2>1 DEF OnDisk
  <2>. QED BY <2>2 DEF Held
<1>. QED BY <1>6, <1>8, <1>9, <1>10, <1>11 DEF WALInv

LEMMA NewFailsInv ==
  ASSUME WALInv, NewFails PROVE WALInv'
<1>. USE WALAssumption
<1>1. /\ ~up /\ UNCHANGED <<up, content, spoolVars, pending, shardVars, replayVars, envVars,
                            dbVars, ghostVars>>
  BY DEF NewFails
<1>2. PICK A \in SUBSET {n \in Names : loc[n] = "active"} :
        /\ loc' = [n \in Names |-> IF n \in A THEN "ready" ELSE loc[n]]
        /\ past' = [n \in Names |-> past[n] \cup IF n \in A THEN {"active"} ELSE {}]
  BY DEF NewFails
<1>3. /\ loc' \in [Names -> Locs] /\ past' \in [Names -> SUBSET Locs]
      /\ \A n \in Names : \/ loc'[n] = loc[n] /\ past'[n] = past[n]
                          \/ /\ loc[n] = "active" /\ loc'[n] = "ready"
                             /\ past'[n] = past[n] \cup {"active"}
  BY <1>2 DEF WALInv, TypeOK, Locs
<1>4. TypeOK'
  BY <1>1, <1>3 DEF WALInv, TypeOK, spoolVars, shardVars, replayVars, envVars, dbVars,
     ghostVars
<1>5. /\ rname = 0 /\ rpc = "idle"
      /\ \A s \in Shards : pc[s] = "idle" /\ held[s] = NoBatch /\ wal[s] = 0 /\ tries[s] < Attempts
  BY <1>1 DEF WALInv, DownOK, ReplayOK, ShardOK
<1>6. (\A s \in Shards : ShardOK(s)') /\ Exclusive' /\ ReplayOK' /\ DownOK'
  BY <1>1, <1>5 DEF ShardOK, Exclusive, ReplayOK, DownOK, Writing, Activating, Owning,
     shardVars, replayVars
<1>7. Filled' /\ Fresh'
  BY <1>1, <1>3 DEF WALInv, Filled, Fresh, OnDisk
<1>8. ASSUME ~Dedup PROVE GuardedSurvives'
  <2>. SUFFICES ASSUME NEW b \in guarded, ~(Rows(b) \subseteq db) PROVE Held(b)'
    BY <1>1 DEF GuardedSurvives, dbVars, ghostVars
  <2>1. PICK m \in Names : content[m] = b /\ {loc[m]} \cup past[m] \subseteq OnDisk
    BY <1>8 DEF WALInv, GuardedSurvives, Held
  <2>2. content'[m] = b /\ {loc'[m]} \cup past'[m] \subseteq OnDisk
    BY <1>1, <1>3, <2>1 DEF OnDisk
  <2>. QED BY <2>2 DEF Held
<1>. QED BY <1>4, <1>6, <1>7, <1>8 DEF WALInv

-----------------------------------------------------------------------------
(* The theorems.                                                           *)

\* The initial state satisfies the inductive invariant.
LEMMA InitInv == Init => WALInv
<1>. SUFFICES ASSUME Init PROVE WALInv
  OBVIOUS
<1>. USE WALAssumption DEF Init
<1>1. TypeOK
  BY DEF TypeOK, Locs, Steps
<1>2. (\A s \in Shards : ShardOK(s)) /\ Exclusive /\ ReplayOK /\ DownOK
  BY DEF ShardOK, Exclusive, ReplayOK, DownOK, Writing, Activating, Owning
<1>3. Filled /\ Fresh /\ GuardedSurvives
  BY DEF Filled, Fresh, GuardedSurvives, OnDisk
<1>. QED BY <1>1, <1>2, <1>3 DEF WALInv

\* Every step preserves it.
LEMMA NextInv == WALInv /\ [Next]_vars => WALInv'
<1>. SUFFICES ASSUME WALInv, [Next]_vars PROVE WALInv'
  OBVIOUS
<1>1. ASSUME NEW s \in Shards, ShardStep(s) PROVE WALInv'
  BY <1>1, ShardStepsInv
<1>2. CASE ReplayStep
  BY <1>2, ReplayTakeInv, ReplaySendInv, ReplaySalvageInv, ReplayEndInv DEF ReplayStep
<1>3. CASE ChDown \/ ChUp
  BY <1>3, ChInv
<1>4. CASE Crash
  BY <1>4, CrashInv
<1>5. CASE New
  BY <1>5, NewInv
<1>6. CASE NewFails
  BY <1>6, NewFailsInv
<1>7. CASE UNCHANGED vars
  BY <1>7 DEF vars, WALInv, TypeOK, ShardOK, Exclusive, ReplayOK, Filled, Fresh, DownOK,
     GuardedSurvives, Held
<1>. QED BY <1>1, <1>2, <1>3, <1>4, <1>5, <1>6, <1>7 DEF Next

\* The ownership invariant holds in every reachable state.
THEOREM Invariant == Spec => []WALInv
BY InitInv, NextInv, PTL DEF Spec

\* Every variable of the writer, the spool and the database keeps its type,
\* for any batches, shards, bounds and faults (spool.go, clickhouse.go).
THEOREM TypeCorrect == Spec => []TypeOK
<1>1. WALInv => TypeOK
  BY DEF WALInv
<1>. QED BY <1>1, Invariant, PTL

\* On the tables of migrations/clickhouse.sql (no deduplication) a batch whose
\* Begin or Save returned nil is in flow_logs or on disk in every reachable
\* state and in every state a power loss can leave.
THEOREM GuardedBatchesSurvive == ~Dedup => (Spec => []GuardedSurvives)
<1>1. ASSUME ~Dedup PROVE WALInv => GuardedSurvives
  BY <1>1 DEF WALInv
<1>2. ASSUME ~Dedup PROVE Spec => []GuardedSurvives
  BY <1>1, <1>2, Invariant, PTL
<1>. QED BY <1>2
=============================================================================
