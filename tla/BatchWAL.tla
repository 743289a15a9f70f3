------------------------------ MODULE BatchWAL ------------------------------
(***************************************************************************)
(* The batch write-ahead log of the ClickHouse writer: the spool directory *)
(* (internal/writer/spool), the flush of a writer shard and the replay     *)
(* loop of the Manager (internal/writer/clickhouse), against a database    *)
(* that may be down or lose an acknowledgement, a disk whose calls may     *)
(* fail, and a process or host that may die between any two steps.         *)
(*                                                                         *)
(* A batch is a set of rows <<b, i>>.  A WAL file is a name (its sequence  *)
(* number) with a location: absent, .tmp, .active, ready (.spool) or       *)
(* quarantine/.  past[n] holds the locations to which a power loss may     *)
(* still return name n, because the directory has not been fsynced since.  *)
(***************************************************************************)
EXTENDS Integers, FiniteSets

CONSTANTS
  Batches,      \* the batches the shards flush, each once
  RowIdx,       \* the indices of the rows of a batch
  BadRows,      \* rows that conn.Append can never encode
  Shards,       \* writer goroutines
  NoBatch,      \* no batch held
  MaxSeq,       \* bound: file sequence numbers
  MaxBytes,     \* maxBytes, in units of one batch file; 0 is unlimited
  Attempts,     \* live.RetryMaxAttempts, at least 1
  ReplayMax,    \* replayMaxAttempts
  MaxOutages,   \* bound: how often ClickHouse goes away
  MaxCrashes,   \* bound: how often the process or the host dies
  DiskFaults,   \* TRUE: file system calls may fail
  Dedup         \* TRUE: Replicated*MergeTree, tokens suppress re-inserts

Names == 1..MaxSeq

ASSUME WALAssumption ==
  /\ RowIdx \subseteq Nat \ {0}
  /\ RowIdx # {}
  /\ BadRows \subseteq Batches \X RowIdx
  /\ NoBatch \notin Batches
  /\ IsFiniteSet(Shards)
  /\ MaxSeq \in Nat
  /\ MaxBytes \in Nat
  /\ Attempts \in Nat \ {0}
  /\ ReplayMax \in Nat \ {0}
  /\ MaxOutages \in Nat
  /\ MaxCrashes \in Nat
  /\ DiskFaults \in BOOLEAN
  /\ Dedup \in BOOLEAN

VARIABLES
  up,         \* the collector process runs
  loc,        \* name -> visible location
  content,    \* name -> the batch in the file
  past,       \* name -> locations a power loss may restore
  seq,        \* Spool.seq
  nfiles,     \* Spool.files
  nbytes,     \* Spool.bytes
  pending,    \* batches no shard has flushed yet
  pc,         \* shard -> step of flush
  held,       \* shard -> batch it is flushing
  wal,        \* shard -> walName (0 is "")
  tries,      \* shard -> failed attempts of this flush
  rpc,        \* step of the replay loop
  rname,      \* file the replay loop holds (0: none)
  fails,      \* replay's fails map
  chUp,       \* ClickHouse answers
  outages,    \* outages so far
  crashes,    \* crashes so far
  db,         \* rows in flow_logs
  dups,       \* rows in flow_logs more than once
  seen,       \* insert_deduplication_tokens ClickHouse remembers
  lost,       \* rows counted by spool_records_lost / flows_dropped
  rejected,   \* rows counted by flows_rejected
  guarded,    \* batches for which Begin or Save has returned nil
  bare,       \* batches sent without a token
  wiped       \* batches a crash caught in memory only

spoolVars == <<seq, nfiles, nbytes>>
diskVars  == <<loc, content, past>>
shardVars == <<pc, held, wal, tries>>
replayVars == <<rpc, rname, fails>>
dbVars    == <<db, dups, seen>>
envVars   == <<chUp, outages, crashes>>
ghostVars == <<lost, rejected, guarded, bare, wiped>>
vars == <<up, loc, content, past, seq, nfiles, nbytes, pending, pc, held, wal,
          tries, rpc, rname, fails, chUp, outages, crashes, db, dups, seen,
          lost, rejected, guarded, bare, wiped>>

Locs == {"none", "tmp", "active", "ready", "quarantine"}
OnDisk == {"active", "ready", "quarantine"}   \* survives New
Steps == {"idle", "write", "activate", "send", "salvage", "done", "release",
          "quarantine", "save", "saveWrite", "saveActivate", "saveReady"}

Rows(b) == {b} \X RowIdx
Good(b) == Rows(b) \ BadRows
Bad(b)  == Rows(b) \cap BadRows # {}

\* Mutant: salvage forgets the tokens of single rows.
DedupTokenBatchOnly(n, i) == IF n = 0 \/ i # 0 THEN {} ELSE {<<n, i>>}

\* A token names a whole batch (index 0) or one salvaged row; none for name 0.
DedupToken(n, i) == IF n = 0 THEN {} ELSE {<<n, i>>}

TypeOK ==
  /\ up \in BOOLEAN /\ chUp \in BOOLEAN
  /\ loc \in [Names -> Locs]
  /\ content \in [Names -> Batches \cup {NoBatch}]
  /\ past \in [Names -> SUBSET Locs]
  /\ seq \in 0..MaxSeq /\ nfiles \in Nat /\ nbytes \in Nat
  /\ pending \subseteq Batches
  /\ pc \in [Shards -> Steps]
  /\ held \in [Shards -> Batches \cup {NoBatch}]
  /\ wal \in [Shards -> Names \cup {0}]
  /\ tries \in [Shards -> 0..Attempts]
  /\ rpc \in {"idle", "send", "salvage", "done", "quarantine"}
  /\ rname \in Names \cup {0}
  /\ fails \in [Names -> 0..ReplayMax]
  /\ outages \in 0..MaxOutages /\ crashes \in 0..MaxCrashes
  /\ db \subseteq Batches \X RowIdx
  /\ dups \subseteq db
  /\ seen \subseteq Names \X (RowIdx \cup {0})
  /\ lost \subseteq Batches \X RowIdx
  /\ rejected \subseteq BadRows
  /\ guarded \subseteq Batches /\ bare \subseteq Batches /\ wiped \subseteq Batches

Init ==
  /\ up = TRUE
  /\ loc = [n \in Names |-> "none"]
  /\ content = [n \in Names |-> NoBatch]
  /\ past = [n \in Names |-> {}]
  /\ seq = 0 /\ nfiles = 0 /\ nbytes = 0
  /\ pending = Batches
  /\ pc = [s \in Shards |-> "idle"]
  /\ held = [s \in Shards |-> NoBatch]
  /\ wal = [s \in Shards |-> 0]
  /\ tries = [s \in Shards |-> 0]
  /\ rpc = "idle" /\ rname = 0
  /\ fails = [n \in Names |-> 0]
  /\ chUp \in BOOLEAN       \* WAL-first startup: ClickHouse may be down
  /\ outages = 0 /\ crashes = 0
  /\ db = {} /\ dups = {} /\ seen = {}
  /\ lost = {} /\ rejected = {} /\ guarded = {} /\ bare = {} /\ wiped = {}

-----------------------------------------------------------------------------
(* The spool: moves of one file and the counters kept beside it.           *)

\* syncDir persists every entry of the directory.
SyncDir == past' = [n \in Names |-> {}]

\* The move of n reached the directory but the fsync failed (or was not
\* reached): a power loss may still bring the old entry back.
NoSync(n) == past' = [past EXCEPT ![n] = @ \cup {loc[n]}]

MoveFile(n, to) ==
  /\ loc' = [loc EXCEPT ![n] = to]
  /\ SyncDir \/ (DiskFaults /\ NoSync(n))

\* max(x - 1, 0), as removeStats and quarantineStats clamp.
Minus1(x) == IF x > 0 THEN x - 1 ELSE 0

\* Mutant: the counters drop although the remove or rename failed.
DiskErrorCounted ==
  /\ DiskFaults /\ UNCHANGED <<loc, past, seq>>
  /\ nfiles' = Minus1(nfiles) /\ nbytes' = Minus1(nbytes)

DiskError == DiskFaults /\ UNCHANGED <<loc, past, spoolVars>>

\* Mutant: off by one at the cap.
FullLate == MaxBytes > 0 /\ nbytes > MaxBytes

Full == MaxBytes > 0 /\ nbytes >= MaxBytes

Done(n) ==
  /\ \/ /\ MoveFile(n, "none")
        /\ nfiles' = Minus1(nfiles) /\ nbytes' = Minus1(nbytes)
        /\ UNCHANGED seq
     \/ DiskError
  /\ UNCHANGED content

Ready(n) ==
  /\ MoveFile(n, "ready")
  /\ UNCHANGED <<content, spoolVars>>

Quarantine(n) ==
  /\ MoveFile(n, "quarantine")
  /\ nfiles' = Minus1(nfiles)       \* its bytes stay counted
  /\ UNCHANGED <<content, seq, nbytes>>

-----------------------------------------------------------------------------
(* ClickHouse as the writer uses it (external).                            *)

Suppressed(t) == Dedup /\ t # {} /\ t \subseteq seen

Commit(rows, t) ==
  /\ db' = db \cup rows
  /\ dups' = dups \cup (db \cap rows)
  /\ seen' = IF Dedup THEN seen \cup t ELSE seen

\* The server commits rows under token t, or recognises the token.
Insert(rows, t) == IF Suppressed(t) THEN UNCHANGED dbVars ELSE Commit(rows, t)

\* Row-by-row inserts of salvage, each under its own token.
InsertRows(rows, n) ==
  LET fresh == {r \in rows : ~Suppressed(DedupToken(n, r[2]))}
  IN  Commit(fresh, UNION {DedupToken(n, r[2]) : r \in fresh})

\* ClickHouse goes away while a call is in progress.
Outage ==
  /\ chUp /\ outages < MaxOutages
  /\ chUp' = FALSE /\ outages' = outages + 1
  /\ UNCHANGED crashes

\* shard.send returns nil.
SendAcked(b, n) ==
  /\ chUp /\ ~Bad(b)
  /\ Insert(Rows(b), DedupToken(n, 0))
  /\ UNCHANGED envVars

\* shard.send returns an appendError: nothing was sent.
SendRefused(b) ==
  /\ chUp /\ Bad(b)
  /\ UNCHANGED <<dbVars, envVars>>

\* shard.send returns another error: no connection, or the server committed
\* the batch and the acknowledgement was lost.
SendFailed(b, n) ==
  \/ ~chUp /\ UNCHANGED <<dbVars, envVars>>
  \/ ~Bad(b) /\ Outage /\ Insert(Rows(b), DedupToken(n, 0))
  \/ Outage /\ UNCHANGED dbVars

\* salvage(batch): rows in D fail in transit (those in L after the server
\* committed them), every other row is kept or rejected.
Salvage(b, n, D, L) ==
  /\ L \subseteq D \cap Good(b)
  /\ \/ ~chUp /\ D = Rows(b) /\ L = {} /\ UNCHANGED envVars
     \/ chUp /\ D = {} /\ UNCHANGED envVars
     \/ D # {} /\ Outage
  /\ InsertRows((Good(b) \ D) \cup L, n)
  /\ rejected' = rejected \cup ((Rows(b) \cap BadRows) \ D)

ChDown == Outage /\ UNCHANGED <<up, diskVars, spoolVars, pending, shardVars,
                                replayVars, dbVars, ghostVars>>

ChUp ==
  /\ ~chUp /\ chUp' = TRUE
  /\ UNCHANGED <<up, diskVars, spoolVars, pending, shardVars, replayVars,
                 outages, crashes, dbVars, ghostVars>>

-----------------------------------------------------------------------------
(* shard.flush                                                             *)

Goto(s, step) == pc' = [pc EXCEPT ![s] = step]

\* Mutant: the attempt counter survives the flush.
ReturnKeepsTries(s) ==
  /\ Goto(s, "idle")
  /\ held' = [held EXCEPT ![s] = NoBatch]
  /\ wal' = [wal EXCEPT ![s] = 0]
  /\ UNCHANGED tries

\* flush returns: the shard lets go of its batch.
Return(s) ==
  /\ Goto(s, "idle")
  /\ held' = [held EXCEPT ![s] = NoBatch]
  /\ wal' = [wal EXCEPT ![s] = 0]
  /\ tries' = [tries EXCEPT ![s] = 0]

\* Spool.Begin, under the lock: refuse when full, else take the next name.
Reserve(s, step) ==
  /\ ~Full /\ seq < MaxSeq
  /\ seq' = seq + 1
  /\ wal' = [wal EXCEPT ![s] = seq + 1]
  /\ Goto(s, step)
  /\ UNCHANGED <<nfiles, nbytes>>

\* Begin failed before the first attempt: try ClickHouse unprotected.
Unprotected(s) ==
  /\ wal' = [wal EXCEPT ![s] = 0]
  /\ Goto(s, "send")
  /\ UNCHANGED <<held, tries, lost>>

\* Mutant: the batch is dropped without being counted.
GiveUpUncounted(s) == Return(s) /\ UNCHANGED lost

\* Save failed after the last attempt: the batch is dropped and counted.
GiveUp(s) ==
  /\ lost' = lost \cup Rows(held[s])
  /\ Return(s)

FlushBegin(s) ==
  /\ up /\ pc[s] = "idle"
  /\ \E b \in pending :
       /\ pending' = pending \ {b}
       /\ held' = [held EXCEPT ![s] = b]
  /\ \/ Reserve(s, "write")
     \/ Full /\ Goto(s, "send") /\ UNCHANGED <<wal, spoolVars>>
  /\ UNCHANGED <<up, diskVars, tries, replayVars, envVars, dbVars, ghostVars>>

\* Create, encode and fsync the .tmp file.
WriteTmp(s, from, to, failed) ==
  /\ up /\ pc[s] = from
  /\ \/ /\ loc' = [loc EXCEPT ![wal[s]] = "tmp"]
        /\ content' = [content EXCEPT ![wal[s]] = held[s]]
        /\ Goto(s, to)
        /\ UNCHANGED <<held, wal, tries, lost>>
     \/ /\ DiskFaults
        /\ failed
        /\ UNCHANGED <<loc, content>>
  /\ UNCHANGED <<up, past, spoolVars, pending, replayVars, envVars, dbVars,
                 rejected, guarded, bare, wiped>>

\* Rename .tmp to .active, fsync the directory, count the file.
Activate(s, from, to, failed) ==
  LET n == wal[s] IN
  /\ up /\ pc[s] = from
  /\ \/ /\ loc' = [loc EXCEPT ![n] = "active"]
        /\ SyncDir
        /\ nfiles' = nfiles + 1 /\ nbytes' = nbytes + 1
        /\ guarded' = guarded \cup {held[s]}
        /\ Goto(s, to)
        /\ UNCHANGED <<held, wal, tries, lost>>
     \/ /\ DiskFaults
        /\ \/ loc' = [loc EXCEPT ![n] = "none"] /\ UNCHANGED past
           \/ /\ loc' = [loc EXCEPT ![n] = "none"]    \* renamed, removed again
              /\ past' = [past EXCEPT ![n] = @ \cup {"active"}]
           \/ /\ loc' = [loc EXCEPT ![n] = "active"]  \* os.Remove failed too
              /\ past' = [past EXCEPT ![n] = @ \cup {"none"}]
        /\ failed
        /\ UNCHANGED <<nfiles, nbytes, guarded>>
  /\ UNCHANGED <<up, content, seq, pending, replayVars, envVars, dbVars,
                 rejected, bare, wiped>>

FlushWrite(s) == WriteTmp(s, "write", "activate", Unprotected(s))
FlushActivate(s) == Activate(s, "activate", "send", Unprotected(s))

FlushSend(s) ==
  LET b == held[s] n == wal[s] IN
  /\ up /\ pc[s] = "send"
  /\ \/ /\ SendAcked(b, n)
        /\ IF n = 0 THEN Return(s)
                    ELSE Goto(s, "done") /\ UNCHANGED <<held, wal, tries>>
     \/ SendRefused(b) /\ Goto(s, "salvage") /\ UNCHANGED <<held, wal, tries>>
     \/ /\ SendFailed(b, n)
        /\ tries' = [tries EXCEPT ![s] = @ + 1]
        /\ Goto(s, IF tries[s] + 1 < Attempts THEN "send"
                   ELSE IF n = 0 THEN "save" ELSE "release")
        /\ UNCHANGED <<held, wal>>
  /\ bare' = IF n = 0 THEN bare \cup {b} ELSE bare
  /\ UNCHANGED <<up, diskVars, spoolVars, pending, replayVars, lost, rejected,
                 guarded, wiped>>

\* salvage and the switch of finishSalvageWAL; without a WAL file the rows
\* that failed in transit are dropped and counted.
FlushSalvage(s) ==
  LET b == held[s] n == wal[s] IN
  /\ up /\ pc[s] = "salvage"
  /\ \E D \in SUBSET Rows(b) : \E L \in SUBSET D :
       /\ Salvage(b, n, D, L)
       /\ IF n = 0
          THEN lost' = lost \cup D /\ Return(s)
          ELSE /\ Goto(s, IF D # {} THEN "release" ELSE "quarantine")
               /\ UNCHANGED <<held, wal, tries, lost>>
  /\ UNCHANGED <<up, diskVars, spoolVars, pending, replayVars, guarded, bare,
                 wiped>>

\* The tail of flush: drop, release or set aside the WAL file, then return
\* whatever the file system answered.
FlushFinish(s) ==
  LET n == wal[s] IN
  /\ up
  /\ \/ pc[s] = "done" /\ Done(n)
     \/ pc[s] = "release" /\ (Ready(n) \/ (DiskError /\ UNCHANGED content))
     \/ pc[s] = "quarantine" /\ (Quarantine(n) \/ (DiskError /\ UNCHANGED content))
  /\ Return(s)
  /\ UNCHANGED <<up, pending, replayVars, envVars, dbVars, ghostVars>>

\* Spool.Save, the fallback when Begin had failed: Begin, then Ready.
FlushSave(s) ==
  /\ up /\ pc[s] = "save"
  /\ \/ Reserve(s, "saveWrite") /\ UNCHANGED <<held, tries, lost>>
     \/ Full /\ GiveUp(s) /\ UNCHANGED spoolVars
  /\ UNCHANGED <<up, diskVars, pending, replayVars, envVars, dbVars, rejected,
                 guarded, bare, wiped>>

SaveWrite(s) == WriteTmp(s, "saveWrite", "saveActivate", GiveUp(s))
SaveActivate(s) == Activate(s, "saveActivate", "saveReady", GiveUp(s))

SaveReady(s) ==
  LET n == wal[s] IN
  /\ up /\ pc[s] = "saveReady"
  /\ \/ /\ loc' = [loc EXCEPT ![n] = "ready"] /\ SyncDir
        /\ Return(s) /\ UNCHANGED <<spoolVars, lost>>
     \/ /\ DiskFaults
        /\ \/ loc' = [loc EXCEPT ![n] = "ready"] /\ NoSync(n)
           \/ UNCHANGED <<loc, past>>
        /\ GiveUp(s) /\ UNCHANGED spoolVars
  /\ UNCHANGED <<up, content, pending, replayVars, envVars, dbVars, rejected,
                 guarded, bare, wiped>>

-----------------------------------------------------------------------------
(* Manager.replay                                                          *)

\* Mutant: Oldest also sees the files a flush still owns.
ReadyOrActiveNames == {n \in Names : loc[n] \in {"ready", "active"}}

ReadyNames == {n \in Names : loc[n] = "ready"}

RGoto(step, n) == rpc' = step /\ rname' = n

\* Stats, then Oldest.  An unreadable file is quarantined on the spot.
ReplayTake ==
  /\ up /\ rpc = "idle" /\ nfiles > 0
  /\ \E n \in ReadyNames :
       /\ \A m \in ReadyNames : n <= m
       /\ \/ RGoto("send", n) /\ UNCHANGED <<diskVars, spoolVars>>
          \/ /\ DiskFaults
             /\ Quarantine(n) \/ (DiskError /\ UNCHANGED content)
             /\ UNCHANGED <<rpc, rname>>
  /\ UNCHANGED <<up, pending, shardVars, fails, envVars, dbVars, ghostVars>>

\* fails[name]++, and quarantine the file at replayMaxAttempts.
CountFailure(n) ==
  LET f == IF fails[n] < ReplayMax THEN fails[n] + 1 ELSE ReplayMax IN
  /\ fails' = [fails EXCEPT ![n] = f]
  /\ IF f >= ReplayMax THEN RGoto("quarantine", n) ELSE RGoto("idle", 0)

ReplaySend ==
  LET n == rname b == content[rname] IN
  /\ up /\ rpc = "send"
  /\ \/ /\ SendAcked(b, n)
        /\ fails' = [fails EXCEPT ![n] = 0]
        /\ RGoto("done", n)
     \/ SendRefused(b) /\ RGoto("salvage", n) /\ UNCHANGED fails
     \/ SendFailed(b, n) /\ CountFailure(n)
  /\ UNCHANGED <<up, diskVars, spoolVars, pending, shardVars, ghostVars>>

ReplaySalvage ==
  LET n == rname b == content[rname] IN
  /\ up /\ rpc = "salvage"
  /\ \E D \in SUBSET Rows(b) : \E L \in SUBSET D :
       /\ Salvage(b, n, D, L)
       /\ IF D # {} THEN CountFailure(n)
          ELSE fails' = [fails EXCEPT ![n] = 0] /\ RGoto("quarantine", n)
  /\ UNCHANGED <<up, diskVars, spoolVars, pending, shardVars, lost, guarded,
                 bare, wiped>>

ReplayDone ==
  /\ up /\ rpc = "done" /\ Done(rname) /\ RGoto("idle", 0)
  /\ UNCHANGED <<up, pending, shardVars, fails, envVars, dbVars, ghostVars>>

ReplayQuarantine ==
  /\ up /\ rpc = "quarantine"
  /\ \/ Quarantine(rname) /\ fails' = [fails EXCEPT ![rname] = 0]
     \/ DiskError /\ UNCHANGED <<content, fails>>
  /\ RGoto("idle", 0)
  /\ UNCHANGED <<up, pending, shardVars, envVars, dbVars, ghostVars>>

-----------------------------------------------------------------------------
(* Death of the process or the host, and spool.New at the next start.      *)

Crash ==
  /\ up /\ crashes < MaxCrashes
  /\ up' = FALSE /\ crashes' = crashes + 1
  /\ \E l \in [{n \in Names : past[n] # {}} -> Locs] :
       /\ \A n \in DOMAIN l : l[n] \in {loc[n]} \cup past[n]
       /\ loc' = [n \in Names |-> IF past[n] = {} THEN loc[n] ELSE l[n]]
  /\ SyncDir
  /\ wiped' = wiped \cup {held[s] : s \in {t \in Shards :
       /\ held[t] # NoBatch
       /\ \A n \in Names : ~(content[n] = held[t] /\ loc'[n] \in OnDisk)}}
  /\ seq' = 0 /\ nfiles' = 0 /\ nbytes' = 0
  /\ pc' = [s \in Shards |-> "idle"]
  /\ held' = [s \in Shards |-> NoBatch]
  /\ wal' = [s \in Shards |-> 0]
  /\ tries' = [s \in Shards |-> 0]
  /\ RGoto("idle", 0) /\ fails' = [n \in Names |-> 0]
  /\ UNCHANGED <<content, pending, chUp, outages, dbVars, lost, rejected,
                 guarded, bare>>

\* Mutant: the sequence restarts at the number of files found.
RecoverSeqByCount(found) == seq' = Cardinality(found)

\* seq becomes the largest sequence number found, quarantine included.
RecoverSeq(found) ==
  /\ seq' \in {0} \cup found
  /\ \A n \in found : n <= seq'

\* Mutants: New discards, or overlooks, the batches a crash caught in flight.
AdoptDiscards(l) == IF l \in {"tmp", "active"} THEN "none" ELSE l
AdoptOverlooks(l) == IF l = "tmp" THEN "none" ELSE l

\* What New makes of a file: a .tmp is partial, an .active is an orphan.
Adopt(l) == CASE l = "tmp" -> "none" [] l = "active" -> "ready" [] OTHER -> l

New ==
  LET kept == {n \in Names : loc[n] \in OnDisk} IN
  /\ ~up /\ up' = TRUE
  /\ loc' = [n \in Names |-> Adopt(loc[n])]
  /\ SyncDir
  /\ RecoverSeq(kept)
  /\ nfiles' = Cardinality({n \in kept : loc[n] # "quarantine"})
  /\ nbytes' = Cardinality(kept)
  /\ UNCHANGED <<content, pending, shardVars, replayVars, envVars, dbVars,
                 ghostVars>>

\* New failed after adopting some files: the service stays down and retries.
NewFails ==
  /\ ~up /\ DiskFaults
  /\ \E A \in SUBSET {n \in Names : loc[n] = "active"} :
       /\ A # {}
       /\ loc' = [n \in Names |-> IF n \in A THEN "ready" ELSE loc[n]]
       /\ past' = [n \in Names |-> past[n] \cup IF n \in A THEN {"active"} ELSE {}]
  /\ UNCHANGED <<up, content, spoolVars, pending, shardVars, replayVars,
                 envVars, dbVars, ghostVars>>

ShardStep(s) ==
  \/ FlushBegin(s) \/ FlushWrite(s) \/ FlushActivate(s) \/ FlushSend(s)
  \/ FlushSalvage(s) \/ FlushFinish(s) \/ FlushSave(s) \/ SaveWrite(s)
  \/ SaveActivate(s) \/ SaveReady(s)

ReplayStep ==
  ReplayTake \/ ReplaySend \/ ReplaySalvage \/ ReplayDone \/ ReplayQuarantine

Next ==
  \/ \E s \in Shards : ShardStep(s)
  \/ ReplayStep
  \/ ChDown \/ ChUp
  \/ Crash \/ New \/ NewFails

Spec == Init /\ [][Next]_vars

\* The goroutines run whenever they can, a dead collector is restarted by
\* systemd, and an outage ends.  Nothing makes an outage or a crash happen.
FairSpec ==
  /\ Spec
  /\ \A s \in Shards : WF_vars(ShardStep(s))
  /\ WF_vars(ReplayStep)
  /\ WF_vars(ChUp)
  /\ WF_vars(New)

-----------------------------------------------------------------------------
(* What the write-ahead log promises.                                      *)

\* The file of batch b survives whatever the disk still has to forget.
Held(b) == \E n \in Names :
             content[n] = b /\ {loc[n]} \cup past[n] \subseteq OnDisk

\* A batch for which Begin (or Save) returned nil is never lost again: all of
\* its rows are in flow_logs or its file is on disk, in every state a power
\* loss can leave (spool.go:165-168, docs/WAL.md "State machine").
GuardedSurvives == \A b \in guarded : Rows(b) \subseteq db \/ Held(b)

\* No batch vanishes without trace: once no shard works on it, each row is in
\* flow_logs, on disk, counted as lost or rejected, or a crash caught it
\* before the WAL held it (the boundary docs/WAL.md states).
EveryRowAccounted ==
  \A b \in Batches \ (pending \cup wiped) :
    (\A s \in Shards : held[s] # b) =>
      \A r \in Rows(b) :
        \/ r \in db \cup lost \cup rejected
        \/ \E n \in Names : content[n] = b /\ loc[n] \in OnDisk

\* The replay loop never works on a batch that a shard is still flushing:
\* active files are invisible to it (docs/WAL.md "deliberately invisible").
ReplayNeverRacesOwner ==
  rname # 0 => \A s \in Shards : held[s] # content[rname]

\* The files counter never hides a released file from the replay loop, which
\* stops at files == 0 (clickhouse.go:280-286).
ReadyNeverHidden == up /\ ReadyNames # {} => nfiles > 0

\* Every row can be accounted for, and every released file is replayed.
NothingForgotten == EveryRowAccounted /\ ReadyNeverHidden

\* With a deduplicating table, rows that only ever travelled under a token are
\* stored once, through retries, lost acknowledgements, salvage and restarts.
TokenedOnce == Dedup => \A r \in dups : r[1] \in bare

\* Without disk faults the directory, quarantine included, outgrows its cap by
\* at most the flushes that had already passed the check (spool.go:176-183).
DiskBounded ==
  MaxBytes > 0 /\ ~DiskFaults =>
    Cardinality({n \in Names : loc[n] \in OnDisk})
      <= MaxBytes + Cardinality(Shards) - 1

\* No step replaces a batch that is on disk by another one: sequence numbers
\* recovered by New count quarantine too (spool.go:104-106).
NeverOverwrites ==
  [][\A n \in Names : loc[n] \in OnDisk /\ loc'[n] # "none"
        => content'[n] = content[n] /\ loc'[n] \in OnDisk]_vars

\* Every batch taken by a shard comes to rest, whatever outages and crashes
\* intervene: stored, counted, set aside in quarantine, or caught in memory by
\* a crash.  No batch is retried for ever or left behind by the replay loop.  (A
\* deduplicating table may swallow one whose token it knows; it rests all the same.)
Swallowed(b) ==
  /\ Dedup /\ \A s \in Shards : held[s] # b
  /\ \A n \in Names : content[n] = b => loc[n] \notin OnDisk
Settled(b) ==
  \/ Rows(b) \subseteq db \cup lost \cup rejected
  \/ b \in wiped \/ Swallowed(b)
  \/ \E n \in Names : content[n] = b /\ loc[n] = "quarantine"
AllSettle == \A b \in Batches : b \notin pending ~> Settled(b)
=============================================================================
