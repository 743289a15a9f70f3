----------------------------- MODULE SpoolProofs ----------------------------
(***************************************************************************)
(* More about BatchWAL, for any batches, shards, bounds and faults: files  *)
(* are not overwritten, replay and flush never work on the same batch, no  *)
(* row is forgotten and no released file hidden, tokens make inserts       *)
(* happen once, the directory stays within its cap, and the writer         *)
(* implements Delivery.                                                    *)
(*                                                                         *)
(* Each rests on WALInv (BatchWALProofs) and on what it does not say: who  *)
(* answers for a batch (OneOwner), what a power loss can bring back        *)
(* (Tidy), and a part of its own.                                          *)
(***************************************************************************)
EXTENDS WALDelivery, BatchWALProofs

\* A power loss never turns a file into a .tmp, and never takes one that was
\* released or set aside.
Tidy == \A n \in Names :
  /\ past[n] \subseteq OnDisk \cup {"none"}
  /\ loc[n] \in {"ready", "quarantine"} \/ ~up => past[n] \subseteq OnDisk

\* A batch is in the queues, with one shard, or with the replay loop.
OneOwner ==
  /\ \A s \in Shards : held[s] \notin pending
  /\ \A s, t \in Shards : s # t /\ held[s] # NoBatch => held[s] # held[t]
  /\ \A n \in Names : content[n] \notin pending
  /\ \A n \in Names : loc[n] = "ready" => \A s \in Shards : held[s] # content[n]

\* A shard at a step that owns a file, and its file.
LEMMA OwnFile ==
  ASSUME WALInv, NEW s \in Shards, wal[s] # 0
  PROVE  /\ wal[s] \in Names /\ held[s] \in Batches /\ wal[s] <= seq
         /\ pc[s] \in Writing => loc[wal[s]] = "none" /\ past[wal[s]] = {}
         /\ pc[s] \in Activating
              => loc[wal[s]] = "tmp" /\ content[wal[s]] = held[s] /\ past[wal[s]] = {}
         /\ pc[s] \in Owning
              => loc[wal[s]] = "active" /\ content[wal[s]] = held[s] /\ past[wal[s]] = {}
BY DEF WALInv, TypeOK, ShardOK

LEMMA OwnerInit == Init => Tidy /\ OneOwner
BY WALAssumption DEF Init, Tidy, OneOwner

\* A step that leaves the directory and the batches of the shards alone.
LEMMA OwnerFrame ==
  ASSUME Tidy, OneOwner, UNCHANGED <<up, diskVars, held, pending>>
  PROVE  Tidy' /\ OneOwner'
BY DEF Tidy, OneOwner, diskVars

\* A shard that lets go of its batch while the directory stays.
LEMMA OwnerReturn ==
  ASSUME WALInv, Tidy, OneOwner, NEW s \in Shards, Return(s), UNCHANGED <<up, diskVars, pending>>
  PROVE  Tidy' /\ OneOwner'
<1>1. \A t \in Shards : held'[t] \in {held[t], NoBatch}
  BY DEF Return, WALInv, TypeOK
<1>2. pending \subseteq Batches /\ NoBatch \notin Batches
  BY WALAssumption DEF WALInv, TypeOK
<1>3. \A n \in Names : loc[n] = "ready" => content[n] \in Batches
  BY DEF WALInv, Filled, OnDisk
<1>. QED BY <1>1, <1>2, <1>3 DEF Tidy, OneOwner, diskVars

LEMMA FlushBeginOwner ==
  ASSUME WALInv, Tidy, OneOwner, NEW s \in Shards, FlushBegin(s) PROVE Tidy' /\ OneOwner'
<1>1. PICK b \in pending : pending' = pending \ {b} /\ held' = [held EXCEPT ![s] = b]
  BY DEF FlushBegin
<1>2. UNCHANGED <<up, diskVars>>
  BY DEF FlushBegin
<1>3. \A t \in Shards : held'[t] = IF t = s THEN b ELSE held[t]
  BY <1>1 DEF WALInv, TypeOK
<1>. QED BY <1>1, <1>2, <1>3 DEF Tidy, OneOwner, diskVars

\* The .tmp file of a shard is not seen by anyone else.
LEMMA WriteTmpOwner ==
  ASSUME WALInv, Tidy, OneOwner, NEW s \in Shards, FlushWrite(s) \/ SaveWrite(s)
  PROVE  Tidy' /\ OneOwner'
<1>1. CASE UNCHANGED <<loc, content>> /\ (Unprotected(s) \/ GiveUp(s))
  BY <1>1, OwnerFrame, OwnerReturn DEF FlushWrite, SaveWrite, WriteTmp, Unprotected, GiveUp, diskVars
<1>2. CASE /\ loc' = [loc EXCEPT ![wal[s]] = "tmp"]
           /\ content' = [content EXCEPT ![wal[s]] = held[s]]
           /\ UNCHANGED <<up, past, held, pending>>
  BY <1>2, OwnFile DEF FlushWrite, SaveWrite, WriteTmp, Tidy, OneOwner, WALInv, TypeOK
<1>. QED BY <1>1, <1>2 DEF FlushWrite, SaveWrite, WriteTmp

LEMMA ActivateOwner ==
  ASSUME WALInv, Tidy, OneOwner, NEW s \in Shards, FlushActivate(s) \/ SaveActivate(s)
  PROVE  Tidy' /\ OneOwner'
<1>. DEFINE n == wal[s]
<1>1. /\ n \in Names /\ past[n] = {} /\ content[n] = held[s] /\ held[s] \in Batches
  BY WALAssumption DEF FlushActivate, SaveActivate, Activate, WALInv, TypeOK, ShardOK, Activating
<1>2. /\ up /\ up' /\ UNCHANGED <<content, pending>>
      /\ loc' = [loc EXCEPT ![n] = "active"] \/ loc' = [loc EXCEPT ![n] = "none"]
      /\ \A m \in Names : past'[m] \subseteq past[m] \cup (IF m = n THEN {"active", "none"} ELSE {})
  BY <1>1 DEF FlushActivate, SaveActivate, Activate, SyncDir, WALInv, TypeOK
<1>3. held' = held \/ Return(s)
  BY DEF FlushActivate, SaveActivate, Activate, Unprotected, GiveUp
<1>4. \A t \in Shards : held'[t] \in {held[t], NoBatch}
  BY <1>3 DEF Return, WALInv, TypeOK
<1>5. Tidy'
  BY <1>1, <1>2 DEF Tidy, WALInv, TypeOK, OnDisk
<1>6. OneOwner'
  <2>1. pending \subseteq Batches /\ NoBatch \notin Batches
    BY WALAssumption DEF WALInv, TypeOK
  <2>2. \A m \in Names : loc'[m] = "ready" => loc[m] = "ready" /\ content[m] \in Batches
    BY <1>2 DEF WALInv, TypeOK, Filled, OnDisk
  <2>. QED BY <1>2, <1>4, <2>1, <2>2 DEF OneOwner
<1>. QED BY <1>5, <1>6

\* A file that is removed, released or set aside, by the shard or the replay loop
\* that has it; a shard lets go of its batch in the same step.
LEMMA MoveOwner ==
  ASSUME WALInv, Tidy, OneOwner, NEW n \in Names, NEW to \in {"none", "ready", "quarantine"},
         loc[n] \in OnDisk, past[n] \subseteq OnDisk, Others(n), UNCHANGED <<content, pending>>,
         loc'[n] \in {loc[n], to}, past'[n] \subseteq past[n] \cup {loc[n]}, up, up',
         \A t \in Shards : held'[t] \in {held[t], NoBatch},
         loc'[n] = "ready" => \A t \in Shards : held'[t] # content[n]
  PROVE  Tidy' /\ OneOwner'
<1>1. Tidy'
  BY DEF Tidy, Others, OnDisk
<1>2. OneOwner'
  <2>1. pending \subseteq Batches /\ NoBatch \notin Batches
    BY WALAssumption DEF WALInv, TypeOK
  <2>2. \A m \in Names : loc[m] = "ready" => content[m] \in Batches
    BY DEF WALInv, Filled, OnDisk
  <2>3. \A m \in Names : loc'[m] = "ready" => \A t \in Shards : held'[t] # content[m]
    BY <2>1, <2>2 DEF OneOwner, Others
  <2>. QED BY <2>1, <2>3 DEF OneOwner
<1>. QED BY <1>1, <1>2

\* Once its shard has let go, nobody holds the batch.
LEMMA ReturnFrees ==
  ASSUME WALInv, OneOwner, NEW s \in Shards, Return(s)
  PROVE  /\ \A t \in Shards : held'[t] = IF t = s THEN NoBatch ELSE held[t]
         /\ held[s] # NoBatch => \A t \in Shards : held'[t] # held[s]
BY DEF WALInv, TypeOK, OneOwner, Return

\* The effect of the last step of flush on the shard's file.
LEMMA FinishEffect ==
  ASSUME WALInv, NEW s \in Shards, FlushFinish(s) \/ SaveReady(s)
  PROVE  /\ up /\ up' /\ Return(s) /\ UNCHANGED <<content, pending, dbVars, seq, rejected, wiped, bare, guarded>>
         /\ wal[s] \in Names /\ held[s] \in Batches /\ loc[wal[s]] = "active"
         /\ content[wal[s]] = held[s] /\ past[wal[s]] = {} /\ Others(wal[s])
         /\ past'[wal[s]] \subseteq {"active"}
         /\ loc'[wal[s]] \in {"active", "ready", "quarantine"} \/ (loc'[wal[s]] = "none" /\ pc[s] = "done")
         /\ lost \subseteq lost'
<1>. USE WALAssumption
<1>. DEFINE n == wal[s]
<1>1. pc[s] \in {"done", "release", "quarantine", "saveReady"}
  BY DEF FlushFinish, SaveReady
<1>2. /\ n \in Names /\ held[s] \in Batches /\ loc[n] = "active" /\ content[n] = held[s]
      /\ past[n] = {}
  BY <1>1 DEF WALInv, TypeOK, ShardOK, Owning
<1>3. CASE FlushFinish(s)
  <2>1. PICK to \in {"none", "ready", "quarantine"} :
          /\ to = "none" => pc[s] = "done"
          /\ \/ to = "none" /\ Done(n)
             \/ to = "ready" /\ (Ready(n) \/ (DiskError /\ UNCHANGED content))
             \/ to = "quarantine" /\ (Quarantine(n) \/ (DiskError /\ UNCHANGED content))
    BY <1>3 DEF FlushFinish
  <2>2. /\ Others(n) /\ UNCHANGED <<content, seq>>
        /\ loc'[n] \in {loc[n], to} /\ past'[n] \subseteq past[n] \cup {loc[n]}
    BY <1>2, <2>1, FileMoves DEF WALInv
  <2>3. up /\ up' /\ Return(s) /\ UNCHANGED <<pending, dbVars, ghostVars>>
    BY <1>3 DEF FlushFinish
  <2>. QED BY <1>2, <2>1, <2>2, <2>3 DEF ghostVars
<1>4. CASE SaveReady(s)
  <2>1. /\ up /\ up' /\ UNCHANGED <<content, pending, dbVars, rejected, guarded, bare, wiped, spoolVars>>
        /\ Return(s) /\ (lost' = lost \/ lost' = lost \cup Rows(held[s]))
    BY <1>4 DEF SaveReady, GiveUp
  <2>2. MoveFile(n, "ready") \/ UNCHANGED <<loc, past>>
    BY <1>4 DEF SaveReady, MoveFile
  <2>3. Others(n) /\ loc'[n] \in {loc[n], "ready"} /\ past'[n] \subseteq past[n] \cup {loc[n]}
    BY <2>1, <1>2, <2>2, MoveFrame DEF WALInv, Locs
  <2>. QED BY <1>2, <2>1, <2>3 DEF spoolVars
<1>. QED BY <1>3, <1>4

LEMMA FinishOwner ==
  ASSUME WALInv, Tidy, OneOwner, NEW s \in Shards, FlushFinish(s) \/ SaveReady(s)
  PROVE  Tidy' /\ OneOwner'
<1>. DEFINE n == wal[s]
<1>1. /\ up /\ up' /\ Return(s) /\ UNCHANGED <<content, pending>>
      /\ n \in Names /\ held[s] \in Batches /\ loc[n] = "active" /\ content[n] = held[s]
      /\ past[n] = {} /\ Others(n) /\ past'[n] \subseteq {"active"}
      /\ loc'[n] \in {"active", "ready", "quarantine", "none"}
  BY FinishEffect
<1>2. PICK to \in {"none", "ready", "quarantine"} : loc'[n] \in {loc[n], to}
  BY <1>1
<1>3. (\A t \in Shards : held'[t] \in {held[t], NoBatch}) /\ \A t \in Shards : held'[t] # content[n]
  BY <1>1, ReturnFrees, WALAssumption
<1>. QED BY <1>1, <1>2, <1>3, MoveOwner DEF OnDisk

\* The effect of the replay loop on its file.
LEMMA ReplayEffect ==
  ASSUME WALInv, Tidy, ReplayTake \/ ReplayDone \/ ReplayQuarantine
  PROVE  /\ up /\ up' /\ UNCHANGED <<content, pending, dbVars, seq, shardVars, ghostVars>>
         /\ \E n \in Names :
              /\ loc[n] = "ready" /\ content[n] \in Batches /\ Others(n) /\ past[n] \subseteq OnDisk
              /\ loc'[n] \in {"ready", "quarantine"}
                   \/ (loc'[n] = "none" /\ rpc = "done" /\ n = rname)
              /\ past'[n] \subseteq past[n] \cup {"ready"}
<1>. USE WALAssumption
<1>1. CASE ReplayTake
  <2>1. up /\ up' /\ UNCHANGED <<pending, shardVars, dbVars, ghostVars>>
    BY <1>1 DEF ReplayTake
  <2>2. PICK n \in ReadyNames :
          \/ UNCHANGED <<diskVars, spoolVars>>
          \/ Quarantine(n) \/ (DiskError /\ UNCHANGED content)
    BY <1>1 DEF ReplayTake
  <2>3. n \in Names /\ loc[n] = "ready" /\ content[n] \in Batches /\ past[n] \subseteq OnDisk
    BY DEF ReadyNames, WALInv, Filled, OnDisk, Tidy
  <2>4. CASE UNCHANGED <<diskVars, spoolVars>>
    BY <2>1, <2>3, <2>4 DEF diskVars, spoolVars, Others
  <2>5. CASE Quarantine(n) \/ (DiskError /\ UNCHANGED content)
    <3>1. /\ Others(n) /\ UNCHANGED <<content, seq>>
          /\ loc'[n] \in {loc[n], "quarantine"} /\ past'[n] \subseteq past[n] \cup {loc[n]}
      BY <2>3, <2>5, FileMoves DEF WALInv
    <3>. QED BY <2>1, <2>3, <3>1
  <2>. QED BY <2>2, <2>4, <2>5
<1>2. CASE ReplayDone \/ ReplayQuarantine
  <2>1. up /\ up' /\ UNCHANGED <<pending, shardVars, dbVars, ghostVars>> /\ rpc # "idle"
    BY <1>2 DEF ReplayDone, ReplayQuarantine
  <2>2. rname \in Names /\ loc[rname] = "ready" /\ content[rname] \in Batches
        /\ past[rname] \subseteq OnDisk
    BY <2>1, ReplayFile DEF Tidy
  <2>3. PICK to \in {"none", "quarantine"} :
          /\ to = "none" => rpc = "done"
          /\ \/ to = "none" /\ Done(rname)
             \/ to = "quarantine" /\ (Quarantine(rname) \/ (DiskError /\ UNCHANGED content))
    BY <1>2 DEF ReplayDone, ReplayQuarantine
  <2>4. /\ Others(rname) /\ UNCHANGED <<content, seq>>
        /\ loc'[rname] \in {loc[rname], to} /\ past'[rname] \subseteq past[rname] \cup {loc[rname]}
    BY <2>2, <2>3, FileMoves DEF WALInv
  <2>. QED BY <2>1, <2>2, <2>3, <2>4
<1>. QED BY <1>1, <1>2

LEMMA ReplayOwner ==
  ASSUME WALInv, Tidy, OneOwner, ReplayTake \/ ReplayDone \/ ReplayQuarantine
  PROVE  Tidy' /\ OneOwner'
<1>1. up /\ up' /\ UNCHANGED <<content, pending, shardVars>>
  BY ReplayEffect
<1>2. PICK n \in Names :
        /\ loc[n] = "ready" /\ Others(n) /\ past[n] \subseteq OnDisk
        /\ loc'[n] \in {"ready", "quarantine", "none"} /\ past'[n] \subseteq past[n] \cup {"ready"}
  BY ReplayEffect
<1>3. PICK to \in {"none", "ready", "quarantine"} : loc'[n] \in {loc[n], to}
  BY <1>2
<1>4. (\A t \in Shards : held'[t] = held[t]) /\ \A t \in Shards : held'[t] # content[n]
  BY <1>1, <1>2 DEF shardVars, OneOwner
<1>. QED BY <1>1, <1>2, <1>3, <1>4, MoveOwner DEF OnDisk

LEMMA CrashEffect ==
  ASSUME WALInv, Crash
  PROVE  /\ up /\ ~up' /\ UNCHANGED <<content, pending, dbVars, lost, rejected, guarded, bare>>
         /\ \A n \in Names : loc'[n] \in {loc[n]} \cup past[n] /\ past'[n] = {}
         /\ \A s \in Shards : held'[s] = NoBatch
<1>1. PICK l \in [{n \in Names : past[n] # {}} -> Locs] :
        /\ \A n \in DOMAIN l : l[n] \in {loc[n]} \cup past[n]
        /\ loc' = [n \in Names |-> IF past[n] = {} THEN loc[n] ELSE l[n]]
  BY DEF Crash
<1>2. \A n \in Names : loc'[n] \in {loc[n]} \cup past[n]
  BY <1>1 DEF WALInv, TypeOK
<1>. QED BY <1>2 DEF Crash, SyncDir

\* A dead process holds no batch.
LEMMA DownHolds ==
  ASSUME WALInv, ~up PROVE \A s \in Shards : held[s] = NoBatch /\ wal[s] = 0 /\ pc[s] = "idle"
BY DEF WALInv, DownOK, ShardOK

LEMMA OwnerNext ==
  ASSUME WALInv, Tidy, OneOwner, [Next]_vars PROVE Tidy' /\ OneOwner'
<1>1. ASSUME NEW s \in Shards, FlushSend(s) PROVE Tidy' /\ OneOwner'
  BY <1>1, OwnerFrame, OwnerReturn DEF FlushSend
<1>2. ASSUME NEW s \in Shards, FlushSalvage(s) PROVE Tidy' /\ OneOwner'
  BY <1>2, OwnerFrame, OwnerReturn DEF FlushSalvage
<1>3. ASSUME NEW s \in Shards, FlushSave(s) PROVE Tidy' /\ OneOwner'
  BY <1>3, OwnerFrame, OwnerReturn DEF FlushSave, GiveUp
<1>4. CASE ReplaySend \/ ReplaySalvage \/ ChDown \/ ChUp
  BY <1>4, OwnerFrame DEF ReplaySend, ReplaySalvage, ChDown, ChUp, shardVars
<1>5. CASE Crash
  <2>1. \A n \in Names : past'[n] = {}
    BY <1>5, CrashEffect
  <2>2. \A n \in Names : loc'[n] = "ready" => content'[n] \in Batches
    BY <1>5, CrashEffect DEF WALInv, Filled, OnDisk
  <2>. QED BY <1>5, <2>1, <2>2, CrashEffect, WALAssumption DEF Tidy, OneOwner, WALInv, TypeOK
<1>6. CASE New \/ NewFails
  <2>1. ~up /\ UNCHANGED <<content, pending, held>> /\ \A s \in Shards : held[s] = NoBatch
    BY <1>6, DownHolds DEF New, NewFails, shardVars
  <2>2. Tidy'
    BY <1>6 DEF New, NewFails, SyncDir, Tidy, OnDisk
  <2>3. \A n \in Names : loc'[n] = "ready" => content[n] \in Batches
    BY <1>6 DEF New, NewFails, Adopt, WALInv, TypeOK, Filled, OnDisk
  <2>. QED BY <2>1, <2>2, <2>3, WALAssumption DEF OneOwner, WALInv, TypeOK
<1>7. CASE UNCHANGED vars
  BY <1>7, OwnerFrame DEF vars, diskVars
<1>. QED
  BY <1>1, <1>2, <1>3, <1>4, <1>5, <1>6, <1>7, FlushBeginOwner, WriteTmpOwner, ActivateOwner,
     FinishOwner, ReplayOwner DEF Next, ShardStep, ReplayStep

\* Ownership holds in every reachable state.
THEOREM Owned == Spec => [](WALInv /\ Tidy /\ OneOwner)
<1>1. Init => WALInv /\ Tidy /\ OneOwner
  BY InitInv, OwnerInit
<1>2. (WALInv /\ Tidy /\ OneOwner) /\ [Next]_vars => (WALInv /\ Tidy /\ OneOwner)'
  BY NextInv, OwnerNext
<1>. QED BY <1>1, <1>2, PTL DEF Spec

\* The replay loop and a flush never work on the same batch: what Oldest returns
\* no shard holds any more (docs/WAL.md "deliberately invisible").
THEOREM ReplayApart == Spec => []ReplayNeverRacesOwner
<1>1. WALInv /\ OneOwner => ReplayNeverRacesOwner
  BY DEF WALInv, ReplayOK, TypeOK, OneOwner, ReplayNeverRacesOwner
<1>. QED BY <1>1, Owned, PTL

-----------------------------------------------------------------------------
(* Files are not overwritten.                                              *)

Intact(n) == loc[n] \in OnDisk /\ loc'[n] # "none" => content'[n] = content[n] /\ loc'[n] \in OnDisk

\* The first half of Begin and of Save touches only a file that is not on disk.
LEMMA WriteEffect ==
  ASSUME WALInv, NEW s \in Shards,
         FlushWrite(s) \/ SaveWrite(s) \/ FlushActivate(s) \/ SaveActivate(s)
  PROVE  /\ up /\ up' /\ wal[s] \in Names /\ loc[wal[s]] \in {"none", "tmp"} /\ past[wal[s]] = {}
         /\ held[s] \in Batches /\ content'[wal[s]] \in {content[wal[s]], held[s]} /\ Others(wal[s])
<1>1. CASE FlushWrite(s) \/ SaveWrite(s)
  <2>1. /\ pc[s] \in Writing /\ up /\ up' /\ UNCHANGED past
        /\ \/ UNCHANGED <<loc, content>>
           \/ /\ loc' = [loc EXCEPT ![wal[s]] = "tmp"]
              /\ content' = [content EXCEPT ![wal[s]] = held[s]]
    BY <1>1 DEF FlushWrite, SaveWrite, WriteTmp, Writing
  <2>2. wal[s] # 0
    BY <2>1 DEF WALInv, ShardOK, Writing
  <2>. QED BY <2>1, <2>2, OwnFile DEF Others, WALInv, TypeOK
<1>2. CASE FlushActivate(s) \/ SaveActivate(s)
  <2>1. /\ pc[s] \in Activating /\ up /\ up' /\ UNCHANGED content
        /\ loc' = [loc EXCEPT ![wal[s]] = "active"] \/ loc' = [loc EXCEPT ![wal[s]] = "none"]
        /\ \/ SyncDir \/ UNCHANGED past
           \/ past' = [past EXCEPT ![wal[s]] = @ \cup {"active"}]
           \/ past' = [past EXCEPT ![wal[s]] = @ \cup {"none"}]
    BY <1>2 DEF FlushActivate, SaveActivate, Activate, Activating
  <2>2. wal[s] # 0
    BY <2>1 DEF WALInv, ShardOK, Activating
  <2>3. wal[s] \in Names /\ held[s] \in Batches /\ loc[wal[s]] = "tmp" /\ past[wal[s]] = {}
    BY <2>1, <2>2, OwnFile
  <2>4. Others(wal[s])
    BY <2>1, <2>3 DEF Others, WALInv, TypeOK, SyncDir
  <2>. QED BY <2>1, <2>3, <2>4
<1>. QED BY <1>1, <1>2

\* The steps that leave the directory alone.
DiskIdle ==
  \/ \E s \in Shards : FlushBegin(s) \/ FlushSend(s) \/ FlushSalvage(s) \/ FlushSave(s)
  \/ ReplaySend \/ ReplaySalvage \/ ChDown \/ ChUp \/ UNCHANGED vars

LEMMA DiskIdleEffect ==
  ASSUME DiskIdle PROVE UNCHANGED <<up, diskVars>>
BY DEF DiskIdle, FlushBegin, FlushSend, FlushSalvage, FlushSave, ReplaySend, ReplaySalvage, ChDown,
   ChUp, vars, diskVars

\* All steps of the writer, by what they do to the directory.
LEMMA StepKinds ==
  ASSUME [Next]_vars
  PROVE  \/ DiskIdle
         \/ \E s \in Shards : \/ FlushWrite(s) \/ SaveWrite(s) \/ FlushActivate(s) \/ SaveActivate(s)
                              \/ FlushFinish(s) \/ SaveReady(s)
         \/ ReplayTake \/ ReplayDone \/ ReplayQuarantine
         \/ Crash \/ New \/ NewFails
BY DEF Next, ShardStep, ReplayStep, DiskIdle

LEMMA IntactNext ==
  ASSUME WALInv, Tidy, [Next]_vars PROVE \A n \in Names : Intact(n)
<1>1. CASE DiskIdle
  BY <1>1, DiskIdleEffect DEF Intact, diskVars
<1>2. ASSUME NEW s \in Shards, FlushWrite(s) \/ SaveWrite(s) \/ FlushActivate(s) \/ SaveActivate(s)
      PROVE  \A n \in Names : Intact(n)
  BY <1>2, WriteEffect DEF Intact, Others, OnDisk
<1>3. ASSUME NEW s \in Shards, FlushFinish(s) \/ SaveReady(s) PROVE \A n \in Names : Intact(n)
  BY <1>3, FinishEffect DEF Intact, Others, OnDisk
<1>4. CASE ReplayTake \/ ReplayDone \/ ReplayQuarantine
  BY <1>4, ReplayEffect DEF Intact, Others, OnDisk
<1>5. CASE Crash
  BY <1>5, CrashEffect DEF Intact, Tidy
<1>6. CASE New \/ NewFails
  <2>1. UNCHANGED content /\ \A n \in Names : loc[n] \in OnDisk => loc'[n] \in OnDisk
    BY <1>6 DEF New, NewFails, Adopt, OnDisk
  <2>. QED BY <2>1 DEF Intact
<1>. QED BY <1>1, <1>2, <1>3, <1>4, <1>5, <1>6, StepKinds

\* Through flushes, replays, crashes and restarts no batch on disk is replaced by
\* another: New counts quarantined names too (spool.go:104-106).
THEOREM FilesNotOverwritten == Spec => NeverOverwrites
<1>1. (WALInv /\ Tidy /\ OneOwner) /\ [Next]_vars
        => [\A n \in Names : loc[n] \in OnDisk /\ loc'[n] # "none"
              => content'[n] = content[n] /\ loc'[n] \in OnDisk]_vars
  BY IntactNext DEF Intact
<1>. QED BY <1>1, Owned, PTL DEF Spec, NeverOverwrites

-----------------------------------------------------------------------------
(* No row is forgotten.                                                    *)

\* What EveryRowAccounted says, with a file that survives every power loss.
Accounted ==
  \A b \in Batches \ (pending \cup wiped) :
    (\A s \in Shards : held[s] # b) => (Rows(b) \subseteq db \cup lost \cup rejected) \/ Held(b)

\* A call to ClickHouse about a batch adds rows of that batch only.
LEMMA SendAdds ==
  ASSUME NEW b \in Batches, NEW n, SendAcked(b, n) \/ SendRefused(b) \/ SendFailed(b, n)
  PROVE  db \subseteq db' /\ db' \subseteq db \cup Rows(b)
BY DEF SendAcked, SendRefused, SendFailed, Insert, Commit, dbVars

LEMMA SalvageAdds ==
  ASSUME NEW b \in Batches, NEW n, NEW F \in SUBSET Rows(b), NEW L \in SUBSET Rows(b), Salvage(b, n, F, L)
  PROVE  /\ db \subseteq db' /\ db' \subseteq db \cup Rows(b) /\ rejected \subseteq rejected'
         /\ (Rows(b) \cap BadRows) \ F \subseteq rejected'
         /\ ~Dedup => Good(b) \ F \subseteq db'
<1>. DEFINE rows == (Good(b) \ F) \cup L
            fresh == {r \in rows : ~Suppressed(DedupToken(n, r[2]))}
<1>1. /\ db' = db \cup fresh /\ rejected' = rejected \cup ((Rows(b) \cap BadRows) \ F)
  BY DEF Salvage, InsertRows, Commit
<1>2. rows \subseteq Rows(b)
  BY DEF Good
<1>3. ~Dedup => fresh = rows
  BY DEF Suppressed
<1>. QED BY <1>1, <1>2, <1>3

\* What the process knows of a batch, it does not forget: rows stay stored and
\* counted, the queues only shrink, and a shard takes its batches from them.
LEMMA Grows ==
  ASSUME WALInv, [Next]_vars
  PROVE  /\ db \subseteq db' /\ lost \subseteq lost' /\ rejected \subseteq rejected'
         /\ wiped \subseteq wiped' /\ pending' \subseteq pending
         /\ \A s \in Shards : held'[s] \in {held[s], NoBatch} \cup (pending \ pending')
         /\ \A b \in pending \ pending' : \E s \in Shards : held'[s] = b
         /\ \A r \in db' \ db : \/ (\E s \in Shards : held[s] \in Batches /\ r \in Rows(held[s]))
                               \/ (rname # 0 /\ r \in Rows(content[rname]))
<1>. USE WALAssumption
<1>. DEFINE Goal == /\ db \subseteq db' /\ lost \subseteq lost' /\ rejected \subseteq rejected'
                    /\ wiped \subseteq wiped' /\ pending' \subseteq pending
                    /\ \A s \in Shards : held'[s] \in {held[s], NoBatch} \cup (pending \ pending')
                    /\ \A b \in pending \ pending' : \E s \in Shards : held'[s] = b
                    /\ \A r \in db' \ db :
                         \/ (\E s \in Shards : held[s] \in Batches /\ r \in Rows(held[s]))
                         \/ (rname # 0 /\ r \in Rows(content[rname]))
<1>0. ASSUME NEW s \in Shards, Return(s) PROVE \A t \in Shards : held'[t] \in {held[t], NoBatch}
  BY <1>0 DEF Return, WALInv, TypeOK
<1>1. ASSUME NEW s \in Shards, FlushBegin(s) PROVE Goal
  BY <1>1 DEF FlushBegin, dbVars, ghostVars, WALInv, TypeOK
<1>2. ASSUME NEW s \in Shards,
             FlushWrite(s) \/ SaveWrite(s) \/ FlushActivate(s) \/ SaveActivate(s) \/ FlushSave(s)
      PROVE  Goal
  <2>1. UNCHANGED <<pending, dbVars, rejected, wiped>>
    BY <1>2 DEF FlushWrite, SaveWrite, WriteTmp, FlushActivate, SaveActivate, Activate, FlushSave
  <2>2. UNCHANGED <<held, lost>> \/ GiveUp(s)
    BY <1>2 DEF FlushWrite, SaveWrite, WriteTmp, FlushActivate, SaveActivate, Activate, FlushSave,
       Unprotected
  <2>. QED BY <1>0, <2>1, <2>2 DEF GiveUp, dbVars
<1>3. ASSUME NEW s \in Shards, FlushSend(s) PROVE Goal
  <2>1. UNCHANGED <<pending, lost, rejected, wiped>> /\ held[s] \in Batches
    BY <1>3 DEF FlushSend, WALInv, ShardOK
  <2>2. db \subseteq db' /\ db' \subseteq db \cup Rows(held[s])
    BY <1>3, <2>1, SendAdds DEF FlushSend
  <2>3. held' = held \/ Return(s)
    BY <1>3 DEF FlushSend
  <2>4. \A r \in db' \ db : \E t \in Shards : held[t] \in Batches /\ r \in Rows(held[t])
    BY <2>1, <2>2
  <2>5. \A t \in Shards : held'[t] \in {held[t], NoBatch}
    BY <1>0, <2>3
  <2>. QED BY <2>1, <2>2, <2>4, <2>5
<1>4. ASSUME NEW s \in Shards, FlushSalvage(s) PROVE Goal
  <2>1. UNCHANGED <<pending, wiped>> /\ held[s] \in Batches /\ lost \subseteq lost'
        /\ (held' = held \/ Return(s))
    BY <1>4 DEF FlushSalvage, WALInv, ShardOK
  <2>2. PICK F \in SUBSET Rows(held[s]), L \in SUBSET Rows(held[s]) : Salvage(held[s], wal[s], F, L)
    BY <1>4 DEF FlushSalvage
  <2>3. db \subseteq db' /\ db' \subseteq db \cup Rows(held[s]) /\ rejected \subseteq rejected'
    BY <2>1, <2>2, SalvageAdds
  <2>4. \A r \in db' \ db : \E t \in Shards : held[t] \in Batches /\ r \in Rows(held[t])
    BY <2>1, <2>3
  <2>5. \A t \in Shards : held'[t] \in {held[t], NoBatch}
    BY <1>0, <2>1
  <2>. QED BY <2>1, <2>3, <2>4, <2>5
<1>5. ASSUME NEW s \in Shards, FlushFinish(s) \/ SaveReady(s) PROVE Goal
  BY <1>0, <1>5, FinishEffect DEF dbVars
<1>6. CASE ReplayTake \/ ReplayDone \/ ReplayQuarantine \/ ChDown \/ ChUp \/ New \/ NewFails
  BY <1>6 DEF ReplayTake, ReplayDone, ReplayQuarantine, ChDown, ChUp, New, NewFails, shardVars,
     dbVars, ghostVars
<1>7. CASE ReplaySend
  <2>1. UNCHANGED <<pending, shardVars, ghostVars>> /\ rname # 0 /\ content[rname] \in Batches
    BY <1>7 DEF ReplaySend, WALInv, ReplayOK
  <2>2. db \subseteq db' /\ db' \subseteq db \cup Rows(content[rname])
    BY <1>7, <2>1, SendAdds DEF ReplaySend
  <2>. QED BY <2>1, <2>2 DEF shardVars, ghostVars
<1>8. CASE ReplaySalvage
  <2>1. UNCHANGED <<pending, shardVars, lost, wiped>> /\ rname # 0 /\ content[rname] \in Batches
    BY <1>8 DEF ReplaySalvage, WALInv, ReplayOK
  <2>2. PICK F \in SUBSET Rows(content[rname]), L \in SUBSET Rows(content[rname]) :
          Salvage(content[rname], rname, F, L)
    BY <1>8 DEF ReplaySalvage
  <2>3. db \subseteq db' /\ db' \subseteq db \cup Rows(content[rname]) /\ rejected \subseteq rejected'
    BY <2>1, <2>2, SalvageAdds
  <2>. QED BY <2>1, <2>3 DEF shardVars
<1>9. CASE Crash
  BY <1>9, CrashEffect DEF Crash, dbVars
<1>10. CASE UNCHANGED vars
  BY <1>10 DEF vars
<1>11. ASSUME NEW s \in Shards, ShardStep(s) PROVE Goal
  BY <1>1, <1>2, <1>3, <1>4, <1>5, <1>11 DEF ShardStep
<1>12. CASE ReplayStep
  BY <1>6, <1>7, <1>8, <1>12 DEF ReplayStep
<1>13. Goal
  BY <1>6, <1>9, <1>10, <1>11, <1>12 DEF Next
<1>. QED BY <1>13 DEF Goal

\* A batch whose file survives every power loss keeps such a file, unless it is
\* stored as a whole and no shard has it any more.
LEMMA HeldKept ==
  ASSUME WALInv, Tidy, OneOwner, ~Dedup, [Next]_vars, NEW b \in Batches, Held(b), ~Held(b)'
  PROVE  Rows(b) \subseteq db' /\ \A s \in Shards : held'[s] # b
<1>. USE WALAssumption
<1>. DEFINE Goal == Rows(b) \subseteq db' /\ \A s \in Shards : held'[s] # b
<1>1. PICK m \in Names : content[m] = b /\ {loc[m]} \cup past[m] \subseteq OnDisk
  BY DEF Held
<1>2. ~(content'[m] = b /\ {loc'[m]} \cup past'[m] \subseteq OnDisk)
  BY DEF Held
<1>3. CASE DiskIdle
  BY <1>1, <1>2, <1>3, DiskIdleEffect DEF diskVars
<1>4. ASSUME NEW s \in Shards, FlushWrite(s) \/ SaveWrite(s) \/ FlushActivate(s) \/ SaveActivate(s)
      PROVE  Goal
  BY <1>1, <1>2, <1>4, WriteEffect DEF Others, OnDisk
<1>5. ASSUME NEW s \in Shards, FlushFinish(s) \/ SaveReady(s) PROVE Goal
  <2>1. m = wal[s] /\ loc'[m] = "none" /\ pc[s] = "done" /\ held[s] = b /\ Return(s) /\ UNCHANGED dbVars
    BY <1>1, <1>2, <1>5, FinishEffect DEF Others, OnDisk
  <2>2. Rows(b) \subseteq db
    BY <2>1 DEF WALInv, ShardOK
  <2>. QED BY <2>1, <2>2, ReturnFrees DEF dbVars
<1>6. CASE ReplayTake \/ ReplayDone \/ ReplayQuarantine
  <2>1. UNCHANGED <<content, dbVars, shardVars>>
    BY <1>6, ReplayEffect
  <2>2. PICK n \in Names : /\ loc[n] = "ready" /\ Others(n)
                           /\ loc'[n] \in {"ready", "quarantine"}
                                \/ (loc'[n] = "none" /\ rpc = "done" /\ n = rname)
                           /\ past'[n] \subseteq past[n] \cup {"ready"}
    BY <1>6, ReplayEffect
  <2>3. m = n /\ rpc = "done" /\ n = rname
    BY <1>1, <1>2, <2>1, <2>2 DEF Others, OnDisk
  <2>4. Rows(b) \subseteq db
    BY <1>1, <2>3 DEF WALInv, ReplayOK
  <2>. QED BY <1>1, <2>1, <2>2, <2>3, <2>4 DEF OneOwner, dbVars, shardVars
<1>7. CASE Crash
  BY <1>1, <1>2, <1>7, CrashEffect
<1>8. CASE New \/ NewFails
  <2>1. UNCHANGED content /\ loc'[m] \in OnDisk /\ past'[m] \subseteq OnDisk
    BY <1>1, <1>8 DEF New, NewFails, Adopt, OnDisk, SyncDir
  <2>. QED BY <1>1, <1>2, <2>1
<1>. QED BY <1>3, <1>4, <1>5, <1>6, <1>7, <1>8, StepKinds

\* A shard lets go of a batch that is stored or counted row by row, that a file on
\* disk holds, or that a crash caught in memory.
LEMMA LetGo ==
  ASSUME WALInv, Tidy, OneOwner, ~Dedup, [Next]_vars, NEW s \in Shards, NEW b \in Batches,
         held[s] = b, held'[s] # b
  PROVE  (Rows(b) \subseteq db' \cup lost' \cup rejected') \/ Held(b)' \/ b \in wiped'
<1>. USE WALAssumption
<1>. DEFINE Goal == (Rows(b) \subseteq db' \cup lost' \cup rejected') \/ Held(b)' \/ b \in wiped'
<1>s. ASSUME NEW t \in Shards, held' = [held EXCEPT ![t] = NoBatch] PROVE t = s
  BY <1>s DEF WALInv, TypeOK
<1>1. ASSUME NEW t \in Shards, FlushBegin(t) PROVE Goal
  <2>1. pc[t] = "idle" /\ held[t] = NoBatch /\ \E x : held' = [held EXCEPT ![t] = x]
    BY <1>1 DEF FlushBegin, WALInv, ShardOK
  <2>2. t = s
    BY <2>1 DEF WALInv, TypeOK
  <2>. QED BY <2>1, <2>2
<1>2. ASSUME NEW t \in Shards, GiveUp(t) PROVE Goal
  BY <1>2, <1>s DEF GiveUp, Return
<1>3. ASSUME NEW t \in Shards,
             FlushWrite(t) \/ SaveWrite(t) \/ FlushActivate(t) \/ SaveActivate(t) \/ FlushSave(t)
      PROVE  Goal
  <2>1. held' = held \/ GiveUp(t)
    BY <1>3 DEF FlushWrite, SaveWrite, WriteTmp, FlushActivate, SaveActivate, Activate, FlushSave,
       Unprotected
  <2>. QED BY <1>2, <2>1
<1>4. ASSUME NEW t \in Shards, FlushSend(t) PROVE Goal
  <2>1. SendAcked(held[t], wal[t]) /\ Return(t)
    BY <1>4 DEF FlushSend
  <2>2. t = s
    BY <2>1, <1>s DEF Return
  <2>3. DbType /\ wal[s] \in Names \cup {0}
    BY DEF WALInv, TypeOK, DbType
  <2>4. Insert(Rows(b), DedupToken(wal[s], 0))
    BY <2>1, <2>2 DEF SendAcked
  <2>. QED BY <2>3, <2>4, InsertGrows
<1>5. ASSUME NEW t \in Shards, FlushSalvage(t) PROVE Goal
  <2>1. PICK F \in SUBSET Rows(held[t]), L \in SUBSET Rows(held[t]) :
          Salvage(held[t], wal[t], F, L) /\ lost' = lost \cup F /\ Return(t)
    BY <1>5 DEF FlushSalvage
  <2>2. t = s
    BY <2>1, <1>s DEF Return
  <2>3. (Rows(b) \cap BadRows) \ F \subseteq rejected' /\ Good(b) \ F \subseteq db'
    BY <2>1, <2>2, SalvageAdds
  <2>. QED BY <2>1, <2>3 DEF Good
<1>6. ASSUME NEW t \in Shards, FlushFinish(t) \/ SaveReady(t) PROVE Goal
  <2>1. t = s
    BY <1>6, <1>s, FinishEffect DEF Return
  <2>2. PICK n \in Names : n = wal[s]
    BY <1>6, <2>1, FinishEffect
  <2>3. /\ UNCHANGED <<content, dbVars>> /\ content[n] = b /\ past'[n] \subseteq {"active"}
        /\ loc'[n] \in {"active", "ready", "quarantine"} \/ (loc'[n] = "none" /\ pc[s] = "done")
    BY <1>6, <2>1, <2>2, FinishEffect
  <2>4. CASE loc'[n] \in {"active", "ready", "quarantine"}
    BY <2>3, <2>4 DEF Held, OnDisk
  <2>5. CASE pc[s] = "done"
    BY <2>3, <2>5 DEF WALInv, ShardOK, dbVars
  <2>. QED BY <2>3, <2>4, <2>5
<1>7. CASE Crash
  <2>1. CASE \A n \in Names : ~(content[n] = held[s] /\ loc'[n] \in OnDisk)
    BY <1>7, <2>1 DEF Crash
  <2>2. ASSUME NEW n \in Names, content[n] = b, loc'[n] \in OnDisk PROVE Held(b)'
    <3>1. content'[n] = b /\ past'[n] = {}
      BY <1>7, <2>2, CrashEffect
    <3>. QED BY <2>2, <3>1 DEF Held
  <2>. QED BY <2>1, <2>2
<1>8. CASE ReplayStep \/ ChDown \/ ChUp \/ New \/ NewFails \/ UNCHANGED vars
  BY <1>8 DEF ReplayStep, ReplayTake, ReplaySend, ReplaySalvage, ReplayDone, ReplayQuarantine, ChDown,
     ChUp, New, NewFails, shardVars, vars
<1>9. ASSUME NEW t \in Shards, ShardStep(t) PROVE Goal
  BY <1>1, <1>3, <1>4, <1>5, <1>6, <1>9 DEF ShardStep
<1>10. Goal
  BY <1>7, <1>8, <1>9 DEF Next
<1>. QED BY <1>10 DEF Goal

LEMMA AccountedNext ==
  ASSUME WALInv, Tidy, OneOwner, ~Dedup, Accounted, [Next]_vars PROVE Accounted'
<1>. SUFFICES ASSUME NEW b \in Batches, b \notin pending', b \notin wiped',
                     \A s \in Shards : held'[s] # b, ~(Rows(b) \subseteq db' \cup lost' \cup rejected')
              PROVE  Held(b)'
  BY DEF Accounted
<1>1. b \notin pending /\ b \notin wiped
  BY Grows
<1>2. CASE \E s \in Shards : held[s] = b
  BY <1>2, LetGo
<1>3. CASE \A s \in Shards : held[s] # b
  <2>1. Held(b)
    BY <1>1, <1>3, Grows DEF Accounted
  <2>2. ~(Rows(b) \subseteq db')
    OBVIOUS
  <2>. QED BY <2>1, <2>2, HeldKept
<1>. QED BY <1>2, <1>3

-----------------------------------------------------------------------------
(* The files counter.                                                      *)

\* Files that Spool.files must count: released ones, and those of a flush under way.
CountedNames == ReadyNames \cup {wal[s] : s \in {t \in Shards : wal[t] # 0 /\ pc[t] \in Owning}}
CountOK == up => Cardinality(CountedNames) <= nfiles

LEMMA CountedType ==
  ASSUME TypeOK PROVE CountedNames \in SUBSET Names
BY DEF CountedNames, ReadyNames, TypeOK

\* Counting sets of names.
LEMMA NamesFinite ==
  ASSUME NEW S \in SUBSET Names PROVE IsFiniteSet(S)
<1>1. IsFiniteSet(1..MaxSeq)
  BY WALAssumption, FS_Interval
<1>. QED BY <1>1, FS_Subset DEF Names

LEMMA CardShrinks ==
  ASSUME NEW S \in SUBSET Names, NEW T \in SUBSET S
  PROVE  Cardinality(S) \in Nat /\ Cardinality(T) \in Nat /\ Cardinality(T) <= Cardinality(S)
<1>1. IsFiniteSet(S)
  BY NamesFinite
<1>. QED BY <1>1, FS_Subset, FS_CardinalityType

LEMMA CardAdds ==
  ASSUME NEW S \in SUBSET Names, NEW n \in Names, NEW T \in SUBSET (S \cup {n})
  PROVE  Cardinality(S) \in Nat /\ Cardinality(T) \in Nat /\ Cardinality(T) <= Cardinality(S) + 1
<1>1. IsFiniteSet(S)
  BY NamesFinite
<1>2. Cardinality(S \cup {n}) \in {Cardinality(S), Cardinality(S) + 1}
  BY <1>1, FS_AddElement
<1>3. Cardinality(T) \in Nat /\ Cardinality(T) <= Cardinality(S \cup {n})
  BY CardShrinks
<1>. QED BY <1>1, <1>2, <1>3, FS_CardinalityType

LEMMA CardDrops ==
  ASSUME NEW S \in SUBSET Names, NEW n \in S, NEW T \in SUBSET (S \ {n})
  PROVE  /\ Cardinality(S) \in Nat /\ Cardinality(T) \in Nat
         /\ Cardinality(S) >= 1 /\ Cardinality(T) <= Cardinality(S) - 1
<1>1. IsFiniteSet(S)
  BY NamesFinite
<1>2. Cardinality(S \ {n}) = Cardinality(S) - 1 /\ Cardinality(S) \in Nat
  BY <1>1, FS_RemoveElement, FS_CardinalityType
<1>3. Cardinality(T) \in Nat /\ Cardinality(T) <= Cardinality(S \ {n}) /\ Cardinality(S \ {n}) \in Nat
  BY CardShrinks
<1>. QED BY <1>2, <1>3

\* The counter falls by one when the file n, which was counted, is not any more.
LEMMA CountDrops ==
  ASSUME WALInv, CountOK, up, NEW n \in CountedNames, NEW T \in SUBSET (CountedNames \ {n}),
         nfiles' = Minus1(nfiles)
  PROVE  Cardinality(T) <= nfiles'
<1>1. /\ Cardinality(CountedNames) \in Nat /\ Cardinality(T) \in Nat
      /\ Cardinality(CountedNames) >= 1 /\ Cardinality(T) <= Cardinality(CountedNames) - 1
  BY CountedType, CardDrops DEF WALInv
<1>. QED BY <1>1 DEF CountOK, Minus1, WALInv, TypeOK

LEMMA CountKeeps ==
  ASSUME WALInv, CountOK, up, NEW T \in SUBSET CountedNames, nfiles' = nfiles
  PROVE  Cardinality(T) <= nfiles'
<1>1. Cardinality(CountedNames) \in Nat /\ Cardinality(T) \in Nat
      /\ Cardinality(T) <= Cardinality(CountedNames)
  BY CountedType, CardShrinks DEF WALInv
<1>. QED BY <1>1 DEF CountOK, WALInv, TypeOK

\* Steps that neither move a file nor open one.
LEMMA IdleCount ==
  ASSUME WALInv, DiskIdle PROVE nfiles' = nfiles /\ CountedNames' \subseteq CountedNames
<1>1. UNCHANGED <<loc, nfiles>>
  BY DEF DiskIdle, FlushBegin, FlushSend, FlushSalvage, FlushSave, Reserve, ReplaySend, ReplaySalvage,
     ChDown, ChUp, vars, diskVars, spoolVars
<1>2. \A t \in Shards : wal'[t] # 0 /\ pc'[t] \in Owning => wal[t] = wal'[t] /\ pc[t] \in Owning
  <2>1. ASSUME NEW s \in Shards, NEW x, NEW y, pc' = [pc EXCEPT ![s] = x], wal' = [wal EXCEPT ![s] = y],
               y = 0 \/ x \notin Owning
        PROVE  \A t \in Shards : wal'[t] # 0 /\ pc'[t] \in Owning => wal[t] = wal'[t] /\ pc[t] \in Owning
    BY <2>1 DEF WALInv, TypeOK
  <2>2. ASSUME NEW s \in Shards, NEW x, pc' = [pc EXCEPT ![s] = x], wal' = wal,
               wal[s] = 0 \/ pc[s] \in Owning
        PROVE  \A t \in Shards : wal'[t] # 0 /\ pc'[t] \in Owning => wal[t] = wal'[t] /\ pc[t] \in Owning
    BY <2>2 DEF WALInv, TypeOK
  <2>3. ASSUME NEW s \in Shards, Return(s)
        PROVE  \A t \in Shards : wal'[t] # 0 /\ pc'[t] \in Owning => wal[t] = wal'[t] /\ pc[t] \in Owning
    BY <2>1, <2>3 DEF Return, Goto
  <2>4. ASSUME NEW s \in Shards, NEW x \in {"write", "saveWrite"}, Reserve(s, x)
        PROVE  \A t \in Shards : wal'[t] # 0 /\ pc'[t] \in Owning => wal[t] = wal'[t] /\ pc[t] \in Owning
    BY <2>1, <2>4 DEF Reserve, Goto, Owning
  <2>5. ASSUME NEW s \in Shards, FlushBegin(s)
        PROVE  \A t \in Shards : wal'[t] # 0 /\ pc'[t] \in Owning => wal[t] = wal'[t] /\ pc[t] \in Owning
    BY <2>2, <2>4, <2>5 DEF FlushBegin, WALInv, ShardOK, Goto
  <2>6. ASSUME NEW s \in Shards, FlushSend(s)
        PROVE  \A t \in Shards : wal'[t] # 0 /\ pc'[t] \in Owning => wal[t] = wal'[t] /\ pc[t] \in Owning
    BY <2>2, <2>3, <2>6 DEF FlushSend, Goto, Owning
  <2>7. ASSUME NEW s \in Shards, FlushSalvage(s)
        PROVE  \A t \in Shards : wal'[t] # 0 /\ pc'[t] \in Owning => wal[t] = wal'[t] /\ pc[t] \in Owning
    BY <2>2, <2>3, <2>7 DEF FlushSalvage, Goto, Owning
  <2>8. ASSUME NEW s \in Shards, FlushSave(s)
        PROVE  \A t \in Shards : wal'[t] # 0 /\ pc'[t] \in Owning => wal[t] = wal'[t] /\ pc[t] \in Owning
    BY <2>3, <2>4, <2>8 DEF FlushSave, GiveUp
  <2>9. CASE UNCHANGED <<pc, wal>>
    BY <2>9
  <2>. QED BY <2>5, <2>6, <2>7, <2>8, <2>9 DEF DiskIdle, ReplaySend, ReplaySalvage, ChDown, ChUp, vars,
               shardVars
<1>. QED BY <1>1, <1>2 DEF CountedNames, ReadyNames

\* No other shard has the file of shard s.
LEMMA NotOthers ==
  ASSUME WALInv, NEW s \in Shards, wal[s] # 0, OnlyShard(s), wal'[s] = 0 \/ pc'[s] \notin Owning
  PROVE  /\ \A t \in Shards : wal'[t] # 0 /\ pc'[t] \in Owning
                => wal[t] = wal'[t] /\ pc[t] \in Owning /\ wal[t] # wal[s]
BY DEF WALInv, Exclusive, OnlyShard

LEMMA CountNext ==
  ASSUME WALInv, Tidy, OneOwner, CountOK, [Next]_vars PROVE CountOK'
<1>. USE WALAssumption
<1>1. CASE DiskIdle
  <2>1. nfiles' = nfiles /\ CountedNames' \in SUBSET CountedNames
    BY <1>1, IdleCount
  <2>. QED BY <1>1, <2>1, CountKeeps, DiskIdleEffect DEF CountOK
<1>2. ASSUME NEW s \in Shards, FlushWrite(s) \/ SaveWrite(s) PROVE CountOK'
  <2>1. /\ up /\ pc[s] \in Writing /\ nfiles' = nfiles
        /\ loc' = loc \/ loc' = [loc EXCEPT ![wal[s]] = "tmp"]
    BY <1>2 DEF FlushWrite, SaveWrite, WriteTmp, Writing, spoolVars
  <2>2. \A t \in Shards : wal'[t] # 0 /\ pc'[t] \in Owning => wal[t] = wal'[t] /\ pc[t] \in Owning
    BY <1>2 DEF FlushWrite, SaveWrite, WriteTmp, Unprotected, GiveUp, Return, Goto, Owning, WALInv, TypeOK
  <2>3. CountedNames' \in SUBSET CountedNames
    BY <2>1, <2>2 DEF CountedNames, ReadyNames, WALInv, TypeOK
  <2>. QED BY <2>1, <2>3, CountKeeps DEF CountOK
<1>3. ASSUME NEW s \in Shards, FlushActivate(s) \/ SaveActivate(s) PROVE CountOK'
  <2>. DEFINE n == wal[s]
  <2>1. up /\ n \in Names /\ pc[s] \in Activating
    BY <1>3, WriteEffect DEF FlushActivate, SaveActivate, Activate, Activating
  <2>2. CASE /\ nfiles' = nfiles + 1 /\ UNCHANGED wal
             /\ loc' = [loc EXCEPT ![n] = "active"] /\ (Goto(s, "send") \/ Goto(s, "saveReady"))
    <3>1. \A t \in Shards : wal'[t] # 0 /\ pc'[t] \in Owning => t = s \/ (wal[t] = wal'[t] /\ pc[t] \in Owning)
      BY <2>2 DEF Goto, WALInv, TypeOK
    <3>2. CountedNames' \in SUBSET (CountedNames \cup {n})
      BY <2>1, <2>2, <3>1 DEF CountedNames, ReadyNames, WALInv, TypeOK
    <3>3. /\ Cardinality(CountedNames) \in Nat /\ Cardinality(CountedNames') \in Nat
          /\ Cardinality(CountedNames') <= Cardinality(CountedNames) + 1
      BY <2>1, <3>2, CardAdds, CountedType DEF WALInv
    <3>. QED BY <2>1, <2>2, <3>3 DEF CountOK, WALInv, TypeOK
  <2>3. CASE /\ nfiles' = nfiles /\ (Unprotected(s) \/ GiveUp(s))
             /\ loc' = [loc EXCEPT ![n] = "active"] \/ loc' = [loc EXCEPT ![n] = "none"]
    <3>1. \A t \in Shards : wal'[t] # 0 /\ pc'[t] \in Owning => wal[t] = wal'[t] /\ pc[t] \in Owning
      BY <2>3 DEF Unprotected, GiveUp, Return, Goto, WALInv, TypeOK
    <3>2. CountedNames' \in SUBSET CountedNames
      BY <2>3, <3>1 DEF CountedNames, ReadyNames, WALInv, TypeOK
    <3>. QED BY <2>1, <2>3, <3>2, CountKeeps DEF CountOK
  <2>. QED BY <1>3, <2>2, <2>3 DEF FlushActivate, SaveActivate, Activate
<1>4. ASSUME NEW s \in Shards, FlushFinish(s) \/ SaveReady(s) PROVE CountOK'
  <2>1. PICK n \in Names : n = wal[s]
    BY <1>4, FinishEffect
  <2>2. /\ up /\ Return(s) /\ loc[n] = "active" /\ Others(n) /\ pc[s] \in Owning
    BY <1>4, <2>1, FinishEffect DEF FlushFinish, SaveReady, Owning
  <2>3. n \in CountedNames
    BY <2>1, <2>2 DEF CountedNames, Names
  <2>4. \A t \in Shards : wal'[t] # 0 /\ pc'[t] \in Owning
                => wal[t] = wal'[t] /\ pc[t] \in Owning /\ wal[t] # n
    <3>1. OnlyShard(s) /\ wal'[s] = 0 /\ wal[s] # 0
      BY <2>1, <2>2 DEF Return, Goto, OnlyShard, WALInv, TypeOK, Names
    <3>. QED BY <2>1, <3>1, NotOthers
  <2>5. CountedNames' \in SUBSET CountedNames
    BY <2>2, <2>3, <2>4 DEF CountedNames, ReadyNames, Others
  <2>6. loc'[n] # "ready" => CountedNames' \in SUBSET (CountedNames \ {n})
    BY <2>2, <2>4 DEF CountedNames, ReadyNames, Others
  <2>7. nfiles' = nfiles \/ (nfiles' = Minus1(nfiles) /\ loc'[n] # "ready")
    BY <1>4, <2>1 DEF FlushFinish, SaveReady, Done, Ready, Quarantine, MoveFile, DiskError, GiveUp,
       spoolVars, WALInv, TypeOK
  <2>. QED BY <2>2, <2>3, <2>5, <2>6, <2>7, CountKeeps, CountDrops DEF CountOK
<1>5. CASE ReplayTake \/ ReplayDone \/ ReplayQuarantine
  <2>1. PICK n \in Names : /\ loc[n] = "ready"
                           /\ Done(n) \/ Quarantine(n) \/ UNCHANGED <<loc, nfiles>>
    BY <1>5, ReplayFile DEF ReplayTake, ReplayDone, ReplayQuarantine, ReadyNames, DiskError, spoolVars,
       diskVars
  <2>2. up /\ UNCHANGED <<pc, wal>> /\ n \in CountedNames
    BY <1>5, <2>1 DEF ReplayTake, ReplayDone, ReplayQuarantine, shardVars, CountedNames, ReadyNames
  <2>3. \A t \in Shards : wal[t] # 0 /\ pc[t] \in Owning => wal[t] # n
    BY <2>1, OwnFile
  <2>4. CASE nfiles' = nfiles /\ (loc' = loc \/ loc' = [loc EXCEPT ![n] = "none"])
    <3>1. CountedNames' \in SUBSET CountedNames
      BY <2>2, <2>4 DEF CountedNames, ReadyNames, WALInv, TypeOK
    <3>. QED BY <2>2, <2>4, <3>1, CountKeeps DEF CountOK
  <2>5. CASE /\ nfiles' = Minus1(nfiles)
             /\ loc' = [loc EXCEPT ![n] = "none"] \/ loc' = [loc EXCEPT ![n] = "quarantine"]
    <3>1. CountedNames' \in SUBSET (CountedNames \ {n})
      BY <2>2, <2>3, <2>5 DEF CountedNames, ReadyNames, WALInv, TypeOK
    <3>. QED BY <2>2, <2>5, <3>1, CountDrops DEF CountOK
  <2>. QED BY <2>1, <2>4, <2>5 DEF Done, Quarantine, MoveFile, DiskError, spoolVars
<1>6. CASE New
  <2>1. PICK K \in SUBSET Names : K = {n \in Names : loc[n] \in OnDisk /\ loc[n] # "quarantine"}
    OBVIOUS
  <2>2. nfiles' = Cardinality(K)
    <3>1. {n \in {m \in Names : loc[m] \in OnDisk} : loc[n] # "quarantine"} = K
      BY <2>1
    <3>. QED BY <1>6, <3>1 DEF New
  <2>3. \A s \in Shards : wal'[s] = 0
    BY <1>6, DownHolds DEF New, shardVars
  <2>4. CountedNames' \in SUBSET K
    BY <1>6, <2>1, <2>3 DEF New, Adopt, CountedNames, ReadyNames, OnDisk, WALInv, TypeOK, Locs
  <2>. QED BY <2>2, <2>4, CardShrinks DEF CountOK
<1>7. CASE Crash \/ NewFails
  BY <1>7 DEF Crash, NewFails, CountOK
<1>. QED BY <1>1, <1>2, <1>3, <1>4, <1>5, <1>6, <1>7, StepKinds

\* No row is forgotten and no released file hidden, on tables without deduplication:
\* once no shard works on a batch each of its rows is stored, counted or on disk
\* (docs/WAL.md), and files == 0 never hides a released file from the replay loop
\* (clickhouse.go:280-286).
THEOREM NothingIsForgotten == ~Dedup => (Spec => []NothingForgotten)
<1>. DEFINE I == WALInv /\ Tidy /\ OneOwner /\ Accounted /\ CountOK
<1>1. ASSUME ~Dedup PROVE Init => I
  <2>. SUFFICES ASSUME Init PROVE I
    OBVIOUS
  <2>1. CountedNames = {}
    BY DEF Init, CountedNames, ReadyNames
  <2>2. CountOK
    BY <2>1, FS_EmptySet DEF CountOK, Init
  <2>3. Accounted
    BY DEF Init, Accounted
  <2>. QED BY <2>2, <2>3, InitInv, OwnerInit
<1>2. ASSUME ~Dedup PROVE I /\ [Next]_vars => I'
  BY <1>2, NextInv, OwnerNext, AccountedNext, CountNext
<1>3. I => NothingForgotten
  <2>1. ASSUME I PROVE EveryRowAccounted
    BY <2>1 DEF Accounted, EveryRowAccounted, Held
  <2>2. ASSUME I PROVE ReadyNeverHidden
    <3>. SUFFICES ASSUME up, NEW n \in ReadyNames PROVE nfiles > 0
      BY DEF ReadyNeverHidden
    <3>1. n \in CountedNames /\ CountedNames \in SUBSET Names
      BY <2>2, CountedType DEF CountedNames, WALInv
    <3>2. Cardinality(CountedNames) \in Nat /\ Cardinality(CountedNames) >= 1
      BY <3>1, CardDrops
    <3>. QED BY <2>2, <3>2 DEF CountOK, WALInv, TypeOK
  <2>. QED BY <2>1, <2>2 DEF NothingForgotten
<1>4. ASSUME ~Dedup PROVE Spec => []NothingForgotten
  <2>1. (Init => I) /\ (I /\ [Next]_vars => I') 
    BY <1>1, <1>2, <1>4
  <2>. QED BY <1>3, <2>1, PTL DEF Spec
<1>. QED BY <1>4

-----------------------------------------------------------------------------
(* The writer implements Delivery.                                         *)

\* Who answers for a batch, now and after the step.
LEMMA Custodian ==
  ASSUME NEW b \in Batches
  PROVE  /\ custody[b] = IF b \in pending THEN "queue" ELSE IF Held(b) THEN "disk"
                         ELSE IF \E s \in Shards : held[s] = b THEN "memory" ELSE "none"
         /\ custody'[b] = IF b \in pending' THEN "queue" ELSE IF Held(b)' THEN "disk"
                          ELSE IF \E s \in Shards : held'[s] = b THEN "memory" ELSE "none"
BY DEF custody

\* A batch in the queues has no file.
LEMMA QueuedNotHeld ==
  ASSUME OneOwner, NEW b \in pending PROVE ~Held(b)
BY DEF OneOwner, Held

\* A step of the writer hands a batch on or leaves it where it is.
LEMMA MoveNext ==
  ASSUME WALInv, Tidy, OneOwner, ~Dedup, Accounted, [Next]_vars, NEW b \in Batches
  PROVE  D!Move(b)
<1>. DEFINE from == custody[b]
            to == custody'[b]
<1>1. pending' \subseteq pending /\ db \subseteq db' /\ lost \subseteq lost' /\ rejected \subseteq rejected'
  BY Grows
<1>2. CASE b \in pending
  <2>1. from = "queue"
    BY <1>2, Custodian
  <2>2. CASE b \in pending'
    BY <2>1, <2>2, Custodian DEF D!Move
  <2>3. CASE b \notin pending'
    <3>1. PICK s \in Shards : held'[s] = b
      BY <1>2, <2>3, Grows
    <3>2. ~Held(b)'
      <4>1. ASSUME NEW t \in Shards, FlushBegin(t) PROVE UNCHANGED diskVars
        BY <4>1 DEF FlushBegin
      <4>2. pending' = pending \/ \E t \in Shards : FlushBegin(t)
        BY DEF Next, ShardStep, ReplayStep, FlushWrite, FlushActivate, FlushSend, FlushSalvage, FlushFinish,
           FlushSave, SaveWrite, SaveActivate, SaveReady, WriteTmp, Activate, ReplayTake, ReplaySend,
           ReplaySalvage, ReplayDone, ReplayQuarantine, ChDown, ChUp, Crash, New, NewFails, vars
      <4>3. UNCHANGED diskVars
        BY <1>2, <2>3, <4>1, <4>2
      <4>4. Held(b)' <=> Held(b)
        BY <4>3 DEF Held, diskVars
      <4>. QED BY <1>2, <4>4, QueuedNotHeld
    <3>3. to = "memory"
      BY <2>3, <3>1, <3>2, Custodian
    <3>. QED BY <2>1, <3>3 DEF D!Move, D!Handed
  <2>. QED BY <2>2, <2>3
<1>3. CASE b \notin pending /\ Held(b)
  <2>1. from = "disk" /\ b \notin pending'
    BY <1>1, <1>3, Custodian
  <2>2. CASE Held(b)'
    BY <2>1, <2>2, Custodian DEF D!Move
  <2>3. CASE ~Held(b)'
    <3>1. Rows(b) \subseteq db' /\ \A s \in Shards : held'[s] # b
      BY <1>3, <2>3, HeldKept
    <3>2. to = "none"
      BY <2>1, <2>3, <3>1, Custodian
    <3>. QED BY <2>1, <3>1, <3>2 DEF D!Move, D!Discharged
  <2>. QED BY <2>2, <2>3
<1>4. CASE b \notin pending /\ ~Held(b) /\ \E s \in Shards : held[s] = b
  <2>1. from = "memory" /\ b \notin pending'
    BY <1>1, <1>4, Custodian
  <2>2. CASE Held(b)'
    BY <2>1, <2>2, Custodian DEF D!Move, D!Handed
  <2>3. CASE ~Held(b)' /\ \E s \in Shards : held'[s] = b
    BY <2>1, <2>3, Custodian DEF D!Move
  <2>4. CASE ~Held(b)' /\ \A s \in Shards : held'[s] # b
    <3>1. (Rows(b) \subseteq db' \cup lost' \cup rejected') \/ b \in wiped'
      BY <1>4, <2>4, LetGo
    <3>2. to = "none"
      BY <2>1, <2>4, Custodian
    <3>3. (Rows(b) \subseteq db' \cup (lost \cup rejected)') \/ b \in wiped'
      BY <3>1
    <3>. QED BY <2>1, <3>2, <3>3 DEF D!Move, D!Discharged
  <2>. QED BY <2>2, <2>3, <2>4
<1>5. CASE b \notin pending /\ ~Held(b) /\ \A s \in Shards : held[s] # b
  <2>1. from = "none" /\ b \notin pending'
    BY <1>1, <1>5, Custodian
  <2>2. \A s \in Shards : held'[s] # b
    BY <1>5, Grows, WALAssumption
  <2>3. to \in {"disk", "none"}
    BY <2>1, <2>2, Custodian
  <2>. QED BY <2>1, <2>3 DEF D!Move, D!Resurfaced
<1>. QED BY <1>2, <1>3, <1>4, <1>5

LEMMA DeliveryNext ==
  ASSUME WALInv, Tidy, OneOwner, ~Dedup, Accounted, [Next]_vars
  PROVE  D!Next
<1>1. custody' \in [Batches -> {"queue", "memory", "disk", "none"}]
  BY DEF custody
<1>2. db \subseteq db' /\ lost \cup rejected \subseteq (lost \cup rejected)' /\ wiped \subseteq wiped'
  BY Grows
<1>3. ASSUME NEW s \in Shards, held[s] \in Batches PROVE custody[held[s]] \in {"memory", "disk"}
  BY <1>3, Custodian DEF OneOwner
<1>4. rname # 0 => content[rname] \in Batches /\ custody[content[rname]] = "disk"
  <2>. SUFFICES ASSUME rname # 0 PROVE content[rname] \in Batches /\ custody[content[rname]] = "disk"
    OBVIOUS
  <2>1. rname \in Names /\ loc[rname] = "ready" /\ content[rname] \in Batches
    BY DEF WALInv, ReplayOK, TypeOK
  <2>2. PICK b \in Batches : b = content[rname]
    BY <2>1
  <2>3. Held(b) /\ b \notin pending
    BY <2>1, <2>2 DEF Held, OneOwner, Tidy, OnDisk
  <2>. QED BY <2>2, <2>3, Custodian
<1>5. db' \ db \subseteq UNION {Rows(b) : b \in {c \in Batches : custody[c] \in {"memory", "disk"}}}
  BY <1>3, <1>4, Grows
<1>6. ASSUME NEW b \in wiped' \ wiped PROVE custody[b] = "memory"
  <2>1. Crash
    BY <1>6 DEF Next, ShardStep, ReplayStep, FlushBegin, FlushWrite, FlushActivate, FlushSend, FlushSalvage,
       FlushFinish, FlushSave, SaveWrite, SaveActivate, SaveReady, WriteTmp, Activate, ReplayTake, ReplaySend,
       ReplaySalvage, ReplayDone, ReplayQuarantine, ChDown, ChUp, New, NewFails, vars, ghostVars
  <2>2. PICK s \in Shards : /\ b = held[s] /\ held[s] # NoBatch
                            /\ \A n \in Names : ~(content[n] = held[s] /\ loc'[n] \in OnDisk)
    BY <1>6, <2>1 DEF Crash
  <2>3. b \in Batches /\ b \notin pending
    BY <2>2 DEF WALInv, TypeOK, OneOwner
  <2>4. ~Held(b)
    BY <2>1, <2>2, CrashEffect DEF Held
  <2>. QED BY <2>2, <2>3, <2>4, Custodian
<1>7. \A b \in Batches : D!Move(b)
  BY MoveNext
<1>. QED BY <1>1, <1>2, <1>5, <1>6, <1>7 DEF D!Next

\* On a table without deduplication the writer, for any batches, shards, faults and
\* crashes, is an implementation of Delivery: it hands each batch on, and lets go of
\* one only when its rows are delivered, told of, or lost with the process.
THEOREM WriterDelivers == ~Dedup => (Spec => Delivers)
<1>. DEFINE I == WALInv /\ Tidy /\ OneOwner /\ Accounted
<1>1. Init => D!Init
  <2>. SUFFICES ASSUME Init PROVE D!Init
    OBVIOUS
  <2>1. custody = [b \in Batches |-> "queue"]
    BY DEF custody, Init
  <2>. QED BY <2>1 DEF D!Init, Init
<1>2. Init => I
  <2>1. Init => Accounted
    BY DEF Init, Accounted
  <2>. QED BY <2>1, InitInv, OwnerInit
<1>3. ASSUME ~Dedup PROVE I /\ [Next]_vars => I'
  BY <1>3, NextInv, OwnerNext, AccountedNext
<1>4. ASSUME ~Dedup PROVE I /\ [Next]_vars => [D!Next]_(D!deliveryVars)
  BY <1>4, DeliveryNext
<1>5. ASSUME ~Dedup PROVE Spec => D!Spec
  <2>1. (I /\ [Next]_vars => I') /\ (I /\ [Next]_vars => [D!Next]_(D!deliveryVars))
    BY <1>3, <1>4, <1>5
  <2>. QED BY <1>1, <1>2, <2>1, PTL DEF Spec, D!Spec
<1>. QED BY <1>5 DEF Delivers

-----------------------------------------------------------------------------
(* The directory and its cap.                                              *)

DiskNames == {n \in Names : loc[n] \in OnDisk}
Reserving == {s \in Shards : pc[s] \in Writing \cup Activating}

\* Without disk faults the bytes counter is exact, and the flushes that have a name
\* but no file yet are within the slack of one per shard.
Bounded ==
  /\ \A n \in Names : past[n] = {}
  /\ up => nbytes = Cardinality(DiskNames)
  /\ Cardinality(DiskNames) + Cardinality(Reserving) <= MaxBytes + Cardinality(Shards) - 1

LEMMA BoundTypes ==
  /\ Cardinality(DiskNames) \in Nat /\ Cardinality(DiskNames') \in Nat
  /\ Cardinality(Reserving) \in Nat /\ Cardinality(Reserving') \in Nat /\ Cardinality(Shards) \in Nat
  /\ Cardinality(Reserving') <= Cardinality(Shards)
<1>1. Reserving \subseteq Shards /\ Reserving' \subseteq Shards
  BY DEF Reserving
<1>2. DiskNames \in SUBSET Names /\ DiskNames' \in SUBSET Names
  BY DEF DiskNames
<1>. QED BY <1>1, <1>2, NamesFinite, FS_Subset, FS_CardinalityType, WALAssumption

\* A step that opens no file and reserves no name.
LEMMA BoundShrinks ==
  ASSUME Bounded, \A n \in Names : past'[n] = {}, DiskNames' = DiskNames,
         nbytes' = nbytes, up \/ ~up', Reserving' \subseteq Reserving
  PROVE  Bounded'
<1>1. Cardinality(Reserving') <= Cardinality(Reserving)
  BY FS_Subset, WALAssumption DEF Reserving
<1>. QED BY <1>1, BoundTypes, WALAssumption DEF Bounded

\* A shard that has passed the check of Full.
LEMMA BoundReserve ==
  ASSUME Bounded, MaxBytes > 0, up, NEW s \in Shards, NEW step, Reserve(s, step), UNCHANGED <<up, diskVars>>,
         TypeOK
  PROVE  Bounded'
<1>1. DiskNames' = DiskNames /\ nbytes' = nbytes /\ nbytes < MaxBytes
  BY WALAssumption DEF Reserve, Full, DiskNames, diskVars, TypeOK
<1>2. \A n \in Names : past'[n] = {}
  BY DEF Bounded, diskVars
<1>. QED BY <1>1, <1>2, BoundTypes, WALAssumption DEF Bounded

\* A file leaves the directory and is taken off the counter.
LEMMA BoundRemoves ==
  ASSUME Bounded, TypeOK, up, \A n \in Names : past'[n] = {}, NEW n \in DiskNames,
         DiskNames' = DiskNames \ {n}, nbytes' = Minus1(nbytes), Reserving' \subseteq Reserving
  PROVE  Bounded'
<1>1. Cardinality(Reserving') <= Cardinality(Reserving)
  BY FS_Subset, WALAssumption DEF Reserving
<1>2. Cardinality(DiskNames') = Cardinality(DiskNames) - 1
  BY NamesFinite, FS_RemoveElement DEF DiskNames
<1>. QED BY <1>1, <1>2, BoundTypes, WALAssumption DEF Bounded, Minus1

\* Without disk faults a file that is moved is moved for good.
LEMMA BoundMove ==
  ASSUME Bounded, TypeOK, ~DiskFaults, up, NEW n \in DiskNames,
         Done(n) \/ Ready(n) \/ Quarantine(n), Reserving' \subseteq Reserving
  PROVE  Bounded'
<1>1. \A m \in Names : past'[m] = {}
  BY DEF Done, Ready, Quarantine, MoveFile, SyncDir, DiskError
<1>2. CASE Done(n)
  <2>1. loc' = [loc EXCEPT ![n] = "none"] /\ nbytes' = Minus1(nbytes)
    BY <1>2 DEF Done, MoveFile, DiskError
  <2>2. DiskNames' = DiskNames \ {n}
    BY <2>1 DEF DiskNames, TypeOK, OnDisk
  <2>. QED BY <1>1, <2>1, <2>2, BoundRemoves
<1>3. CASE Ready(n) \/ Quarantine(n)
  <2>1. loc' = [loc EXCEPT ![n] = "ready"] \/ loc' = [loc EXCEPT ![n] = "quarantine"]
    BY <1>3 DEF Ready, Quarantine, MoveFile
  <2>2. DiskNames' = DiskNames /\ nbytes' = nbytes
    BY <1>3, <2>1 DEF DiskNames, TypeOK, OnDisk, Ready, Quarantine, spoolVars
  <2>. QED BY <1>1, <2>2, BoundShrinks
<1>. QED BY <1>2, <1>3

LEMMA BoundNext ==
  ASSUME WALInv, ~DiskFaults, MaxBytes > 0, Bounded, [Next]_vars PROVE Bounded'
<1>. USE WALAssumption
<1>t. TypeOK
  BY DEF WALInv
<1>r. ASSUME NEW s \in Shards, Return(s) PROVE Reserving' \subseteq Reserving
  BY <1>r DEF Return, Goto, Reserving, Writing, Activating, WALInv, TypeOK
<1>g. ASSUME NEW s \in Shards, NEW x \in Steps, Goto(s, x), x \notin Writing \cup Activating \/ pc[s] \in Writing
      PROVE Reserving' \subseteq Reserving
  BY <1>g DEF Goto, Reserving, WALInv, TypeOK
<1>i. ASSUME UNCHANGED <<up, diskVars, spoolVars>>, Reserving' \subseteq Reserving PROVE Bounded'
  <2>1. DiskNames' = DiskNames /\ nbytes' = nbytes /\ \A n \in Names : past'[n] = {}
    BY <1>i DEF diskVars, spoolVars, DiskNames, Bounded
  <2>2. CASE up
    BY <1>i, <2>1, <2>2, BoundShrinks
  <2>3. CASE ~up
    BY <1>i, <2>1, <2>3, BoundShrinks
  <2>. QED BY <2>2, <2>3
<1>1. ASSUME NEW s \in Shards, FlushBegin(s) PROVE Bounded'
  <2>1. CASE Reserve(s, "write")
    BY <1>1, <1>t, <2>1, BoundReserve DEF FlushBegin
  <2>2. CASE Goto(s, "send") /\ UNCHANGED <<wal, spoolVars>>
    <3>1. Reserving' \subseteq Reserving
      BY <2>2, <1>g DEF Steps, Writing, Activating
    <3>. QED BY <1>1, <1>i, <2>2, <3>1 DEF FlushBegin
  <2>. QED BY <1>1, <2>1, <2>2 DEF FlushBegin
<1>2. ASSUME NEW s \in Shards, FlushSave(s) PROVE Bounded'
  <2>1. CASE Reserve(s, "saveWrite")
    BY <1>2, <1>t, <2>1, BoundReserve DEF FlushSave
  <2>2. CASE GiveUp(s) /\ UNCHANGED spoolVars
    BY <1>2, <1>i, <1>r, <2>2 DEF FlushSave, GiveUp
  <2>. QED BY <1>2, <2>1, <2>2 DEF FlushSave
<1>3. ASSUME NEW s \in Shards, FlushSend(s) PROVE Bounded'
  <2>1. Return(s) \/ \E x \in {"done", "salvage", "send", "save", "release"} : Goto(s, x)
    BY <1>3 DEF FlushSend
  <2>2. Reserving' \subseteq Reserving
    BY <1>r, <1>g, <2>1 DEF Steps, Writing, Activating
  <2>. QED BY <1>3, <1>i, <2>2 DEF FlushSend
<1>4. ASSUME NEW s \in Shards, FlushSalvage(s) PROVE Bounded'
  <2>1. Return(s) \/ \E x \in {"release", "quarantine"} : Goto(s, x)
    BY <1>4 DEF FlushSalvage
  <2>2. Reserving' \subseteq Reserving
    BY <1>r, <1>g, <2>1 DEF Steps, Writing, Activating
  <2>. QED BY <1>4, <1>i, <2>2 DEF FlushSalvage
<1>5. ASSUME NEW s \in Shards, FlushWrite(s) \/ SaveWrite(s) PROVE Bounded'
  <2>1. /\ up /\ pc[s] \in Writing /\ UNCHANGED <<up, past, spoolVars>>
        /\ loc' = [loc EXCEPT ![wal[s]] = "tmp"]
        /\ Goto(s, "activate") \/ Goto(s, "saveActivate")
    BY <1>5 DEF FlushWrite, SaveWrite, WriteTmp, Writing
  <2>2. wal[s] \in Names /\ loc[wal[s]] = "none"
    BY <2>1, OwnFile DEF WALInv, ShardOK, Writing
  <2>3. DiskNames' = DiskNames
    BY <2>1, <2>2 DEF DiskNames, OnDisk, WALInv, TypeOK
  <2>4. Reserving' \subseteq Reserving
    BY <1>g, <2>1 DEF Steps
  <2>. QED BY <2>1, <2>3, <2>4, BoundShrinks DEF Bounded, spoolVars
<1>6. ASSUME NEW s \in Shards, FlushActivate(s) \/ SaveActivate(s) PROVE Bounded'
  <2>1. /\ up /\ UNCHANGED up /\ pc[s] \in Activating /\ SyncDir /\ nbytes' = nbytes + 1
        /\ loc' = [loc EXCEPT ![wal[s]] = "active"]
        /\ Goto(s, "send") \/ Goto(s, "saveReady")
    BY <1>6 DEF FlushActivate, SaveActivate, Activate, Activating
  <2>2. wal[s] \in Names /\ loc[wal[s]] = "tmp"
    BY <2>1, OwnFile DEF WALInv, ShardOK, Activating
  <2>3. DiskNames' = DiskNames \cup {wal[s]} /\ wal[s] \notin DiskNames
    BY <2>1, <2>2 DEF DiskNames, OnDisk, WALInv, TypeOK
  <2>4. Reserving' = Reserving \ {s} /\ s \in Reserving
    BY <2>1 DEF Reserving, Goto, WALInv, TypeOK, Writing, Activating
  <2>5. Cardinality(DiskNames') = Cardinality(DiskNames) + 1
    BY <2>3, NamesFinite, FS_AddElement DEF DiskNames
  <2>6. Cardinality(Reserving') = Cardinality(Reserving) - 1
    <3>1. IsFiniteSet(Reserving)
      BY FS_Subset DEF Reserving
    <3>. QED BY <2>4, <3>1, FS_RemoveElement
  <2>7. \A n \in Names : past'[n] = {}
    BY <2>1 DEF SyncDir
  <2>. QED BY <2>1, <2>5, <2>6, <2>7, BoundTypes DEF Bounded
<1>7. ASSUME NEW s \in Shards, FlushFinish(s) \/ SaveReady(s) PROVE Bounded'
  <2>1. up /\ Return(s) /\ wal[s] \in DiskNames
    BY <1>7, FinishEffect DEF DiskNames, OnDisk
  <2>2. Done(wal[s]) \/ Ready(wal[s]) \/ Quarantine(wal[s])
    BY <1>7 DEF FlushFinish, SaveReady, DiskError, Ready, MoveFile
  <2>. QED BY <1>r, <1>t, <2>1, <2>2, BoundMove
<1>8. CASE ReplayDone \/ ReplayQuarantine
  <2>1. up /\ rname \in DiskNames /\ UNCHANGED shardVars
    BY <1>8, ReplayFile DEF ReplayDone, ReplayQuarantine, DiskNames, OnDisk
  <2>2. Done(rname) \/ Quarantine(rname)
    BY <1>8 DEF ReplayDone, ReplayQuarantine, DiskError
  <2>. QED BY <1>t, <2>1, <2>2, BoundMove DEF Reserving, shardVars
<1>9. CASE ReplayTake \/ ReplaySend \/ ReplaySalvage \/ ChDown \/ ChUp \/ UNCHANGED vars
  <2>1. UNCHANGED <<up, diskVars, spoolVars, shardVars>>
    BY <1>9 DEF ReplayTake, ReplaySend, ReplaySalvage, ChDown, ChUp, vars, diskVars, spoolVars, shardVars
  <2>. QED BY <1>i, <2>1 DEF Reserving, shardVars
<1>10. CASE Crash
  <2>1. \A n \in Names : loc'[n] = loc[n] /\ past'[n] = {}
    BY <1>10, CrashEffect DEF Bounded
  <2>2. DiskNames' = DiskNames /\ ~up' /\ Reserving' = {}
    BY <1>10, <2>1 DEF DiskNames, Crash, Reserving, Writing, Activating
  <2>3. Cardinality(Reserving') = 0
    BY <2>2, FS_EmptySet
  <2>. QED BY <2>1, <2>2, <2>3, BoundTypes DEF Bounded
<1>11. CASE New
  <2>1. DiskNames' = DiskNames
    BY <1>11 DEF New, Adopt, DiskNames, OnDisk, WALInv, TypeOK, Locs
  <2>2. nbytes' = Cardinality(DiskNames) /\ Reserving' = Reserving /\ \A n \in Names : past'[n] = {}
    BY <1>11 DEF New, DiskNames, shardVars, Reserving, SyncDir
  <2>. QED BY <2>1, <2>2, BoundTypes DEF Bounded
<1>12. ASSUME NEW s \in Shards, ShardStep(s) PROVE Bounded'
  BY <1>1, <1>2, <1>3, <1>4, <1>5, <1>6, <1>7, <1>12 DEF ShardStep
<1>. QED BY <1>8, <1>9, <1>10, <1>11, <1>12 DEF Next, ReplayStep, NewFails

\* Without disk faults the spool, quarantine included, outgrows maxBytes by at most
\* the flushes that had already passed the check, one per shard but one
\* (spool.go:176-183).
THEOREM SpoolBounded == Spec => []DiskBounded
<1>. DEFINE Capped == MaxBytes > 0 /\ ~DiskFaults
<1>1. ASSUME Capped PROVE Init => Bounded
  <2>. SUFFICES ASSUME Init PROVE Bounded
    OBVIOUS
  <2>1. DiskNames = {} /\ Reserving = {}
    BY DEF Init, DiskNames, Reserving, OnDisk, Writing, Activating
  <2>. QED BY <1>1, <2>1, FS_EmptySet, BoundTypes, WALAssumption DEF Init, Bounded
<1>2. ASSUME Capped PROVE (WALInv /\ Bounded) /\ [Next]_vars => (WALInv /\ Bounded)'
  BY <1>2, NextInv, BoundNext
<1>3. WALInv /\ Bounded => DiskBounded
  <2>. SUFFICES ASSUME Bounded PROVE DiskBounded
    OBVIOUS
  <2>1. Cardinality(DiskNames) <= MaxBytes + Cardinality(Shards) - 1
    BY BoundTypes, WALAssumption DEF Bounded
  <2>. QED BY <2>1 DEF DiskBounded, DiskNames
<1>4. CASE Capped
  <2>1. (Init => Bounded) /\ ((WALInv /\ Bounded) /\ [Next]_vars => (WALInv /\ Bounded)')
    BY <1>1, <1>2, <1>4
  <2>. QED BY <1>3, <2>1, InitInv, PTL DEF Spec
<1>5. CASE ~Capped
  <2>1. DiskBounded
    BY <1>5 DEF DiskBounded
  <2>. QED BY <2>1, PTL
<1>. QED BY <1>4, <1>5

-----------------------------------------------------------------------------
(* Tokens and duplicates.                                                  *)

\* File n, or the flush that has its name, may send batch b, now or after a crash.
Alive(n) == ({loc[n]} \cup past[n]) \cap OnDisk # {}
Carries(n, b) == (content[n] = b /\ Alive(n)) \/ \E s \in Shards : wal[s] = n /\ held[s] = b

\* The token under which a row travels: that of its batch, or its own in a batch that
\* cannot be encoded as a whole.
TokenOf(n, b, r) == <<n, IF Bad(b) THEN r[2] ELSE 0>>

\* A batch that has never been sent without a token travels under one name, and the
\* table remembers the tokens of its rows; so do the batches in the queues, of which
\* nothing is stored.
TokensSeen ==
  /\ \A r \in dups : r[1] \in bare
  /\ \A b \in Batches \ bare :
       /\ b \in pending => Rows(b) \cap db = {}
       /\ \A n, m \in Names : Carries(n, b) /\ Carries(m, b) => n = m
       /\ \A n \in Names : Carries(n, b) => \A r \in Rows(b) \cap db : TokenOf(n, b, r) \in seen

\* Only a batch that cannot be encoded is salvaged, and only one that was sent
\* without a token is saved.
Saving == {"save", "saveWrite", "saveActivate", "saveReady"}
CallsOK ==
  /\ \A s \in Shards :
       /\ pc[s] = "salvage" => Bad(held[s]) /\ (wal[s] = 0 => held[s] \in bare)
       /\ pc[s] \in Saving => held[s] \in bare
  /\ rpc = "salvage" => Bad(content[rname])

\* Rows of different batches differ.
LEMMA RowsApart ==
  ASSUME NEW b, NEW r \in Rows(b) PROVE r[1] = b /\ r[2] \in RowIdx
BY DEF Rows

\* What a call about batch b under the name n does to the table.
LEMMA CallOnce ==
  ASSUME Dedup, TypeOK, TokensSeen, NEW b \in Batches, b \notin pending, NEW n \in Names \cup {0},
         bare \subseteq bare', pending' = pending,
         b \in bare' \/ (n \in Names /\ Carries(n, b)),
         \A m \in Names, c \in Batches : Carries(m, c)' => Carries(m, c),
         \/ UNCHANGED dbVars
         \/ ~Bad(b) /\ Insert(Rows(b), DedupToken(n, 0))
         \/ Bad(b) /\ \E rows \in SUBSET Rows(b) : InsertRows(rows, n)
  PROVE  TokensSeen'
<1>. USE WALAssumption
<1>1. PICK added \in SUBSET Rows(b) :
        /\ db' = db \cup added /\ dups' = dups \cup (db \cap added) /\ seen \subseteq seen'
        /\ n # 0 => \A r \in added : TokenOf(n, b, r) \notin seen /\ TokenOf(n, b, r) \in seen'
  <2>1. CASE UNCHANGED dbVars
    <3>1. {} \in SUBSET Rows(b) /\ db' = db \cup {} /\ dups' = dups \cup (db \cap {}) /\ seen \subseteq seen'
      BY <2>1 DEF dbVars
    <3>. QED BY <3>1
  <2>2. CASE ~Bad(b) /\ Insert(Rows(b), DedupToken(n, 0))
    <3>1. CASE Suppressed(DedupToken(n, 0))
      BY <2>1, <2>2, <3>1 DEF Insert
    <3>2. CASE ~Suppressed(DedupToken(n, 0))
      <4>1. /\ db' = db \cup Rows(b) /\ dups' = dups \cup (db \cap Rows(b))
            /\ seen' = seen \cup DedupToken(n, 0)
        BY <2>2, <3>2 DEF Insert, Commit
      <4>2. n # 0 => <<n, 0>> \notin seen /\ <<n, 0>> \in seen'
        BY <3>2, <4>1 DEF DedupToken, Suppressed
      <4>3. n # 0 => \A r \in Rows(b) : TokenOf(n, b, r) \notin seen /\ TokenOf(n, b, r) \in seen'
        BY <2>2, <4>2 DEF TokenOf
      <4>. QED BY <4>1, <4>3
    <3>. QED BY <3>1, <3>2
  <2>3. ASSUME NEW rows \in SUBSET Rows(b), Bad(b), InsertRows(rows, n)
        PROVE  \E added \in SUBSET Rows(b) :
                 /\ db' = db \cup added /\ dups' = dups \cup (db \cap added) /\ seen \subseteq seen'
                 /\ n # 0 => \A r \in added : TokenOf(n, b, r) \notin seen /\ TokenOf(n, b, r) \in seen'
    <3>. DEFINE fresh == {r \in rows : ~Suppressed(DedupToken(n, r[2]))}
    <3>1. /\ db' = db \cup fresh /\ dups' = dups \cup (db \cap fresh)
          /\ seen' = seen \cup UNION {DedupToken(n, r[2]) : r \in fresh}
      BY <2>3 DEF InsertRows, Commit
    <3>2. ASSUME NEW r \in fresh, n # 0 PROVE TokenOf(n, b, r) \notin seen /\ TokenOf(n, b, r) \in seen'
      <4>1. DedupToken(n, r[2]) = {<<n, r[2]>>} /\ TokenOf(n, b, r) = <<n, r[2]>>
        BY <2>3, <3>2 DEF DedupToken, TokenOf
      <4>2. ~({<<n, r[2]>>} \subseteq seen)
        BY <4>1, <3>2 DEF Suppressed
      <4>3. <<n, r[2]>> \in UNION {DedupToken(n, x[2]) : x \in fresh}
        BY <4>1
      <4>. QED BY <3>1, <4>1, <4>2, <4>3
    <3>. QED BY <3>1, <3>2
  <2>. QED BY <2>1, <2>2, <2>3
<1>2. \A r \in dups' : r[1] \in bare'
  <2>. SUFFICES ASSUME NEW r \in db \cap added, b \notin bare' PROVE FALSE
    BY <1>1, RowsApart DEF TokensSeen
  <2>1. n \in Names /\ Carries(n, b) /\ b \notin bare /\ n # 0
    BY DEF Names
  <2>2. TokenOf(n, b, r) \in seen
    BY <1>1, <2>1 DEF TokensSeen
  <2>. QED BY <1>1, <2>1, <2>2
<1>3. ASSUME NEW c \in Batches, c \notin bare'
      PROVE  /\ c \in pending' => Rows(c) \cap db' = {}
             /\ \A k, m \in Names : Carries(k, c)' /\ Carries(m, c)' => k = m
             /\ \A m \in Names : Carries(m, c)' => \A r \in Rows(c) \cap db' : TokenOf(m, c, r) \in seen'
  <2>0. c \notin bare
    BY <1>3
  <2>1. c # b => Rows(c) \cap db' = Rows(c) \cap db
    BY <1>1, RowsApart
  <2>2. c \in pending' => Rows(c) \cap db' = {}
    BY <2>0, <2>1 DEF TokensSeen
  <2>3. \A k, m \in Names : Carries(k, c)' /\ Carries(m, c)' => k = m
    BY <2>0 DEF TokensSeen
  <2>4. ASSUME NEW m \in Names, Carries(m, c)', NEW r \in Rows(c) \cap db' PROVE TokenOf(m, c, r) \in seen'
    <3>1. Carries(m, c)
      BY <2>4
    <3>2. r \in db => TokenOf(m, c, r) \in seen'
      BY <1>1, <2>0, <2>4, <3>1 DEF TokensSeen
    <3>3. ASSUME r \notin db PROVE TokenOf(m, c, r) \in seen'
      <4>1. c = b /\ r \in added
        BY <1>1, <2>1, <2>4, <3>3
      <4>2. n \in Names /\ Carries(n, b) /\ n # 0
        BY <1>3, <4>1 DEF Names
      <4>3. m = n
        BY <2>0, <3>1, <4>1, <4>2 DEF TokensSeen
      <4>. QED BY <1>1, <4>1, <4>2, <4>3
    <3>. QED BY <3>2, <3>3
  <2>. QED BY <2>2, <2>3, <2>4
<1>. QED BY <1>2, <1>3 DEF TokensSeen

\* Only Begin and Save give a shard a name.
NoNewName == \A t \in Shards : wal'[t] # 0 => wal'[t] = wal[t] /\ held'[t] \in {held[t], NoBatch}

LEMMA Unnamed ==
  ASSUME WALInv, NEW s \in Shards, UNCHANGED <<held, wal>> \/ Return(s) \/ Unprotected(s)
  PROVE  NoNewName
BY DEF NoNewName, Return, Unprotected, WALInv, TypeOK

LEMMA CallUnnamed ==
  ASSUME WALInv, NEW s \in Shards, FlushSend(s) \/ FlushSalvage(s) PROVE NoNewName
BY Unnamed DEF FlushSend, FlushSalvage

LEMMA WalKept ==
  ASSUME WALInv, [Next]_vars, \A s \in Shards : ~FlushBegin(s) /\ ~FlushSave(s) PROVE NoNewName
<1>1. ASSUME NEW s \in Shards, ShardStep(s) PROVE NoNewName
  <2>1. FlushWrite(s) \/ SaveWrite(s) \/ FlushActivate(s) \/ SaveActivate(s) => NoNewName
    BY Unnamed DEF FlushWrite, SaveWrite, WriteTmp, FlushActivate, SaveActivate, Activate, GiveUp
  <2>2. FlushFinish(s) \/ SaveReady(s) => NoNewName
    BY Unnamed DEF FlushFinish, SaveReady, GiveUp
  <2>. QED BY <1>1, <2>1, <2>2, CallUnnamed DEF ShardStep
<1>2. CASE Crash
  BY <1>2 DEF Crash, NoNewName
<1>3. CASE ReplayStep \/ ChDown \/ ChUp \/ New \/ NewFails \/ UNCHANGED vars
  BY <1>3 DEF ReplayStep, ReplayTake, ReplaySend, ReplaySalvage, ReplayDone, ReplayQuarantine, ChDown,
     ChUp, New, NewFails, shardVars, vars, NoNewName
<1>. QED BY <1>1, <1>2, <1>3 DEF Next

\* A name on disk has carried its batch since Begin or Save.
LEMMA CarriesKept ==
  ASSUME WALInv, Tidy, [Next]_vars, NoNewName,
         NEW m \in Names, NEW c \in Batches, Carries(m, c)'
  PROVE  Carries(m, c)
<1>. USE WALAssumption
<1>. DEFINE Goal == Carries(m, c)
<1>1. ASSUME NEW s \in Shards, wal'[s] = m, held'[s] = c PROVE Goal
  <2>1. wal'[s] # 0
    BY <1>1 DEF Names
  <2>2. wal'[s] = wal[s] /\ held'[s] \in {held[s], NoBatch}
    BY <2>1 DEF NoNewName
  <2>. QED BY <1>1, <2>2 DEF Carries
<1>2. ASSUME content'[m] = c, Alive(m)' PROVE Goal
  <2>0. loc'[m] \in OnDisk \/ past'[m] \cap OnDisk # {}
    BY <1>2 DEF Alive
  <2>1. CASE DiskIdle
    BY <1>2, <2>0, <2>1, DiskIdleEffect DEF diskVars, Carries, Alive
  <2>2. ASSUME NEW s \in Shards, FlushWrite(s) \/ SaveWrite(s) \/ FlushActivate(s) \/ SaveActivate(s)
        PROVE  Goal
    <3>1. CASE m = wal[s]
      <4>1. held[s] = c \/ content[m] = c
        BY <1>2, <2>2, <3>1, WriteEffect
      <4>2. content[m] = c => held[s] = c
        <5>1. CASE FlushWrite(s) \/ SaveWrite(s)
          <6>1. pc[s] \in Writing /\ UNCHANGED past
            BY <5>1 DEF FlushWrite, SaveWrite, WriteTmp, Writing
          <6>2. loc[m] = "none" /\ past[m] = {}
            BY <3>1, <6>1, WriteEffect, <2>2, OwnFile DEF Names
          <6>3. loc'[m] \in OnDisk
            BY <2>0, <6>1, <6>2
          <6>4. (loc' = [loc EXCEPT ![wal[s]] = "tmp"]) \/ UNCHANGED loc
            BY <5>1 DEF FlushWrite, SaveWrite, WriteTmp
          <6>. QED BY <3>1, <6>2, <6>3, <6>4 DEF OnDisk, WALInv, TypeOK
        <5>2. CASE FlushActivate(s) \/ SaveActivate(s)
          <6>1. pc[s] \in Activating
            BY <5>2 DEF FlushActivate, SaveActivate, Activate, Activating
          <6>. QED BY <3>1, <6>1, WriteEffect, <2>2, OwnFile DEF Names
        <5>. QED BY <2>2, <5>1, <5>2
      <4>. QED BY <3>1, <4>1, <4>2 DEF Carries
    <3>2. CASE m # wal[s]
      BY <1>2, <2>0, <2>2, <3>2, WriteEffect DEF Others, Carries, Alive
    <3>. QED BY <3>1, <3>2
  <2>3. ASSUME NEW s \in Shards, FlushFinish(s) \/ SaveReady(s) PROVE Goal
    BY <1>2, <2>0, <2>3, FinishEffect DEF Others, Carries, Alive, OnDisk
  <2>4. CASE ReplayTake \/ ReplayDone \/ ReplayQuarantine
    BY <1>2, <2>0, <2>4, ReplayEffect DEF Others, Carries, Alive, OnDisk
  <2>5. CASE Crash
    BY <1>2, <2>0, <2>5, CrashEffect DEF Carries, Alive
  <2>6. CASE New \/ NewFails
    <3>1. loc[m] \in OnDisk \/ past[m] \cap OnDisk # {}
      BY <2>0, <2>6 DEF New, NewFails, Adopt, OnDisk, SyncDir
    <3>2. UNCHANGED content
      BY <2>6 DEF New, NewFails
    <3>. QED BY <1>2, <3>1, <3>2 DEF Carries, Alive
  <2>. QED BY <2>1, <2>2, <2>3, <2>4, <2>5, <2>6, StepKinds
<1>3. Goal
  BY <1>1, <1>2 DEF Carries
<1>. QED BY <1>3 DEF Goal

\* A shard moves on alone, and what was sent without a token stays so.
LEMMA CallsFrame ==
  ASSUME WALInv, CallsOK, NEW s \in Shards, bare \subseteq bare',
         \A t \in Shards \ {s} : pc'[t] = pc[t] /\ held'[t] = held[t] /\ wal'[t] = wal[t],
         rpc' = rpc, rname' = rname, \A n \in Names : loc[n] = "ready" => content'[n] = content[n],
         /\ pc'[s] = "salvage" => Bad(held'[s]) /\ (wal'[s] = 0 => held'[s] \in bare')
         /\ pc'[s] \in Saving => held'[s] \in bare'
  PROVE  CallsOK'
<1>1. \A t \in Shards : /\ pc'[t] = "salvage" => Bad(held'[t]) /\ (wal'[t] = 0 => held'[t] \in bare')
                        /\ pc'[t] \in Saving => held'[t] \in bare'
  BY DEF CallsOK
<1>2. rpc = "salvage" => content'[rname] = content[rname]
  BY DEF WALInv, ReplayOK, TypeOK
<1>. QED BY <1>1, <1>2 DEF CallsOK

LEMMA CallsNext ==
  ASSUME WALInv, Tidy, CallsOK, [Next]_vars PROVE CallsOK'
<1>. USE WALAssumption
<1>1. ASSUME NEW s \in Shards, FlushBegin(s) PROVE CallsOK'
  BY <1>1, CallsFrame DEF FlushBegin, Reserve, Goto, WALInv, TypeOK, diskVars, replayVars,
     ghostVars, Saving
<1>r. ASSUME NEW s \in Shards, Return(s), UNCHANGED replayVars, bare \subseteq bare',
             \A n \in Names : loc[n] = "ready" => content'[n] = content[n]
      PROVE  CallsOK'
  BY <1>r, CallsFrame DEF Return, Goto, WALInv, TypeOK, replayVars, Saving
<1>g. ASSUME NEW s \in Shards, NEW step, Goto(s, step), held' = held,
             wal' = wal \/ (wal' = [wal EXCEPT ![s] = 0] /\ step # "salvage"),
             UNCHANGED replayVars, bare \subseteq bare',
             \A n \in Names : loc[n] = "ready" => content'[n] = content[n],
             step = "salvage" => Bad(held[s]) /\ (wal[s] = 0 => held[s] \in bare'),
             step \in Saving => held[s] \in bare'
      PROVE  CallsOK'
  <2>1. /\ \A t \in Shards \ {s} : pc'[t] = pc[t] /\ held'[t] = held[t] /\ wal'[t] = wal[t]
        /\ pc'[s] = step /\ (step = "salvage" => wal' = wal)
    BY <1>g DEF Goto, WALInv, TypeOK
  <2>2. rpc' = rpc /\ rname' = rname
    BY <1>g DEF replayVars
  <2>. QED BY <1>g, <2>1, <2>2, CallsFrame
<1>2. ASSUME NEW s \in Shards, FlushWrite(s) \/ SaveWrite(s) \/ FlushActivate(s) \/ SaveActivate(s)
      PROVE  CallsOK'
  <2>1. UNCHANGED <<replayVars, bare>>
    BY <1>2 DEF FlushWrite, SaveWrite, WriteTmp, FlushActivate, SaveActivate, Activate
  <2>2. \A n \in Names : loc[n] = "ready" => content'[n] = content[n]
    BY <1>2, WriteEffect DEF Others
  <2>3. \/ Unprotected(s) \/ GiveUp(s)
        \/ UNCHANGED <<held, wal>> /\ (Goto(s, "activate") \/ Goto(s, "send"))
        \/ /\ UNCHANGED <<held, wal>> /\ pc[s] \in Saving
           /\ Goto(s, "saveActivate") \/ Goto(s, "saveReady")
    BY <1>2 DEF FlushWrite, SaveWrite, WriteTmp, FlushActivate, SaveActivate, Activate, Saving
  <2>4. CASE GiveUp(s)
    BY <1>r, <2>1, <2>2, <2>4 DEF GiveUp
  <2>5. CASE ~GiveUp(s)
    <3>1. pc[s] \in Saving => held[s] \in bare'
      BY <2>1 DEF CallsOK
    <3>2. \A l \in {"activate", "send"} : l # "salvage" /\ l \notin Saving
      BY DEF Saving
    <3>3. CASE Unprotected(s)
      BY <1>g, <2>1, <2>2, <3>2, <3>3 DEF Unprotected
    <3>4. CASE UNCHANGED <<held, wal>> /\ (Goto(s, "activate") \/ Goto(s, "send"))
      BY <1>g, <2>1, <2>2, <3>2, <3>4
    <3>5. CASE /\ UNCHANGED <<held, wal>> /\ pc[s] \in Saving
               /\ Goto(s, "saveActivate") \/ Goto(s, "saveReady")
      BY <1>g, <2>1, <2>2, <3>1, <3>5
    <3>. QED BY <2>3, <2>5, <3>3, <3>4, <3>5
  <2>. QED BY <2>4, <2>5
<1>3. ASSUME NEW s \in Shards, FlushSend(s) PROVE CallsOK'
  <2>1. /\ UNCHANGED <<replayVars, content>> /\ bare \subseteq bare'
        /\ wal[s] = 0 => held[s] \in bare'
    BY <1>3 DEF FlushSend, diskVars
  <2>2. \/ Return(s)
        \/ /\ UNCHANGED <<held, wal>>
           /\ \/ Goto(s, "done") \/ Goto(s, "send") \/ Goto(s, "release")
              \/ Goto(s, "salvage") /\ Bad(held[s])
              \/ Goto(s, "save") /\ wal[s] = 0
    BY <1>3 DEF FlushSend, SendRefused
  <2>3. CASE Return(s)
    BY <1>r, <2>1, <2>3
  <2>4. CASE ~Return(s)
    BY <1>g, <2>1, <2>2, <2>4 DEF Saving
  <2>. QED BY <2>3, <2>4
<1>4. ASSUME NEW s \in Shards, FlushSalvage(s) PROVE CallsOK'
  <2>1. UNCHANGED <<replayVars, content, bare>>
    BY <1>4 DEF FlushSalvage, diskVars
  <2>2. Return(s) \/ (UNCHANGED <<held, wal>> /\ (Goto(s, "release") \/ Goto(s, "quarantine")))
    BY <1>4 DEF FlushSalvage
  <2>3. CASE Return(s)
    BY <1>r, <2>1, <2>3
  <2>4. CASE ~Return(s)
    BY <1>g, <2>1, <2>2, <2>4 DEF Saving
  <2>. QED BY <2>3, <2>4
<1>5. ASSUME NEW s \in Shards, FlushFinish(s) \/ SaveReady(s) PROVE CallsOK'
  <2>1. Return(s) /\ UNCHANGED <<content, bare, replayVars>>
    BY <1>5, FinishEffect DEF FlushFinish, SaveReady
  <2>. QED BY <1>r, <2>1
<1>6. ASSUME NEW s \in Shards, FlushSave(s) PROVE CallsOK'
  <2>1. UNCHANGED <<replayVars, content, bare>> /\ pc[s] = "save"
    BY <1>6 DEF FlushSave, diskVars
  <2>2. CASE GiveUp(s)
    BY <1>r, <2>1, <2>2 DEF GiveUp
  <2>3. CASE Reserve(s, "saveWrite") /\ UNCHANGED held
    BY <2>1, <2>3, CallsFrame DEF Reserve, Goto, WALInv, TypeOK, replayVars, Saving, CallsOK
  <2>. QED BY <1>6, <2>2, <2>3 DEF FlushSave
<1>7. CASE ReplayStep
  <2>1. UNCHANGED <<shardVars, bare>> /\ (rpc' = "salvage" => rpc = "send" /\ SendRefused(content[rname]))
        /\ (rpc' = "salvage" => UNCHANGED <<content, rname>>)
    BY <1>7 DEF ReplayStep, ReplayTake, ReplaySend, ReplaySalvage, ReplayDone, ReplayQuarantine, RGoto,
       CountFailure, diskVars, ghostVars
  <2>. QED BY <2>1 DEF CallsOK, shardVars, SendRefused
<1>8. CASE Crash
  BY <1>8 DEF Crash, RGoto, CallsOK, Saving
<1>9. CASE ChDown \/ ChUp \/ New \/ NewFails \/ UNCHANGED vars
  <2>1. UNCHANGED <<shardVars, bare, content, rname, rpc>>
    BY <1>9 DEF ChDown, ChUp, New, NewFails, diskVars, replayVars, ghostVars, vars, shardVars
  <2>. QED BY <2>1 DEF CallsOK, shardVars
<1>10. ASSUME NEW s \in Shards, ShardStep(s) PROVE CallsOK'
  BY <1>1, <1>2, <1>3, <1>4, <1>5, <1>6, <1>10 DEF ShardStep
<1>. QED BY <1>7, <1>8, <1>9, <1>10 DEF Next

\* Begin gives a batch from the queues its first name; Save gives a second one only
\* to a batch that has been sent without a token.
LEMMA NamesBatch ==
  ASSUME WALInv, OneOwner, CallsOK, TokensSeen, NEW s \in Shards, FlushBegin(s) \/ FlushSave(s)
  PROVE  TokensSeen'
<1>. USE WALAssumption
<1>1. PICK c \in Batches, n \in Nat :
        /\ n > seq
        /\ \A m \in Names, d \in Batches : Carries(m, d)' => Carries(m, d) \/ (d = c /\ m = n)
        /\ c \in bare \/ (c \in pending /\ c \notin pending')
        /\ UNCHANGED <<dbVars, bare>> /\ pending' \subseteq pending
  <2>0. seq \in Nat /\ seq + 1 \in Nat /\ seq + 1 > seq
    BY DEF WALInv, TypeOK
  <2>1. CASE FlushBegin(s)
    <3>1. PICK b \in pending : pending' = pending \ {b} /\ held' = [held EXCEPT ![s] = b]
      BY <2>1 DEF FlushBegin
    <3>2. b \in Batches /\ UNCHANGED <<diskVars, dbVars, bare>> /\ wal[s] = 0
      BY <2>1 DEF FlushBegin, WALInv, TypeOK, ShardOK, ghostVars
    <3>3. wal' = wal \/ wal' = [wal EXCEPT ![s] = seq + 1]
      BY <2>1 DEF FlushBegin, Reserve
    <3>4. ASSUME NEW m \in Names, NEW d \in Batches, Carries(m, d)'
          PROVE  Carries(m, d) \/ (d = b /\ m = seq + 1)
      <4>1. content'[m] = d /\ Alive(m)' => Carries(m, d)
        BY <3>2 DEF diskVars, Carries, Alive
      <4>2. ASSUME NEW t \in Shards, wal'[t] = m, held'[t] = d
            PROVE  Carries(m, d) \/ (d = b /\ m = seq + 1)
        <5>1. CASE t = s
          BY <3>1, <3>2, <3>3, <4>2, <5>1 DEF WALInv, TypeOK, Names
        <5>2. CASE t # s
          BY <3>1, <3>3, <4>2, <5>2 DEF WALInv, TypeOK, Carries
        <5>. QED BY <5>1, <5>2
      <4>. QED BY <3>4, <4>1, <4>2 DEF Carries
    <3>. QED BY <2>0, <3>1, <3>2, <3>4
  <2>2. CASE FlushSave(s)
    <3>1. /\ held[s] \in Batches /\ held[s] \in bare /\ wal[s] = 0
          /\ UNCHANGED <<diskVars, dbVars, bare, pending>>
      BY <2>2 DEF FlushSave, WALInv, ShardOK, CallsOK, Saving
    <3>2. \/ UNCHANGED held /\ wal' = [wal EXCEPT ![s] = seq + 1]
          \/ held' = [held EXCEPT ![s] = NoBatch] /\ wal' = [wal EXCEPT ![s] = 0]
      BY <2>2 DEF FlushSave, Reserve, GiveUp, Return
    <3>3. ASSUME NEW m \in Names, NEW d \in Batches, Carries(m, d)'
          PROVE  Carries(m, d) \/ (d = held[s] /\ m = seq + 1)
      <4>1. content'[m] = d /\ Alive(m)' => Carries(m, d)
        BY <3>1 DEF diskVars, Carries, Alive
      <4>2. ASSUME NEW t \in Shards, wal'[t] = m, held'[t] = d
            PROVE  Carries(m, d) \/ (d = held[s] /\ m = seq + 1)
        <5>1. CASE t = s
          BY <3>1, <3>2, <4>2, <5>1 DEF WALInv, TypeOK, Names
        <5>2. CASE t # s
          BY <3>2, <4>2, <5>2 DEF WALInv, TypeOK, Carries
        <5>. QED BY <5>1, <5>2
      <4>. QED BY <3>3, <4>1, <4>2 DEF Carries
    <3>. QED BY <2>0, <3>1, <3>3
  <2>. QED BY <2>1, <2>2
<1>2. c \in pending => \A m \in Names : ~Carries(m, c)
  BY DEF OneOwner, Carries
<1>3. UNCHANGED <<db, dups, seen>>
  BY <1>1 DEF dbVars
<1>4. ASSUME NEW d \in Batches, d \notin bare'
      PROVE  /\ d \in pending' => Rows(d) \cap db' = {}
             /\ \A k, m \in Names : Carries(k, d)' /\ Carries(m, d)' => k = m
             /\ \A m \in Names : Carries(m, d)' => \A r \in Rows(d) \cap db' : TokenOf(m, d, r) \in seen'
  <2>1. /\ d \in pending => Rows(d) \cap db = {}
        /\ \A k, m \in Names : Carries(k, d) /\ Carries(m, d) => k = m
        /\ \A m \in Names : Carries(m, d) => \A r \in Rows(d) \cap db : TokenOf(m, d, r) \in seen
    BY <1>1, <1>4 DEF TokensSeen
  <2>2. CASE d # c
    BY <1>1, <1>3, <2>1, <2>2
  <2>3. CASE d = c
    <3>1. d \in pending /\ d \notin pending' /\ Rows(d) \cap db' = {}
      BY <1>1, <1>3, <1>4, <2>1, <2>3
    <3>2. \A m \in Names : Carries(m, d)' => m = n
      BY <1>1, <1>2, <2>3, <3>1
    <3>. QED BY <3>1, <3>2
  <2>. QED BY <2>2, <2>3
<1>5. \A r \in dups' : r[1] \in bare'
  BY <1>1, <1>3 DEF TokensSeen
<1>. QED BY <1>4, <1>5 DEF TokensSeen

\* A call of the writer about the batch of a file, or about a batch without one.
LEMMA CallTokens ==
  ASSUME WALInv, Tidy, OneOwner, CallsOK, [Next]_vars, NEW s \in Shards,
         FlushSend(s) \/ FlushSalvage(s), Dedup, TokensSeen
  PROVE  TokensSeen'
<1>. USE WALAssumption
<1>1. PICK b \in Batches : b = held[s]
  BY DEF FlushSend, FlushSalvage, WALInv, ShardOK
<1>2. PICK n \in Names \cup {0} : n = wal[s]
  BY DEF WALInv, TypeOK
<1>3. /\ b \notin pending /\ pending' = pending /\ bare \subseteq bare'
      /\ b \in bare' \/ n # 0
  BY <1>1, <1>2 DEF FlushSend, FlushSalvage, OneOwner, CallsOK
<1>4. n # 0 => n \in Names /\ Carries(n, b)
  BY <1>1, <1>2 DEF Carries
<1>5. \A m \in Names, d \in Batches : Carries(m, d)' => Carries(m, d)
  BY CallUnnamed, CarriesKept
<1>6. CASE FlushSend(s)
  <2>1. UNCHANGED dbVars \/ (~Bad(b) /\ Insert(Rows(b), DedupToken(n, 0)))
    BY <1>1, <1>2, <1>6 DEF FlushSend, SendAcked, SendRefused, SendFailed
  <2>. QED BY <1>3, <1>4, <1>5, <2>1, CallOnce DEF WALInv
<1>7. CASE FlushSalvage(s)
  <2>1. Bad(b)
    BY <1>1, <1>7 DEF FlushSalvage, CallsOK
  <2>2. PICK F \in SUBSET Rows(b), L \in SUBSET Rows(b) : Salvage(b, n, F, L)
    BY <1>1, <1>2, <1>7 DEF FlushSalvage
  <2>3. \E rows \in SUBSET Rows(b) : InsertRows(rows, n)
    BY <2>2 DEF Salvage, Good
  <2>. QED BY <1>3, <1>4, <1>5, <2>1, <2>3, CallOnce DEF WALInv
<1>. QED BY <1>6, <1>7

LEMMA ReplayTokens ==
  ASSUME WALInv, Tidy, OneOwner, CallsOK, [Next]_vars, ReplaySend \/ ReplaySalvage, Dedup, TokensSeen
  PROVE  TokensSeen'
<1>. USE WALAssumption
<1>1. rname \in Names /\ rname # 0 /\ content[rname] \in Batches /\ loc[rname] = "ready"
  BY DEF ReplaySend, ReplaySalvage, WALInv, ReplayOK, TypeOK
<1>2. PICK n \in Names : n = rname
  BY <1>1
<1>3. PICK b \in Batches : b = content[n]
  BY <1>1, <1>2
<1>4. /\ b \notin pending /\ pending' = pending /\ bare \subseteq bare' /\ NoNewName
  BY <1>2, <1>3 DEF ReplaySend, ReplaySalvage, OneOwner, ghostVars, shardVars, NoNewName
<1>5. Carries(n, b)
  BY <1>1, <1>2, <1>3 DEF Carries, Alive, OnDisk
<1>6. \A m \in Names, d \in Batches : Carries(m, d)' => Carries(m, d)
  BY <1>4, CarriesKept
<1>7. CASE ReplaySend
  <2>1. UNCHANGED dbVars \/ (~Bad(b) /\ Insert(Rows(b), DedupToken(n, 0)))
    BY <1>2, <1>3, <1>7 DEF ReplaySend, SendAcked, SendRefused, SendFailed
  <2>. QED BY <1>4, <1>5, <1>6, <2>1, CallOnce DEF WALInv
<1>8. CASE ReplaySalvage
  <2>1. Bad(b)
    BY <1>2, <1>3, <1>8 DEF ReplaySalvage, CallsOK
  <2>2. PICK F \in SUBSET Rows(b), L \in SUBSET Rows(b) : Salvage(b, n, F, L)
    BY <1>2, <1>3, <1>8 DEF ReplaySalvage
  <2>3. \E rows \in SUBSET Rows(b) : InsertRows(rows, n)
    BY <2>2 DEF Salvage, Good
  <2>. QED BY <1>4, <1>5, <1>6, <2>1, <2>3, CallOnce DEF WALInv
<1>. QED BY <1>7, <1>8

LEMMA TokensNext ==
  ASSUME WALInv, Tidy, OneOwner, CallsOK, [Next]_vars, Dedup, TokensSeen PROVE TokensSeen'
<1>1. CASE \E s \in Shards : FlushBegin(s) \/ FlushSave(s)
  BY <1>1, NamesBatch
<1>2. CASE ReplaySend \/ ReplaySalvage \/ \E s \in Shards : FlushSend(s) \/ FlushSalvage(s)
  BY <1>2, CallTokens, ReplayTokens
<1>3. CASE /\ ~ReplaySend /\ ~ReplaySalvage
           /\ \A s \in Shards : ~FlushBegin(s) /\ ~FlushSave(s) /\ ~FlushSend(s) /\ ~FlushSalvage(s)
  <2>1. UNCHANGED <<dbVars, bare, pending>>
    <3>1. ASSUME NEW s \in Shards, ShardStep(s) PROVE UNCHANGED <<dbVars, bare, pending>>
      BY <1>3, <3>1 DEF ShardStep, FlushWrite, SaveWrite, WriteTmp, FlushActivate, SaveActivate,
         Activate, FlushFinish, SaveReady, ghostVars
    <3>2. ReplayStep => UNCHANGED <<dbVars, bare, pending>>
      BY <1>3 DEF ReplayStep, ReplayTake, ReplayDone, ReplayQuarantine, ghostVars
    <3>3. Crash \/ New \/ NewFails \/ ChDown \/ ChUp \/ UNCHANGED vars
            => UNCHANGED <<dbVars, bare, pending>>
      BY DEF Crash, New, NewFails, ChDown, ChUp, vars, dbVars, ghostVars
    <3>. QED BY <3>1, <3>2, <3>3 DEF Next
  <2>2. \A m \in Names, d \in Batches : Carries(m, d)' => Carries(m, d)
    BY <1>3, WalKept, CarriesKept
  <2>. QED BY <2>1, <2>2 DEF TokensSeen, dbVars
<1>. QED BY <1>1, <1>2, <1>3

\* With a deduplicating table, rows that only ever travelled under a token are stored
\* once: retries, lost acknowledgements, salvage row by row, replay after a restart
\* and names reused by New all present a token the table knows (docs/WAL.md).
THEOREM TokensStoreOnce == Spec => []TokenedOnce
<1>. DEFINE I == WALInv /\ Tidy /\ OneOwner /\ CallsOK /\ TokensSeen
<1>1. ASSUME Dedup PROVE Spec => []TokenedOnce
  <2>1. Init => I
    <3>1. Init => CallsOK /\ TokensSeen
      BY WALAssumption DEF Init, CallsOK, TokensSeen, Saving, Carries, Alive, Names, OnDisk
    <3>. QED BY <3>1, InitInv, OwnerInit
  <2>2. I /\ [Next]_vars => I'
    BY <1>1, NextInv, OwnerNext, CallsNext, TokensNext
  <2>3. I => TokenedOnce
    BY DEF TokensSeen, TokenedOnce
  <2>. HIDE DEF I
  <2>. QED BY <2>1, <2>2, <2>3, PTL DEF Spec
<1>2. ASSUME ~Dedup PROVE Spec => []TokenedOnce
  <2>1. TokenedOnce
    BY <1>2 DEF TokenedOnce
  <2>. QED BY <2>1, PTL
<1>. QED BY <1>1, <1>2
=============================================================================
