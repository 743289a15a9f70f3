----------------------------- MODULE WriterPool -----------------------------
(***************************************************************************)
(* The writer pool of the ClickHouse Manager (internal/writer/clickhouse): *)
(* receivers enqueue flow records into per-shard channels, shards batch    *)
(* and flush them, Reload swaps the pool for a new one and retires the old *)
(* in the background, Stop drains the current pool and waits for the       *)
(* retired ones.  shard.flush is one call that takes time and returns: what*)
(* happens inside it is the subject of BatchWAL.                           *)
(***************************************************************************)
EXTENDS Integers, Sequences, SequencesExt

CONSTANTS
  Recs,           \* flow records, each submitted at most once
  Hash,           \* record -> hash of (exporter_ip, device_id)
  HashRange,      \* number of hash values, 2^32 in the code
  Producers,      \* receiver goroutines that call Enqueue
  Sizes,          \* <<workers of the first pool, of the second, ...>>
  Cap,            \* queueRows
  BatchSizes,     \* values live.BatchSize may take
  Policies,       \* values live.Backpressure may take
  GraceSuffices,  \* TRUE: drainGrace outlasts an Enqueue in progress
  HTTPReload      \* TRUE: settings PUTs call Reload until the process exits

ASSUME PoolAssumption ==
  /\ HashRange \in Nat \ {0} /\ Hash \in [Recs -> 0..(HashRange - 1)]
  /\ Sizes \in Seq(Nat \ {0}) /\ Sizes # <<>>
  /\ Cap \in Nat \ {0}
  /\ BatchSizes \subseteq Nat \ {0} /\ BatchSizes # {}
  /\ Policies \subseteq {"block", "drop_old", "drop_new"} /\ Policies # {}
  /\ GraceSuffices \in BOOLEAN /\ HTTPReload \in BOOLEAN

Pools == 1..Len(Sizes)
Slots == UNION {{g} \X (1..Sizes[g]) : g \in Pools}
PoolSlots(g) == {x \in Slots : x[1] = g}

VARIABLES
  todo,       \* records no receiver has read yet
  live,       \* the live tunables: backpressure mode and batch size
  cur,        \* generation of the pool in mgr.pool
  prod,       \* producer -> [at, rec, pool]
  queue,      \* shard -> its channel
  batch,      \* shard -> its batch slice
  phase,      \* shard -> where run() is
  quit,       \* shards whose quit channel is closed
  retire,     \* pool -> its background drain started by Reload
  stop,       \* where the shutdown is
  stopPool,   \* the pool Stop loaded
  timedOut,   \* a drain gave up
  panicked,   \* a closed channel was closed again
  flushed,    \* records whose flush returned
  counted     \* record -> increments of flows_dropped_total

dataVars == <<todo, flushed, counted>>
vars == <<todo, live, cur, prod, queue, batch, phase, quit, retire, stop,
          stopPool, timedOut, panicked, flushed, counted>>

Idle == [at |-> "idle"]
Busy == [at : {"loaded", "blocked", "full", "evicted"}, rec : Recs, pool : Pools]

TypeOK ==
  /\ todo \subseteq Recs /\ flushed \subseteq Recs
  /\ live \in [mode : Policies, size : BatchSizes]
  /\ cur \in Pools
  /\ prod \in [Producers -> {Idle} \cup Busy]
  /\ \A x \in Slots : /\ queue[x] \in Seq(Recs) /\ Len(queue[x]) <= Cap
                      /\ batch[x] \in Seq(Recs)
  /\ phase \in [Slots -> {"off", "run", "flush", "drain", "drainFlush",
                          "lastFlush", "exited"}]
  /\ quit \subseteq Slots
  /\ retire \in [Pools -> {"no", "start", "wait", "done"}]
  /\ stop \in {"no", "receivers", "loaded", "wait", "retired", "exit"}
  /\ stopPool \in Pools
  /\ timedOut \in BOOLEAN /\ panicked \in BOOLEAN
  /\ counted \in [Recs -> 0..2]

Init ==
  /\ todo = Recs
  /\ live \in [mode : Policies, size : BatchSizes]
  /\ cur = 1
  /\ prod = [p \in Producers |-> Idle]
  /\ queue = [x \in Slots |-> <<>>]
  /\ batch = [x \in Slots |-> <<>>]
  /\ phase = [x \in Slots |-> IF x[1] = 1 THEN "run" ELSE "off"]
  /\ quit = {}
  /\ retire = [g \in Pools |-> "no"]
  /\ stop = "no" /\ stopPool = 1
  /\ timedOut = FALSE /\ panicked = FALSE
  /\ flushed = {}
  /\ counted = [r \in Recs |-> 0]

Alive == stop # "exit" /\ ~panicked

-----------------------------------------------------------------------------
(* Enqueue, called by the receivers' pipeline.                             *)

\* mgr.pool.Load() and shardIndex.  A receiver being stopped finishes the
\* packets it has read.
Load(p) ==
  /\ Alive /\ stop \in {"no", "receivers"} /\ prod[p] = Idle
  /\ \E r \in todo :
       /\ todo' = todo \ {r}
       /\ prod' = [prod EXCEPT ![p] = [at |-> "loaded", rec |-> r, pool |-> cur]]
  /\ UNCHANGED <<live, cur, queue, batch, phase, quit, retire, stop, stopPool,
                 timedOut, panicked, flushed, counted>>

\* Multiply-shift reduction: the high part of the hash picks the shard.
shardIndex(r, g) == <<g, 1 + ((Hash[r] * Sizes[g]) \div HashRange)>>
Slot(p) == shardIndex(prod[p].rec, prod[p].pool)

Room(x) == Len(queue[x]) < Cap

\* case s.ch <- rec: Enqueue returns true.
Send(p) ==
  LET x == Slot(p) IN
  /\ Room(x)
  /\ queue' = [queue EXCEPT ![x] = Append(@, prod[p].rec)]
  /\ prod' = [prod EXCEPT ![p] = Idle]
  /\ UNCHANGED counted

\* s.drop() and return false, upon which HandlePacket counts the drop too.
Refuse(p) ==
  /\ counted' = [counted EXCEPT ![prod[p].rec] = @ + 2]
  /\ prod' = [prod EXCEPT ![p] = Idle]
  /\ UNCHANGED queue

\* The first select of shard.enqueue in the backpressure mode of the moment;
\* a select with both cases ready picks either.
Enqueue(p) ==
  LET x == Slot(p) IN
  /\ Alive /\ prod[p].at = "loaded"
  /\ \/ Send(p)
     \/ x \in quit /\ Refuse(p)
     \/ ~Room(x) /\ x \notin quit /\ live.mode = "drop_new" /\ Refuse(p)
     \/ /\ ~Room(x) /\ x \notin quit /\ live.mode # "drop_new"
        /\ prod' = [prod EXCEPT ![p].at =
             IF live.mode = "drop_old" THEN "full" ELSE "blocked"]
        /\ UNCHANGED <<queue, counted>>
  /\ UNCHANGED <<todo, live, cur, batch, phase, quit, retire, stop, stopPool,
                 timedOut, panicked, flushed>>

\* block: the select waits for room or for quit, whatever live says by then.
Blocked(p) ==
  /\ Alive /\ prod[p].at = "blocked"
  /\ Send(p) \/ (Slot(p) \in quit /\ Refuse(p))
  /\ UNCHANGED <<todo, live, cur, batch, phase, quit, retire, stop, stopPool,
                 timedOut, panicked, flushed>>

\* drop_old: take the oldest record out, unless the shard emptied the queue.
Evict(p) ==
  LET x == Slot(p) IN
  /\ Alive /\ prod[p].at = "full"
  /\ prod' = [prod EXCEPT ![p].at = "evicted"]
  /\ IF queue[x] # <<>>
     THEN /\ queue' = [queue EXCEPT ![x] = Tail(@)]
          /\ counted' = [counted EXCEPT ![Head(queue[x])] = @ + 1]
     ELSE UNCHANGED <<queue, counted>>
  /\ UNCHANGED <<todo, live, cur, batch, phase, quit, retire, stop, stopPool,
                 timedOut, panicked, flushed>>

\* drop_old: try again; another producer may have taken the place.
Retry(p) ==
  /\ Alive /\ prod[p].at = "evicted"
  /\ Send(p) \/ (~Room(Slot(p)) /\ Refuse(p))
  /\ UNCHANGED <<todo, live, cur, batch, phase, quit, retire, stop, stopPool,
                 timedOut, panicked, flushed>>

-----------------------------------------------------------------------------
(* shard.run                                                               *)

\* Receive one record, flush when the batch is full.
Take(x) ==
  /\ Alive /\ phase[x] \in {"run", "drain"} /\ queue[x] # <<>>
  /\ queue' = [queue EXCEPT ![x] = Tail(@)]
  /\ batch' = [batch EXCEPT ![x] = Append(@, Head(queue[x]))]
  /\ phase' = [phase EXCEPT ![x] =
       IF Len(batch'[x]) < live.size THEN @
       ELSE IF @ = "run" THEN "flush" ELSE "drainFlush"]
  /\ UNCHANGED <<todo, live, cur, prod, quit, retire, stop, stopPool, timedOut,
                 panicked, flushed, counted>>

\* The ticker finds FlushInterval elapsed.
Tick(x) ==
  /\ Alive /\ phase[x] = "run" /\ batch[x] # <<>>
  /\ phase' = [phase EXCEPT ![x] = "flush"]
  /\ UNCHANGED <<todo, live, cur, prod, queue, batch, quit, retire, stop,
                 stopPool, timedOut, panicked, flushed, counted>>

\* Mutant: quit ends run() at once, without a last flush.
QuitAtOnce(x) ==
  /\ Alive /\ phase[x] = "run" /\ x \in quit
  /\ phase' = [phase EXCEPT ![x] = "exited"]
  /\ UNCHANGED <<todo, live, cur, prod, queue, batch, quit, retire, stop,
                 stopPool, timedOut, panicked, flushed, counted>>

Quit(x) ==
  /\ Alive /\ phase[x] = "run" /\ x \in quit
  /\ phase' = [phase EXCEPT ![x] = "drain"]
  /\ UNCHANGED <<todo, live, cur, prod, queue, batch, quit, retire, stop,
                 stopPool, timedOut, panicked, flushed, counted>>

\* No record arrived for drainGrace.
Straddling(g) == \E p \in Producers : prod[p] # Idle /\ prod[p].pool = g

GraceOver(x) ==
  /\ Alive /\ phase[x] = "drain" /\ queue[x] = <<>>
  /\ GraceSuffices => ~Straddling(x[1])
  /\ phase' = [phase EXCEPT ![x] = IF batch[x] = <<>> THEN "exited" ELSE "lastFlush"]
  /\ UNCHANGED <<todo, live, cur, prod, queue, batch, quit, retire, stop,
                 stopPool, timedOut, panicked, flushed, counted>>

\* Mutant: run() returns after a flush.
FlushEndsRun(x) ==
  /\ Alive /\ phase[x] \in {"flush", "drainFlush", "lastFlush"}
  /\ flushed' = flushed \cup ToSet(batch[x])
  /\ batch' = [batch EXCEPT ![x] = <<>>]
  /\ phase' = [phase EXCEPT ![x] = "exited"]
  /\ UNCHANGED <<todo, live, cur, prod, queue, quit, retire, stop, stopPool,
                 timedOut, panicked, counted>>

\* s.flush returns and the batch is truncated.
Flush(x) ==
  /\ Alive /\ phase[x] \in {"flush", "drainFlush", "lastFlush"}
  /\ flushed' = flushed \cup ToSet(batch[x])
  /\ batch' = [batch EXCEPT ![x] = <<>>]
  /\ phase' = [phase EXCEPT ![x] = CASE @ = "flush" -> "run"
                                     [] @ = "drainFlush" -> "drain"
                                     [] OTHER -> "exited"]
  /\ UNCHANGED <<todo, live, cur, prod, queue, quit, retire, stop, stopPool,
                 timedOut, panicked, counted>>

-----------------------------------------------------------------------------
(* Manager: live tunables, Reload, Stop and the two drains.                *)

\* live.Store: a reload of the tunables that need no new pool.
LiveStore ==
  /\ Alive
  /\ live' \in [mode : Policies, size : BatchSizes]
  /\ UNCHANGED <<cur, prod, queue, batch, phase, quit, retire, stop, stopPool,
                 timedOut, panicked, dataVars>>

\* Reload with changed workers or queue capacity, under mgr.mu.
Reload ==
  /\ Alive /\ cur + 1 \in Pools
  /\ HTTPReload \/ stop = "no"
  /\ cur' = cur + 1
  /\ phase' = [x \in Slots |-> IF x[1] = cur + 1 THEN "run" ELSE phase[x]]
  /\ retire' = [retire EXCEPT ![cur] = "start"]
  /\ UNCHANGED <<live, prod, queue, batch, quit, stop, stopPool, timedOut,
                 panicked, dataVars>>

\* close(s.quit) for every shard of pool g: panics if one is closed already.
CloseQuit(g) ==
  /\ quit' = quit \cup PoolSlots(g)
  /\ panicked' = (PoolSlots(g) \cap quit # {})

\* drain returns: wg is done, or the timer fired first.
Drained(g) ==
  \/ (\A x \in PoolSlots(g) : phase[x] = "exited") /\ UNCHANGED timedOut
  \/ (\E x \in PoolSlots(g) : phase[x] # "exited") /\ timedOut' = TRUE

RetireBegin(g) ==
  /\ Alive /\ retire[g] = "start"
  /\ CloseQuit(g)
  /\ retire' = [retire EXCEPT ![g] = "wait"]
  /\ UNCHANGED <<live, cur, prod, queue, batch, phase, stop, stopPool, timedOut,
                 dataVars>>

RetireEnd(g) ==
  /\ Alive /\ retire[g] = "wait" /\ Drained(g)
  /\ retire' = [retire EXCEPT ![g] = "done"]
  /\ UNCHANGED <<live, cur, prod, queue, batch, phase, quit, stop, stopPool,
                 panicked, dataVars>>

\* SIGTERM: the receivers are stopped first.
Signal ==
  /\ Alive /\ stop = "no" /\ stop' = "receivers"
  /\ UNCHANGED <<live, cur, prod, queue, batch, phase, quit, retire, stopPool,
                 timedOut, panicked, dataVars>>

\* Every receiver goroutine has returned; Stop loads the pool under mgr.mu.
StopBegin ==
  /\ Alive /\ stop = "receivers" /\ \A p \in Producers : prod[p] = Idle
  /\ stop' = "loaded" /\ stopPool' = cur
  /\ UNCHANGED <<live, cur, prod, queue, batch, phase, quit, retire, timedOut,
                 panicked, dataVars>>

\* The aggregate and replay goroutines have ended; p.drain begins.
StopClose ==
  /\ Alive /\ stop = "loaded" /\ stop' = "wait"
  /\ CloseQuit(stopPool)
  /\ UNCHANGED <<live, cur, prod, queue, batch, phase, retire, stopPool,
                 timedOut, dataVars>>

StopDrained ==
  /\ Alive /\ stop = "wait" /\ Drained(stopPool) /\ stop' = "retired"
  /\ UNCHANGED <<live, cur, prod, queue, batch, phase, quit, retire, stopPool,
                 panicked, dataVars>>

\* retireWG.Wait, then the connection is closed and the process exits.
StopEnd ==
  /\ Alive /\ stop = "retired" /\ stop' = "exit"
  /\ \A g \in Pools : retire[g] \in {"no", "done"}
  /\ UNCHANGED <<live, cur, prod, queue, batch, phase, quit, retire, stopPool,
                 timedOut, panicked, dataVars>>

ProducerStep(p) ==
  Load(p) \/ Enqueue(p) \/ Blocked(p) \/ Evict(p) \/ Retry(p)
ShardStep(x) == Take(x) \/ Tick(x) \/ Quit(x) \/ GraceOver(x) \/ Flush(x)
StopStep == StopBegin \/ StopClose \/ StopDrained \/ StopEnd

Next ==
  \/ \E p \in Producers : ProducerStep(p)
  \/ \E x \in Slots : ShardStep(x)
  \/ \E g \in Pools : RetireBegin(g) \/ RetireEnd(g)
  \/ LiveStore \/ Reload \/ Signal \/ StopStep

Spec == Init /\ [][Next]_vars

\* Goroutines run, timers fire and a flush returns (every attempt has a
\* sendTimeout and attempts are bounded).  A shard that is asked to quit takes
\* the quit case of its select in the end (select picks among ready cases at
\* random), and the senders blocked on a channel are served in turn.  Nobody
\* has to reload or stop.
FairSpec ==
  /\ Spec
  /\ \A p \in Producers :
       /\ WF_vars(Load(p)) /\ WF_vars(Enqueue(p) \/ Evict(p) \/ Retry(p))
       /\ SF_vars(Blocked(p))
  /\ \A x \in Slots : WF_vars(Take(x) \/ Flush(x) \/ GraceOver(x))
                      /\ SF_vars(Quit(x)) /\ SF_vars(Tick(x))
  /\ \A g \in Pools : WF_vars(RetireBegin(g) \/ RetireEnd(g))
  /\ WF_vars(StopStep)

-----------------------------------------------------------------------------
(* What the pool promises.                                                 *)

Buffered(r) == \E x \in Slots : phase[x] # "exited"
                                /\ r \in ToSet(queue[x]) \cup ToSet(batch[x])
Stranded(r) == \E x \in Slots : phase[x] = "exited"
                                /\ r \in ToSet(queue[x]) \cup ToSet(batch[x])
Submitting(r) == \E p \in Producers : prod[p] # Idle /\ prod[p].rec = r

\* Every record read is in exactly one place: with its receiver, buffered in a
\* shard that will still flush it, flushed, or counted as dropped; none is
\* stranded in a retired channel (clickhouse.go:64-67), none is both stored and
\* counted as dropped.
OnePlace ==
  \A r \in Recs \ todo :
    LET places == <<Submitting(r), Buffered(r), r \in flushed, counted[r] > 0>>
    IN  \E i \in 1..4 : \A j \in 1..4 : places[j] <=> (i = j)

\* No quit channel is closed twice ("mu serializes Reload/Stop pool swaps",
\* clickhouse.go:89).
NoPanic == ~panicked

\* If no drain timed out, a process that exits has nothing left in memory, the
\* pools retired by earlier reloads included (clickhouse.go:391-392, 416).
StopDrains ==
  stop = "exit" /\ ~timedOut => \A r \in Recs : ~Buffered(r) /\ ~Stranded(r)

\* The pool is sound: typed, every record in one place, no double close, nothing left
\* behind by an exit in time.
PoolSound == TypeOK /\ OnePlace /\ NoPanic /\ StopDrains

\* No receiver waits for ever in Enqueue, in block mode either.
EnqueueReturns == \A p \in Producers : prod[p] # Idle ~> prod[p] = Idle

\* A shutdown that began ends: receivers, current pool, retired pools.
ShutdownCompletes == stop # "no" ~> stop = "exit"

\* Nobody waits for ever on a pool: no receiver, and no shutdown.
NobodyWaits == EnqueueReturns /\ ShutdownCompletes
=============================================================================
