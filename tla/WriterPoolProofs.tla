-------------------------- MODULE WriterPoolProofs --------------------------
(***************************************************************************)
(* WriterPool is sound for any records, producers, pool sizes, queue       *)
(* capacity, batch sizes and backpressure modes, as long as drainGrace     *)
(* outlasts an Enqueue in progress and no Reload follows the signal to     *)
(* stop: the two conditions PoolSound needs, as the pool runs show.        *)
(*                                                                         *)
(* PoolSound is not inductive.  Whether a record can be stranded depends   *)
(* on who may still send to a retired pool (Quiet), that on which pools    *)
(* have been asked to quit (Asked) and on the current pool being neither   *)
(* retired nor drained (Swapped); and a record counted once must not be    *)
(* buffered twice (OneHome, OneSubmitter, OneSlot).                        *)
(***************************************************************************)
EXTENDS WriterPool, TLAPS

Phases == {"off", "run", "flush", "drain", "drainFlush", "lastFlush", "exited"}
Stopping == {"loaded", "wait", "retired", "exit"}

\* TypeOK, with the queues and the batches as functions.
Typed == TypeOK /\ queue \in [Slots -> Seq(Recs)] /\ batch \in [Slots -> Seq(Recs)]

InSlot(r, x) == r \in ToSet(queue[x]) \/ r \in ToSet(batch[x])
InPool(r) == \E x \in Slots : InSlot(r, x)

\* A record is with the exporter, its receiver, a shard, ClickHouse or the counter.
OneHome ==
  \A r \in Recs :
    /\ r \in todo \/ Submitting(r) \/ InPool(r) \/ r \in flushed \/ counted[r] > 0
    /\ r \in todo => ~Submitting(r) /\ ~InPool(r) /\ r \notin flushed /\ counted[r] = 0
    /\ Submitting(r) => ~InPool(r) /\ r \notin flushed /\ counted[r] = 0
    /\ InPool(r) => r \notin flushed /\ counted[r] = 0
    /\ r \in flushed => counted[r] = 0

OneSubmitter ==
  \A p, q \in Producers : prod[p] # Idle /\ prod[q] # Idle /\ prod[p].rec = prod[q].rec => p = q

OneSlot ==
  /\ \A x, y \in Slots, r \in Recs : InSlot(r, x) /\ InSlot(r, y) => x = y
  /\ \A x \in Slots : IsInjective(queue[x]) /\ ToSet(queue[x]) \cap ToSet(batch[x]) = {}

\* The current pool is the last one built, all earlier ones are being retired, and
\* Stop drains the current one.
Swapped ==
  /\ \A g \in Pools : retire[g] # "no" <=> g < cur
  /\ stop \in Stopping => stopPool = cur /\ \A p \in Producers : prod[p] = Idle
  /\ \A x \in Slots : x[1] > cur <=> phase[x] = "off"
  /\ \A p \in Producers : prod[p] # Idle => prod[p].pool <= cur
  /\ \A x \in Slots : x[1] > cur => queue[x] = <<>> /\ batch[x] = <<>>

\* Only a pool under retirement or the one Stop drains has been asked to quit.
Asked ==
  /\ \A x \in quit : \/ retire[x[1]] \in {"wait", "done"}
                     \/ stop \in {"wait", "retired", "exit"} /\ x[1] = stopPool
  /\ \A x \in Slots : phase[x] \in {"drain", "drainFlush", "lastFlush", "exited"} => x \in quit

\* A shard that has drained gets no more records, and one that returned has none.
Quiet ==
  /\ \A x \in Slots : phase[x] \in {"lastFlush", "exited"} => queue[x] = <<>> /\ ~Straddling(x[1])
  /\ \A x \in Slots : phase[x] = "exited" => batch[x] = <<>>

\* What a drain that did not time out has seen.
Waited ==
  /\ ~timedOut => \A g \in Pools : retire[g] = "done" => \A x \in PoolSlots(g) : phase[x] = "exited"
  /\ ~timedOut /\ stop \in {"retired", "exit"} => \A x \in PoolSlots(stopPool) : phase[x] = "exited"
  /\ stop = "exit" => \A g \in Pools : retire[g] \in {"no", "done"}

Data == Typed /\ OneHome /\ OneSubmitter /\ OneSlot
Control == Swapped /\ Asked /\ Quiet /\ Waited /\ ~panicked
PoolInv == Data /\ Control

-----------------------------------------------------------------------------
(* Sequences, slots and the hash.                                          *)

LEMMA AppendSet ==
  ASSUME NEW S, NEW s \in Seq(S), NEW e \in S
  PROVE  /\ Append(s, e) \in Seq(S) /\ Len(Append(s, e)) = Len(s) + 1
         /\ ToSet(Append(s, e)) = ToSet(s) \cup {e}
         /\ IsInjective(s) /\ e \notin ToSet(s) => IsInjective(Append(s, e))
<1>1. /\ Append(s, e) \in Seq(S) /\ Len(Append(s, e)) = Len(s) + 1
      /\ DOMAIN Append(s, e) = 1..(Len(s) + 1) /\ DOMAIN s = 1..Len(s) /\ Len(s) \in Nat
      /\ \A i \in 1..Len(s) : Append(s, e)[i] = s[i]
      /\ Append(s, e)[Len(s) + 1] = e
  OBVIOUS
<1>2. \A i \in DOMAIN Append(s, e) : Append(s, e)[i] \in ToSet(s) \cup {e}
  BY <1>1 DEF ToSet
<1>3. \A v \in ToSet(s) \cup {e} : \E i \in DOMAIN Append(s, e) : v = Append(s, e)[i]
  BY <1>1 DEF ToSet
<1>4. ToSet(Append(s, e)) = ToSet(s) \cup {e}
  BY <1>2, <1>3 DEF ToSet
<1>5. ASSUME IsInjective(s), e \notin ToSet(s) PROVE IsInjective(Append(s, e))
  BY <1>1, <1>5 DEF IsInjective, ToSet
<1>. QED BY <1>1, <1>4, <1>5

LEMMA TailSet ==
  ASSUME NEW S, NEW s \in Seq(S), s # <<>>
  PROVE  /\ Tail(s) \in Seq(S) /\ Len(Tail(s)) = Len(s) - 1 /\ Head(s) \in ToSet(s)
         /\ ToSet(Tail(s)) \subseteq ToSet(s)
         /\ IsInjective(s) => IsInjective(Tail(s)) /\ ToSet(Tail(s)) = ToSet(s) \ {Head(s)}
<1>1. /\ Tail(s) \in Seq(S) /\ Len(Tail(s)) = Len(s) - 1 /\ Head(s) = s[1]
      /\ DOMAIN Tail(s) = 1..(Len(s) - 1) /\ DOMAIN s = 1..Len(s) /\ Len(s) \in Nat /\ Len(s) > 0
      /\ \A i \in 1..(Len(s) - 1) : Tail(s)[i] = s[i + 1]
  OBVIOUS
<1>2. Head(s) \in ToSet(s)
  BY <1>1 DEF ToSet
<1>3. ToSet(Tail(s)) \subseteq ToSet(s)
  BY <1>1 DEF ToSet
<1>4. ASSUME IsInjective(s) PROVE IsInjective(Tail(s))
  BY <1>1, <1>4 DEF IsInjective
<1>5. ASSUME IsInjective(s) PROVE Head(s) \notin ToSet(Tail(s))
  BY <1>1, <1>5 DEF IsInjective, ToSet
<1>6. ASSUME NEW v \in ToSet(s), v # Head(s) PROVE v \in ToSet(Tail(s))
  <2>1. PICK i \in 1..Len(s) : v = s[i]
    BY <1>1 DEF ToSet
  <2>2. i - 1 \in 1..(Len(s) - 1) /\ Tail(s)[i - 1] = s[i]
    BY <1>1, <1>6, <2>1
  <2>. QED BY <1>1, <2>1, <2>2 DEF ToSet
<1>. QED BY <1>1, <1>2, <1>3, <1>4, <1>5, <1>6

LEMMA EmptySet == ToSet(<<>>) = {} /\ IsInjective(<<>>)
BY DEF ToSet, IsInjective

LEMMA SlotType == ASSUME NEW x \in Slots PROVE x[1] \in Pools /\ x \in PoolSlots(x[1])
BY DEF Slots, PoolSlots

LEMMA PoolInt == ASSUME NEW g \in Pools PROVE g \in Nat
BY PoolAssumption DEF Pools

\* Multiply-shift reduction stays within the pool: the high part of a product of a
\* hash and a size is smaller than the size.
LEMMA Reduction ==
  ASSUME NEW H \in Nat \ {0}, NEW h \in 0..(H - 1), NEW n \in Nat \ {0}
  PROVE  (h * n) \div H \in 0..(n - 1)
<1>. DEFINE q == (h * n) \div H
<1>1. h * n \in Nat /\ q \in Int /\ H * q <= h * n
  OBVIOUS
<1>2. h * n < H * n
  OBVIOUS
<1>3. q >= 0
  OBVIOUS
<1>4. q < n
  <2>. SUFFICES ASSUME q >= n PROVE FALSE
    BY <1>1
  <2>1. H * q >= H * n
    BY <1>1
  <2>. QED BY <1>1, <1>2, <2>1
<1>. QED BY <1>1, <1>3, <1>4

LEMMA IndexSlot ==
  ASSUME NEW r \in Recs, NEW g \in Pools
  PROVE  shardIndex(r, g) \in Slots /\ shardIndex(r, g)[1] = g
<1>1. Sizes[g] \in Nat \ {0} /\ Hash[r] \in 0..(HashRange - 1) /\ HashRange \in Nat \ {0}
  BY PoolAssumption DEF Pools
<1>2. (Hash[r] * Sizes[g]) \div HashRange \in 0..(Sizes[g] - 1)
  BY <1>1, Reduction
<1>3. 1 + ((Hash[r] * Sizes[g]) \div HashRange) \in 1..Sizes[g]
  BY <1>1, <1>2
<1>. QED BY <1>3 DEF shardIndex, Slots

\* A producer inside Enqueue, its record and its shard.
LEMMA InEnqueue ==
  ASSUME Typed, NEW p \in Producers, prod[p] # Idle
  PROVE  /\ prod[p] \in Busy /\ prod[p].rec \in Recs /\ prod[p].pool \in Pools
         /\ Slot(p) \in Slots /\ Slot(p)[1] = prod[p].pool
<1>1. prod[p] \in Busy /\ prod[p].rec \in Recs /\ prod[p].pool \in Pools
  BY DEF Typed, TypeOK, Busy
<1>. QED BY <1>1, IndexSlot DEF Slot

LEMMA NotIdle ==
  ASSUME NEW p, prod[p].at \in {"loaded", "blocked", "full", "evicted"} PROVE prod[p] # Idle
BY DEF Idle

-----------------------------------------------------------------------------
(* Where the records are.                                                  *)

LEMMA LoadData ==
  ASSUME Data, NEW p \in Producers, Load(p) PROVE Data'
<1>. USE PoolAssumption DEF Data
<1>1. PICK r \in todo : /\ todo' = todo \ {r}
                        /\ prod' = [prod EXCEPT ![p] = [at |-> "loaded", rec |-> r, pool |-> cur]]
  BY DEF Load
<1>2. r \in Recs /\ prod[p] = Idle
  BY DEF Load, Typed, TypeOK
<1>3. /\ prod'[p] # Idle /\ prod'[p].rec = r
      /\ \A q \in Producers \ {p} : prod'[q] = prod[q]
  BY <1>1 DEF Typed, TypeOK, Idle
<1>4. Typed'
  <2>1. [at |-> "loaded", rec |-> r, pool |-> cur] \in Busy
    BY <1>2 DEF Busy, Typed, TypeOK
  <2>. QED BY <1>1, <2>1 DEF Load, Typed, TypeOK
<1>5. \A v \in Recs : Submitting(v)' <=> Submitting(v) \/ v = r
  BY <1>2, <1>3 DEF Submitting
<1>6. \A v \in Recs : InPool(v)' <=> InPool(v)
  BY DEF Load, InPool, InSlot
<1>7. OneHome'
  BY <1>1, <1>2, <1>5, <1>6 DEF Load, OneHome
<1>8. OneSubmitter'
  <2>1. ~Submitting(r)
    BY <1>2 DEF OneHome
  <2>. QED BY <1>3, <2>1 DEF OneSubmitter, Submitting
<1>9. OneSlot'
  BY DEF Load, OneSlot, InSlot
<1>. QED BY <1>4, <1>7, <1>8, <1>9

LEMMA SendData ==
  ASSUME Data, NEW p \in Producers, prod[p] # Idle, Send(p),
         UNCHANGED <<todo, live, cur, batch, phase, quit, retire, stop, stopPool, timedOut, panicked, flushed>>
  PROVE  Data'
<1>. USE PoolAssumption DEF Data
<1>1. PICK r \in Recs, x \in Slots : r = prod[p].rec /\ x = Slot(p)
  BY InEnqueue
<1>2. /\ Len(queue[x]) < Cap /\ queue' = [queue EXCEPT ![x] = Append(queue[x], r)]
      /\ prod' = [prod EXCEPT ![p] = Idle] /\ UNCHANGED counted
  BY <1>1 DEF Send, Room
<1>3. queue[x] \in Seq(Recs) /\ queue'[x] = Append(queue[x], r) /\ \A y \in Slots \ {x} : queue'[y] = queue[y]
  BY <1>2 DEF Typed
<1>4. /\ prod'[p] = Idle /\ \A q \in Producers \ {p} : prod'[q] = prod[q]
  BY <1>2 DEF Typed, TypeOK
<1>5. Typed'
  <2>1. queue'[x] \in Seq(Recs) /\ Len(queue'[x]) = Len(queue[x]) + 1
    BY <1>3, AppendSet
  <2>2. queue' \in [Slots -> Seq(Recs)]
    BY <1>2, <2>1 DEF Typed
  <2>3. Len(queue'[x]) <= Cap
    BY <1>2, <1>3, <2>1
  <2>4. \A y \in Slots : queue'[y] \in Seq(Recs) /\ Len(queue'[y]) <= Cap
    BY <1>3, <2>2, <2>3 DEF Typed, TypeOK
  <2>5. prod' \in [Producers -> {Idle} \cup Busy]
    BY <1>2 DEF Typed, TypeOK
  <2>. QED BY <1>2, <2>2, <2>4, <2>5 DEF Typed, TypeOK
<1>6. \A v \in Recs : Submitting(v)' <=> Submitting(v) /\ v # r
  BY <1>1, <1>4 DEF Submitting, OneSubmitter
<1>7. \A v \in Recs, y \in Slots : InSlot(v, y)' <=> InSlot(v, y) \/ (v = r /\ y = x)
  <2>1. ToSet(queue'[x]) = ToSet(queue[x]) \cup {r}
    BY <1>3, AppendSet
  <2>. QED BY <1>3, <2>1 DEF InSlot
<1>8. \A v \in Recs : InPool(v)' <=> InPool(v) \/ v = r
  BY <1>7 DEF InPool
<1>9. Submitting(r) /\ ~InPool(r)
  BY <1>1 DEF Submitting, OneHome
<1>10. OneHome'
  BY <1>2, <1>6, <1>8, <1>9 DEF OneHome
<1>11. OneSubmitter'
  BY <1>4 DEF OneSubmitter
<1>12. OneSlot'
  <2>1. r \notin ToSet(queue[x]) /\ r \notin ToSet(batch[x]) /\ batch' = batch
    BY <1>9 DEF InPool, InSlot
  <2>2. IsInjective(queue'[x]) /\ ToSet(queue'[x]) = ToSet(queue[x]) \cup {r}
    BY <1>3, <2>1, AppendSet DEF OneSlot
  <2>3. \A y \in Slots : IsInjective(queue'[y]) /\ ToSet(queue'[y]) \cap ToSet(batch'[y]) = {}
    <3>1. IsInjective(queue'[x]) /\ ToSet(queue'[x]) \cap ToSet(batch'[x]) = {}
      BY <2>1, <2>2 DEF OneSlot
    <3>2. \A y \in Slots \ {x} : IsInjective(queue'[y]) /\ ToSet(queue'[y]) \cap ToSet(batch'[y]) = {}
      BY <1>3, <2>1 DEF OneSlot
    <3>. QED BY <3>1, <3>2
  <2>4. \A y, z \in Slots, v \in Recs : InSlot(v, y)' /\ InSlot(v, z)' => y = z
    BY <1>7, <1>9 DEF OneSlot, InPool
  <2>. QED BY <2>3, <2>4 DEF OneSlot
<1>. QED BY <1>5, <1>10, <1>11, <1>12

LEMMA RefuseData ==
  ASSUME Data, NEW p \in Producers, prod[p] # Idle, Refuse(p),
         UNCHANGED <<todo, live, cur, batch, phase, quit, retire, stop, stopPool, timedOut, panicked, flushed>>
  PROVE  Data'
<1>. USE PoolAssumption DEF Data
<1>1. PICK r \in Recs : r = prod[p].rec
  BY InEnqueue
<1>2. /\ counted' = [counted EXCEPT ![r] = counted[r] + 2]
      /\ prod' = [prod EXCEPT ![p] = Idle] /\ UNCHANGED queue
  BY <1>1 DEF Refuse
<1>3. /\ prod'[p] = Idle /\ \A q \in Producers \ {p} : prod'[q] = prod[q]
  BY <1>2 DEF Typed, TypeOK
<1>4. Submitting(r) /\ counted[r] = 0
  BY <1>1 DEF Submitting, OneHome
<1>5. counted' \in [Recs -> 0..2] /\ counted'[r] = 2 /\ \A v \in Recs \ {r} : counted'[v] = counted[v]
  BY <1>2, <1>4 DEF Typed, TypeOK
<1>6. Typed'
  <2>1. prod' \in [Producers -> {Idle} \cup Busy]
    BY <1>2 DEF Typed, TypeOK
  <2>. QED BY <1>2, <1>5, <2>1 DEF Typed, TypeOK
<1>7. \A v \in Recs : Submitting(v)' <=> Submitting(v) /\ v # r
  BY <1>1, <1>3 DEF Submitting, OneSubmitter
<1>8. \A v \in Recs : InPool(v)' <=> InPool(v)
  BY <1>2 DEF InPool, InSlot
<1>9. OneHome'
  BY <1>4, <1>5, <1>7, <1>8 DEF OneHome
<1>10. OneSubmitter'
  BY <1>3 DEF OneSubmitter
<1>11. OneSlot'
  BY <1>2 DEF OneSlot, InSlot
<1>. QED BY <1>6, <1>9, <1>10, <1>11

\* A producer moves on within Enqueue.
LEMMA AtData ==
  ASSUME Data, NEW p \in Producers, prod[p] # Idle, NEW step \in {"blocked", "full", "evicted"},
         prod' = [prod EXCEPT ![p].at = step], UNCHANGED <<queue, batch, dataVars>>,
         UNCHANGED <<live, cur, phase, quit, retire, stop, stopPool, timedOut, panicked>>
  PROVE  Data'
<1>. USE PoolAssumption DEF Data
<1>1. prod[p] \in Busy
  BY InEnqueue
<1>2. /\ prod'[p] \in Busy /\ prod'[p].rec = prod[p].rec /\ prod'[p] # Idle
      /\ \A q \in Producers \ {p} : prod'[q] = prod[q]
  BY <1>1 DEF Busy, Idle, Typed, TypeOK
<1>3. prod' \in [Producers -> {Idle} \cup Busy]
  BY <1>2 DEF Typed, TypeOK
<1>4. Typed'
  BY <1>3 DEF Typed, TypeOK, dataVars
<1>5. \A v \in Recs : Submitting(v)' <=> Submitting(v)
  BY <1>2 DEF Submitting
<1>6. \A v \in Recs : InPool(v)' <=> InPool(v)
  BY DEF InPool, InSlot
<1>7. OneHome'
  BY <1>5, <1>6 DEF OneHome, dataVars
<1>8. OneSubmitter'
  BY <1>2 DEF OneSubmitter
<1>. QED BY <1>4, <1>7, <1>8 DEF OneSlot, InSlot

\* The oldest record of a queue leaves it.
LEMMA QueueTail ==
  ASSUME Typed, OneSlot, NEW x \in Slots, queue[x] # <<>>, queue' = [queue EXCEPT ![x] = Tail(queue[x])]
  PROVE  /\ queue' \in [Slots -> Seq(Recs)] /\ \A y \in Slots : Len(queue'[y]) <= Cap
         /\ Head(queue[x]) \in Recs /\ Head(queue[x]) \in ToSet(queue[x])
         /\ ToSet(queue'[x]) = ToSet(queue[x]) \ {Head(queue[x])}
         /\ \A y \in Slots \ {x} : queue'[y] = queue[y]
         /\ \A y \in Slots : IsInjective(queue'[y])
<1>1. queue[x] \in Seq(Recs) /\ IsInjective(queue[x]) /\ Len(queue[x]) <= Cap /\ Cap \in Nat
  BY PoolAssumption DEF Typed, TypeOK, OneSlot
<1>2. /\ Tail(queue[x]) \in Seq(Recs) /\ Len(Tail(queue[x])) = Len(queue[x]) - 1
      /\ Head(queue[x]) \in ToSet(queue[x]) /\ IsInjective(Tail(queue[x]))
      /\ ToSet(Tail(queue[x])) = ToSet(queue[x]) \ {Head(queue[x])}
  BY <1>1, TailSet
<1>3. Len(Tail(queue[x])) <= Cap /\ Head(queue[x]) \in Recs
  BY <1>1, <1>2
<1>4. queue'[x] = Tail(queue[x]) /\ \A y \in Slots \ {x} : queue'[y] = queue[y]
  BY DEF Typed
<1>5. queue' \in [Slots -> Seq(Recs)]
  BY <1>2 DEF Typed
<1>6. \A y \in Slots : IsInjective(queue'[y])
  BY <1>2, <1>4 DEF OneSlot
<1>7. \A y \in Slots : Len(queue'[y]) <= Cap
  BY <1>3, <1>4 DEF Typed, TypeOK
<1>. QED BY <1>2, <1>3, <1>4, <1>5, <1>6, <1>7

LEMMA EvictData ==
  ASSUME Data, NEW p \in Producers, Evict(p) PROVE Data'
<1>. USE PoolAssumption DEF Data
<1>0. prod[p] # Idle
  BY NotIdle DEF Evict
<1>1. PICK x \in Slots : x = Slot(p)
  BY <1>0, InEnqueue
<1>2. CASE queue[x] = <<>>
  BY <1>0, <1>1, <1>2, AtData DEF Evict, dataVars
<1>3. CASE queue[x] # <<>>
  <2>1. PICK r : r = Head(queue[x])
    OBVIOUS
  <2>2. /\ queue' = [queue EXCEPT ![x] = Tail(queue[x])]
        /\ counted' = [counted EXCEPT ![r] = counted[r] + 1]
        /\ prod' = [prod EXCEPT ![p].at = "evicted"]
        /\ UNCHANGED <<todo, live, cur, batch, phase, quit, retire, stop, stopPool, timedOut, panicked, flushed>>
    BY <1>1, <1>3, <2>1 DEF Evict
  <2>3. /\ queue' \in [Slots -> Seq(Recs)] /\ \A y \in Slots : Len(queue'[y]) <= Cap
        /\ r \in Recs /\ r \in ToSet(queue[x])
        /\ ToSet(queue'[x]) = ToSet(queue[x]) \ {r}
        /\ \A y \in Slots \ {x} : queue'[y] = queue[y]
        /\ \A y \in Slots : IsInjective(queue'[y])
    BY <1>3, <2>1, <2>2, QueueTail
  <2>4. InPool(r) /\ counted[r] = 0
    BY <2>3 DEF InPool, InSlot, OneHome
  <2>5. counted' \in [Recs -> 0..2] /\ counted'[r] = 1 /\ \A v \in Recs \ {r} : counted'[v] = counted[v]
    BY <2>2, <2>3, <2>4 DEF Typed, TypeOK
  <2>6. /\ prod'[p] \in Busy /\ prod'[p].rec = prod[p].rec /\ prod'[p] # Idle
        /\ \A q \in Producers \ {p} : prod'[q] = prod[q]
    <3>1. prod[p] \in Busy
      BY <1>0, InEnqueue
    <3>. QED BY <2>2, <3>1 DEF Busy, Idle, Typed, TypeOK
  <2>7. prod' \in [Producers -> {Idle} \cup Busy]
    BY <2>2, <2>6 DEF Typed, TypeOK
  <2>8. Typed'
    BY <2>2, <2>3, <2>5, <2>7 DEF Typed, TypeOK
  <2>9. \A v \in Recs : Submitting(v)' <=> Submitting(v)
    BY <2>6, <1>0 DEF Submitting
  <2>10. \A v \in Recs, y \in Slots : InSlot(v, y)' <=> InSlot(v, y) /\ v # r
    <3>1. r \notin ToSet(batch[x]) /\ batch' = batch
      BY <2>2, <2>3 DEF OneSlot
    <3>2. \A y \in Slots \ {x} : ~InSlot(r, y)
      BY <2>3 DEF OneSlot, InSlot
    <3>. QED BY <2>3, <3>1, <3>2 DEF InSlot
  <2>11. \A v \in Recs : InPool(v)' <=> InPool(v) /\ v # r
    BY <2>10 DEF InPool
  <2>12. OneHome'
    BY <2>2, <2>4, <2>5, <2>9, <2>11 DEF OneHome
  <2>13. OneSubmitter'
    BY <1>0, <2>6 DEF OneSubmitter
  <2>14. OneSlot'
    <3>1. \A y \in Slots : ToSet(queue'[y]) \cap ToSet(batch'[y]) = {}
      <4>1. ToSet(queue'[x]) \cap ToSet(batch'[x]) = {}
        BY <2>2, <2>3 DEF OneSlot
      <4>. QED BY <2>2, <2>3, <4>1 DEF OneSlot
    <3>2. \A y, z \in Slots, v \in Recs : InSlot(v, y)' /\ InSlot(v, z)' => y = z
      BY <2>10 DEF OneSlot
    <3>. QED BY <2>3, <3>1, <3>2 DEF OneSlot
  <2>. QED BY <2>8, <2>12, <2>13, <2>14
<1>. QED BY <1>2, <1>3

LEMMA ProducerData ==
  ASSUME Data, NEW p \in Producers, ProducerStep(p) PROVE Data'
<1>1. CASE Enqueue(p)
  <2>1. prod[p] # Idle
    BY <1>1, NotIdle DEF Enqueue
  <2>2. \/ Send(p) \/ Refuse(p)
        \/ /\ \E step \in {"full", "blocked"} : prod' = [prod EXCEPT ![p].at = step]
           /\ UNCHANGED <<queue, counted>>
    BY <1>1 DEF Enqueue
  <2>. QED BY <1>1, <2>1, <2>2, SendData, RefuseData, AtData DEF Enqueue, dataVars
<1>2. CASE Blocked(p) \/ Retry(p)
  <2>1. prod[p] # Idle
    BY <1>2, NotIdle DEF Blocked, Retry
  <2>. QED BY <1>2, <2>1, SendData, RefuseData DEF Blocked, Retry
<1>. QED BY <1>1, <1>2, LoadData, EvictData DEF ProducerStep

LEMMA TakeData ==
  ASSUME Data, NEW x \in Slots, Take(x) PROVE Data'
<1>. USE PoolAssumption DEF Data
<1>1. PICK r : r = Head(queue[x])
  OBVIOUS
<1>2. /\ queue[x] # <<>> /\ queue' = [queue EXCEPT ![x] = Tail(queue[x])]
      /\ batch' = [batch EXCEPT ![x] = Append(batch[x], r)]
      /\ UNCHANGED <<todo, live, cur, prod, quit, retire, stop, stopPool, timedOut, panicked, flushed, counted>>
  BY <1>1 DEF Take
<1>3. /\ queue' \in [Slots -> Seq(Recs)] /\ \A y \in Slots : Len(queue'[y]) <= Cap
      /\ r \in Recs /\ r \in ToSet(queue[x])
      /\ ToSet(queue'[x]) = ToSet(queue[x]) \ {r}
      /\ \A y \in Slots \ {x} : queue'[y] = queue[y]
      /\ \A y \in Slots : IsInjective(queue'[y])
  BY <1>1, <1>2, QueueTail
<1>4. /\ batch'[x] = Append(batch[x], r) /\ batch[x] \in Seq(Recs)
      /\ \A y \in Slots \ {x} : batch'[y] = batch[y]
  BY <1>2 DEF Typed
<1>5. batch'[x] \in Seq(Recs) /\ ToSet(batch'[x]) = ToSet(batch[x]) \cup {r}
  BY <1>3, <1>4, AppendSet
<1>6. batch' \in [Slots -> Seq(Recs)]
  BY <1>2, <1>4, <1>5 DEF Typed
<1>7. Typed'
  <2>1. phase' \in [Slots -> Phases]
    BY DEF Take, Typed, TypeOK, Phases
  <2>. QED BY <1>2, <1>3, <1>6, <2>1 DEF Typed, TypeOK, Phases
<1>8. \A v \in Recs, y \in Slots : InSlot(v, y)' <=> InSlot(v, y)
  BY <1>3, <1>4, <1>5 DEF InSlot
<1>9. \A v \in Recs : (InPool(v)' <=> InPool(v)) /\ (Submitting(v)' <=> Submitting(v))
  BY <1>2, <1>8 DEF InPool, Submitting
<1>10. OneHome' /\ OneSubmitter'
  BY <1>2, <1>9 DEF OneHome, OneSubmitter
<1>11. OneSlot'
  <2>1. \A y \in Slots : ToSet(queue'[y]) \cap ToSet(batch'[y]) = {}
    <3>1. ToSet(queue'[x]) \cap ToSet(batch'[x]) = {}
      BY <1>3, <1>5 DEF OneSlot
    <3>. QED BY <1>3, <1>4, <3>1 DEF OneSlot
  <2>2. \A y, z \in Slots, v \in Recs : InSlot(v, y)' /\ InSlot(v, z)' => y = z
    BY <1>8 DEF OneSlot
  <2>. QED BY <1>3, <2>1, <2>2 DEF OneSlot
<1>. QED BY <1>7, <1>10, <1>11

LEMMA FlushData ==
  ASSUME Data, NEW x \in Slots, Flush(x) PROVE Data'
<1>. USE PoolAssumption DEF Data
<1>1. /\ flushed' = flushed \cup ToSet(batch[x]) /\ batch' = [batch EXCEPT ![x] = <<>>]
      /\ UNCHANGED <<todo, live, cur, prod, queue, quit, retire, stop, stopPool, timedOut, panicked, counted>>
  BY DEF Flush
<1>2. batch'[x] = <<>> /\ (\A y \in Slots \ {x} : batch'[y] = batch[y]) /\ batch' \in [Slots -> Seq(Recs)]
  BY <1>1 DEF Typed
<1>3. ToSet(batch[x]) \subseteq Recs
  BY DEF Typed, ToSet
<1>4. Typed'
  <2>1. phase' \in [Slots -> Phases]
    BY DEF Flush, Typed, TypeOK, Phases
  <2>. QED BY <1>1, <1>2, <1>3, <2>1 DEF Typed, TypeOK, Phases
<1>5. \A v \in Recs, y \in Slots : InSlot(v, y)' <=> InSlot(v, y) /\ v \notin ToSet(batch[x])
  <2>1. \A v \in ToSet(batch[x]) : v \notin ToSet(queue[x]) /\ \A y \in Slots \ {x} : ~InSlot(v, y)
    BY <1>3 DEF OneSlot, InSlot
  <2>. QED BY <1>1, <1>2, <2>1, EmptySet DEF InSlot
<1>6. \A v \in Recs : InPool(v)' <=> InPool(v) /\ v \notin ToSet(batch[x])
  BY <1>5 DEF InPool
<1>7. \A v \in Recs : Submitting(v)' <=> Submitting(v)
  BY <1>1 DEF Submitting
<1>8. \A v \in ToSet(batch[x]) : InPool(v)
  BY DEF InPool, InSlot
<1>9. OneHome'
  BY <1>1, <1>3, <1>6, <1>7, <1>8 DEF OneHome
<1>10. OneSlot'
  <2>1. \A y, z \in Slots, v \in Recs : InSlot(v, y)' /\ InSlot(v, z)' => y = z
    BY <1>5 DEF OneSlot
  <2>. QED BY <1>1, <1>2, <2>1, EmptySet DEF OneSlot
<1>. QED BY <1>1, <1>4, <1>9, <1>10 DEF OneSubmitter

\* The steps that move no record.
LEMMA DataFrame ==
  ASSUME Data, Typed', UNCHANGED <<prod, queue, batch, dataVars>> PROVE Data'
<1>1. \A v \in Recs : (InPool(v)' <=> InPool(v)) /\ (Submitting(v)' <=> Submitting(v))
  BY DEF InPool, InSlot, Submitting
<1>. QED BY <1>1 DEF Data, OneHome, OneSubmitter, OneSlot, InSlot, dataVars

LEMMA DataNext ==
  ASSUME Data, [Next]_vars PROVE Data'
<1>. USE PoolAssumption
<1>1. ASSUME NEW x \in Slots, Tick(x) \/ Quit(x) \/ GraceOver(x) PROVE Data'
  <2>1. UNCHANGED <<todo, live, cur, prod, queue, batch, quit, retire, stop, stopPool, timedOut, panicked,
                    flushed, counted>>
    BY <1>1 DEF Tick, Quit, GraceOver
  <2>2. phase' \in [Slots -> Phases]
    BY <1>1 DEF Tick, Quit, GraceOver, Data, Typed, TypeOK, Phases
  <2>3. Typed'
    BY <2>1, <2>2 DEF Data, Typed, TypeOK, Phases
  <2>. QED BY <2>1, <2>3, DataFrame DEF dataVars
<1>2. ASSUME NEW g \in Pools, RetireBegin(g) \/ RetireEnd(g) PROVE Data'
  <2>1. UNCHANGED <<live, cur, prod, queue, batch, phase, stop, stopPool, dataVars>>
    BY <1>2 DEF RetireBegin, RetireEnd
  <2>2. /\ quit' \subseteq Slots /\ retire' \in [Pools -> {"no", "start", "wait", "done"}]
        /\ timedOut' \in BOOLEAN /\ panicked' \in BOOLEAN
    BY <1>2 DEF RetireBegin, RetireEnd, CloseQuit, Drained, PoolSlots, Data, Typed, TypeOK
  <2>3. Typed'
    BY <2>1, <2>2 DEF Data, Typed, TypeOK, dataVars
  <2>. QED BY <2>1, <2>3, DataFrame
<1>3. CASE StopStep \/ Signal
  <2>1. UNCHANGED <<live, cur, prod, queue, batch, phase, retire, dataVars>>
    BY <1>3 DEF StopStep, StopBegin, StopClose, StopDrained, StopEnd, Signal
  <2>2. /\ quit' \subseteq Slots /\ stop' \in {"no", "receivers", "loaded", "wait", "retired", "exit"}
        /\ timedOut' \in BOOLEAN /\ panicked' \in BOOLEAN /\ stopPool' \in Pools
    BY <1>3 DEF StopStep, StopBegin, StopClose, StopDrained, StopEnd, Signal, CloseQuit, Drained,
       PoolSlots, Data, Typed, TypeOK
  <2>3. Typed'
    BY <2>1, <2>2 DEF Data, Typed, TypeOK, dataVars
  <2>. QED BY <2>1, <2>3, DataFrame
<1>4. CASE LiveStore \/ Reload
  <2>1. UNCHANGED <<prod, queue, batch, quit, stop, stopPool, timedOut, panicked, dataVars>>
    BY <1>4 DEF LiveStore, Reload
  <2>2. /\ live' \in [mode : Policies, size : BatchSizes] /\ cur' \in Pools
        /\ phase' \in [Slots -> Phases] /\ retire' \in [Pools -> {"no", "start", "wait", "done"}]
    BY <1>4 DEF LiveStore, Reload, Data, Typed, TypeOK, Phases
  <2>3. Typed'
    BY <2>1, <2>2 DEF Data, Typed, TypeOK, dataVars, Phases
  <2>. QED BY <2>1, <2>3, DataFrame
<1>5. CASE UNCHANGED vars
  <2>1. UNCHANGED <<prod, queue, batch, dataVars>> /\ Typed'
    BY <1>5 DEF vars, dataVars, Data, Typed, TypeOK
  <2>. QED BY <2>1, DataFrame
<1>6. ASSUME NEW x \in Slots, ShardStep(x) PROVE Data'
  BY <1>1, <1>6, TakeData, FlushData DEF ShardStep
<1>. QED BY <1>2, <1>3, <1>4, <1>5, <1>6, ProducerData DEF Next

-----------------------------------------------------------------------------
(* Who may still send, and which pools are drained.                        *)

\* The pool that a receiver loads has not been asked to quit.
LEMMA CurrentRuns ==
  ASSUME Typed, Control, NEW x \in Slots, x \in quit, stop \in {"no", "receivers"} PROVE x[1] # cur
<1>1. cur \in Pools /\ x[1] \in Pools /\ (retire[x[1]] # "no" => x[1] < cur)
  BY SlotType DEF Control, Swapped, Typed, TypeOK
<1>2. retire[x[1]] # "no"
  BY DEF Control, Asked
<1>. QED BY <1>1, <1>2, PoolInt

\* Receivers move records; the pools stay as they are.
LEMMA ProducerControl ==
  ASSUME Data, Control, NEW p \in Producers, ProducerStep(p) PROVE Control'
<1>. USE PoolAssumption
<1>1. UNCHANGED <<cur, batch, phase, quit, retire, stop, stopPool, timedOut, panicked>>
  BY DEF ProducerStep, Load, Enqueue, Blocked, Evict, Retry
<1>2. /\ \A q \in Producers \ {p} : prod'[q] = prod[q]
      /\ prod'[p] # Idle => \/ prod[p] # Idle /\ prod'[p].pool = prod[p].pool
                            \/ stop \in {"no", "receivers"} /\ prod'[p].pool = cur
  <2>1. CASE Load(p)
    BY <2>1 DEF Load, Data, Typed, TypeOK
  <2>2. CASE ~Load(p)
    <3>1. prod[p] # Idle
      BY <2>2, NotIdle DEF ProducerStep, Enqueue, Blocked, Evict, Retry
    <3>2. prod' = [prod EXCEPT ![p] = Idle] \/ \E step : prod' = [prod EXCEPT ![p].at = step]
      BY <2>2 DEF ProducerStep, Enqueue, Blocked, Evict, Retry, Send, Refuse
    <3>3. prod[p] \in Busy
      BY <3>1, InEnqueue DEF Data
    <3>. QED BY <3>1, <3>2, <3>3 DEF Busy, Data, Typed, TypeOK
  <2>. QED BY <2>1, <2>2
<1>3. \A y \in Slots : queue[y] = <<>> /\ queue'[y] # <<>> => prod[p] # Idle /\ prod[p].pool = y[1]
  <2>1. CASE Load(p)
    <3>1. queue' = queue
      BY <2>1 DEF Load
    <3>. QED BY <3>1
  <2>2. CASE ~Load(p)
    <3>1. prod[p] # Idle
      BY <2>2, NotIdle DEF ProducerStep, Enqueue, Blocked, Evict, Retry
    <3>2. PICK x \in Slots : x = Slot(p) /\ x[1] = prod[p].pool
      BY <3>1, InEnqueue DEF Data
    <3>3. \/ queue' = queue
          \/ queue' = [queue EXCEPT ![x] = Append(@, prod[p].rec)]
          \/ queue[x] # <<>> /\ queue' = [queue EXCEPT ![x] = Tail(@)]
      BY <2>2, <3>2 DEF ProducerStep, Enqueue, Blocked, Evict, Retry, Send, Refuse
    <3>4. \A y \in Slots \ {x} : queue'[y] = queue[y]
      BY <3>3 DEF Data, Typed
    <3>5. queue[x] = <<>> /\ queue'[x] # queue[x] => prod[p] # Idle /\ prod[p].pool = x[1]
      BY <3>1, <3>2
    <3>. QED BY <3>4, <3>5
  <2>. QED BY <2>1, <2>2
<1>4. Swapped'
  <2>1. stop \in Stopping => \A q \in Producers : prod'[q] = Idle
    BY <1>2 DEF Control, Swapped, Stopping
  <2>2. \A q \in Producers : prod'[q] # Idle => prod'[q].pool <= cur
    BY <1>2 DEF Control, Swapped, Data, Typed, TypeOK, Pools
  <2>3. \A x \in Slots : x[1] > cur => queue'[x] = <<>>
    <3>. SUFFICES ASSUME NEW x \in Slots, x[1] > cur, queue'[x] # <<>> PROVE FALSE
      OBVIOUS
    <3>1. queue[x] = <<>> /\ (prod[p] # Idle => prod[p].pool <= cur)
      BY DEF Control, Swapped
    <3>2. prod[p] # Idle /\ prod[p].pool = x[1]
      BY <1>3, <3>1
    <3>3. x[1] \in Nat /\ cur \in Nat
      BY SlotType, PoolInt DEF Data, Typed, TypeOK
    <3>. QED BY <3>1, <3>2, <3>3
  <2>. QED BY <1>1, <2>1, <2>2, <2>3 DEF Control, Swapped
<1>5. Quiet'
  <2>1. ASSUME NEW x \in Slots, phase[x] \in {"lastFlush", "exited"} PROVE ~Straddling(x[1])'
    <3>1. x \in quit /\ ~Straddling(x[1])
      BY <2>1 DEF Control, Asked, Quiet
    <3>2. stop \in {"no", "receivers"} => x[1] # cur
      BY <3>1, CurrentRuns DEF Data
    <3>. QED BY <1>2, <3>1, <3>2 DEF Straddling
  <2>2. ASSUME NEW x \in Slots, phase[x] \in {"lastFlush", "exited"} PROVE queue'[x] = <<>>
    BY <1>3, <2>2 DEF Control, Quiet, Straddling
  <2>. QED BY <1>1, <2>1, <2>2 DEF Control, Quiet
<1>6. Asked' /\ Waited'
  BY <1>1 DEF Control, Asked, Waited, PoolSlots
<1>. QED BY <1>1, <1>4, <1>5, <1>6 DEF Control

\* A shard moves on: its new phase, its queue and its batch.
LEMMA ShardFrame ==
  ASSUME Data, Control, NEW x \in Slots, NEW to \in Phases \ {"off"}, phase[x] \notin {"off", "exited"},
         phase' = [phase EXCEPT ![x] = to],
         UNCHANGED <<cur, prod, quit, retire, stop, stopPool, timedOut, panicked>>,
         \A y \in Slots \ {x} : queue'[y] = queue[y] /\ batch'[y] = batch[y],
         to \in {"drain", "drainFlush", "lastFlush", "exited"} => x \in quit,
         to \in {"lastFlush", "exited"} => queue'[x] = <<>> /\ ~Straddling(x[1]),
         to = "exited" => batch'[x] = <<>>
  PROVE  Control'
<1>1. phase'[x] = to /\ \A y \in Slots \ {x} : phase'[y] = phase[y]
  BY DEF Data, Typed, TypeOK
<1>2. ~(x[1] > cur)
  BY DEF Control, Swapped
<1>3. Swapped'
  BY <1>1, <1>2 DEF Control, Swapped
<1>4. Asked'
  BY <1>1 DEF Control, Asked
<1>5. Quiet'
  BY <1>1 DEF Control, Quiet, Straddling
<1>6. Waited'
  BY <1>1 DEF Control, Waited, PoolSlots
<1>. QED BY <1>3, <1>4, <1>5, <1>6 DEF Control

LEMMA ShardControl ==
  ASSUME Data, Control, GraceSuffices, NEW x \in Slots, ShardStep(x) PROVE Control'
<1>. USE DEF Phases
<1>1. CASE Take(x)
  <2>1. PICK to \in {"run", "flush", "drain", "drainFlush"} :
          /\ phase' = [phase EXCEPT ![x] = to]
          /\ to \in {"drain", "drainFlush"} => phase[x] = "drain"
    <3>1. phase[x] \in {"run", "drain"}
      BY <1>1 DEF Take
    <3>2. phase' = [phase EXCEPT ![x] = IF Len(batch'[x]) < live.size THEN phase[x]
                                        ELSE IF phase[x] = "run" THEN "flush" ELSE "drainFlush"]
      BY <1>1 DEF Take
    <3>3. CASE Len(batch'[x]) < live.size
      BY <3>1, <3>2, <3>3
    <3>4. CASE ~(Len(batch'[x]) < live.size)
      BY <3>1, <3>2, <3>4
    <3>. QED BY <3>3, <3>4
  <2>2. phase[x] = "drain" => x \in quit
    BY DEF Control, Asked
  <2>3. /\ phase[x] \in {"run", "drain"}
        /\ UNCHANGED <<cur, prod, quit, retire, stop, stopPool, timedOut, panicked>>
        /\ \A y \in Slots \ {x} : queue'[y] = queue[y] /\ batch'[y] = batch[y]
    BY <1>1 DEF Take, Data, Typed
  <2>. QED BY <2>1, <2>2, <2>3, ShardFrame
<1>2. CASE Tick(x) \/ Quit(x)
  BY <1>2, ShardFrame DEF Tick, Quit
<1>3. CASE GraceOver(x)
  <2>1. PICK to \in {"exited", "lastFlush"} :
          phase' = [phase EXCEPT ![x] = to] /\ (to = "exited" => batch[x] = <<>>)
    BY <1>3 DEF GraceOver
  <2>2. x \in quit
    BY <1>3 DEF GraceOver, Control, Asked
  <2>3. /\ phase[x] = "drain" /\ queue[x] = <<>> /\ ~Straddling(x[1])
        /\ UNCHANGED <<queue, batch, cur, prod, quit, retire, stop, stopPool, timedOut, panicked>>
    BY <1>3 DEF GraceOver
  <2>. QED BY <2>1, <2>2, <2>3, ShardFrame
<1>4. CASE Flush(x)
  <2>1. PICK to \in {"run", "drain", "exited"} :
          /\ phase' = [phase EXCEPT ![x] = to]
          /\ to = "drain" => phase[x] = "drainFlush"
          /\ to = "exited" => phase[x] = "lastFlush"
    <3>1. CASE phase[x] = "flush"
      BY <1>4, <3>1 DEF Flush
    <3>2. CASE phase[x] = "drainFlush"
      BY <1>4, <3>2 DEF Flush
    <3>3. CASE phase[x] = "lastFlush"
      BY <1>4, <3>3 DEF Flush
    <3>. QED BY <1>4, <3>1, <3>2, <3>3 DEF Flush
  <2>2. to \in {"drain", "exited"} => x \in quit
    BY <2>1 DEF Control, Asked
  <2>3. to = "exited" => queue[x] = <<>> /\ ~Straddling(x[1])
    BY <2>1 DEF Control, Quiet
  <2>4. /\ phase[x] \notin {"off", "exited"} /\ batch'[x] = <<>>
        /\ UNCHANGED <<queue, cur, prod, quit, retire, stop, stopPool, timedOut, panicked>>
        /\ \A y \in Slots \ {x} : batch'[y] = batch[y]
    BY <1>4 DEF Flush, Data, Typed
  <2>. QED BY <2>1, <2>2, <2>3, <2>4, ShardFrame
<1>. QED BY <1>1, <1>2, <1>3, <1>4 DEF ShardStep

\* Reload before the signal to stop: the old pool is retired, the next one runs.
LEMMA ReloadControl ==
  ASSUME Data, Control, ~HTTPReload, Reload PROVE Control'
<1>. USE PoolAssumption
<1>1. /\ stop = "no" /\ cur + 1 \in Pools /\ cur \in Nat /\ cur \in Pools /\ cur' = cur + 1
      /\ UNCHANGED <<prod, queue, batch, quit, stop, stopPool, timedOut, panicked>>
  BY PoolInt DEF Reload, Data, Typed, TypeOK
<1>2. retire'[cur] = "start" /\ \A g \in Pools \ {cur} : retire'[g] = retire[g]
  BY DEF Reload, Data, Typed, TypeOK
<1>3. \A x \in Slots : phase'[x] = IF x[1] = cur + 1 THEN "run" ELSE phase[x]
  BY DEF Reload
<1>4. \A x \in Slots : x[1] \in Nat /\ x[1] \in Pools
  BY SlotType, PoolInt
<1>5. \A g \in Pools : g \in Nat
  BY PoolInt
<1>6. Swapped'
  <2>1. \A g \in Pools : retire'[g] # "no" <=> g < cur + 1
    BY <1>1, <1>2, <1>5 DEF Control, Swapped
  <2>2. \A x \in Slots : x[1] > cur + 1 <=> phase'[x] = "off"
    BY <1>1, <1>3, <1>4 DEF Control, Swapped
  <2>3. \A p \in Producers : prod[p] # Idle => prod[p].pool <= cur + 1
    <3>1. \A p \in Producers : prod[p] # Idle => prod[p].pool \in Nat
      BY InEnqueue, PoolInt DEF Data
    <3>. QED BY <1>1, <3>1 DEF Control, Swapped
  <2>4. \A x \in Slots : x[1] > cur + 1 => queue[x] = <<>> /\ batch[x] = <<>>
    BY <1>1, <1>4 DEF Control, Swapped
  <2>. QED BY <1>1, <2>1, <2>2, <2>3, <2>4 DEF Swapped, Stopping
<1>7. \A x \in quit : x[1] # cur /\ x \in Slots
  BY <1>1, CurrentRuns DEF Data, Typed, TypeOK
<1>8. Asked'
  <2>1. \A x \in quit : retire'[x[1]] \in {"wait", "done"}
    BY <1>1, <1>2, <1>4, <1>7 DEF Control, Asked
  <2>2. \A x \in Slots : phase'[x] \in {"drain", "drainFlush", "lastFlush", "exited"} => x \in quit
    BY <1>3 DEF Control, Asked
  <2>. QED BY <1>1, <2>1, <2>2 DEF Asked
<1>9. Quiet'
  BY <1>1, <1>3 DEF Control, Quiet, Straddling
<1>10. Waited'
  <2>1. ASSUME NEW g \in Pools, ~timedOut, retire'[g] = "done", NEW x \in PoolSlots(g)
        PROVE  phase'[x] = "exited"
    <3>1. g # cur /\ retire[g] = "done" /\ x \in Slots /\ x[1] = g
      BY <1>2, <2>1 DEF PoolSlots
    <3>2. phase[x] = "exited" /\ g < cur
      BY <2>1, <3>1 DEF Control, Waited, Swapped
    <3>. QED BY <1>1, <1>3, <1>5, <3>1, <3>2
  <2>. QED BY <1>1, <2>1 DEF Waited, PoolSlots
<1>. QED BY <1>1, <1>6, <1>8, <1>9, <1>10 DEF Control

\* The two drains.
LEMMA DrainControl ==
  ASSUME Data, Control, NEW g \in Pools, RetireBegin(g) \/ RetireEnd(g) PROVE Control'
<1>. USE PoolAssumption
<1>1. UNCHANGED <<cur, prod, queue, batch, phase, stop, stopPool>>
  BY DEF RetireBegin, RetireEnd
<1>2. /\ retire[g] # "no" /\ retire'[g] # "no" /\ \A h \in Pools \ {g} : retire'[h] = retire[h]
  BY DEF RetireBegin, RetireEnd, Data, Typed, TypeOK
<1>3. stop # "exit"
  BY DEF RetireBegin, RetireEnd, Alive
<1>4. Swapped'
  BY <1>1, <1>2 DEF Control, Swapped
<1>5. Quiet'
  BY <1>1 DEF Control, Quiet, Straddling
<1>6. CASE RetireBegin(g)
  <2>1. /\ retire[g] = "start" /\ retire'[g] = "wait" /\ quit' = quit \cup PoolSlots(g)
        /\ panicked' = (PoolSlots(g) \cap quit # {}) /\ UNCHANGED timedOut
    BY <1>6 DEF RetireBegin, CloseQuit, Data, Typed, TypeOK
  <2>2. g # cur
    BY <1>2, PoolInt DEF Control, Swapped
  <2>3. PoolSlots(g) \cap quit = {}
    <3>. SUFFICES ASSUME NEW x \in quit, x[1] = g PROVE FALSE
      BY DEF PoolSlots
    <3>. QED BY <2>1, <2>2 DEF Control, Asked, Swapped, Stopping
  <2>4. Asked'
    BY <1>1, <1>2, <2>1, SlotType DEF Control, Asked, Data, Typed, TypeOK, PoolSlots
  <2>5. Waited'
    BY <1>1, <1>2, <1>3, <2>1 DEF Control, Waited, PoolSlots
  <2>. QED BY <1>4, <1>5, <2>1, <2>3, <2>4, <2>5 DEF Control
<1>7. CASE RetireEnd(g)
  <2>1. /\ retire[g] = "wait" /\ retire'[g] = "done" /\ UNCHANGED <<quit, panicked>>
        /\ \/ (\A x \in PoolSlots(g) : phase[x] = "exited") /\ timedOut' = timedOut
           \/ timedOut' = TRUE
    BY <1>7 DEF RetireEnd, Drained, Data, Typed, TypeOK
  <2>2. Asked'
    BY <1>1, <1>2, <2>1, SlotType DEF Control, Asked, Data, Typed, TypeOK
  <2>3. Waited'
    BY <1>1, <1>2, <1>3, <2>1 DEF Control, Waited, PoolSlots
  <2>. QED BY <1>4, <1>5, <2>1, <2>2, <2>3 DEF Control
<1>. QED BY <1>6, <1>7

LEMMA StopControl ==
  ASSUME Data, Control, StopStep \/ Signal PROVE Control'
<1>. USE PoolAssumption
<1>1. UNCHANGED <<cur, prod, queue, batch, phase, retire>>
  BY DEF StopStep, StopBegin, StopClose, StopDrained, StopEnd, Signal
<1>2. Quiet'
  BY <1>1 DEF Control, Quiet, Straddling
<1>3. CASE Signal \/ StopBegin
  <2>1. /\ UNCHANGED <<quit, timedOut, panicked>> /\ stop \in {"no", "receivers"}
        /\ \/ stop' = "receivers"
           \/ stop' = "loaded" /\ stopPool' = cur /\ \A p \in Producers : prod[p] = Idle
    BY <1>3 DEF Signal, StopBegin
  <2>2. Swapped'
    BY <1>1, <2>1 DEF Control, Swapped, Stopping
  <2>3. Asked' /\ Waited'
    BY <1>1, <2>1 DEF Control, Asked, Waited, PoolSlots
  <2>. QED BY <1>2, <2>1, <2>2, <2>3 DEF Control
<1>4. CASE StopClose
  <2>1. /\ stop = "loaded" /\ stop' = "wait" /\ quit' = quit \cup PoolSlots(stopPool)
        /\ panicked' = (PoolSlots(stopPool) \cap quit # {}) /\ UNCHANGED <<timedOut, stopPool>>
    BY <1>4 DEF StopClose, CloseQuit
  <2>2. stopPool = cur /\ Swapped' /\ cur \in Pools
    BY <1>1, <2>1 DEF Control, Swapped, Stopping, Data, Typed, TypeOK
  <2>3. PoolSlots(stopPool) \cap quit = {}
    <3>. SUFFICES ASSUME NEW x \in quit, x[1] = cur PROVE FALSE
      BY <2>2 DEF PoolSlots
    <3>1. retire[cur] # "no"
      BY <2>1 DEF Control, Asked
    <3>. QED BY <2>2, <3>1, PoolInt DEF Control, Swapped
  <2>4. Asked'
    BY <1>1, <2>1 DEF Control, Asked, PoolSlots
  <2>5. Waited'
    BY <1>1, <2>1 DEF Control, Waited, PoolSlots
  <2>. QED BY <1>2, <2>1, <2>2, <2>3, <2>4, <2>5 DEF Control
<1>5. CASE StopDrained \/ StopEnd
  <2>1. /\ UNCHANGED <<quit, panicked, stopPool>>
        /\ \/ /\ stop = "wait" /\ stop' = "retired"
              /\ \/ (\A x \in PoolSlots(stopPool) : phase[x] = "exited") /\ timedOut' = timedOut
                 \/ timedOut' = TRUE
           \/ /\ stop = "retired" /\ stop' = "exit" /\ UNCHANGED timedOut
              /\ \A h \in Pools : retire[h] \in {"no", "done"}
    BY <1>5 DEF StopDrained, StopEnd, Drained
  <2>2. Swapped'
    BY <1>1, <2>1 DEF Control, Swapped, Stopping
  <2>3. Asked'
    BY <1>1, <2>1 DEF Control, Asked
  <2>4. Waited'
    BY <1>1, <2>1 DEF Control, Waited, PoolSlots
  <2>. QED BY <1>2, <2>1, <2>2, <2>3, <2>4 DEF Control
<1>. QED BY <1>3, <1>4, <1>5 DEF StopStep

LEMMA ControlNext ==
  ASSUME Data, Control, GraceSuffices, ~HTTPReload, [Next]_vars PROVE Control'
<1>1. CASE LiveStore \/ UNCHANGED vars
  <2>1. UNCHANGED <<cur, prod, queue, batch, phase, quit, retire, stop, stopPool, timedOut, panicked>>
    BY <1>1 DEF LiveStore, vars
  <2>. QED BY <2>1 DEF Control, Swapped, Asked, Quiet, Waited, Straddling, PoolSlots
<1>. QED
  BY <1>1, ProducerControl, ShardControl, ReloadControl, DrainControl, StopControl DEF Next

-----------------------------------------------------------------------------
(* The pool is sound.                                                      *)

LEMMA PoolInit == Init => PoolInv
<1>. SUFFICES ASSUME Init PROVE PoolInv
  OBVIOUS
<1>. USE PoolAssumption DEF Init
<1>1. 1 \in Pools
  BY DEF Pools
<1>2. Typed
  <2>1. queue \in [Slots -> Seq(Recs)] /\ batch \in [Slots -> Seq(Recs)] /\ prod \in [Producers -> {Idle}]
    OBVIOUS
  <2>2. \A x \in Slots : queue[x] \in Seq(Recs) /\ Len(queue[x]) <= Cap /\ batch[x] \in Seq(Recs)
    BY <2>1
  <2>3. phase \in [Slots -> Phases] /\ retire \in [Pools -> {"no"}] /\ counted \in [Recs -> 0..2]
    BY DEF Phases
  <2>. QED BY <1>1, <2>1, <2>2, <2>3 DEF Typed, TypeOK, Phases
<1>3. \A r \in Recs : ~Submitting(r) /\ ~InPool(r)
  BY EmptySet DEF Submitting, InPool, InSlot
<1>4. OneHome /\ OneSubmitter
  BY <1>3 DEF OneHome, OneSubmitter
<1>5. OneSlot
  BY EmptySet DEF OneSlot, InSlot
<1>6. Swapped
  <2>1. \A g \in Pools : g >= 1 /\ g \in Nat
    BY DEF Pools
  <2>2. \A x \in Slots : x[1] \in Pools
    BY SlotType
  <2>3. \A g \in Pools : retire[g] # "no" <=> g < cur
    BY <2>1
  <2>4. \A x \in Slots : x[1] > cur <=> phase[x] = "off"
    BY <2>1, <2>2
  <2>. QED BY <2>3, <2>4 DEF Swapped, Stopping
<1>7. Asked /\ Quiet /\ Waited
  BY DEF Asked, Quiet, Waited, PoolSlots
<1>. QED BY <1>2, <1>4, <1>5, <1>6, <1>7 DEF PoolInv, Data, Control

LEMMA Projections ==
  ASSUME NEW a, NEW b, NEW c, NEW d
  PROVE  /\ <<a, b, c, d>>[1] = a /\ <<a, b, c, d>>[2] = b
         /\ <<a, b, c, d>>[3] = c /\ <<a, b, c, d>>[4] = d
OBVIOUS

LEMMA OneOfFour ==
  ASSUME NEW at,
         \/ at[1] /\ ~at[2] /\ ~at[3] /\ ~at[4]
         \/ ~at[1] /\ at[2] /\ ~at[3] /\ ~at[4]
         \/ ~at[1] /\ ~at[2] /\ at[3] /\ ~at[4]
         \/ ~at[1] /\ ~at[2] /\ ~at[3] /\ at[4]
  PROVE  \E i \in 1..4 : \A j \in 1..4 : at[j] <=> (i = j)
<1>1. 1..4 = {1, 2, 3, 4}
  OBVIOUS
<1>2. \E i \in {1, 2, 3, 4} : \A j \in {1, 2, 3, 4} : at[j] <=> (i = j)
  OBVIOUS
<1>. QED BY <1>1, <1>2

LEMMA PoolInvSound == PoolInv => PoolSound
<1>. SUFFICES ASSUME PoolInv PROVE PoolSound
  OBVIOUS
<1>. USE DEF PoolInv, Data, Control
<1>1. \A x \in Slots, r \in Recs : phase[x] = "exited" => ~InSlot(r, x)
  BY EmptySet DEF Quiet, InSlot
<1>2. \A r \in Recs : Buffered(r) <=> InPool(r)
  BY <1>1 DEF Buffered, InPool, InSlot
<1>3. OnePlace
  <2>. SUFFICES ASSUME NEW r \in Recs \ todo
                PROVE  \E i \in 1..4 : \A j \in 1..4 :
                         <<Submitting(r), Buffered(r), r \in flushed, counted[r] > 0>>[j] <=> (i = j)
    BY DEF OnePlace
  <2>0. counted[r] \in 0..2
    BY DEF Typed, TypeOK
  <2>1. /\ Submitting(r) \in BOOLEAN /\ Buffered(r) \in BOOLEAN
        /\ (r \in flushed) \in BOOLEAN /\ (counted[r] > 0) \in BOOLEAN
    <3>1. Submitting(r) \in BOOLEAN
      BY DEF Submitting
    <3>2. Buffered(r) \in BOOLEAN
      BY DEF Buffered
    <3>3. (r \in flushed) \in BOOLEAN
      OBVIOUS
    <3>4. (counted[r] > 0) \in BOOLEAN
      BY <2>0
    <3>. QED BY <3>1, <3>2, <3>3, <3>4
  <2>2. counted[r] > 0 <=> counted[r] # 0
    BY <2>0
  <2>3. \/ Submitting(r) /\ ~Buffered(r) /\ ~(r \in flushed) /\ ~(counted[r] > 0)
        \/ ~Submitting(r) /\ Buffered(r) /\ ~(r \in flushed) /\ ~(counted[r] > 0)
        \/ ~Submitting(r) /\ ~Buffered(r) /\ (r \in flushed) /\ ~(counted[r] > 0)
        \/ ~Submitting(r) /\ ~Buffered(r) /\ ~(r \in flushed) /\ (counted[r] > 0)
    BY <1>2, <2>2, Zenon DEF OneHome
  <2>. DEFINE at == <<Submitting(r), Buffered(r), r \in flushed, counted[r] > 0>>
  <2>4. /\ at[1] = Submitting(r) /\ at[2] = Buffered(r)
        /\ at[3] = (r \in flushed) /\ at[4] = (counted[r] > 0)
    BY Projections
  <2>. HIDE DEF at
  <2>5. \/ at[1] /\ ~at[2] /\ ~at[3] /\ ~at[4]
        \/ ~at[1] /\ at[2] /\ ~at[3] /\ ~at[4]
        \/ ~at[1] /\ ~at[2] /\ at[3] /\ ~at[4]
        \/ ~at[1] /\ ~at[2] /\ ~at[3] /\ at[4]
    <3>1. at[1] <=> Submitting(r)
      BY <2>4
    <3>2. at[2] <=> Buffered(r)
      BY <2>4
    <3>3. at[3] <=> r \in flushed
      BY <2>4
    <3>4. at[4] <=> counted[r] > 0
      BY <2>4
    <3>. QED BY <2>3, <3>1, <3>2, <3>3, <3>4, Zenon
  <2>6. \E i \in 1..4 : \A j \in 1..4 : at[j] <=> (i = j)
    BY <2>5, OneOfFour
  <2>. QED BY <2>6 DEF at
<1>4. StopDrains
  <2>. SUFFICES ASSUME stop = "exit", ~timedOut, NEW r \in Recs, NEW x \in Slots PROVE ~InSlot(r, x)
    BY DEF StopDrains, Buffered, Stranded, InSlot
  <2>1. x[1] \in Pools /\ x \in PoolSlots(x[1]) /\ x[1] \in Nat /\ cur \in Nat
    BY SlotType, PoolInt DEF Typed, TypeOK
  <2>2. CASE x[1] > cur
    BY <2>2, EmptySet DEF Swapped, InSlot
  <2>3. CASE x[1] = cur
    <3>1. phase[x] = "exited"
      BY <2>1, <2>3 DEF Waited, Swapped, Stopping
    <3>. QED BY <1>1, <3>1
  <2>4. CASE x[1] < cur
    <3>1. retire[x[1]] = "done"
      BY <2>1, <2>4 DEF Waited, Swapped
    <3>2. phase[x] = "exited"
      BY <2>1, <3>1 DEF Waited
    <3>. QED BY <1>1, <3>2
  <2>. QED BY <2>1, <2>2, <2>3, <2>4
<1>. QED BY <1>3, <1>4 DEF PoolSound, NoPanic, Typed

\* As long as drainGrace outlasts an Enqueue in progress and no Reload follows the
\* signal to stop, every record read is in one place, none is stranded in a retired
\* channel or both stored and counted, no quit channel is closed twice, and a process
\* that exits in time leaves nothing behind, whatever the pool sizes, the capacity,
\* the backpressure mode and the reloads (clickhouse.go:64-67, 89, 391-392).
THEOREM PoolStaysSound == GraceSuffices /\ ~HTTPReload => (Spec => []PoolSound)
<1>1. ASSUME GraceSuffices, ~HTTPReload PROVE Spec => []PoolSound
  <2>1. PoolInv /\ [Next]_vars => PoolInv'
    BY <1>1, DataNext, ControlNext DEF PoolInv
  <2>. QED BY <2>1, PoolInit, PoolInvSound, PTL DEF Spec
<1>. QED BY <1>1
=============================================================================
