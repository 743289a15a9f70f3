------------------------------- MODULE Ingest -------------------------------
(* From a datagram to the writer: the UDP receivers (internal/receiver), the *)
(* template caches of NetFlow v9 and IPFIX (internal/decoder), the device    *)
(* registry, the skip rules and Pipeline.HandlePacket (internal/pipeline).   *)
(*                                                                           *)
(* A layout is what a template says of its records: "nat" has the post-NAT   *)
(* elements, "plain" has not, "empty" has no bytes, "options" describes      *)
(* control data.  "none" stands for no template.                             *)
EXTENDS Naturals, Sequences, FiniteSets, FiniteSetsExt

CONSTANTS
  Exporters, Sources, Tids,  \* addresses, source or domain ids, template ids
  Workers,                   \* reader goroutines of the listener
  Hash,                      \* exporter -> worker: the kernel's choice of socket
  Datagrams,                 \* exporter -> what it sends: [src, ok, sets]
  Flows,                     \* the records of every data set
  MaxRecords,                \* maxRecordsPerPacket
  MaxTemplates, TTL, SweepEvery,
  Registries,                \* what the director may answer: exporter -> device
  Lives,                     \* tunables: [mode, rules]
  NoDevice, DefaultId,       \* unregistered; id of unknown exporters
  MaxSent, MaxTime, MaxPolls \* bounds

Layouts == {"nat", "plain", "empty", "options"}
Keys == Exporters \X Sources \X Tids
RuleSets == [dns : BOOLEAN, priv : BOOLEAN, zero : BOOLEAN]
Modes == {"allow", "observe", "reject"}
Kinds == {"template", "withdraw", "data", "fixed", "truncated"}
Set == [kind : Kinds, tid : Tids, layout : Layouts]

ASSUME IngestAssumption ==
  /\ Hash \in [Exporters -> Workers]
  /\ \A e \in Exporters :
       Datagrams[e] \subseteq [src : Sources, ok : BOOLEAN, sets : Seq(Set)]
  /\ Len(Flows) \in Nat /\ MaxRecords \in Nat \ {0} /\ MaxTemplates \in Nat \ {0}
  /\ TTL \in Nat /\ SweepEvery \in Nat
  /\ Lives \subseteq [mode : Modes, rules : RuleSets] /\ Lives # {}
  /\ Registries # {}
  /\ \A r \in Registries, e \in Exporters :
       r[e] = NoDevice \/ r[e] \in [id : Nat \ {0}, enabled : BOOLEAN, rules : RuleSets]
  /\ DefaultId \in Nat /\ MaxSent \in Nat /\ MaxTime \in Nat /\ MaxPolls \in Nat
  /\ SweepEvery < MaxTime

VARIABLES
  told,       \* key -> layout its exporter announced last
  sock,       \* exporter -> its datagrams in the socket
  sent,       \* datagrams sent so far
  now,        \* the clock
  cache,      \* key -> [layout, seen]
  lastSweep,
  devices,    \* device.Store
  live,       \* config.Store
  polls,      \* changes of devices and live so far
  job,        \* worker -> the datagram in its hands
  signals,    \* devices with evidence of untranslated flows
  lost,       \* ghost: keys an announcement of which was not decoded since their last one
  read,       \* ghost: [enc, as], the layout of a record and the one used to read it
  used,       \* ghost: key -> last time its template was put or used, 0: not known
  during,     \* ghost: worker -> registry entries of its exporter since it read
  skipped,    \* ghost: flows the rules dropped
  stored      \* ghost: [id, matched, owners] of the records given to the writer

netVars == <<told, sock, sent>>
cacheVars == <<cache, lastSweep, used>>
cfgVars == <<devices, live, polls>>
outVars == <<signals, skipped, stored>>
vars == <<netVars, now, cacheVars, cfgVars, job, outVars, lost, read, during>>

NoTemplate == [layout |-> "none", seen |-> 0]
Idle == [pc |-> "idle"]

Init ==
  /\ told = [k \in Keys |-> "plain"]
  /\ sock = [e \in Exporters |-> <<>>] /\ sent = 0
  /\ now = SweepEvery + 1 /\ lastSweep = 0
  /\ cache = [k \in Keys |-> NoTemplate]
  /\ devices \in Registries /\ live \in Lives /\ polls = 0
  /\ job = [w \in Workers |-> Idle]
  /\ signals = {} /\ lost = {} /\ read = {} /\ skipped = {} /\ stored = {}
  /\ used = [k \in Keys |-> 0]
  /\ during = [w \in Workers |-> {}]

-----------------------------------------------------------------------------
(* The exporters, the network and the clock.                               *)

\* What the first n sets of ss tell of template k, told v before: the last word counts.
Announcing(k, e, src, ss, n) ==
  {i \in 1..n : ss[i].kind \in {"template", "withdraw"} /\ k = <<e, src, ss[i].tid>>}
Says(s) == IF s.kind = "template" THEN s.layout ELSE "none"
Announced(v, k, e, src, ss, n) ==
  LET I == Announcing(k, e, src, ss, n) IN IF I = {} THEN v ELSE Says(ss[Max(I)])

\* An exporter encodes a data set by the template it announced last.  The
\* datagrams of one exporter reach its socket in order.
Send(e, g) ==
  LET key(i) == <<e, g.src, g.sets[i].tid>>
      enc(i) == IF g.sets[i].kind = "fixed" THEN g.sets[i].layout
                ELSE Announced(told[key(i)], key(i), e, g.src, g.sets, i - 1)
      set(i) == [kind |-> g.sets[i].kind, tid |-> g.sets[i].tid,
                 layout |-> g.sets[i].layout, enc |-> enc(i)]
  IN /\ sent < MaxSent /\ sent' = sent + 1
     /\ \A i \in DOMAIN g.sets : g.sets[i].kind = "data" => enc(i) # "none"
     /\ told' = [k \in Keys |-> Announced(told[k], k, e, g.src, g.sets, Len(g.sets))]
     /\ sock' = [sock EXCEPT ![e] =
                   Append(@, [src |-> g.src, ok |-> g.ok,
                              sets |-> [i \in DOMAIN g.sets |-> set(i)]])]
     /\ UNCHANGED <<now, cacheVars, cfgVars, job, outVars, lost, read, during>>

\* Templates of g that are announced to nobody if its sets are not decoded.
Missed(e, g) == lost \cup {k \in Keys : Announcing(k, e, g.src, g.sets, Len(g.sets)) # {}}

\* UDP: the network or a full socket loses a datagram.  The step is taken when the
\* datagram would have been next, which nobody can tell from an earlier loss.
Lose(e) ==
  /\ sock[e] # <<>> /\ \A w \in Workers : job[w] # Idle => job[w].exp # e
  /\ sock' = [sock EXCEPT ![e] = Tail(@)]
  /\ lost' = Missed(e, Head(sock[e]))
  /\ UNCHANGED <<told, sent, now, cacheVars, cfgVars, job, outVars, read, during>>

Tick ==
  /\ now < MaxTime /\ now' = now + 1
  /\ UNCHANGED <<netVars, cacheVars, cfgVars, job, outVars, lost, read, during>>

-----------------------------------------------------------------------------
(* Configuration.                                                          *)

\* The end of PollOnce: c.devices.Store(reg).
StoreRegistry(reg) ==
  /\ polls < MaxPolls /\ polls' = polls + 1
  /\ devices' = reg
  /\ during' = [w \in Workers |->
                  IF job[w] = Idle THEN {} ELSE during[w] \cup {reg[job[w].exp]}]
  /\ UNCHANGED <<netVars, now, cacheVars, live, job, outVars, lost, read>>

\* apply: live.Store(lv).
StoreLive(lv) ==
  /\ polls < MaxPolls /\ polls' = polls + 1
  /\ live' = lv
  /\ UNCHANGED <<netVars, now, cacheVars, devices, job, outVars, lost, read, during>>

-----------------------------------------------------------------------------
(* Receiver and admission.                                                 *)

\* Mutant: all workers read one socket.
OneSocket(w) == Exporters

\* NewReusePort opens a socket per worker; the kernel assigns every exporter to
\* one of them.
Exporting(w) == {e \in Exporters : Hash[e] = w}

\* ReadFromUDP; HandlePacket loads the tunables.
ReadFromUDP(w) ==
  /\ job[w] = Idle
  /\ \E e \in Exporting(w) :
       /\ sock[e] # <<>>
       /\ sock' = [sock EXCEPT ![e] = Tail(@)]
       /\ job' = [job EXCEPT ![w] =
                    [pc |-> "lookup", exp |-> e, src |-> Head(sock[e]).src,
                     ok |-> Head(sock[e]).ok, sets |-> Head(sock[e]).sets,
                     live |-> live, id |-> 0, rules |-> live.rules,
                     matched |-> FALSE, out |-> {}, emitted |-> 0]]
       /\ during' = [during EXCEPT ![w] = {devices[e]}]
  /\ UNCHANGED <<told, sent, now, cacheVars, cfgVars, outVars, lost, read>>

\* Mutant: a device that was disabled is treated like any other.
AdmitDisabled(dev, lv) ==
  IF dev # NoDevice
  THEN [in |-> TRUE, id |-> dev.id, rules |-> dev.rules, matched |-> TRUE]
  ELSE [in |-> lv.mode # "reject", id |-> IF lv.mode = "observe" THEN 0 ELSE DefaultId,
        rules |-> lv.rules, matched |-> FALSE]

\* Identity, rules and admission of a datagram.
Admit(dev, lv) ==
  IF dev # NoDevice
  THEN [in |-> dev.enabled, id |-> dev.id, rules |-> dev.rules, matched |-> TRUE]
  ELSE [in |-> lv.mode # "reject", id |-> IF lv.mode = "observe" THEN 0 ELSE DefaultId,
        rules |-> lv.rules, matched |-> FALSE]

\* p.devices.Load().Lookup(exporter), and Decode's check of the header.
Lookup(w) ==
  LET a == Admit(devices[job[w].exp], job[w].live) IN
  /\ job[w].pc = "lookup"
  /\ job' = [job EXCEPT ![w] =
               IF a.in /\ job[w].ok
               THEN [@ EXCEPT !.pc = "decode", !.id = a.id, !.rules = a.rules,
                              !.matched = a.matched]
               ELSE Idle]
  /\ during' = IF job'[w] = Idle THEN [during EXCEPT ![w] = {}] ELSE during
  /\ lost' = IF job'[w] = Idle THEN Missed(job[w].exp, job[w]) ELSE lost
  /\ UNCHANGED <<netVars, now, cacheVars, cfgVars, outVars, read>>

-----------------------------------------------------------------------------
(* The template cache.                                                     *)

Cached(c) == {k \in Keys : c[k].layout # "none"}

SweepDue(c) == now - lastSweep > SweepEvery \/ Cardinality(Cached(c)) > MaxTemplates

Expired(c) == {k \in Cached(c) : now - c[k].seen > TTL}

\* What sweepLocked may leave of c: no expired template and, over the cap, the
\* most recently used ones.
Survivors(c) ==
  LET young == Cached(c) \ Expired(c)
      size == IF Cardinality(young) > MaxTemplates THEN MaxTemplates
              ELSE Cardinality(young)
  IN {s \in SUBSET young : /\ Cardinality(s) = size
                           /\ \A k \in s, x \in young \ s : c[x].seen <= c[k].seen}

\* putTemplate and sweepLocked.
putTemplate(k, layout) ==
  LET c == [cache EXCEPT ![k] = [layout |-> layout, seen |-> now]] IN
  \/ /\ ~SweepDue(c)
     /\ cache' = c /\ used' = [used EXCEPT ![k] = now]
     /\ UNCHANGED lastSweep
  \/ /\ SweepDue(c)
     /\ lastSweep' = now
     /\ \E s \in Survivors(c) :
          /\ cache' = [x \in Keys |-> IF x \in s THEN c[x] ELSE NoTemplate]
          /\ used' = [x \in Keys |-> IF x \in Cached(c) \ (Expired(c) \cup s) THEN 0
                                     ELSE IF x = k THEN now ELSE used[x]]

\* RFC 7011 withdrawal.
deleteTemplate(k) ==
  /\ cache' = [cache EXCEPT ![k] = NoTemplate]
  /\ used' = [used EXCEPT ![k] = 0]
  /\ UNCHANGED lastSweep

\* Mutant: a template is not refreshed when it is used.
getTemplateStale(k) ==
  /\ used' = IF cache[k] = NoTemplate THEN used ELSE [used EXCEPT ![k] = now]
  /\ UNCHANGED <<cache, lastSweep>>

\* getTemplate: refresh on use.
getTemplate(k) ==
  /\ cache' = IF cache[k] = NoTemplate THEN cache ELSE [cache EXCEPT ![k].seen = now]
  /\ used' = IF cache[k] = NoTemplate THEN used ELSE [used EXCEPT ![k] = now]
  /\ UNCHANGED lastSweep

-----------------------------------------------------------------------------
(* Decode, one set at a time.                                              *)

\* decodeData: as many records as the body and the budget of the datagram hold.
Records(j, layout) ==
  LET budget == MaxRecords - j.emitted IN
  IF layout \in {"none", "options", "empty"} THEN 0
  ELSE IF Len(Flows) < budget THEN Len(Flows) ELSE budget

\* Records decoded by a layout; the loop ends at the last set or at the cap.
Decoded(w, s, k, layout) ==
  LET n == Records(job[w], layout)
      j == [job[w] EXCEPT !.sets = Tail(@), !.emitted = @ + n,
                          !.out = IF n = 0 THEN @ ELSE @ \cup {[layout |-> layout, n |-> n]}]
      full == j.emitted >= MaxRecords
  IN /\ job' = [job EXCEPT ![w] = IF full THEN [j EXCEPT !.sets = <<>>] ELSE j]
     /\ lost' = IF full THEN Missed(j.exp, j) ELSE lost
     /\ read' = IF n = 0 \/ k \in lost THEN read ELSE read \cup {[enc |-> s.enc, as |-> layout]}

NextSet(w, k) ==
  /\ job' = [job EXCEPT ![w].sets = Tail(@)]
  /\ lost' = lost \ {k}
  /\ UNCHANGED read

templateKey(e, src, tid) == <<e, src, tid>>

Decode(w) ==
  LET j == job[w]
      s == Head(j.sets)
      k == templateKey(j.exp, j.src, s.tid)
  IN
  /\ j.pc = "decode" /\ j.sets # <<>>
  /\ \/ s.kind = "template" /\ putTemplate(k, s.layout) /\ NextSet(w, k)
     \/ s.kind = "withdraw" /\ deleteTemplate(k) /\ NextSet(w, k)
     \/ s.kind = "data" /\ Decoded(w, s, k, cache[k].layout) /\ getTemplate(k)
     \* NetFlow v5 and NAT syslog have a layout of their own.
     \/ s.kind = "fixed" /\ Decoded(w, s, k, s.layout) /\ UNCHANGED cacheVars
     \* A set that runs over the end of the datagram ends the loop.
     \/ s.kind = "truncated" /\ job' = [job EXCEPT ![w].sets = <<>>]
        /\ lost' = Missed(j.exp, j) /\ UNCHANGED <<read, cacheVars>>
  /\ UNCHANGED <<netVars, now, cfgVars, outVars, during>>

-----------------------------------------------------------------------------
(* Rules and the writer.  Address 0 is unset, 1 is private, others public.  *)

isUnsetIP(a) == a = 0
isPrivate(a) == a = 1

\* applyField: the flow as the layout shows it.
View(layout, f) ==
  IF layout = "nat" THEN f
  ELSE [f EXCEPT !.natSrc = 0, !.natSport = 0, !.natDst = 0, !.natDport = 0]

\* Mutant: only a changed source counts.
isTranslationSource(f) ==
  ~isUnsetIP(f.natSrc) /\ (f.natSport # 0 \/ f.natSrc # f.src)

isTranslation(f) ==
  \/ ~isUnsetIP(f.natDst) /\ (f.natDst # f.dst \/ f.natDport \notin {0, f.dport})
  \/ ~isUnsetIP(f.natSrc) /\ (f.natSport # 0 \/ f.natSrc # f.src)

NoNAT(f) == isUnsetIP(f.natSrc) /\ isUnsetIP(f.natDst)

ShouldSkip(r, f) ==
  \/ NoNAT(f)
  \/ /\ ~isTranslation(f)
     /\ \/ r.zero /\ f.bytes = 0
        \/ r.dns /\ 53 \in {f.sport, f.dport}
        \/ r.priv /\ isPrivate(f.src) /\ isPrivate(f.dst)

\* The loop over the decoded flows and Enqueue, which may refuse any of them.
HandleFlows(w) ==
  LET j == job[w]
      flows == UNION {{View(o.layout, Flows[i]) : i \in 1..o.n} : o \in j.out}
      dropped == {f \in flows : ShouldSkip(j.rules, f)}
  IN
  /\ j.pc = "decode" /\ j.sets = <<>>
  /\ skipped' = skipped \cup dropped
  /\ signals' = IF j.matched /\ \E f \in dropped : NoNAT(f) THEN signals \cup {j.id}
                ELSE signals
  /\ \/ flows # dropped
        /\ stored' = stored \cup {[id |-> j.id, matched |-> j.matched, owners |-> during[w]]}
     \/ UNCHANGED stored
  /\ job' = [job EXCEPT ![w] = Idle]
  /\ during' = [during EXCEPT ![w] = {}]
  /\ UNCHANGED <<netVars, now, cacheVars, cfgVars, lost, read>>

-----------------------------------------------------------------------------
WorkerStep(w) == ReadFromUDP(w) \/ Lookup(w) \/ Decode(w) \/ HandleFlows(w)

Next ==
  \/ \E e \in Exporters : \E g \in Datagrams[e] : Send(e, g)
  \/ \E e \in Exporters : Lose(e)
  \/ Tick
  \/ \E r \in Registries : StoreRegistry(r)
  \/ \E lv \in Lives : StoreLive(lv)
  \/ \E w \in Workers : WorkerStep(w)

Spec == Init /\ [][Next]_vars

-----------------------------------------------------------------------------
(* What ingest promises.                                                   *)

TypeOK ==
  /\ told \in [Keys -> Layouts \cup {"none"}]
  /\ sent \in 0..MaxSent /\ polls \in 0..MaxPolls
  /\ now \in 0..MaxTime /\ lastSweep \in 0..now
  /\ cache \in [Keys -> [layout : Layouts \cup {"none"}, seen : 0..now]]
  /\ used \in [Keys -> 0..now]
  /\ devices \in Registries /\ live \in Lives
  /\ \A w \in Workers :
       \/ job[w] = Idle /\ during[w] = {}
       \/ /\ job[w].pc \in {"lookup", "decode"} /\ job[w].exp \in Exporters
          /\ job[w].emitted <= MaxRecords /\ during[w] # {}

\* "decodes data records against" the templates cached "per (exporter, source-id,
\* template-id)" (netflow9.go:4-7): a record is read by the layout its exporter
\* wrote it in, or not at all, although templates are redefined, withdrawn and
\* evicted while other workers use the cache; unless the datagram that told of its
\* layout was lost, refused or cut off, and the exporter has not told of it again.
NeverMisread == \A r \in read : r.enc = r.as

\* "Active templates are refreshed on every use, so this only evicts templates from
\* exporters that have gone away" (netflow9.go:34-35): a template put or used no
\* longer than the TTL ago is in the cache, unless the cap displaced it.
ActiveKept == \A k \in Keys : used[k] > 0 /\ now - used[k] <= TTL => k \in Cached(cache)

\* The "hard cap to bound memory against spoofed exporters" (netflow9.go:38).
CacheBounded == Cardinality(Cached(cache)) <= MaxTemplates

\* The template cache keeps what is in use, within its cap.
CacheSound == TypeOK /\ ActiveKept /\ CacheBounded

\* "A record carrying a translation is kept unconditionally" (rules.go:51): no rule
\* drops a flow with a post-NAT address or port that differs from the original.
TranslationKept ==
  \A f \in skipped :
    /\ f.natSrc # 0 => f.natSrc = f.src /\ f.natSport \in {0, f.sport}
    /\ f.natDst # 0 => f.natDst = f.dst /\ f.natDport \in {0, f.dport}

\* A record is stored under a device that was registered, and enabled, for its
\* exporter at some moment between the arrival of its datagram and the end of its
\* handling; under the default only if the exporter was unregistered (README.md:294).
RightOwner ==
  \A r \in stored :
    IF r.matched THEN \E d \in r.owners \ {NoDevice} : d.enabled /\ d.id = r.id
    ELSE NoDevice \in r.owners
============================================================================
