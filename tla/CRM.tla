-------------------------------- MODULE CRM ---------------------------------
(* Subscriber enrichment of search results, internal/director/crm.go: searches   *)
(* look their rows up in the CRM of their tenant, in batches, and share a cache. *)
EXTENDS Naturals, FiniteSets, Sequences

CONSTANTS
  Searches,   \* searches in flight; Isp[j] is the tenant of search j
  Isp,
  Lookups,    \* what identifies a subscriber: device, exporter, local address, second
  Pages,      \* the pages of rows a search may find: sequences over Lookups and NoNAT
  NoNAT,      \* a row whose local address is not known
  Answers,    \* Answers[i][e][l]: what the CRM at endpoint e says when tenant i asks for l
  CacheMax,   \* crmCacheMaxEntries
  BatchSize,  \* lookups of one request
  MaxSaves    \* bound: connectors saved, and minutes passed

\* An answer is a subscriber, "not_found" or "ambiguous"; one that says "error" is
\* like none at all (crm.go:494), and the other outcomes are the director's own.
ASSUME CRMAssumption ==
  /\ CacheMax \in Nat \ {0} /\ BatchSize \in Nat \ {0} /\ MaxSaves \in Nat
  /\ Pages \subseteq Seq(Lookups \cup {NoNAT}) /\ NoNAT \notin Lookups
  /\ \A j \in Searches, e \in {1, 2}, l \in Lookups :
       Answers[Isp[j]][e][l] \notin {"none", "error", "insufficient_nat_data"}

VARIABLES
  endpoint,  \* the connector of each tenant
  cache,     \* crmCache: key -> [ans, left]: the answer and the minutes it has left
  search,    \* the searches
  saves      \* saves and minutes so far

crmVars == <<endpoint, cache, search, saves>>

CRMIsps == {Isp[j] : j \in Searches}
Endpoints == {1, 2}
Matched(a) == a \notin {"not_found", "ambiguous", "error", "insufficient_nat_data"}

Resting == [step |-> "rest"]
CRMInit ==
  /\ endpoint = [i \in CRMIsps |-> 1]
  /\ cache = <<>> /\ saves = 0
  /\ search = [j \in Searches |-> Resting]

CRMTypeOK ==
  /\ endpoint \in [CRMIsps -> Endpoints]
  /\ \A k \in DOMAIN cache : cache[k].left \in 0..2
  /\ \A j \in Searches : search[j].step \in {"rest", "scan", "send", "apply", "done"}

-----------------------------------------------------------------------------
(* The cache.                                                                *)

\* Mutant: lookups of different tenants share their entries.
crmLookupHashShared(i, e, l) == <<e, l>>

\* crmLookupHash; the reference code sent to the CRM is the same without the endpoint.
crmLookupHash(i, e, l) == <<i, e, l>>

crmCacheGet(k) == k \in DOMAIN cache

\* crmCachePut: a full cache loses its expired entries (they are gone here as soon
\* as they expire, as crmCacheGet would not return them), then any until 9/10 are left.
crmCachePut(k, a) ==
  LET keep == IF Cardinality(DOMAIN cache) < CacheMax THEN {DOMAIN cache}
              ELSE {s \in SUBSET DOMAIN cache :
                      Cardinality(s) = IF (CacheMax * 9) \div 10 = 0 THEN 0 ELSE (CacheMax * 9) \div 10 - 1}
  IN  \E s \in keep :
        cache' = [x \in s \cup {k} |->
                    IF x = k THEN [ans |-> a, left |-> IF Matched(a) THEN 2 ELSE 1] ELSE cache[x]]

CRMMinute ==
  /\ saves < MaxSaves /\ saves' = saves + 1
  /\ cache' = [k \in {x \in DOMAIN cache : cache[x].left > 0} |-> [cache[k] EXCEPT !.left = @ - 1]]
  /\ UNCHANGED <<endpoint, search>>

-----------------------------------------------------------------------------
(* enrichCRMRows                                                             *)

Sums == {"matched", "not_found", "ambiguous", "failed"}
\* addCRMCount
Kind(a) == IF Matched(a) THEN "matched" ELSE IF a \in {"not_found", "ambiguous"} THEN a ELSE "failed"
Counted(s, a, n) == [s.sum EXCEPT ![Kind(a)] = @ + n]

\* The connector and the devices are read once, at the start.
Begin(j, page, known) ==
  /\ search[j].step = "rest"
  /\ search' = [search EXCEPT ![j] =
       [step |-> "scan", ep |-> endpoint[Isp[j]], rows |-> page, known |-> known, next |-> 1,
        out |-> [r \in DOMAIN page |-> "none"], pending |-> {}, sent |-> {}, results |-> <<>>,
        sum |-> [k \in Sums |-> 0]]]
  /\ UNCHANGED <<endpoint, cache, saves>>

\* ListDevices fails: every row counts as failed and none is touched.
ListDevicesFails(j) ==
  /\ search[j].step = "scan" /\ search[j].next = 1
  /\ search' = [search EXCEPT ![j].step = "done", ![j].next = 0,
                              ![j].sum = [@ EXCEPT !["failed"] = Len(search[j].rows)]]
  /\ UNCHANGED <<endpoint, cache, saves>>

\* One row: without a local address, cached, waiting already, of an ambiguous
\* device, or to be looked up.
ScanRow(j) ==
  LET s == search[j]
      l == s.rows[s.next]
      k == crmLookupHash(Isp[j], s.ep, l)
      told(a) == [s EXCEPT !.next = @ + 1, !.out[s.next] = a, !.sum = Counted(s, a, 1)]
  IN
  /\ s.step = "scan" /\ s.next <= Len(s.rows)
  /\ search' = [search EXCEPT ![j] =
       IF l = NoNAT THEN told("insufficient_nat_data")
       ELSE IF crmCacheGet(k) THEN told(cache[k].ans)
       ELSE IF l \in s.pending THEN [s EXCEPT !.next = @ + 1]
       ELSE IF l \notin s.known THEN told("ambiguous")
       ELSE [s EXCEPT !.next = @ + 1, !.pending = @ \cup {l}]]
  /\ UNCHANGED <<endpoint, cache, saves>>
ScanEnd(j) ==
  /\ search[j].step = "scan" /\ search[j].next > Len(search[j].rows)
  /\ search' = [search EXCEPT ![j].step = IF search[j].pending = {} THEN "done" ELSE "send"]
  /\ UNCHANGED <<endpoint, cache, saves>>

\* sendCRMBatch of one batch: a failed or malformed response answers nothing, a
\* good one some of its lookups.  Batches are independent of each other.
sendCRMBatch(j, batch, got) ==
  LET s == search[j] IN
  /\ s.step = "send"
  /\ batch # {} /\ batch \subseteq s.pending \ s.sent
  /\ Cardinality(batch) = BatchSize \/ batch = s.pending \ s.sent
  /\ got \subseteq batch
  /\ search' = [search EXCEPT ![j].sent = @ \cup batch,
       ![j].results = [l \in DOMAIN s.results \cup got |->
                         IF l \in got THEN Answers[Isp[j]][s.ep][l] ELSE s.results[l]]]
  /\ UNCHANGED <<endpoint, cache, saves>>

\* All workers are done, or the context is over and the rest is not sent.
SendEnd(j) ==
  /\ search[j].step = "send"
  /\ search' = [search EXCEPT ![j].step = "apply"]
  /\ UNCHANGED <<endpoint, cache, saves>>

\* One lookup's result is given to all its rows and, unless it is an error, cached.
ApplyResult(j, l) ==
  LET s == search[j]
      a == IF l \in DOMAIN s.results THEN s.results[l] ELSE "error"
      mine == {r \in DOMAIN s.rows : s.rows[r] = l /\ s.out[r] = "none"}
  IN
  /\ s.step = "apply" /\ l \in s.pending
  /\ search' = [search EXCEPT ![j].pending = @ \ {l}, ![j].sum = Counted(s, a, Cardinality(mine)),
                              ![j].out = [r \in DOMAIN s.rows |-> IF r \in mine THEN a ELSE s.out[r]]]
  /\ IF a = "error" THEN UNCHANGED cache ELSE crmCachePut(crmLookupHash(Isp[j], s.ep, l), a)
  /\ UNCHANGED <<endpoint, saves>>
ApplyEnd(j) ==
  /\ search[j].step = "apply" /\ search[j].pending = {}
  /\ search' = [search EXCEPT ![j].step = "done"]
  /\ UNCHANGED <<endpoint, cache, saves>>

\* The response is written; the next search of the tenant may come.
Respond(j) ==
  /\ search[j].step = "done"
  /\ search' = [search EXCEPT ![j] = Resting]
  /\ UNCHANGED <<endpoint, cache, saves>>

\* The connector of a tenant is saved: handlePutSettings ends with resetCRMCache.
SaveConnector(i, e) ==
  /\ endpoint[i] # e /\ saves < MaxSaves /\ saves' = saves + 1
  /\ endpoint' = [endpoint EXCEPT ![i] = e]
  /\ cache' = <<>>
  /\ UNCHANGED search

CRMNext ==
  \/ \E j \in Searches, page \in Pages, known \in {Lookups, {}} : Begin(j, page, known)
  \/ \E j \in Searches : ListDevicesFails(j) \/ ScanRow(j) \/ ScanEnd(j) \/ SendEnd(j) \/ ApplyEnd(j) \/ Respond(j)
  \/ \E j \in Searches, batch, got \in SUBSET Lookups : sendCRMBatch(j, batch, got)
  \/ \E j \in Searches, l \in Lookups : ApplyResult(j, l)
  \/ \E i \in CRMIsps, e \in Endpoints : SaveConnector(i, e)
  \/ CRMMinute

-----------------------------------------------------------------------------
\* A search's enrichment is right (crm.go:351-354): a row that names a subscriber
\* names the one the CRM of its own tenant knows for it, at the endpoint the search
\* started with, cached or not and whatever other searches and saves do meanwhile;
\* a finished search has accounted for every row once; the cache stays "strictly
\* bounded" (crm.go:283).
RightSubscriber ==
  \A j \in Searches : search[j].step # "rest" =>
    \A r \in DOMAIN search[j].rows :
      search[j].out[r] \notin {"none", "insufficient_nat_data", "ambiguous", "error"} =>
        search[j].out[r] = Answers[Isp[j]][search[j].ep][search[j].rows[r]]
CountsAddUp ==
  \A j \in Searches : search[j].step = "done" =>
    /\ search[j].sum["matched"] + search[j].sum["not_found"] + search[j].sum["ambiguous"]
         + search[j].sum["failed"] = Len(search[j].rows)
    /\ search[j].next # 0 => \A r \in DOMAIN search[j].rows : search[j].out[r] # "none"
CRMCacheBounded == Cardinality(DOMAIN cache) <= CacheMax
EnrichmentSound == RightSubscriber /\ CountsAddUp /\ CRMCacheBounded
=============================================================================
