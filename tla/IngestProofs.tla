---------------------------- MODULE IngestProofs ----------------------------
(* Proofs about the two ways into the collector: the datagrams of Ingest, read   *)
(* through one template cache, and the connections of TCPReceiver.               *)
EXTENDS Intake, FiniteSetTheorems, SequenceTheorems, TLAPS

intakeVars == <<vars, tcpVars, intake>>

LEMMA IntakeSteps ==
  ASSUME [IntakeNext]_intakeVars PROVE [Next]_vars /\ [TCPNext]_tcpVars
BY DEF IntakeNext, intakeVars

-----------------------------------------------------------------------------
(* The TCP receiver.                                                       *)

Held(c) == conn[c] \in {"accepted", "reading"}

\* The active map holds the connections that are read, the accept loop one at most;
\* of those Stop did not close there is only the one it held.
TCPInv ==
  /\ TCPTypeOK /\ loop \in BOOLEAN
  /\ active = {c \in Conns : conn[c] = "reading"}
  /\ \A c, d \in Conns : conn[c] = "accepted" /\ conn[d] = "accepted" => c = d
  /\ ~loop => stop # "no" /\ \A c \in Conns : conn[c] # "accepted"
  /\ stop = "waiting" => \A c, d \in Conns \ closed : Held(c) /\ Held(d) => c = d
  /\ stop = "returned" => ~loop /\ \A c \in Conns : conn[c] # "reading"

LEMMA TCPInitInv == TCPInit => TCPInv
BY DEF TCPInit, TCPInv, TCPTypeOK, Held

LEMMA TCPNextInv ==
  ASSUME TCPInv, [TCPNext]_tcpVars PROVE TCPInv'
<1>. USE DEF TCPInv, TCPTypeOK, Held
<1>1. ASSUME NEW c \in Conns, Connect(c) PROVE TCPInv'
  BY <1>1 DEF Connect
<1>2. ASSUME NEW c \in Conns, Accept(c) PROVE TCPInv'
  BY <1>2 DEF Accept
<1>3. ASSUME NEW c \in Conns, Register(c) PROVE TCPInv'
  BY <1>3 DEF Register
<1>4. ASSUME NEW c \in Conns, ReadEnds(c) PROVE TCPInv'
  BY <1>4 DEF ReadEnds
<1>5. ASSUME AcceptEnds PROVE TCPInv'
  BY <1>5 DEF AcceptEnds
<1>6. ASSUME StopListener PROVE TCPInv'
  BY <1>6 DEF StopListener
<1>7. ASSUME StopConns PROVE TCPInv'
  BY <1>7 DEF StopConns
<1>8. ASSUME StopReturns PROVE TCPInv'
  BY <1>8 DEF StopReturns
<1>9. CASE UNCHANGED tcpVars
  BY <1>9 DEF tcpVars
<1>. QED BY <1>1, <1>2, <1>3, <1>4, <1>5, <1>6, <1>7, <1>8, <1>9 DEF TCPNext

LEMMA TCPCloses == TCPInv => StopCloses
<1>. SUFFICES ASSUME TCPInv PROVE StopCloses
  OBVIOUS
<1>. DEFINE L == {c \in Conns \ closed : conn[c] \in {"accepted", "reading"}}
<1>1. ASSUME stop = "waiting" PROVE Cardinality(L) <= 1
  <2>1. CASE L = {}
    BY <2>1, FS_EmptySet
  <2>2. CASE L # {}
    <3>1. PICK c : c \in L
      BY <2>2
    <3>2. L = {c}
      BY <1>1, <3>1 DEF TCPInv, Held
    <3>3. Cardinality({c}) = 1
      BY FS_Singleton
    <3>. QED BY <3>2, <3>3
  <2>. QED BY <2>1, <2>2
<1>. QED BY <1>1 DEF TCPInv, StopCloses

\* While Stop waits it has closed every connection it waits for but the one the accept
\* loop held; when it has returned none is read any more (tcp.go, Stop and acceptLoop).
THEOREM StopAlwaysCloses == IntakeSpec => []StopCloses
<1>1. IntakeInit => TCPInv
  BY TCPInitInv DEF IntakeInit
<1>2. TCPInv /\ [IntakeNext]_intakeVars => TCPInv'
  BY TCPNextInv, IntakeSteps
<1>. QED BY <1>1, <1>2, TCPCloses, PTL DEF IntakeSpec, intakeVars

-----------------------------------------------------------------------------
(* The rules.                                                              *)

LEMMA SkippedIsPlain ==
  ASSUME NEW r, NEW f, ShouldSkip(r, f)
  PROVE  /\ f.natSrc # 0 => f.natSrc = f.src /\ f.natSport = 0
         /\ f.natDst # 0 => f.natDst = f.dst /\ f.natDport \in {0, f.dport}
BY DEF ShouldSkip, NoNAT, isTranslation, isUnsetIP

\* Only HandleFlows drops flows, by the rules.
LEMMA SkippedGrows ==
  ASSUME [Next]_vars
  PROVE  \A f \in skipped' \ skipped : \E r : ShouldSkip(r, f)
<1>1. ASSUME NEW w \in Workers, HandleFlows(w) PROVE \A f \in skipped' \ skipped : \E r : ShouldSkip(r, f)
  BY <1>1 DEF HandleFlows
<1>2. ASSUME ~\E w \in Workers : HandleFlows(w) PROVE UNCHANGED skipped
  BY <1>2 DEF Next, WorkerStep, Send, Lose, Tick, StoreRegistry, StoreLive, ReadFromUDP, Lookup, Decode, outVars, vars
<1>. QED BY <1>1, <1>2

\* No rule drops a flow whose post-NAT address or port differs from the original,
\* whatever flows and rules there are (rules.go, ShouldSkip and isTranslation).
THEOREM TranslationsAreKept == IntakeSpec => []TranslationKept
<1>1. IntakeInit => TranslationKept
  BY DEF IntakeInit, Init, TranslationKept
<1>2. TranslationKept /\ [IntakeNext]_intakeVars => TranslationKept'
  <2>. SUFFICES ASSUME TranslationKept, [IntakeNext]_intakeVars, NEW f \in skipped'
                PROVE  /\ f.natSrc # 0 => f.natSrc = f.src /\ f.natSport \in {0, f.sport}
                       /\ f.natDst # 0 => f.natDst = f.dst /\ f.natDport \in {0, f.dport}
    BY DEF TranslationKept
  <2>1. CASE f \in skipped
    BY <2>1 DEF TranslationKept
  <2>2. CASE f \notin skipped
    <3>1. PICK r : ShouldSkip(r, f)
      BY <2>2, SkippedGrows, IntakeSteps
    <3>. QED BY <3>1, SkippedIsPlain
  <2>. QED BY <2>1, <2>2
<1>. QED BY <1>1, <1>2, PTL DEF IntakeSpec, intakeVars

-----------------------------------------------------------------------------
(* Types of the datagram path.                                             *)

Said == Layouts \cup {"none"}
EncSets == {s \in [kind : Kinds, tid : Tids, layout : Layouts, enc : Said] : s.kind = "fixed" => s.enc = s.layout}
Grams == [src : Sources, ok : BOOLEAN, sets : Seq(EncSets)]
Outputs == SUBSET [layout : Layouts, n : Nat]
JobRecs == [pc : {"lookup", "decode"}, exp : Exporters, src : Sources, ok : BOOLEAN, sets : Seq(EncSets),
            live : Lives, id : Nat, rules : RuleSets, matched : BOOLEAN, out : Outputs, emitted : 0..MaxRecords]
NetTypes == told \in [Keys -> Said] /\ sock \in [Exporters -> Seq(Grams)] /\ sent \in 0..MaxSent
CfgTypes == devices \in Registries /\ live \in Lives /\ polls \in 0..MaxPolls
JobTypes ==
  /\ job \in [Workers -> {Idle} \cup JobRecs]
  /\ \A w \in Workers : job[w] # Idle => Hash[job[w].exp] = w
Types == NetTypes /\ CfgTypes /\ JobTypes

LEMMA JobIs ==
  ASSUME NEW j \in {Idle} \cup JobRecs
  PROVE  /\ j # Idle => j \in JobRecs
         /\ j.pc \in {"lookup", "decode"} => j \in JobRecs /\ j # Idle
         /\ j \in JobRecs => j # Idle /\ j.pc \in {"lookup", "decode"}
BY DEF Idle, JobRecs

\* A nonempty set of positions has a last one, which is its Max.
LEMMA LastPosition ==
  ASSUME NEW n \in Nat, NEW I \in SUBSET (1..n), I # {}
  PROVE  Max(I) \in I /\ \A i \in I : i <= Max(I)
<1>. DEFINE S == {n - i : i \in I}
<1>1. S \in SUBSET Nat /\ S # {}
  <2>1. \A i \in I : n - i \in Nat
    OBVIOUS
  <2>. QED BY <2>1
<1>2. PICK m \in S : \A y \in S : ~(<<y, m>> \in OpToRel(<, Nat))
  BY <1>1, NatLessThanWellFounded, WFMin
<1>3. PICK i \in I : m = n - i
  OBVIOUS
<1>4. \A x \in I : x <= i
  <2>. SUFFICES ASSUME NEW x \in I PROVE x <= i
    OBVIOUS
  <2>1. n - x \in S /\ n - x \in Nat /\ m \in Nat
    BY <1>1
  <2>2. ~(n - x < m)
    BY <1>2, <2>1 DEF OpToRel
  <2>. QED BY <1>3, <2>2
<1>5. i \in I /\ \A y \in I : i >= y
  BY <1>4
<1>. QED BY <1>5 DEF Max

LEMMA LastPositionIs ==
  ASSUME NEW I \in SUBSET Nat, NEW m \in I, \A i \in I : i <= m
  PROVE  Max(I) = m
<1>1. \A x \in I : (\A y \in I : x >= y) => x = m
  OBVIOUS
<1>2. m \in I /\ \A y \in I : m >= y
  OBVIOUS
<1>. QED BY <1>1, <1>2 DEF Max

LEMMA AnnouncedType ==
  ASSUME NEW v \in Said, NEW k, NEW e, NEW src, NEW ss, NEW n \in Nat,
         \A i \in 1..n : ss[i].layout \in Layouts
  PROVE  Announced(v, k, e, src, ss, n) \in Said
<1>. DEFINE I == Announcing(k, e, src, ss, n)
<1>1. I \in SUBSET (1..n)
  BY DEF Announcing
<1>2. CASE I = {}
  BY <1>2 DEF Announced
<1>3. CASE I # {}
  <2>1. Max(I) \in 1..n
    BY <1>1, <1>3, LastPosition
  <2>2. Announced(v, k, e, src, ss, n) = Says(ss[Max(I)])
    BY <1>3 DEF Announced
  <2>. QED BY <2>1, <2>2 DEF Says, Said
<1>. QED BY <1>2, <1>3

\* What Send puts into the socket.
Enc(e, g, i) ==
  IF g.sets[i].kind = "fixed" THEN g.sets[i].layout
  ELSE Announced(told[<<e, g.src, g.sets[i].tid>>], <<e, g.src, g.sets[i].tid>>, e, g.src, g.sets, i - 1)
EncSet(e, g, i) ==
  [kind |-> g.sets[i].kind, tid |-> g.sets[i].tid, layout |-> g.sets[i].layout, enc |-> Enc(e, g, i)]
Gram(e, g) == [src |-> g.src, ok |-> g.ok, sets |-> [i \in DOMAIN g.sets |-> EncSet(e, g, i)]]

LEMMA DatagramIs ==
  ASSUME NEW e \in Exporters, NEW g \in Datagrams[e]
  PROVE  /\ g.src \in Sources /\ g.ok \in BOOLEAN /\ g.sets \in Seq(Set) /\ Len(g.sets) \in Nat
         /\ DOMAIN g.sets = 1..Len(g.sets)
         /\ \A i \in 1..Len(g.sets) : /\ g.sets[i].kind \in Kinds /\ g.sets[i].tid \in Tids
                                      /\ g.sets[i].layout \in Layouts /\ <<e, g.src, g.sets[i].tid>> \in Keys
<1>1. g \in [src : Sources, ok : BOOLEAN, sets : Seq(Set)]
  BY IngestAssumption
<1>2. g.src \in Sources /\ g.ok \in BOOLEAN /\ g.sets \in Seq(Set)
  BY <1>1
<1>3. \A i \in 1..Len(g.sets) : g.sets[i] \in Set
  BY <1>2
<1>. QED BY <1>2, <1>3 DEF Set, Keys

LEMMA GramIs ==
  ASSUME NetTypes, NEW e \in Exporters, NEW g \in Datagrams[e]
  PROVE  /\ Gram(e, g) \in Grams /\ Gram(e, g).src = g.src /\ Len(Gram(e, g).sets) = Len(g.sets)
         /\ \A i \in 1..Len(g.sets) : /\ Gram(e, g).sets[i].kind = g.sets[i].kind
                                      /\ Gram(e, g).sets[i].tid = g.sets[i].tid
                                      /\ Gram(e, g).sets[i].layout = g.sets[i].layout
                                      /\ Gram(e, g).sets[i].enc = Enc(e, g, i)
<1>. DEFINE n == Len(g.sets)
            q == [i \in 1..n |-> EncSet(e, g, i)]
<1>1. n \in Nat /\ DOMAIN g.sets = 1..n
  BY DatagramIs
<1>2. ASSUME NEW i \in 1..n PROVE EncSet(e, g, i) \in EncSets
  <2>1. g.sets[i].kind \in Kinds /\ g.sets[i].tid \in Tids /\ g.sets[i].layout \in Layouts
    BY DatagramIs
  <2>2. Enc(e, g, i) \in Said
    <3>1. told[<<e, g.src, g.sets[i].tid>>] \in Said
      BY DatagramIs DEF NetTypes
    <3>2. i - 1 \in Nat /\ \A x \in 1..(i - 1) : g.sets[x].layout \in Layouts
      <4>1. \A x \in 1..(i - 1) : x \in 1..n
        BY <1>1
      <4>. HIDE DEF n
      <4>2. \A x \in 1..n : g.sets[x].layout \in Layouts
        BY DatagramIs DEF n
      <4>. QED BY <1>1, <4>1, <4>2
    <3>. QED BY <2>1, <3>1, <3>2, AnnouncedType DEF Enc, Said
  <2>3. g.sets[i].kind = "fixed" => Enc(e, g, i) = g.sets[i].layout
    BY DEF Enc
  <2>. QED BY <2>1, <2>2, <2>3 DEF EncSet, EncSets
<1>3. q \in [1..n -> EncSets]
  BY <1>2
<1>4. q \in Seq(EncSets)
  BY <1>1, <1>3, SeqDef
<1>5. Len(q) = n
  BY <1>1, <1>3, <1>4
<1>6. Gram(e, g) = [src |-> g.src, ok |-> g.ok, sets |-> q]
  BY <1>1 DEF Gram
<1>7. \A i \in 1..n : q[i] = EncSet(e, g, i)
  OBVIOUS
<1>. HIDE DEF q
<1>8. Gram(e, g) \in Grams /\ Gram(e, g).src = g.src /\ Gram(e, g).sets = q
  BY <1>4, <1>6, DatagramIs DEF Grams
<1>9. ASSUME NEW i \in 1..n
      PROVE  /\ q[i].kind = g.sets[i].kind /\ q[i].tid = g.sets[i].tid
             /\ q[i].layout = g.sets[i].layout /\ q[i].enc = Enc(e, g, i)
  <2>1. q[i] = EncSet(e, g, i)
    BY <1>7
  <2>. QED BY <2>1 DEF EncSet
<1>. QED BY <1>5, <1>8, <1>9

LEMMA SendIs ==
  ASSUME NEW e \in Exporters, NEW g \in Datagrams[e], Send(e, g)
  PROVE  /\ sent < MaxSent /\ sent' = sent + 1
         /\ told' = [k \in Keys |-> Announced(told[k], k, e, g.src, g.sets, Len(g.sets))]
         /\ sock' = [sock EXCEPT ![e] = Append(@, Gram(e, g))]
         /\ UNCHANGED <<now, cache, lastSweep, used, devices, live, polls, job, signals, skipped, stored, lost, read, during>>
BY DEF Send, Gram, EncSet, Enc, cacheVars, cfgVars, outVars

\* The steps of a worker, by what they do to its job.
LEMMA ReadIs ==
  ASSUME Types, NEW w \in Workers, ReadFromUDP(w)
  PROVE  \E e \in Exporters, j \in JobRecs :
           /\ Hash[e] = w /\ sock[e] # <<>> /\ job[w] = Idle
           /\ sock' = [sock EXCEPT ![e] = Tail(@)] /\ job' = [job EXCEPT ![w] = j]
           /\ during' = [during EXCEPT ![w] = {devices[e]}]
           /\ j.pc = "lookup" /\ j.exp = e /\ j.src = Head(sock[e]).src /\ j.sets = Head(sock[e]).sets /\ j.emitted = 0
           /\ UNCHANGED <<told, sent, now, cache, lastSweep, used, devices, live, polls, signals, skipped, stored, lost, read>>
<1>1. PICK e \in Exporting(w) :
       /\ sock[e] # <<>>
       /\ sock' = [sock EXCEPT ![e] = Tail(@)]
       /\ job' = [job EXCEPT ![w] =
                    [pc |-> "lookup", exp |-> e, src |-> Head(sock[e]).src,
                     ok |-> Head(sock[e]).ok, sets |-> Head(sock[e]).sets,
                     live |-> live, id |-> 0, rules |-> live.rules,
                     matched |-> FALSE, out |-> {}, emitted |-> 0]]
       /\ during' = [during EXCEPT ![w] = {devices[e]}]
  BY DEF ReadFromUDP
<1>2. e \in Exporters /\ Hash[e] = w
  BY DEF Exporting
<1>3. Head(sock[e]) \in Grams
  <2>1. sock[e] \in Seq(Grams)
    BY <1>2 DEF Types, NetTypes
  <2>. QED BY <1>1, <2>1
<1>4. Head(sock[e]).src \in Sources /\ Head(sock[e]).ok \in BOOLEAN /\ Head(sock[e]).sets \in Seq(EncSets)
  BY <1>3 DEF Grams
<1>5. live \in Lives /\ live.rules \in RuleSets
  <2>1. live \in Lives
    BY DEF Types, CfgTypes
  <2>. QED BY <2>1, IngestAssumption
<1>. DEFINE j == [pc |-> "lookup", exp |-> e, src |-> Head(sock[e]).src,
                     ok |-> Head(sock[e]).ok, sets |-> Head(sock[e]).sets,
                     live |-> live, id |-> 0, rules |-> live.rules,
                     matched |-> FALSE, out |-> {}, emitted |-> 0]
<1>6. j \in JobRecs
  <2>1. {} \in Outputs /\ 0 \in 0..MaxRecords /\ 0 \in Nat
    BY IngestAssumption DEF Outputs
  <2>. QED BY <1>2, <1>4, <1>5, <2>1 DEF JobRecs
<1>7. /\ j.pc = "lookup" /\ j.exp = e /\ j.src = Head(sock[e]).src /\ j.sets = Head(sock[e]).sets /\ j.emitted = 0
      /\ job' = [job EXCEPT ![w] = j]
  BY <1>1
<1>8. job[w] = Idle /\ UNCHANGED <<told, sent, now, cache, lastSweep, used, devices, live, polls, signals, skipped, stored, lost, read>>
  BY DEF ReadFromUDP, cacheVars, cfgVars, outVars
<1>. HIDE DEF j
<1>. QED BY <1>1, <1>2, <1>6, <1>7, <1>8

LEMMA DeviceIs ==
  ASSUME Types, NEW e \in Exporters, devices[e] # NoDevice
  PROVE  devices[e] \in [id : Nat \ {0}, enabled : BOOLEAN, rules : RuleSets]
<1>1. devices \in Registries
  BY DEF Types, CfgTypes
<1>. QED BY <1>1, IngestAssumption

LEMMA LookupIs ==
  ASSUME Types, NEW w \in Workers, Lookup(w)
  PROVE  /\ job[w] \in JobRecs /\ job[w].pc = "lookup"
         /\ UNCHANGED <<told, sock, sent, now, cache, lastSweep, used, devices, live, polls, signals, skipped, stored, read>>
         /\ \/ \E j \in JobRecs :
                 /\ job' = [job EXCEPT ![w] = j] /\ UNCHANGED <<during, lost>>
                 /\ j.pc = "decode" /\ j.exp = job[w].exp /\ j.src = job[w].src /\ j.sets = job[w].sets
                 /\ IF devices[job[w].exp] # NoDevice
                    THEN j.matched /\ devices[job[w].exp].enabled /\ j.id = devices[job[w].exp].id ELSE ~j.matched
            \/ /\ job' = [job EXCEPT ![w] = Idle] /\ during' = [during EXCEPT ![w] = {}]
               /\ lost' = Missed(job[w].exp, job[w])
<1>. DEFINE e == job[w].exp
            a == Admit(devices[e], job[w].live)
<1>1. job[w].pc = "lookup" /\ job[w] \in JobRecs
  BY JobIs DEF Lookup, Types, JobTypes
<1>2. e \in Exporters /\ job[w].live \in Lives /\ job[w].live.rules \in RuleSets
  BY <1>1, IngestAssumption DEF JobRecs
<1>3. a.in \in BOOLEAN /\ a.id \in Nat /\ a.rules \in RuleSets /\ a.matched \in BOOLEAN
  <2>1. CASE devices[e] # NoDevice
    BY <1>2, <2>1, DeviceIs DEF Admit
  <2>2. CASE devices[e] = NoDevice
    BY <1>2, <2>2, IngestAssumption DEF Admit
  <2>. QED BY <2>1, <2>2
<1>4. a.matched <=> devices[e] # NoDevice
  BY DEF Admit
<1>5. devices[e] # NoDevice => a.in = devices[e].enabled /\ a.id = devices[e].id
  BY DEF Admit
<1>. DEFINE j == [job[w] EXCEPT !.pc = "decode", !.id = a.id, !.rules = a.rules, !.matched = a.matched]
<1>6. /\ job' = [job EXCEPT ![w] = IF a.in /\ job[w].ok THEN j ELSE Idle]
      /\ during' = IF job'[w] = Idle THEN [during EXCEPT ![w] = {}] ELSE during
      /\ lost' = IF job'[w] = Idle THEN Missed(job[w].exp, job[w]) ELSE lost
      /\ UNCHANGED <<told, sock, sent, now, cache, lastSweep, used, devices, live, polls, signals, skipped, stored, read>>
  BY DEF Lookup, netVars, cacheVars, cfgVars, outVars
<1>. HIDE DEF a
<1>7. j \in JobRecs
  BY <1>1, <1>3 DEF JobRecs
<1>8. /\ j.pc = "decode" /\ j.exp = job[w].exp /\ j.src = job[w].src /\ j.sets = job[w].sets
      /\ j.id = a.id /\ j.matched = a.matched
  BY <1>1 DEF JobRecs
<1>. HIDE DEF j
<1>9. w \in DOMAIN job
  BY DEF Types, JobTypes
<1>10. CASE a.in /\ job[w].ok
  <2>1. job' = [job EXCEPT ![w] = j] /\ job'[w] # Idle
    BY <1>6, <1>7, <1>9, <1>10, JobIs
  <2>2. IF devices[e] # NoDevice THEN j.matched /\ devices[e].enabled /\ j.id = devices[e].id ELSE ~j.matched
    BY <1>3, <1>4, <1>5, <1>8, <1>10
  <2>. QED BY <1>1, <1>6, <1>7, <1>8, <2>1, <2>2
<1>11. CASE ~(a.in /\ job[w].ok)
  <2>1. job' = [job EXCEPT ![w] = Idle] /\ job'[w] = Idle
    BY <1>6, <1>9, <1>11
  <2>. QED BY <1>1, <1>6, <2>1
<1>. QED BY <1>10, <1>11

CacheTypes ==
  /\ now \in 0..MaxTime /\ lastSweep \in 0..now
  /\ cache \in [Keys -> [layout : Said, seen : 0..now]] /\ used \in [Keys -> 0..now]

\* What a set does: the job goes on with the sets that are left, or with none.
Cont(w, j, ss) ==
  /\ job' = [job EXCEPT ![w] = j] /\ j.pc = "decode" /\ j.exp = job[w].exp /\ j.src = job[w].src
  /\ j.id = job[w].id /\ j.matched = job[w].matched /\ j.sets = ss

LEMMA JobCont ==
  ASSUME NEW j \in JobRecs, NEW ss \in Seq(EncSets), NEW n \in 0..MaxRecords, NEW o \in Outputs
  PROVE  /\ [j EXCEPT !.sets = ss] \in JobRecs
         /\ [j EXCEPT !.sets = ss, !.emitted = n, !.out = o] \in JobRecs
BY DEF JobRecs

LEMMA DecodedIs ==
  ASSUME Types, NEW w \in Workers, job[w] \in JobRecs, job[w].pc = "decode", job[w].sets # <<>>,
         NEW s, NEW k, NEW layout \in Said, Decoded(w, s, k, layout)
  PROVE  /\ read' = read \/ (k \notin lost /\ layout # "none" /\ read' = read \cup {[enc |-> s.enc, as |-> layout]})
         /\ \/ \E j \in JobRecs : Cont(w, j, Tail(job[w].sets)) /\ UNCHANGED lost
            \/ \E j \in JobRecs : \E g : /\ Cont(w, j, <<>>) /\ lost' = Missed(job[w].exp, g)
                                            /\ g.src = job[w].src /\ g.sets = Tail(job[w].sets)
<1>. DEFINE n == Records(job[w], layout)
            o == IF n = 0 THEN job[w].out ELSE job[w].out \cup {[layout |-> layout, n |-> n]}
            j == [job[w] EXCEPT !.sets = Tail(@), !.emitted = @ + n,
                          !.out = IF n = 0 THEN @ ELSE @ \cup {[layout |-> layout, n |-> n]}]
            full == j.emitted >= MaxRecords
<1>1. /\ job' = [job EXCEPT ![w] = IF full THEN [j EXCEPT !.sets = <<>>] ELSE j]
      /\ lost' = IF full THEN Missed(j.exp, j) ELSE lost
      /\ read' = IF n = 0 \/ k \in lost THEN read ELSE read \cup {[enc |-> s.enc, as |-> layout]}
  BY DEF Decoded
<1>2. /\ job[w].emitted \in 0..MaxRecords /\ job[w].out \in Outputs /\ job[w].sets \in Seq(EncSets)
  BY DEF JobRecs
<1>3. n \in Nat /\ job[w].emitted + n \in 0..MaxRecords /\ (n # 0 => layout \in Layouts /\ layout # "none")
  BY <1>2, IngestAssumption DEF Records, Said, Layouts
<1>4. o \in Outputs
  <2>1. CASE n = 0
    BY <1>2, <2>1
  <2>2. CASE n # 0
    <3>1. [layout |-> layout, n |-> n] \in [layout : Layouts, n : Nat]
      BY <1>3, <2>2
    <3>. HIDE DEF n
    <3>. QED BY <1>2, <2>2, <3>1 DEF Outputs
  <2>. QED BY <2>1, <2>2
<1>. HIDE DEF n
<1>5. j = [job[w] EXCEPT !.sets = Tail(job[w].sets), !.emitted = job[w].emitted + n, !.out = o]
  OBVIOUS
<1>6. Tail(job[w].sets) \in Seq(EncSets) /\ <<>> \in Seq(EncSets)
  BY <1>2
<1>7. j \in JobRecs
  BY <1>3, <1>4, <1>5, <1>6, JobCont
<1>8. /\ j.pc = "decode" /\ j.exp = job[w].exp /\ j.src = job[w].src /\ j.id = job[w].id
      /\ j.matched = job[w].matched /\ j.sets = Tail(job[w].sets)
  BY <1>5 DEF JobRecs
<1>9. read' = read \/ (k \notin lost /\ layout # "none" /\ read' = read \cup {[enc |-> s.enc, as |-> layout]})
  BY <1>1, <1>3
<1>. HIDE DEF j
<1>10. CASE ~full
  <2>1. Cont(w, j, Tail(job[w].sets)) /\ UNCHANGED lost
    BY <1>1, <1>8, <1>10 DEF Cont
  <2>. QED BY <1>7, <1>9, <2>1
<1>11. CASE full
  <2>. DEFINE i == [j EXCEPT !.sets = <<>>]
  <2>1. i \in JobRecs
    BY <1>6, <1>7, <1>2, <1>4, JobCont
  <2>2. /\ i.pc = j.pc /\ i.exp = j.exp /\ i.src = j.src /\ i.id = j.id /\ i.matched = j.matched /\ i.sets = <<>>
    BY <1>7 DEF JobRecs
  <2>3. job' = [job EXCEPT ![w] = i] /\ lost' = Missed(job[w].exp, j)
    BY <1>1, <1>8, <1>11
  <2>. HIDE DEF i
  <2>4. Cont(w, i, <<>>)
    BY <1>8, <2>2, <2>3 DEF Cont
  <2>. QED BY <1>8, <1>9, <2>1, <2>3, <2>4
<1>. QED BY <1>10, <1>11

DecodeCase(w, s, k) ==
  \/ /\ s.kind = "template" /\ putTemplate(k, s.layout) /\ lost' = lost \ {k} /\ UNCHANGED read
     /\ \E j \in JobRecs : Cont(w, j, Tail(job[w].sets))
  \/ /\ s.kind = "withdraw" /\ deleteTemplate(k) /\ lost' = lost \ {k} /\ UNCHANGED read
     /\ \E j \in JobRecs : Cont(w, j, Tail(job[w].sets))
  \/ /\ s.kind = "data" /\ Decoded(w, s, k, cache[k].layout) /\ getTemplate(k)
  \/ /\ s.kind = "fixed" /\ Decoded(w, s, k, s.layout) /\ UNCHANGED cacheVars
  \/ /\ s.kind = "truncated" /\ lost' = Missed(job[w].exp, job[w]) /\ UNCHANGED <<read, cacheVars>>
     /\ \E j \in JobRecs : Cont(w, j, <<>>)

LEMMA DecodeIs ==
  ASSUME Types, CacheTypes, NEW w \in Workers, Decode(w)
  PROVE  LET s == Head(job[w].sets)
             k == <<job[w].exp, job[w].src, s.tid>>
         IN  /\ job[w] \in JobRecs /\ job[w].pc = "decode" /\ job[w].sets # <<>> /\ s \in EncSets /\ k \in Keys
             /\ UNCHANGED <<told, sock, sent, now, devices, live, polls, signals, skipped, stored, during>>
             /\ cache[k].layout \in Said /\ DecodeCase(w, s, k)
<1>. DEFINE s == Head(job[w].sets)
            k == <<job[w].exp, job[w].src, s.tid>>
<1>1. job[w] \in JobRecs /\ job[w].pc = "decode" /\ job[w].sets # <<>>
  BY JobIs DEF Decode, Types, JobTypes
<1>2. job[w].sets \in Seq(EncSets) /\ job[w].exp \in Exporters /\ job[w].src \in Sources
  BY <1>1 DEF JobRecs
<1>3. s \in EncSets
  BY <1>1, <1>2
<1>4. s.tid \in Tids /\ k \in Keys
  BY <1>2, <1>3 DEF EncSets, Keys
<1>5. cache[k].layout \in Said
  BY <1>4 DEF CacheTypes
<1>6. UNCHANGED <<told, sock, sent, now, devices, live, polls, signals, skipped, stored, during>>
  BY DEF Decode, netVars, cfgVars, outVars
<1>7. \/ s.kind = "template" /\ putTemplate(k, s.layout) /\ NextSet(w, k)
      \/ s.kind = "withdraw" /\ deleteTemplate(k) /\ NextSet(w, k)
      \/ s.kind = "data" /\ Decoded(w, s, k, cache[k].layout) /\ getTemplate(k)
      \/ s.kind = "fixed" /\ Decoded(w, s, k, s.layout) /\ UNCHANGED cacheVars
      \/ /\ s.kind = "truncated" /\ job' = [job EXCEPT ![w].sets = <<>>]
         /\ lost' = Missed(job[w].exp, job[w]) /\ UNCHANGED <<read, cacheVars>>
  BY DEF Decode, templateKey
<1>8. ASSUME NEW ss \in Seq(EncSets), job' = [job EXCEPT ![w].sets = ss]
      PROVE  \E j \in JobRecs : Cont(w, j, ss)
  <2>. DEFINE j == [job[w] EXCEPT !.sets = ss]
  <2>1. j \in JobRecs
    BY <1>1 DEF JobRecs
  <2>2. /\ j.pc = "decode" /\ j.exp = job[w].exp /\ j.src = job[w].src /\ j.id = job[w].id
        /\ j.matched = job[w].matched /\ j.sets = ss
    BY <1>1 DEF JobRecs
  <2>3. job' = [job EXCEPT ![w] = j]
    BY <1>8
  <2>. HIDE DEF j
  <2>. QED BY <2>1, <2>2, <2>3 DEF Cont
<1>9. Tail(job[w].sets) \in Seq(EncSets) /\ <<>> \in Seq(EncSets)
  BY <1>1, <1>2
<1>10. NextSet(w, k) => lost' = lost \ {k} /\ UNCHANGED read /\ \E j \in JobRecs : Cont(w, j, Tail(job[w].sets))
  BY <1>8, <1>9 DEF NextSet
<1>. HIDE DEF s, k
<1>11. DecodeCase(w, s, k)
  <2>1. CASE s.kind = "truncated" /\ job' = [job EXCEPT ![w].sets = <<>>] /\ lost' = Missed(job[w].exp, job[w])
             /\ UNCHANGED <<read, cacheVars>>
    BY <1>8, <1>9, <2>1 DEF DecodeCase
  <2>. QED BY <1>7, <1>10, <2>1 DEF DecodeCase
<1>. QED BY <1>1, <1>3, <1>4, <1>5, <1>6, <1>11 DEF s, k

LEMMA HandleIs ==
  ASSUME Types, NEW w \in Workers, HandleFlows(w)
  PROVE  /\ job[w] \in JobRecs /\ job[w].pc = "decode" /\ job[w].sets = <<>>
         /\ job' = [job EXCEPT ![w] = Idle] /\ during' = [during EXCEPT ![w] = {}]
         /\ \A r \in stored' \ stored : r = [id |-> job[w].id, matched |-> job[w].matched, owners |-> during[w]]
         /\ UNCHANGED <<told, sock, sent, now, cache, lastSweep, used, devices, live, polls, lost, read>>
<1>1. job[w] \in JobRecs
  BY JobIs DEF HandleFlows, Types, JobTypes
<1>2. \A r \in stored' \ stored : r = [id |-> job[w].id, matched |-> job[w].matched, owners |-> during[w]]
  BY DEF HandleFlows
<1>. QED BY <1>1, <1>2 DEF HandleFlows, netVars, cacheVars, cfgVars

\* The steps of the environment and the configuration.
LEMMA StoreRegistryIs ==
  ASSUME NEW r \in Registries, StoreRegistry(r)
  PROVE  /\ polls < MaxPolls /\ polls' = polls + 1 /\ devices' = r
         /\ during' = [w \in Workers |-> IF job[w] = Idle THEN {} ELSE during[w] \cup {r[job[w].exp]}]
         /\ UNCHANGED <<told, sock, sent, now, cache, lastSweep, used, live, job, signals, skipped, stored, lost, read>>
BY DEF StoreRegistry, netVars, cacheVars, outVars
LEMMA StoreLiveIs ==
  ASSUME NEW lv \in Lives, StoreLive(lv)
  PROVE  /\ polls < MaxPolls /\ polls' = polls + 1 /\ live' = lv
         /\ UNCHANGED <<told, sock, sent, now, cache, lastSweep, used, devices, job, signals, skipped, stored, lost, read, during>>
BY DEF StoreLive, netVars, cacheVars, outVars
LEMMA TickIs ==
  ASSUME Tick
  PROVE  /\ now < MaxTime /\ now' = now + 1
         /\ UNCHANGED <<told, sock, sent, cache, lastSweep, used, devices, live, polls, job, signals, skipped, stored, lost, read, during>>
BY DEF Tick, netVars, cacheVars, cfgVars, outVars
LEMMA LoseIs ==
  ASSUME NEW e \in Exporters, Lose(e)
  PROVE  /\ sock[e] # <<>> /\ (\A w \in Workers : job[w] # Idle => job[w].exp # e)
         /\ sock' = [sock EXCEPT ![e] = Tail(@)] /\ lost' = Missed(e, Head(sock[e]))
         /\ UNCHANGED <<told, sent, now, cache, lastSweep, used, devices, live, polls, job, signals, skipped, stored, read, during>>
BY DEF Lose, cacheVars, cfgVars, outVars

LEMMA JobSet ==
  ASSUME JobTypes, NEW w \in Workers, NEW j \in {Idle} \cup JobRecs, j # Idle => Hash[j.exp] = w,
         job' = [job EXCEPT ![w] = j]
  PROVE  JobTypes'
BY DEF JobTypes

LEMMA DecodeJobs ==
  ASSUME Types, CacheTypes, NEW w \in Workers, Decode(w)
  PROVE  /\ job[w] \in JobRecs
         /\ \E j \in JobRecs : \E ss : Cont(w, j, ss)
         /\ UNCHANGED <<told, sock, sent, now, devices, live, polls, signals, skipped, stored, during>>
<1>1. PICK s : s = Head(job[w].sets)
  OBVIOUS
<1>2. PICK k : k = <<job[w].exp, job[w].src, s.tid>>
  OBVIOUS
<1>3. /\ job[w] \in JobRecs /\ job[w].pc = "decode" /\ job[w].sets # <<>> /\ s \in EncSets /\ k \in Keys
      /\ UNCHANGED <<told, sock, sent, now, devices, live, polls, signals, skipped, stored, during>>
      /\ cache[k].layout \in Said /\ DecodeCase(w, s, k)
  BY <1>1, <1>2, DecodeIs
<1>4. ASSUME NEW layout \in Said, Decoded(w, s, k, layout) PROVE \E j \in JobRecs : \E ss : Cont(w, j, ss)
  BY <1>3, <1>4, DecodedIs
<1>5. s.layout \in Said
  BY <1>3 DEF EncSets, Said
<1>. QED BY <1>3, <1>4, <1>5 DEF DecodeCase

LEMMA TypesNext ==
  ASSUME Types, CacheTypes, [Next]_vars PROVE Types'
<1>0. NetTypes /\ CfgTypes /\ JobTypes
  BY DEF Types
<1>1. ASSUME NEW e \in Exporters, NEW g \in Datagrams[e], Send(e, g) PROVE Types'
  <2>1. told' \in [Keys -> Said]
    <3>1. ASSUME NEW k \in Keys PROVE Announced(told[k], k, e, g.src, g.sets, Len(g.sets)) \in Said
      <4>1. told[k] \in Said
        BY <1>0 DEF NetTypes
      <4>. QED BY <4>1, DatagramIs, AnnouncedType
    <3>. QED BY <1>1, <3>1, SendIs
  <2>2. Gram(e, g) \in Grams
    BY <1>0, GramIs
  <2>3. sock' \in [Exporters -> Seq(Grams)] /\ sent' \in 0..MaxSent
    <3>1. sock[e] \in Seq(Grams)
      BY <1>0 DEF NetTypes
    <3>2. Append(sock[e], Gram(e, g)) \in Seq(Grams)
      BY <2>2, <3>1
    <3>3. sock' = [sock EXCEPT ![e] = Append(sock[e], Gram(e, g))] /\ sent < MaxSent /\ sent' = sent + 1
      BY <1>1, SendIs
    <3>4. sock' \in [Exporters -> Seq(Grams)]
      BY <1>0, <3>2, <3>3 DEF NetTypes
    <3>. QED BY <1>0, <3>3, <3>4, IngestAssumption DEF NetTypes
  <2>. QED BY <1>0, <1>1, <2>1, <2>3, SendIs DEF Types, NetTypes, CfgTypes, JobTypes
<1>2. ASSUME NEW e \in Exporters, sock[e] # <<>>, sock' = [sock EXCEPT ![e] = Tail(@)], UNCHANGED <<told, sent>>
      PROVE  NetTypes'
  <2>1. sock[e] \in Seq(Grams)
    BY <1>0 DEF NetTypes
  <2>2. Tail(sock[e]) \in Seq(Grams)
    BY <1>2, <2>1
  <2>. QED BY <1>0, <1>2, <2>2 DEF NetTypes
<1>3. ASSUME NEW e \in Exporters, Lose(e) PROVE Types'
  <2>1. NetTypes'
    BY <1>2, <1>3, LoseIs
  <2>. QED BY <1>0, <1>3, <2>1, LoseIs DEF Types, CfgTypes, JobTypes
<1>4. ASSUME Tick PROVE Types'
  BY <1>0, <1>4, TickIs DEF Types, NetTypes, CfgTypes, JobTypes
<1>5. ASSUME NEW r \in Registries, StoreRegistry(r) PROVE Types'
  <2>1. CfgTypes'
    BY <1>0, <1>5, StoreRegistryIs, IngestAssumption DEF CfgTypes
  <2>. QED BY <1>0, <1>5, <2>1, StoreRegistryIs DEF Types, NetTypes, JobTypes
<1>6. ASSUME NEW lv \in Lives, StoreLive(lv) PROVE Types'
  <2>1. CfgTypes'
    BY <1>0, <1>6, StoreLiveIs, IngestAssumption DEF CfgTypes
  <2>. QED BY <1>0, <1>6, <2>1, StoreLiveIs DEF Types, NetTypes, JobTypes
<1>7. ASSUME NEW w \in Workers, ReadFromUDP(w) PROVE Types'
  <2>1. PICK e \in Exporters, j \in JobRecs :
           /\ Hash[e] = w /\ sock[e] # <<>>
           /\ sock' = [sock EXCEPT ![e] = Tail(@)] /\ job' = [job EXCEPT ![w] = j] /\ j.exp = e
           /\ UNCHANGED <<told, sent, devices, live, polls>>
    BY <1>7, ReadIs
  <2>2. NetTypes'
    BY <1>2, <2>1
  <2>3. JobTypes'
    BY <1>0, <2>1, JobSet
  <2>. QED BY <1>0, <2>1, <2>2, <2>3 DEF Types, CfgTypes
<1>8. ASSUME NEW w \in Workers, Lookup(w) PROVE Types'
  <2>1. PICK j \in {Idle} \cup JobRecs : job' = [job EXCEPT ![w] = j] /\ (j # Idle => j.exp = job[w].exp)
    BY <1>8, LookupIs
  <2>2. Hash[job[w].exp] = w
    BY <1>0, <1>8, LookupIs, JobIs DEF JobTypes
  <2>3. JobTypes'
    BY <1>0, <2>1, <2>2, JobSet
  <2>4. UNCHANGED <<told, sock, sent, devices, live, polls>>
    BY <1>8, LookupIs
  <2>. QED BY <1>0, <2>3, <2>4 DEF Types, NetTypes, CfgTypes
<1>9. ASSUME NEW w \in Workers, Decode(w) PROVE Types'
  <2>1. PICK j \in JobRecs : \E ss : Cont(w, j, ss)
    BY <1>9, DecodeJobs
  <2>2. Hash[job[w].exp] = w
    BY <1>0, <1>9, DecodeJobs, JobIs DEF JobTypes
  <2>3. JobTypes'
    BY <1>0, <2>1, <2>2, JobSet DEF Cont
  <2>4. UNCHANGED <<told, sock, sent, devices, live, polls>>
    BY <1>9, DecodeJobs
  <2>. QED BY <1>0, <2>3, <2>4 DEF Types, NetTypes, CfgTypes
<1>10. ASSUME NEW w \in Workers, HandleFlows(w) PROVE Types'
  <2>1. JobTypes'
    BY <1>0, <1>10, HandleIs, JobSet
  <2>. QED BY <1>0, <1>10, <2>1, HandleIs DEF Types, NetTypes, CfgTypes
<1>11. CASE UNCHANGED vars
  BY <1>0, <1>11 DEF vars, netVars, cfgVars, Types, NetTypes, CfgTypes, JobTypes
<1>. QED BY <1>1, <1>3, <1>4, <1>5, <1>6, <1>7, <1>8, <1>9, <1>10, <1>11 DEF Next, WorkerStep

-----------------------------------------------------------------------------
(* The template cache.                                                     *)

\* A template put or used is in the cache with the time of it, or that time is longer
\* ago than the TTL.
CacheInv ==
  /\ CacheTypes
  /\ IsFiniteSet(Cached(cache)) /\ Cardinality(Cached(cache)) <= MaxTemplates
  /\ \A k \in Keys : cache[k].layout = "none" => cache[k] = NoTemplate
  /\ \A k \in Keys : used[k] # 0 => \/ cache[k].layout # "none" /\ cache[k].seen = used[k]
                                    \/ now - used[k] > TTL

LEMMA CacheInit ==
  ASSUME Init PROVE CacheInv
<1>1. CacheTypes
  <2>1. NoTemplate \in [layout : Said, seen : 0..now]
    BY IngestAssumption DEF Init, NoTemplate, Said
  <2>. QED BY <2>1, IngestAssumption DEF Init, CacheTypes
<1>2. Cached(cache) = {}
  BY DEF Init, Cached, NoTemplate
<1>3. IsFiniteSet(Cached(cache)) /\ Cardinality(Cached(cache)) <= MaxTemplates
  BY <1>2, FS_EmptySet, IngestAssumption
<1>. QED BY <1>1, <1>3 DEF Init, CacheInv

\* What is left of the cache by a step that touches template k.
LEMMA CacheOf ==
  ASSUME NEW c, NEW d, NEW k, IsFiniteSet(Cached(c)), \A x \in Keys \ {k} : d[x].layout # "none" => c[x].layout # "none"
  PROVE  /\ IsFiniteSet(Cached(d))
         /\ (k \in Keys /\ d[k].layout # "none" => c[k].layout # "none") => Cardinality(Cached(d)) <= Cardinality(Cached(c))
<1>1. Cached(d) \subseteq Cached(c) \cup {k}
  BY DEF Cached
<1>2. IsFiniteSet(Cached(c) \cup {k})
  BY FS_AddElement
<1>3. IsFiniteSet(Cached(d))
  BY <1>1, <1>2, FS_Subset
<1>4. ASSUME k \in Keys /\ d[k].layout # "none" => c[k].layout # "none" PROVE Cardinality(Cached(d)) <= Cardinality(Cached(c))
  <2>1. Cached(d) \subseteq Cached(c)
    BY <1>1, <1>4 DEF Cached
  <2>. QED BY <2>1, FS_Subset
<1>. QED BY <1>3, <1>4

LEMMA SurvivorsAre ==
  ASSUME NEW c, IsFiniteSet(Cached(c)), NEW s \in Survivors(c)
  PROVE  s \subseteq Cached(c) \ Expired(c) /\ IsFiniteSet(s) /\ Cardinality(s) <= MaxTemplates
<1>. DEFINE young == Cached(c) \ Expired(c)
<1>1. s \subseteq young
  BY DEF Survivors
<1>2. IsFiniteSet(young)
  BY FS_Subset
<1>3. IsFiniteSet(s) /\ Cardinality(young) \in Nat
  BY <1>1, <1>2, FS_Subset, FS_CardinalityType
<1>4. Cardinality(s) = IF Cardinality(young) > MaxTemplates THEN MaxTemplates ELSE Cardinality(young)
  BY DEF Survivors
<1>. QED BY <1>1, <1>3, <1>4, IngestAssumption

LEMMA PutFrame ==
  ASSUME CacheInv, NEW k \in Keys, NEW layout \in Layouts, putTemplate(k, layout)
  PROVE  /\ \A x \in Keys \ {k} : cache'[x] \in {cache[x], NoTemplate}
         /\ cache'[k].layout \in {layout, "none"}
<1>. DEFINE c == [cache EXCEPT ![k] = [layout |-> layout, seen |-> now]]
<1>1. (\A x \in Keys \ {k} : c[x] = cache[x]) /\ c[k].layout = layout
  BY DEF CacheInv, CacheTypes
<1>2. \/ cache' = c
      \/ \E s \in Survivors(c) : cache' = [x \in Keys |-> IF x \in s THEN c[x] ELSE NoTemplate]
  BY DEF putTemplate
<1>3. NoTemplate.layout = "none"
  BY DEF NoTemplate
<1>. HIDE DEF c
<1>. QED BY <1>1, <1>2, <1>3

LEMMA PutInv ==
  ASSUME CacheInv, NEW k \in Keys, NEW layout \in Layouts, putTemplate(k, layout), now' = now
  PROVE  CacheInv'
<1>. DEFINE c == [cache EXCEPT ![k] = [layout |-> layout, seen |-> now]]
<1>0. CacheTypes /\ layout \in Said /\ layout # "none" /\ now \in Nat
  BY IngestAssumption DEF CacheInv, CacheTypes, Said, Layouts
<1>1. c \in [Keys -> [layout : Said, seen : 0..now]]
  BY <1>0 DEF CacheTypes
<1>2. (\A x \in Keys \ {k} : c[x] = cache[x]) /\ c[k].layout = layout /\ c[k].seen = now
  BY <1>0 DEF CacheTypes
<1>3. IsFiniteSet(Cached(c))
  <2>. HIDE DEF c
  <2>1. \A x \in Keys \ {k} : c[x].layout # "none" => cache[x].layout # "none"
    BY <1>2
  <2>2. IsFiniteSet(Cached(cache))
    BY DEF CacheInv
  <2>. QED BY <2>1, <2>2, CacheOf
<1>4. \/ /\ ~SweepDue(c)
         /\ cache' = c /\ used' = [used EXCEPT ![k] = now]
         /\ UNCHANGED lastSweep
      \/ /\ SweepDue(c)
         /\ lastSweep' = now
         /\ \E s \in Survivors(c) :
              /\ cache' = [x \in Keys |-> IF x \in s THEN c[x] ELSE NoTemplate]
              /\ used' = [x \in Keys |-> IF x \in Cached(c) \ (Expired(c) \cup s) THEN 0
                                         ELSE IF x = k THEN now ELSE used[x]]
  BY DEF putTemplate
<1>5. NoTemplate \in [layout : Said, seen : 0..now] /\ NoTemplate.layout = "none"
  BY <1>0 DEF NoTemplate, Said
<1>6. \A x \in Keys : c[x].layout = "none" => c[x] = NoTemplate
  BY <1>0, <1>2 DEF CacheInv
<1>. HIDE DEF c
<1>7. ASSUME ~SweepDue(c), cache' = c, used' = [used EXCEPT ![k] = now], UNCHANGED lastSweep
      PROVE  CacheInv'
  <2>1. CacheTypes'
    BY <1>0, <1>1, <1>7 DEF CacheTypes
  <2>2. Cardinality(Cached(c)) <= MaxTemplates
    BY <1>3, <1>7, FS_CardinalityType, IngestAssumption DEF SweepDue
  <2>3. \A x \in Keys : used'[x] # 0 => \/ c[x].layout # "none" /\ c[x].seen = used'[x]
                                        \/ now - used'[x] > TTL
    BY <1>0, <1>2, <1>7 DEF CacheInv, CacheTypes
  <2>. QED BY <1>3, <1>6, <1>7, <2>1, <2>2, <2>3 DEF CacheInv
<1>8. ASSUME lastSweep' = now, NEW s \in Survivors(c),
             cache' = [x \in Keys |-> IF x \in s THEN c[x] ELSE NoTemplate],
             used' = [x \in Keys |-> IF x \in Cached(c) \ (Expired(c) \cup s) THEN 0
                                     ELSE IF x = k THEN now ELSE used[x]]
      PROVE  CacheInv'
  <2>1. s \subseteq Cached(c) \ Expired(c) /\ IsFiniteSet(s) /\ Cardinality(s) <= MaxTemplates
    BY <1>3, SurvivorsAre
  <2>2. CacheTypes'
    <3>1. \A x \in Keys : cache'[x] \in [layout : Said, seen : 0..now]
      BY <1>1, <1>5, <1>8
    <3>2. cache' \in [Keys -> [layout : Said, seen : 0..now]]
      BY <1>8, <3>1
    <3>3. used' \in [Keys -> 0..now]
      BY <1>0, <1>8 DEF CacheTypes
    <3>. QED BY <1>0, <1>8, <3>2, <3>3 DEF CacheTypes
  <2>3. Cached(cache') \subseteq s
    BY <1>5, <1>8 DEF Cached
  <2>4. IsFiniteSet(Cached(cache')) /\ Cardinality(Cached(cache')) <= Cardinality(s)
    BY <2>1, <2>3, FS_Subset
  <2>5. Cardinality(Cached(cache')) <= MaxTemplates
    BY <2>1, <2>4, FS_CardinalityType, IngestAssumption
  <2>6. \A x \in Keys : cache'[x].layout = "none" => cache'[x] = NoTemplate
    BY <1>6, <1>8
  <2>7. ASSUME NEW x \in Keys, used'[x] # 0
        PROVE  \/ cache'[x].layout # "none" /\ cache'[x].seen = used'[x]
               \/ now - used'[x] > TTL
    <3>1. k \in Cached(c) /\ k \notin Expired(c)
      BY <1>0, <1>2, IngestAssumption DEF Cached, Expired
    <3>2. CASE x = k
      BY <1>0, <1>2, <1>8, <2>7, <3>1, <3>2
    <3>3. CASE x # k
      <4>1. used'[x] = used[x] /\ used[x] # 0 /\ c[x] = cache[x] /\ ~(x \in Cached(c) \ (Expired(c) \cup s))
        BY <1>2, <1>8, <2>7, <3>3
      <4>2. \/ c[x].layout # "none" /\ c[x].seen = used[x]
            \/ now - used[x] > TTL
        BY <4>1 DEF CacheInv
      <4>3. CASE x \in s
        BY <1>8, <4>1, <4>2, <4>3
      <4>4. CASE x \notin s
        BY <4>1, <4>2, <4>4 DEF Cached, Expired
      <4>. QED BY <4>3, <4>4
    <3>. QED BY <3>2, <3>3
  <2>. QED BY <2>2, <2>4, <2>5, <2>6, <2>7 DEF CacheInv
<1>. QED BY <1>4, <1>7, <1>8

LEMMA DeleteInv ==
  ASSUME CacheInv, NEW k \in Keys, deleteTemplate(k), now' = now
  PROVE  CacheInv' /\ (\A x \in Keys \ {k} : cache'[x] = cache[x]) /\ cache'[k].layout = "none"
<1>0. CacheTypes /\ now \in Nat
  BY IngestAssumption DEF CacheInv, CacheTypes
<1>1. /\ cache' = [cache EXCEPT ![k] = NoTemplate] /\ used' = [used EXCEPT ![k] = 0] /\ UNCHANGED lastSweep
  BY DEF deleteTemplate
<1>2. NoTemplate \in [layout : Said, seen : 0..now] /\ NoTemplate.layout = "none"
  BY <1>0 DEF NoTemplate, Said
<1>3. CacheTypes'
  BY <1>0, <1>1, <1>2 DEF CacheTypes
<1>4. (\A x \in Keys \ {k} : cache'[x] = cache[x]) /\ cache'[k] = NoTemplate
  BY <1>0, <1>1 DEF CacheTypes
<1>5. (\A x \in Keys \ {k} : used'[x] = used[x]) /\ used'[k] = 0
  BY <1>0, <1>1 DEF CacheTypes
<1>6. IsFiniteSet(Cached(cache')) /\ Cardinality(Cached(cache')) <= MaxTemplates
  <2>1. PICK d : d = cache'
    OBVIOUS
  <2>2. (\A x \in Keys \ {k} : d[x].layout # "none" => cache[x].layout # "none") /\ d[k].layout = "none"
    BY <1>2, <1>4, <2>1
  <2>3. IsFiniteSet(Cached(cache)) /\ Cardinality(Cached(cache)) <= MaxTemplates
    BY DEF CacheInv
  <2>4. IsFiniteSet(Cached(d)) /\ Cardinality(Cached(d)) <= Cardinality(Cached(cache))
    BY <2>2, <2>3, CacheOf
  <2>. QED BY <2>1, <2>3, <2>4, FS_CardinalityType, IngestAssumption
<1>7. \A x \in Keys : cache'[x].layout = "none" => cache'[x] = NoTemplate
  BY <1>4 DEF CacheInv
<1>8. \A x \in Keys : used'[x] # 0 => \/ cache'[x].layout # "none" /\ cache'[x].seen = used'[x]
                                      \/ now - used'[x] > TTL
  BY <1>4, <1>5 DEF CacheInv
<1>. QED BY <1>2, <1>3, <1>4, <1>6, <1>7, <1>8 DEF CacheInv

LEMMA GetInv ==
  ASSUME CacheInv, NEW k \in Keys, getTemplate(k), now' = now
  PROVE  CacheInv' /\ \A x \in Keys : cache'[x].layout = cache[x].layout
<1>0. CacheTypes /\ now \in Nat
  BY IngestAssumption DEF CacheInv, CacheTypes
<1>1. /\ cache' = IF cache[k] = NoTemplate THEN cache ELSE [cache EXCEPT ![k].seen = now]
      /\ used' = IF cache[k] = NoTemplate THEN used ELSE [used EXCEPT ![k] = now]
      /\ UNCHANGED lastSweep
  BY DEF getTemplate
<1>2. CASE cache[k] = NoTemplate
  BY <1>1, <1>2 DEF CacheInv, CacheTypes
<1>3. CASE cache[k] # NoTemplate
  <2>1. cache[k] \in [layout : Said, seen : 0..now] /\ cache[k].layout # "none"
    BY <1>0, <1>3 DEF CacheInv, CacheTypes
  <2>. DEFINE r == [cache[k] EXCEPT !.seen = now]
  <2>2. r \in [layout : Said, seen : 0..now] /\ r.layout = cache[k].layout /\ r.seen = now
    BY <1>0, <2>1
  <2>3. cache' = [cache EXCEPT ![k] = r] /\ used' = [used EXCEPT ![k] = now]
    BY <1>1, <1>3
  <2>. HIDE DEF r
  <2>4. CacheTypes'
    BY <1>0, <1>1, <2>2, <2>3 DEF CacheTypes
  <2>5. (\A x \in Keys \ {k} : cache'[x] = cache[x]) /\ cache'[k] = r
    BY <1>0, <2>3 DEF CacheTypes
  <2>6. (\A x \in Keys \ {k} : used'[x] = used[x]) /\ used'[k] = now
    BY <1>0, <2>3 DEF CacheTypes
  <2>7. \A x \in Keys : cache'[x].layout = cache[x].layout
    BY <2>2, <2>5
  <2>8. Cached(cache') = Cached(cache)
    BY <2>7 DEF Cached
  <2>9. \A x \in Keys : cache'[x].layout = "none" => cache'[x] = NoTemplate
    BY <2>1, <2>2, <2>5 DEF CacheInv
  <2>10. \A x \in Keys : used'[x] # 0 => \/ cache'[x].layout # "none" /\ cache'[x].seen = used'[x]
                                         \/ now - used'[x] > TTL
    BY <2>1, <2>2, <2>5, <2>6 DEF CacheInv
  <2>. QED BY <2>4, <2>7, <2>8, <2>9, <2>10 DEF CacheInv
<1>. QED BY <1>2, <1>3

LEMMA CacheStays ==
  ASSUME CacheInv, UNCHANGED <<cache, lastSweep, used, now>> PROVE CacheInv'
BY DEF CacheInv, CacheTypes

LEMMA CacheNext ==
  ASSUME Types, CacheInv, [Next]_vars PROVE CacheInv'
<1>1. ASSUME Tick PROVE CacheInv'
  <2>1. now \in Nat /\ now < MaxTime /\ now' = now + 1 /\ UNCHANGED <<cache, lastSweep, used>> /\ CacheTypes
    BY <1>1, TickIs, IngestAssumption DEF CacheInv, CacheTypes
  <2>2. CacheTypes'
    <3>1. 0..now \subseteq 0..now'
      BY <2>1
    <3>2. [layout : Said, seen : 0..now] \subseteq [layout : Said, seen : 0..now']
      BY <3>1
    <3>3. cache \in [Keys -> [layout : Said, seen : 0..now']] /\ used \in [Keys -> 0..now']
      BY <2>1, <3>1, <3>2 DEF CacheTypes
    <3>. QED BY <2>1, <3>1, <3>3, IngestAssumption DEF CacheTypes
  <2>3. \A k \in Keys : used[k] # 0 => \/ cache[k].layout # "none" /\ cache[k].seen = used[k]
                                       \/ now' - used[k] > TTL
    BY <2>1, IngestAssumption DEF CacheInv, CacheTypes
  <2>. QED BY <2>1, <2>2, <2>3 DEF CacheInv
<1>2. ASSUME NEW w \in Workers, Decode(w) PROVE CacheInv'
  <2>0. CacheTypes
    BY DEF CacheInv
  <2>1. PICK s : s = Head(job[w].sets)
    OBVIOUS
  <2>2. PICK k : k = <<job[w].exp, job[w].src, s.tid>>
    OBVIOUS
  <2>3. s \in EncSets /\ k \in Keys /\ now' = now /\ DecodeCase(w, s, k)
    BY <1>2, <2>0, <2>1, <2>2, DecodeIs
  <2>4. s.layout \in Layouts
    BY <2>3 DEF EncSets
  <2>5. CASE putTemplate(k, s.layout)
    BY <2>3, <2>4, <2>5, PutInv
  <2>6. CASE deleteTemplate(k)
    BY <2>3, <2>6, DeleteInv
  <2>7. CASE getTemplate(k)
    BY <2>3, <2>7, GetInv
  <2>8. CASE UNCHANGED cacheVars
    BY <2>3, <2>8, CacheStays DEF cacheVars
  <2>. QED BY <2>3, <2>5, <2>6, <2>7, <2>8 DEF DecodeCase
<1>3. ASSUME ~Tick, ~\E w \in Workers : Decode(w) PROVE CacheInv'
  <2>1. UNCHANGED <<cache, lastSweep, used, now>>
    BY <1>3 DEF Next, WorkerStep, Send, Lose, StoreRegistry, StoreLive, ReadFromUDP, Lookup, HandleFlows, cacheVars, vars
  <2>. QED BY <2>1, CacheStays
<1>. QED BY <1>1, <1>2, <1>3

LEMMA CacheIsSound ==
  ASSUME CacheInv PROVE ActiveKept /\ CacheBounded
<1>1. ASSUME NEW k \in Keys, used[k] > 0, now - used[k] <= TTL PROVE cache[k].layout # "none"
  <2>1. used[k] \in 0..now /\ now \in Nat
    BY IngestAssumption DEF CacheInv, CacheTypes
  <2>. QED BY <1>1, <2>1, IngestAssumption DEF CacheInv
<1>. QED BY <1>1 DEF CacheInv, ActiveKept, CacheBounded, Cached

-----------------------------------------------------------------------------
(* Whose records they are.                                                 *)

Owners == {r[e] : r \in Registries, e \in Exporters}

\* A worker at work has the entry of now among those it may have seen, and in decode
\* the one its identity came from.
Owned(w) ==
  /\ job[w] = Idle => during[w] = {}
  /\ job[w] # Idle => devices[job[w].exp] \in during[w]
  /\ job[w].pc = "decode" =>
       /\ job[w].matched => \E d \in during[w] \ {NoDevice} : d.enabled /\ d.id = job[w].id
       /\ ~job[w].matched => NoDevice \in during[w]
OwnerInv ==
  /\ during \in [Workers -> SUBSET Owners]
  /\ \A w \in Workers : Owned(w)
  /\ RightOwner

LEMMA OwnerInit ==
  ASSUME Init PROVE OwnerInv
BY DEF Init, OwnerInv, Owned, RightOwner, Idle

LEMMA OwnerStays ==
  ASSUME OwnerInv, UNCHANGED <<job, devices, during, stored>> PROVE OwnerInv'
BY DEF OwnerInv, Owned, RightOwner

\* A step of one worker leaves what the others own alone.
LEMMA OwnerOfOne ==
  ASSUME Types, OwnerInv, NEW w \in Workers, NEW j, NEW D \in SUBSET Owners, UNCHANGED devices,
         job' = [job EXCEPT ![w] = j], during' = [during EXCEPT ![w] = D],
         j = Idle => D = {}, j # Idle => devices[j.exp] \in D,
         j.pc = "decode" => /\ j.matched => \E d \in D \ {NoDevice} : d.enabled /\ d.id = j.id
                            /\ ~j.matched => NoDevice \in D
  PROVE  during' \in [Workers -> SUBSET Owners] /\ \A x \in Workers : Owned(x)'
<1>1. during' \in [Workers -> SUBSET Owners]
  BY DEF OwnerInv
<1>2. job'[w] = j /\ during'[w] = D
  BY DEF OwnerInv, Types, JobTypes
<1>3. \A x \in Workers \ {w} : job'[x] = job[x] /\ during'[x] = during[x]
  BY DEF OwnerInv, Types, JobTypes
<1>4. Owned(w)'
  BY <1>2 DEF Owned
<1>5. ASSUME NEW x \in Workers \ {w} PROVE Owned(x)'
  BY <1>3 DEF Owned, OwnerInv
<1>. QED BY <1>1, <1>4, <1>5

LEMMA OwnerNext ==
  ASSUME Types, CacheTypes, OwnerInv, [Next]_vars PROVE OwnerInv'
<1>0. devices \in Registries /\ \A e \in Exporters : devices[e] \in Owners
  BY DEF Types, CfgTypes, Owners
<1>1. ASSUME NEW r \in Registries, StoreRegistry(r) PROVE OwnerInv'
  <2>1. /\ devices' = r /\ UNCHANGED <<job, stored>>
        /\ during' = [w \in Workers |-> IF job[w] = Idle THEN {} ELSE during[w] \cup {r[job[w].exp]}]
    BY <1>1, StoreRegistryIs
  <2>2. ASSUME NEW w \in Workers, job[w] # Idle PROVE r[job[w].exp] \in Owners
    <3>1. job[w].exp \in Exporters
      BY <2>2, JobIs DEF Types, JobTypes, JobRecs
    <3>. QED BY <3>1 DEF Owners
  <2>3. during' \in [Workers -> SUBSET Owners]
    BY <2>1, <2>2 DEF OwnerInv
  <2>4. ASSUME NEW w \in Workers PROVE Owned(w)'
    <3>1. Owned(w)
      BY DEF OwnerInv
    <3>2. CASE job[w] = Idle
      BY <2>1, <3>1, <3>2 DEF Owned, Idle
    <3>3. CASE job[w] # Idle
      <4>1. during'[w] = during[w] \cup {r[job[w].exp]}
        BY <2>1, <3>3
      <4>. QED BY <2>1, <3>1, <3>3, <4>1 DEF Owned
    <3>. QED BY <3>2, <3>3
  <2>. QED BY <2>1, <2>3, <2>4 DEF OwnerInv, RightOwner
<1>2. ASSUME NEW w \in Workers, ReadFromUDP(w) PROVE OwnerInv'
  <2>1. PICK e \in Exporters, j \in JobRecs :
           /\ job' = [job EXCEPT ![w] = j] /\ during' = [during EXCEPT ![w] = {devices[e]}]
           /\ j.pc = "lookup" /\ j.exp = e /\ UNCHANGED <<devices, stored>>
    BY <1>2, ReadIs
  <2>2. j # Idle
    BY <2>1 DEF Idle
  <2>3. {devices[e]} \in SUBSET Owners
    BY <1>0
  <2>4. during' \in [Workers -> SUBSET Owners] /\ \A x \in Workers : Owned(x)'
    BY <2>1, <2>2, <2>3, OwnerOfOne
  <2>. QED BY <2>1, <2>4 DEF OwnerInv, RightOwner
<1>3. ASSUME NEW w \in Workers, Lookup(w) PROVE OwnerInv'
  <2>1. job[w] \in JobRecs /\ job[w].pc = "lookup" /\ UNCHANGED <<devices, stored>>
    BY <1>3, LookupIs
  <2>2. job[w] # Idle /\ Owned(w) /\ during[w] \in SUBSET Owners
    BY <2>1 DEF Idle, OwnerInv
  <2>3. ASSUME NEW j \in JobRecs, job' = [job EXCEPT ![w] = j], UNCHANGED during, j.pc = "decode", j.exp = job[w].exp,
               IF devices[job[w].exp] # NoDevice
               THEN j.matched /\ devices[job[w].exp].enabled /\ j.id = devices[job[w].exp].id ELSE ~j.matched
        PROVE  during' \in [Workers -> SUBSET Owners] /\ \A x \in Workers : Owned(x)'
    <3>1. during' = [during EXCEPT ![w] = during[w]]
      BY <2>3 DEF OwnerInv
    <3>2. devices[j.exp] \in during[w]
      BY <2>2, <2>3 DEF Owned
    <3>3. j # Idle
      BY <2>3 DEF Idle
    <3>4. /\ j.matched => \E d \in during[w] \ {NoDevice} : d.enabled /\ d.id = j.id
          /\ ~j.matched => NoDevice \in during[w]
      BY <2>3, <3>2
    <3>. QED BY <2>1, <2>2, <2>3, <3>1, <3>2, <3>3, <3>4, OwnerOfOne
  <2>4. ASSUME job' = [job EXCEPT ![w] = Idle], during' = [during EXCEPT ![w] = {}]
        PROVE  during' \in [Workers -> SUBSET Owners] /\ \A x \in Workers : Owned(x)'
    BY <2>1, <2>4, OwnerOfOne DEF Idle
  <2>5. during' \in [Workers -> SUBSET Owners] /\ \A x \in Workers : Owned(x)'
    BY <1>3, <2>3, <2>4, LookupIs
  <2>. QED BY <2>1, <2>5 DEF OwnerInv, RightOwner
<1>4. ASSUME NEW w \in Workers, Decode(w) PROVE OwnerInv'
  <2>1. PICK j \in JobRecs : \E ss : Cont(w, j, ss)
    BY <1>4, DecodeJobs
  <2>2. UNCHANGED <<devices, stored, during>> /\ job[w] \in JobRecs /\ job[w].pc = "decode"
    BY <1>4, DecodeIs
  <2>3. job[w] # Idle /\ Owned(w) /\ during[w] \in SUBSET Owners /\ j # Idle
    BY <2>2, JobIs DEF OwnerInv
  <2>4. during' = [during EXCEPT ![w] = during[w]]
    BY <2>2 DEF OwnerInv
  <2>5. /\ job' = [job EXCEPT ![w] = j] /\ devices[j.exp] \in during[w]
        /\ j.matched => \E d \in during[w] \ {NoDevice} : d.enabled /\ d.id = j.id
        /\ ~j.matched => NoDevice \in during[w]
    BY <2>1, <2>2, <2>3 DEF Owned, Cont
  <2>6. during' \in [Workers -> SUBSET Owners] /\ \A x \in Workers : Owned(x)'
    BY <2>2, <2>3, <2>4, <2>5, OwnerOfOne
  <2>. QED BY <2>2, <2>6 DEF OwnerInv, RightOwner
<1>5. ASSUME NEW w \in Workers, HandleFlows(w) PROVE OwnerInv'
  <2>1. /\ job[w].pc = "decode" /\ job' = [job EXCEPT ![w] = Idle] /\ during' = [during EXCEPT ![w] = {}]
        /\ \A r \in stored' \ stored : r = [id |-> job[w].id, matched |-> job[w].matched, owners |-> during[w]]
        /\ UNCHANGED devices
    BY <1>5, HandleIs
  <2>2. during' \in [Workers -> SUBSET Owners] /\ \A x \in Workers : Owned(x)'
    BY <2>1, OwnerOfOne DEF Idle
  <2>3. RightOwner'
    <3>1. Owned(w)
      BY DEF OwnerInv
    <3>. SUFFICES ASSUME NEW r \in stored'
                  PROVE  IF r.matched THEN \E d \in r.owners \ {NoDevice} : d.enabled /\ d.id = r.id
                         ELSE NoDevice \in r.owners
      BY DEF RightOwner
    <3>2. CASE r \in stored
      BY <3>2 DEF OwnerInv, RightOwner
    <3>3. CASE r \notin stored
      <4>1. r.id = job[w].id /\ r.matched = job[w].matched /\ r.owners = during[w]
        BY <2>1, <3>3
      <4>. QED BY <2>1, <3>1, <4>1 DEF Owned
    <3>. QED BY <3>2, <3>3
  <2>. QED BY <2>2, <2>3 DEF OwnerInv
<1>6. ASSUME ~\E r \in Registries : StoreRegistry(r),
             ~\E w \in Workers : ReadFromUDP(w) \/ Lookup(w) \/ Decode(w) \/ HandleFlows(w)
      PROVE  OwnerInv'
  <2>1. UNCHANGED <<job, devices, during, stored>>
    BY <1>6 DEF Next, WorkerStep, Send, Lose, Tick, StoreLive, cfgVars, outVars, vars
  <2>. QED BY <2>1, OwnerStays
<1>. QED BY <1>1, <1>2, <1>3, <1>4, <1>5, <1>6

LEMMA TypesInit ==
  ASSUME Init PROVE Types
<1>1. NetTypes
  <2>1. sock \in [Exporters -> Seq(Grams)]
    BY DEF Init
  <2>. QED BY <2>1, IngestAssumption DEF Init, NetTypes, Said, Layouts
<1>2. CfgTypes
  BY IngestAssumption DEF Init, CfgTypes
<1>3. JobTypes
  BY DEF Init, JobTypes
<1>. QED BY <1>1, <1>2, <1>3 DEF Types

PathInv == Types /\ CacheInv /\ OwnerInv

LEMMA PathInit == Init => PathInv
BY TypesInit, CacheInit, OwnerInit DEF PathInv

LEMMA PathNext ==
  ASSUME PathInv, [Next]_vars PROVE PathInv'
BY TypesNext, CacheNext, OwnerNext DEF PathInv, CacheInv

LEMMA PathTyped == PathInv => TypeOK
<1>. SUFFICES ASSUME PathInv PROVE TypeOK
  OBVIOUS
<1>1. Types /\ CacheTypes /\ OwnerInv
  BY DEF PathInv, CacheInv
<1>2. told \in [Keys -> Layouts \cup {"none"}] /\ sent \in 0..MaxSent /\ polls \in 0..MaxPolls
  BY <1>1 DEF Types, NetTypes, CfgTypes, Said
<1>3. /\ now \in 0..MaxTime /\ lastSweep \in 0..now /\ used \in [Keys -> 0..now]
      /\ cache \in [Keys -> [layout : Layouts \cup {"none"}, seen : 0..now]]
  BY <1>1 DEF CacheTypes, Said
<1>4. devices \in Registries /\ live \in Lives
  BY <1>1 DEF Types, CfgTypes
<1>5. ASSUME NEW w \in Workers
      PROVE  \/ job[w] = Idle /\ during[w] = {}
             \/ /\ job[w].pc \in {"lookup", "decode"} /\ job[w].exp \in Exporters
                /\ job[w].emitted <= MaxRecords /\ during[w] # {}
  <2>1. Owned(w) /\ job[w] \in {Idle} \cup JobRecs
    BY <1>1 DEF OwnerInv, Types, JobTypes
  <2>2. CASE job[w] = Idle
    BY <2>1, <2>2 DEF Owned
  <2>3. CASE job[w] # Idle
    <3>1. job[w] \in JobRecs /\ during[w] # {}
      BY <2>1, <2>3 DEF Owned
    <3>. QED BY <3>1, IngestAssumption DEF JobRecs
  <2>. QED BY <2>2, <2>3
<1>. QED BY <1>2, <1>3, <1>4, <1>5 DEF TypeOK

LEMMA PathAlways == IntakeSpec => []PathInv
<1>1. IntakeInit => PathInv
  BY PathInit DEF IntakeInit
<1>2. PathInv /\ [IntakeNext]_intakeVars => PathInv'
  BY PathNext, IntakeSteps
<1>. QED BY <1>1, <1>2, PTL DEF IntakeSpec, intakeVars

\* The cache holds no more templates than its cap after every step, and every template
\* put or used within the TTL that the cap did not displace, for any number of workers,
\* exporters and templates (netflow9.go and ipfix.go: putTemplate, getTemplate, sweepLocked).
THEOREM CacheStaysSound == IntakeSpec => []CacheSound
<1>1. PathInv => CacheSound
  BY PathTyped, CacheIsSound DEF PathInv, CacheSound
<1>. QED BY <1>1, PathAlways, PTL

\* A record is stored under a device that was registered and enabled for its exporter
\* while its datagram was handled, however the registry is replaced meanwhile
\* (pipeline.go, HandlePacket; device registry).
THEOREM RecordsHaveRightOwner == IntakeSpec => []RightOwner
<1>1. PathInv => RightOwner
  BY DEF PathInv, OwnerInv
<1>. QED BY <1>1, PathAlways, PTL

-----------------------------------------------------------------------------
(* What an exporter told, datagram by datagram.                            *)

LEMMA AnnouncedSame ==
  ASSUME NEW v, NEW k, NEW e, NEW src, NEW ss, NEW tt, NEW n \in Nat,
         \A i \in 1..n : ss[i].kind = tt[i].kind /\ ss[i].tid = tt[i].tid /\ ss[i].layout = tt[i].layout
  PROVE  Announced(v, k, e, src, ss, n) = Announced(v, k, e, src, tt, n)
<1>. DEFINE I == Announcing(k, e, src, ss, n)
<1>1. I = Announcing(k, e, src, tt, n) /\ I \in SUBSET (1..n)
  BY DEF Announcing
<1>2. CASE I = {}
  BY <1>1, <1>2 DEF Announced
<1>3. CASE I # {}
  <2>1. Max(I) \in 1..n
    BY <1>1, <1>3, LastPosition
  <2>2. Says(ss[Max(I)]) = Says(tt[Max(I)])
    BY <2>1 DEF Says
  <2>. HIDE DEF I
  <2>. QED BY <1>1, <1>3, <2>2 DEF Announced, I
<1>. QED BY <1>2, <1>3

LEMMA AnnouncedNone ==
  ASSUME NEW v, NEW k, NEW e, NEW src, NEW ss, NEW n, Announcing(k, e, src, ss, n) = {}
  PROVE  Announced(v, k, e, src, ss, n) = v
BY DEF Announced

\* What one set tells.
First(v, k, e, src, s) ==
  IF s.kind \in {"template", "withdraw"} /\ k = <<e, src, s.tid>> THEN Says(s) ELSE v

LEMMA AnnouncedTail ==
  ASSUME NEW v, NEW k, NEW e, NEW src, NEW ss \in Seq(EncSets), ss # <<>>, NEW n \in 0..(Len(ss) - 1)
  PROVE  Announced(v, k, e, src, ss, n + 1) = Announced(First(v, k, e, src, Head(ss)), k, e, src, Tail(ss), n)
<1>. DEFINE I == Announcing(k, e, src, ss, n + 1)
            J == Announcing(k, e, src, Tail(ss), n)
            S(s) == s.kind \in {"template", "withdraw"} /\ k = <<e, src, s.tid>>
<1>1. Len(ss) \in Nat /\ n \in Nat /\ \A i \in 1..n : Tail(ss)[i] = ss[i + 1]
  OBVIOUS
<1>2. Head(ss) = ss[1]
  OBVIOUS
<1>3. I = {i \in 1..(n + 1) : S(ss[i])} /\ J = {i \in 1..n : S(Tail(ss)[i])}
  BY DEF Announcing
<1>4. I \in SUBSET (1..(n + 1)) /\ J \in SUBSET (1..n) /\ I \in SUBSET Nat
  BY <1>1, <1>3
<1>5. 1 \in I <=> S(ss[1])
  BY <1>1, <1>3
<1>6. \A i \in 1..n : i \in J <=> i + 1 \in I
  <2>. HIDE DEF S, I, J
  <2>1. \A i \in 1..n : i + 1 \in 1..(n + 1)
    BY <1>1
  <2>. QED BY <1>1, <1>3, <2>1
<1>7. First(v, k, e, src, Head(ss)) = IF S(ss[1]) THEN Says(ss[1]) ELSE v
  BY <1>2 DEF First
<1>. HIDE DEF S
<1>8. CASE J = {}
  <2>1. \A i \in I : i = 1
    <3>. SUFFICES ASSUME NEW i \in I, i # 1 PROVE FALSE
      OBVIOUS
    <3>. HIDE DEF I, J
    <3>1. i \in 1..(n + 1)
      BY <1>4
    <3>2. i - 1 \in 1..n /\ (i - 1) + 1 = i
      BY <1>1, <3>1
    <3>. QED BY <1>6, <1>8, <3>2
  <2>2. Announced(v, k, e, src, ss, n + 1) = IF S(ss[1]) THEN Says(ss[1]) ELSE v
    <3>1. CASE S(ss[1])
      <4>1. Max(I) = 1
        <5>. HIDE DEF I
        <5>1. \A i \in I : i <= 1
          BY <2>1
        <5>. QED BY <1>4, <1>5, <3>1, <5>1, LastPositionIs
      <4>2. I # {}
        BY <1>5, <3>1
      <4>. QED BY <3>1, <4>1, <4>2 DEF Announced
    <3>2. CASE ~S(ss[1])
      <4>1. I = {}
        <5>. HIDE DEF I
        <5>. QED BY <1>5, <2>1, <3>2
      <4>. QED BY <3>2, <4>1 DEF Announced
    <3>. QED BY <3>1, <3>2
  <2>3. Announced(First(v, k, e, src, Head(ss)), k, e, src, Tail(ss), n) = First(v, k, e, src, Head(ss))
    BY <1>8, AnnouncedNone
  <2>. QED BY <1>7, <2>2, <2>3
<1>9. CASE J # {}
  <2>1. PICK m : m = Max(J)
    OBVIOUS
  <2>2. m \in J /\ \A i \in J : i <= m
    BY <1>1, <1>4, <1>9, <2>1, LastPosition
  <2>. HIDE DEF I, J
  <2>3. m \in 1..n /\ m + 1 \in I
    BY <1>4, <1>6, <2>2
  <2>4. \A i \in I : i <= m + 1
    <3>. SUFFICES ASSUME NEW i \in I, i # 1 PROVE i <= m + 1
      BY <2>3
    <3>1. i \in 1..(n + 1)
      BY <1>4
    <3>2. i - 1 \in 1..n /\ (i - 1) + 1 = i
      BY <1>1, <3>1
    <3>3. i - 1 \in J
      BY <1>6, <3>2
    <3>4. i - 1 <= m
      BY <2>2, <3>3
    <3>. QED BY <2>3, <3>1, <3>4
  <2>5. Max(I) = m + 1
    BY <1>4, <2>3, <2>4, LastPositionIs
  <2>6. Announced(v, k, e, src, ss, n + 1) = Says(ss[m + 1])
    BY <2>3, <2>5 DEF Announced, I
  <2>7. Announced(First(v, k, e, src, Head(ss)), k, e, src, Tail(ss), n) = Says(Tail(ss)[m])
    BY <1>9, <2>1 DEF Announced, J
  <2>. QED BY <1>1, <2>3, <2>6, <2>7
<1>. QED BY <1>8, <1>9

\* What k is told to be after g, and that the data sets of g follow it.
Tells(v, k, g) == Announced(v, k, k[1], g.src, g.sets, Len(g.sets))
Right(v, k, g) ==
  \A i \in 1..Len(g.sets) : g.sets[i].kind = "data" /\ k = <<k[1], g.src, g.sets[i].tid>> =>
                              g.sets[i].enc = Announced(v, k, k[1], g.src, g.sets, i - 1)

LEMMA TellsType ==
  ASSUME NEW v \in Said, NEW k, NEW g, g.sets \in Seq(EncSets) PROVE Tells(v, k, g) \in Said
<1>1. Len(g.sets) \in Nat /\ \A i \in 1..Len(g.sets) : g.sets[i] \in EncSets
  OBVIOUS
<1>2. \A i \in 1..Len(g.sets) : g.sets[i].layout \in Layouts
  BY <1>1 DEF EncSets
<1>. QED BY <1>1, <1>2, AnnouncedType DEF Tells

\* The first set of g done, the rest is told of what it told.
LEMMA RightTail ==
  ASSUME NEW v, NEW k, NEW g, NEW h, g.sets \in Seq(EncSets), g.sets # <<>>, h.src = g.src, h.sets = Tail(g.sets),
         Right(v, k, g)
  PROVE  LET u == First(v, k, k[1], g.src, Head(g.sets)) IN Right(u, k, h) /\ Tells(u, k, h) = Tells(v, k, g)
<1>1. PICK u : u = First(v, k, k[1], g.src, Head(g.sets))
  OBVIOUS
<1>2. PICK ss : ss = g.sets
  OBVIOUS
<1>3. ss \in Seq(EncSets) /\ ss # <<>> /\ h.sets = Tail(ss)
  BY <1>2
<1>4. Len(ss) \in Nat \ {0} /\ Len(Tail(ss)) = Len(ss) - 1 /\ \A i \in 1..(Len(ss) - 1) : Tail(ss)[i] = ss[i + 1]
  BY <1>3
<1>5. \A n \in 0..(Len(ss) - 1) :
        Announced(v, k, k[1], g.src, ss, n + 1) = Announced(u, k, k[1], g.src, Tail(ss), n)
  BY <1>1, <1>2, <1>3, AnnouncedTail
<1>6. Tells(u, k, h) = Tells(v, k, g)
  <2>1. Len(ss) - 1 \in 0..(Len(ss) - 1) /\ (Len(ss) - 1) + 1 = Len(ss)
    BY <1>4
  <2>2. Announced(v, k, k[1], g.src, ss, (Len(ss) - 1) + 1) = Announced(u, k, k[1], g.src, Tail(ss), Len(ss) - 1)
    BY <1>5, <2>1
  <2>. QED BY <1>2, <1>3, <1>4, <2>1, <2>2 DEF Tells
<1>7. Right(u, k, h)
  <2>. SUFFICES ASSUME NEW i \in 1..(Len(ss) - 1), Tail(ss)[i].kind = "data", k = <<k[1], g.src, Tail(ss)[i].tid>>
                PROVE  Tail(ss)[i].enc = Announced(u, k, k[1], g.src, Tail(ss), i - 1)
    BY <1>3, <1>4 DEF Right
  <2>1. Tail(ss)[i] = ss[i + 1] /\ i + 1 \in 1..Len(ss) /\ i - 1 \in 0..(Len(ss) - 1) /\ (i + 1) - 1 = i /\ (i - 1) + 1 = i
    BY <1>4
  <2>2. ss[i + 1].enc = Announced(v, k, k[1], g.src, ss, (i + 1) - 1)
    BY <1>2, <2>1 DEF Right
  <2>3. Announced(v, k, k[1], g.src, ss, (i - 1) + 1) = Announced(u, k, k[1], g.src, Tail(ss), i - 1)
    BY <1>5, <2>1
  <2>. QED BY <2>1, <2>2, <2>3
<1>. QED BY <1>1, <1>6, <1>7

\* The first set of g is encoded by what is told before it.
LEMMA RightHead ==
  ASSUME NEW v, NEW k, NEW g, g.sets \in Seq(EncSets), g.sets # <<>>, Right(v, k, g),
         Head(g.sets).kind = "data", k = <<k[1], g.src, Head(g.sets).tid>>
  PROVE  Head(g.sets).enc = v
<1>1. Head(g.sets) = g.sets[1] /\ 1 \in 1..Len(g.sets)
  OBVIOUS
<1>2. Head(g.sets).enc = Announced(v, k, k[1], g.src, g.sets, 1 - 1)
  BY <1>1 DEF Right
<1>3. Announcing(k, k[1], g.src, g.sets, 1 - 1) = {}
  BY DEF Announcing
<1>. QED BY <1>2, <1>3, AnnouncedNone

\* Nothing is told by a datagram without sets, or one that is not missed.
LEMMA NothingTold ==
  ASSUME NEW v, NEW k, NEW g, g.sets = <<>> PROVE Tells(v, k, g) = v /\ Right(v, k, g)
<1>1. Len(g.sets) = 0
  OBVIOUS
<1>2. Announcing(k, k[1], g.src, g.sets, 0) = {}
  BY DEF Announcing
<1>. QED BY <1>1, <1>2, AnnouncedNone DEF Tells, Right

LEMMA NotMissed ==
  ASSUME NEW v, NEW k \in Keys, NEW e, NEW g, k \notin Missed(e, g)
  PROVE  k \notin lost /\ (k[1] = e => Tells(v, k, g) = v)
BY AnnouncedNone DEF Missed, Tells

LEMMA MissedOthers ==
  ASSUME NEW k \in Keys, NEW e, NEW g, k[1] # e, k \in Missed(e, g) PROVE k \in lost
<1>1. ASSUME NEW x, NEW y PROVE k # <<e, x, y>>
  OBVIOUS
<1>2. Announcing(k, e, g.src, g.sets, Len(g.sets)) = {}
  BY <1>1 DEF Announcing
<1>. QED BY <1>2 DEF Missed

\* What k was before each datagram in the socket q, and is after them all: t.
Linked(k, V, q, t) ==
  /\ V \in [1..(Len(q) + 1) -> Said] /\ V[Len(q) + 1] = t
  /\ \A n \in 1..Len(q) : Right(V[n], k, q[n]) /\ V[n + 1] = Tells(V[n], k, q[n])

LEMMA LinkedAppend ==
  ASSUME NEW k, NEW V, NEW q \in Seq(Grams), NEW t \in Said, NEW g \in Grams, Linked(k, V, q, t), Right(t, k, g)
  PROVE  \E U : Linked(k, U, Append(q, g), Tells(t, k, g)) /\ U[1] = V[1]
<1>. DEFINE L == Len(q)
            U == [n \in 1..(L + 2) |-> IF n = L + 2 THEN Tells(t, k, g) ELSE V[n]]
<1>1. L \in Nat /\ Len(Append(q, g)) = L + 1 /\ Append(q, g)[L + 1] = g /\ \A n \in 1..L : Append(q, g)[n] = q[n]
  OBVIOUS
<1>2. Tells(t, k, g) \in Said
  BY TellsType DEF Grams
<1>3. V \in [1..(L + 1) -> Said] /\ V[L + 1] = t
  BY DEF Linked
<1>4. \A n \in 1..L : Right(V[n], k, q[n]) /\ V[n + 1] = Tells(V[n], k, q[n])
  BY DEF Linked
<1>. HIDE DEF L
<1>5. U \in [1..((L + 1) + 1) -> Said]
  <2>1. (L + 1) + 1 = L + 2
    BY <1>1
  <2>2. ASSUME NEW n \in 1..(L + 2) PROVE (IF n = L + 2 THEN Tells(t, k, g) ELSE V[n]) \in Said
    BY <1>1, <1>2, <1>3
  <2>. QED BY <2>1, <2>2
<1>6. U[(L + 1) + 1] = Tells(t, k, g) /\ \A n \in 1..(L + 1) : U[n] = V[n]
  BY <1>1
<1>. HIDE DEF U
<1>7. ASSUME NEW n \in 1..(L + 1)
      PROVE  Right(U[n], k, Append(q, g)[n]) /\ U[n + 1] = Tells(U[n], k, Append(q, g)[n])
  <2>1. CASE n = L + 1
    BY <1>1, <1>3, <1>6, <2>1
  <2>2. CASE n # L + 1
    <3>1. n \in 1..L /\ n + 1 \in 1..(L + 1)
      BY <1>1, <2>2
    <3>. QED BY <1>1, <1>4, <1>6, <3>1
  <2>. QED BY <2>1, <2>2
<1>8. Linked(k, U, Append(q, g), Tells(t, k, g))
  BY <1>1, <1>5, <1>6, <1>7 DEF Linked
<1>9. U[1] = V[1]
  BY <1>1, <1>6
<1>. QED BY <1>8, <1>9

LEMMA LinkedTail ==
  ASSUME NEW k, NEW V, NEW q \in Seq(Grams), q # <<>>, NEW t, Linked(k, V, q, t)
  PROVE  Right(V[1], k, Head(q)) /\ \E U : Linked(k, U, Tail(q), t) /\ U[1] = Tells(V[1], k, Head(q))
<1>. DEFINE L == Len(q)
            U == [n \in 1..L |-> V[n + 1]]
<1>1. L \in Nat \ {0} /\ Len(Tail(q)) = L - 1 /\ Head(q) = q[1] /\ \A n \in 1..(L - 1) : Tail(q)[n] = q[n + 1]
  OBVIOUS
<1>2. V \in [1..(L + 1) -> Said] /\ V[L + 1] = t
  BY DEF Linked
<1>3. \A n \in 1..L : Right(V[n], k, q[n]) /\ V[n + 1] = Tells(V[n], k, q[n])
  BY DEF Linked
<1>. HIDE DEF L
<1>4. (L - 1) + 1 = L /\ 1 \in 1..L
  BY <1>1
<1>5. U \in [1..((L - 1) + 1) -> Said]
  <2>1. ASSUME NEW n \in 1..L PROVE V[n + 1] \in Said
    BY <1>1, <1>2
  <2>. QED BY <1>4, <2>1
<1>6. \A n \in 1..L : U[n] = V[n + 1]
  OBVIOUS
<1>. HIDE DEF U
<1>7. U[(L - 1) + 1] = t
  BY <1>1, <1>2, <1>4, <1>6
<1>8. ASSUME NEW n \in 1..(L - 1) PROVE Right(U[n], k, Tail(q)[n]) /\ U[n + 1] = Tells(U[n], k, Tail(q)[n])
  <2>1. n \in 1..L /\ n + 1 \in 1..L
    BY <1>1
  <2>. QED BY <1>1, <1>3, <1>6, <2>1
<1>9. Linked(k, U, Tail(q), t)
  BY <1>1, <1>5, <1>7, <1>8 DEF Linked
<1>. QED BY <1>1, <1>3, <1>4, <1>6, <1>9

\* The worker of k's exporter has a datagram of it in its hands.
InHand(k) == job[Hash[k[1]]] # Idle /\ job[Hash[k[1]]].exp = k[1]

\* v is what k was told to be by all that is decoded, lost or refused: the cache has
\* it, or nothing, unless a word about k was lost.
KeyIs(k, v, V) ==
  /\ v \in Said /\ Linked(k, V, sock[k[1]], told[k])
  /\ InHand(k) => Right(v, k, job[Hash[k[1]]]) /\ V[1] = Tells(v, k, job[Hash[k[1]]])
  /\ ~InHand(k) => V[1] = v
  /\ k \notin lost => cache[k].layout \in {"none", v}
KeyInv(k) == \E v : \E V : KeyIs(k, v, V)
ReadInv == NeverMisread /\ \A k \in Keys : KeyInv(k)

LEMMA KeyStays ==
  ASSUME NEW k \in Keys, KeyInv(k), sock'[k[1]] = sock[k[1]], told'[k] = told[k], InHand(k)' <=> InHand(k),
         InHand(k) => job'[Hash[k[1]]] = job[Hash[k[1]]], k \notin lost' => k \notin lost,
         cache'[k].layout \in {"none", cache[k].layout}
  PROVE  KeyInv(k)'
<1>1. PICK v, V : KeyIs(k, v, V)
  BY DEF KeyInv
<1>2. KeyIs(k, v, V)'
  BY <1>1 DEF KeyIs
<1>. QED BY <1>2 DEF KeyInv

LEMMA SentRight ==
  ASSUME NetTypes, NEW e \in Exporters, NEW g \in Datagrams[e], NEW k \in Keys, k[1] = e
  PROVE  /\ Right(told[k], k, Gram(e, g))
         /\ Tells(told[k], k, Gram(e, g)) = Announced(told[k], k, e, g.src, g.sets, Len(g.sets))
<1>1. PICK h : h = Gram(e, g)
  OBVIOUS
<1>2. PICK n : n = Len(g.sets)
  OBVIOUS
<1>3. /\ n \in Nat /\ h.src = g.src /\ Len(h.sets) = n
      /\ \A i \in 1..n : /\ h.sets[i].kind = g.sets[i].kind /\ h.sets[i].tid = g.sets[i].tid
                         /\ h.sets[i].layout = g.sets[i].layout /\ h.sets[i].enc = Enc(e, g, i)
  BY <1>1, <1>2, GramIs, DatagramIs
<1>4. ASSUME NEW m \in 0..n PROVE Announced(told[k], k, e, g.src, h.sets, m) = Announced(told[k], k, e, g.src, g.sets, m)
  <2>1. \A i \in 1..m : i \in 1..n
    BY <1>3
  <2>2. m \in Nat
    BY <1>3
  <2>. QED BY <1>3, <2>1, <2>2, AnnouncedSame
<1>5. Tells(told[k], k, h) = Announced(told[k], k, e, g.src, g.sets, n)
  BY <1>3, <1>4 DEF Tells
<1>6. Right(told[k], k, h)
  <2>. SUFFICES ASSUME NEW i \in 1..n, h.sets[i].kind = "data", k = <<k[1], h.src, h.sets[i].tid>>
                PROVE  h.sets[i].enc = Announced(told[k], k, e, h.src, h.sets, i - 1)
    BY <1>3 DEF Right
  <2>1. g.sets[i].kind = "data" /\ k = <<e, g.src, g.sets[i].tid>>
    BY <1>3
  <2>2. Enc(e, g, i) = Announced(told[k], k, e, g.src, g.sets, i - 1)
    BY <2>1 DEF Enc
  <2>3. i - 1 \in 0..n
    BY <1>3
  <2>. QED BY <1>3, <1>4, <2>2, <2>3
<1>. QED BY <1>1, <1>2, <1>5, <1>6

LEMMA KeyParts ==
  ASSUME NEW k \in Keys PROVE k[1] \in Exporters /\ k = <<k[1], k[2], k[3]>> /\ Hash[k[1]] \in Workers
BY IngestAssumption DEF Keys

\* After u, the datagram in the hands makes t of k; without one they are the same.
Handed(k, u, j, t) ==
  /\ j = Idle => t = u
  /\ j # Idle => j.exp = k[1] /\ Right(u, k, j) /\ t = Tells(u, k, j)

LEMMA KeyMoves ==
  ASSUME Types, NEW k \in Keys, NEW v, NEW V, NEW u \in Said, NEW j, KeyIs(k, v, V), UNCHANGED <<told, sock>>,
         job' = [job EXCEPT ![Hash[k[1]]] = j], Handed(k, u, j, V[1]),
         k \notin lost' => cache'[k].layout \in {"none", u}
  PROVE  KeyInv(k)'
<1>1. job'[Hash[k[1]]] = j
  BY KeyParts DEF Types, JobTypes
<1>2. InHand(k)' <=> j # Idle
  BY <1>1 DEF InHand, Handed
<1>3. KeyIs(k, u, V)'
  BY <1>1, <1>2 DEF KeyIs, Handed
<1>. QED BY <1>3 DEF KeyInv

LEMMA KeyCut ==
  ASSUME Types, NEW k \in Keys, NEW v, NEW V, NEW u, NEW j, NEW g, KeyIs(k, v, V), UNCHANGED <<told, sock>>,
         job' = [job EXCEPT ![Hash[k[1]]] = j], j # Idle => j.exp = k[1] /\ j.sets = <<>>,
         lost' = Missed(k[1], g), V[1] = Tells(u, k, g), k \notin lost => cache'[k].layout \in {"none", u}
  PROVE  KeyInv(k)'
<1>1. V[1] \in Said
  <2>1. sock[k[1]] \in Seq(Grams)
    BY KeyParts DEF Types, NetTypes
  <2>2. Len(sock[k[1]]) \in Nat
    BY <2>1
  <2>3. V \in [1..(Len(sock[k[1]]) + 1) -> Said]
    BY DEF KeyIs, Linked
  <2>. QED BY <2>2, <2>3
<1>2. Handed(k, V[1], j, V[1])
  BY NothingTold DEF Handed
<1>3. k \notin lost' => cache'[k].layout \in {"none", V[1]}
  BY NotMissed
<1>. QED BY <1>1, <1>2, <1>3, KeyMoves

LEMMA SameWords ==
  ASSUME NEW g, NEW h, NEW v, NEW k, g.src = h.src, g.sets = h.sets, Right(v, k, g)
  PROVE  Right(v, k, h) /\ Tells(v, k, h) = Tells(v, k, g)
BY DEF Right, Tells

\* A step of a worker on a datagram of e is no step of another exporter's.
LEMMA OtherKeys ==
  ASSUME Types, NEW k \in Keys, NEW w \in Workers, NEW e, NEW j, job' = [job EXCEPT ![w] = j], k[1] # e,
         job[w] # Idle => job[w].exp = e, j # Idle => j.exp = e
  PROVE  (InHand(k)' <=> InHand(k)) /\ (InHand(k) => job'[Hash[k[1]]] = job[Hash[k[1]]])
<1>1. CASE Hash[k[1]] = w
  <2>1. job'[w] = j
    BY DEF Types, JobTypes
  <2>2. ~InHand(k) /\ ~InHand(k)'
    BY <1>1, <2>1 DEF InHand
  <2>. QED BY <2>2
<1>2. CASE Hash[k[1]] # w
  <2>1. job'[Hash[k[1]]] = job[Hash[k[1]]]
    BY <1>2, KeyParts DEF Types, JobTypes
  <2>. QED BY <2>1 DEF InHand
<1>. QED BY <1>1, <1>2

LEMMA SendKeys ==
  ASSUME Types, NEW k \in Keys, KeyInv(k), NEW e \in Exporters, NEW g \in Datagrams[e], Send(e, g)
  PROVE  KeyInv(k)'
<1>0. NetTypes
  BY DEF Types
<1>1. /\ told'[k] = Announced(told[k], k, e, g.src, g.sets, Len(g.sets))
      /\ sock' = [sock EXCEPT ![e] = Append(sock[e], Gram(e, g))] /\ UNCHANGED <<cache, job, lost>>
  BY SendIs
<1>2. CASE k[1] = e
  <2>1. PICK v, V : KeyIs(k, v, V)
    BY DEF KeyInv
  <2>2. sock[e] \in Seq(Grams) /\ told[k] \in Said /\ Gram(e, g) \in Grams
    BY <1>0, GramIs DEF NetTypes
  <2>3. Right(told[k], k, Gram(e, g)) /\ Tells(told[k], k, Gram(e, g)) = told'[k]
    BY <1>0, <1>1, <1>2, SentRight
  <2>4. Linked(k, V, sock[e], told[k])
    BY <1>2, <2>1 DEF KeyIs
  <2>5. PICK U : Linked(k, U, Append(sock[e], Gram(e, g)), told'[k]) /\ U[1] = V[1]
    BY <2>2, <2>3, <2>4, LinkedAppend
  <2>6. sock'[e] = Append(sock[e], Gram(e, g))
    BY <1>0, <1>1 DEF NetTypes
  <2>7. InHand(k)' <=> InHand(k)
    BY <1>1 DEF InHand
  <2>8. KeyIs(k, v, U)'
    BY <1>1, <1>2, <2>1, <2>5, <2>6, <2>7 DEF KeyIs
  <2>. QED BY <2>8 DEF KeyInv
<1>3. CASE k[1] # e
  <2>1. ASSUME NEW x, NEW y PROVE k # <<e, x, y>>
    BY <1>3
  <2>2. Announcing(k, e, g.src, g.sets, Len(g.sets)) = {}
    BY <2>1 DEF Announcing
  <2>3. told'[k] = told[k]
    BY <1>1, <2>2, AnnouncedNone
  <2>4. sock'[k[1]] = sock[k[1]]
    BY <1>0, <1>1, <1>3, KeyParts DEF NetTypes
  <2>5. InHand(k)' <=> InHand(k)
    BY <1>1 DEF InHand
  <2>. QED BY <1>1, <2>3, <2>4, <2>5, KeyStays
<1>. QED BY <1>2, <1>3

LEMMA LoseKeys ==
  ASSUME Types, NEW k \in Keys, KeyInv(k), NEW e \in Exporters, Lose(e)
  PROVE  KeyInv(k)'
<1>0. sock[e] \in Seq(Grams) /\ sock \in [Exporters -> Seq(Grams)]
  BY DEF Types, NetTypes
<1>1. /\ sock[e] # <<>> /\ (\A w \in Workers : job[w] # Idle => job[w].exp # e)
      /\ sock' = [sock EXCEPT ![e] = Tail(sock[e])] /\ lost' = Missed(e, Head(sock[e]))
      /\ UNCHANGED <<told, cache, job>>
  BY LoseIs
<1>2. InHand(k)' <=> InHand(k)
  BY <1>1 DEF InHand
<1>3. CASE k[1] = e
  <2>1. PICK v, V : KeyIs(k, v, V)
    BY DEF KeyInv
  <2>2. ~InHand(k) /\ V[1] = v
    BY <1>1, <1>3, <2>1, KeyParts DEF InHand, KeyIs
  <2>3. PICK U : Linked(k, U, Tail(sock[e]), told[k]) /\ U[1] = Tells(v, k, Head(sock[e]))
    BY <1>0, <1>1, <1>3, <2>1, <2>2, LinkedTail DEF KeyIs
  <2>4. Head(sock[e]) \in Grams
    BY <1>0, <1>1
  <2>5. U[1] \in Said
    BY <2>1, <2>3, <2>4, TellsType DEF KeyIs, Grams
  <2>6. k \notin lost' => cache[k].layout \in {"none", U[1]}
    BY <1>1, <1>3, <2>1, <2>3, NotMissed DEF KeyIs
  <2>7. sock'[e] = Tail(sock[e])
    BY <1>0, <1>1
  <2>8. KeyIs(k, U[1], U)'
    BY <1>1, <1>2, <1>3, <2>2, <2>3, <2>5, <2>6, <2>7 DEF KeyIs
  <2>. QED BY <2>8 DEF KeyInv
<1>4. CASE k[1] # e
  <2>1. sock'[k[1]] = sock[k[1]]
    BY <1>0, <1>1, <1>4, KeyParts
  <2>2. k \notin lost' => k \notin lost
    BY <1>1 DEF Missed
  <2>. QED BY <1>1, <1>2, <2>1, <2>2, KeyStays
<1>. QED BY <1>3, <1>4

LEMMA ReadKeys ==
  ASSUME Types, NEW k \in Keys, KeyInv(k), NEW w \in Workers, ReadFromUDP(w)
  PROVE  KeyInv(k)'
<1>1. PICK e \in Exporters, j \in JobRecs :
           /\ Hash[e] = w /\ sock[e] # <<>> /\ job[w] = Idle
           /\ sock' = [sock EXCEPT ![e] = Tail(sock[e])] /\ job' = [job EXCEPT ![w] = j]
           /\ j.exp = e /\ j.src = Head(sock[e]).src /\ j.sets = Head(sock[e]).sets
           /\ UNCHANGED <<told, cache, lost>>
  BY ReadIs
<1>0. sock[e] \in Seq(Grams) /\ sock \in [Exporters -> Seq(Grams)]
  BY DEF Types, NetTypes
<1>2. CASE k[1] = e
  <2>1. PICK v, V : KeyIs(k, v, V)
    BY DEF KeyInv
  <2>2. ~InHand(k) /\ V[1] = v
    BY <1>1, <1>2, <2>1 DEF InHand, KeyIs
  <2>3. Right(v, k, Head(sock[e]))
    BY <1>0, <1>1, <1>2, <2>1, <2>2, LinkedTail DEF KeyIs
  <2>4. PICK U : Linked(k, U, Tail(sock[e]), told[k]) /\ U[1] = Tells(v, k, Head(sock[e]))
    BY <1>0, <1>1, <1>2, <2>1, <2>2, LinkedTail DEF KeyIs
  <2>5. Right(v, k, j) /\ U[1] = Tells(v, k, j)
    <3>1. PICK h : h = Head(sock[e])
      OBVIOUS
    <3>2. h.src = j.src /\ h.sets = j.sets /\ Right(v, k, h) /\ U[1] = Tells(v, k, h)
      BY <1>1, <2>3, <2>4, <3>1
    <3>3. Right(v, k, j) /\ Tells(v, k, j) = Tells(v, k, h)
      BY <3>2, SameWords
    <3>. QED BY <3>2, <3>3
  <2>6. sock'[e] = Tail(sock[e]) /\ job'[w] = j
    BY <1>0, <1>1 DEF Types, JobTypes
  <2>7. InHand(k)'
    BY <1>1, <1>2, <2>6, JobIs DEF InHand
  <2>8. KeyIs(k, v, U)'
    BY <1>1, <1>2, <2>1, <2>4, <2>5, <2>6, <2>7 DEF KeyIs
  <2>. QED BY <2>8 DEF KeyInv
<1>3. CASE k[1] # e
  <2>1. sock'[k[1]] = sock[k[1]]
    BY <1>0, <1>1, <1>3, KeyParts
  <2>2. (InHand(k)' <=> InHand(k)) /\ (InHand(k) => job'[Hash[k[1]]] = job[Hash[k[1]]])
    BY <1>1, <1>3, OtherKeys
  <2>. QED BY <1>1, <2>1, <2>2, KeyStays
<1>. QED BY <1>2, <1>3

\* What a worker's step needs to know of its datagram and the keys of its exporter.
LEMMA WorkerKeys ==
  ASSUME Types, NEW w \in Workers, job[w] \in JobRecs, NEW k \in Keys, k[1] = job[w].exp, NEW v, NEW V, KeyIs(k, v, V)
  PROVE  Hash[k[1]] = w /\ Right(v, k, job[w]) /\ V[1] = Tells(v, k, job[w]) /\ v \in Said
<1>1. job[w] # Idle /\ Hash[job[w].exp] = w
  BY JobIs DEF Types, JobTypes
<1>. QED BY <1>1 DEF KeyIs, InHand

LEMMA LookupKeys ==
  ASSUME Types, NEW k \in Keys, KeyInv(k), NEW w \in Workers, Lookup(w)
  PROVE  KeyInv(k)'
<1>1. /\ job[w] \in JobRecs /\ UNCHANGED <<told, sock, cache>>
      /\ \/ \E j \in JobRecs : /\ job' = [job EXCEPT ![w] = j] /\ UNCHANGED lost
                               /\ j.exp = job[w].exp /\ j.src = job[w].src /\ j.sets = job[w].sets
         \/ job' = [job EXCEPT ![w] = Idle] /\ lost' = Missed(job[w].exp, job[w])
  BY LookupIs
<1>2. PICK i : i = job[w]
  OBVIOUS
<1>3. PICK v, V : KeyIs(k, v, V)
  BY DEF KeyInv
<1>4. CASE k[1] = job[w].exp
  <2>1. Hash[k[1]] = w /\ Right(v, k, i) /\ V[1] = Tells(v, k, i) /\ v \in Said
    BY <1>1, <1>2, <1>3, <1>4, WorkerKeys
  <2>2. k \notin lost => cache'[k].layout \in {"none", v}
    BY <1>1, <1>3 DEF KeyIs
  <2>3. ASSUME NEW j \in JobRecs, job' = [job EXCEPT ![w] = j], UNCHANGED lost, j.exp = i.exp, j.src = i.src, j.sets = i.sets
        PROVE  KeyInv(k)'
    <3>1. Right(v, k, j) /\ V[1] = Tells(v, k, j)
      BY <2>1, <2>3, SameWords
    <3>2. j # Idle /\ j.exp = k[1]
      BY <1>2, <1>4, <2>3, JobIs
    <3>3. job' = [job EXCEPT ![Hash[k[1]]] = j] /\ (k \notin lost' => cache'[k].layout \in {"none", v})
      BY <2>1, <2>2, <2>3
    <3>4. UNCHANGED <<told, sock>> /\ v \in Said
      BY <1>1, <2>1
    <3>5. Handed(k, v, j, V[1])
      BY <3>1, <3>2 DEF Handed
    <3>. QED BY <1>3, <3>3, <3>4, <3>5, KeyMoves
  <2>4. ASSUME job' = [job EXCEPT ![w] = Idle], lost' = Missed(job[w].exp, i) PROVE KeyInv(k)'
    <3>1. lost' = Missed(k[1], i)
      BY <1>4, <2>4
    <3>. QED BY <1>1, <1>3, <2>1, <2>2, <2>4, <3>1, KeyCut
  <2>. QED BY <1>1, <1>2, <2>3, <2>4
<1>5. CASE k[1] # job[w].exp
  <2>1. PICK j : job' = [job EXCEPT ![w] = j] /\ (j # Idle => j.exp = i.exp)
    BY <1>1, <1>2
  <2>2. k \notin lost' => k \notin lost
    BY <1>1 DEF Missed
  <2>3. (InHand(k)' <=> InHand(k)) /\ (InHand(k) => job'[Hash[k[1]]] = job[Hash[k[1]]])
    BY <1>2, <1>5, <2>1, OtherKeys
  <2>. QED BY <1>1, <2>2, <2>3, KeyStays
<1>. QED BY <1>4, <1>5

LEMMA HandleKeys ==
  ASSUME Types, NEW k \in Keys, KeyInv(k), NEW w \in Workers, HandleFlows(w)
  PROVE  KeyInv(k)'
<1>1. /\ job[w] \in JobRecs /\ job[w].sets = <<>> /\ job' = [job EXCEPT ![w] = Idle]
      /\ UNCHANGED <<told, sock, cache, lost>>
  BY HandleIs
<1>2. PICK i : i = job[w]
  OBVIOUS
<1>3. PICK v, V : KeyIs(k, v, V)
  BY DEF KeyInv
<1>4. CASE k[1] = job[w].exp
  <2>1. Hash[k[1]] = w /\ V[1] = Tells(v, k, i) /\ v \in Said
    BY <1>1, <1>2, <1>3, <1>4, WorkerKeys
  <2>2. V[1] = v
    BY <1>1, <1>2, <2>1, NothingTold
  <2>3. k \notin lost' => cache'[k].layout \in {"none", v}
    BY <1>1, <1>3 DEF KeyIs
  <2>4. Handed(k, v, Idle, V[1]) /\ job' = [job EXCEPT ![Hash[k[1]]] = Idle] /\ UNCHANGED <<told, sock>>
    BY <1>1, <2>1, <2>2 DEF Handed
  <2>. QED BY <1>3, <2>1, <2>3, <2>4, KeyMoves
<1>5. CASE k[1] # job[w].exp
  <2>1. (InHand(k)' <=> InHand(k)) /\ (InHand(k) => job'[Hash[k[1]]] = job[Hash[k[1]]])
    BY <1>1, <1>2, <1>5, OtherKeys
  <2>. QED BY <1>1, <2>1, KeyStays
<1>. QED BY <1>4, <1>5

\* What decoding one set does to the words about the keys: the cache follows the set,
\* the rest of the datagram is left, or is missed.
LEMMA DecodeWords ==
  ASSUME Types, CacheInv, NEW w \in Workers, job[w] \in JobRecs, job[w].pc = "decode", job[w].sets # <<>>,
         NEW s \in EncSets, NEW k0 \in Keys, cache[k0].layout \in Said, s = Head(job[w].sets),
         k0 = <<job[w].exp, job[w].src, s.tid>>, DecodeCase(w, s, k0)
  PROVE  \/ /\ \E j \in JobRecs : Cont(w, j, Tail(job[w].sets))
            /\ \A k \in Keys : k \notin lost' => k \notin lost \/ (k = k0 /\ s.kind \in {"template", "withdraw"})
         \/ \E j \in JobRecs : \E g : /\ Cont(w, j, <<>>) /\ lost' = Missed(job[w].exp, g)
                                      /\ g.src = job[w].src /\ g.sets = Tail(job[w].sets)
                                      /\ s.kind \in {"data", "fixed"}
         \/ /\ \E j \in JobRecs : Cont(w, j, <<>>)
            /\ lost' = Missed(job[w].exp, job[w]) /\ s.kind = "truncated"
<1>1. ASSUME NEW layout \in Said, Decoded(w, s, k0, layout)
      PROVE  \/ \E j \in JobRecs : Cont(w, j, Tail(job[w].sets)) /\ UNCHANGED lost
             \/ \E j \in JobRecs : \E g : /\ Cont(w, j, <<>>) /\ lost' = Missed(job[w].exp, g)
                                          /\ g.src = job[w].src /\ g.sets = Tail(job[w].sets)
  BY <1>1, DecodedIs
<1>2. s.layout \in Said
  BY DEF EncSets, Said
<1>3. CASE /\ s.kind \in {"template", "withdraw"} /\ lost' = lost \ {k0}
           /\ \E j \in JobRecs : Cont(w, j, Tail(job[w].sets))
  BY <1>3
<1>4. CASE s.kind = "data" /\ Decoded(w, s, k0, cache[k0].layout)
  BY <1>1, <1>4
<1>5. CASE s.kind = "fixed" /\ Decoded(w, s, k0, s.layout)
  BY <1>1, <1>2, <1>5
<1>6. CASE s.kind = "truncated" /\ lost' = Missed(job[w].exp, job[w]) /\ \E j \in JobRecs : Cont(w, j, <<>>)
  BY <1>6
<1>. QED BY <1>3, <1>4, <1>5, <1>6 DEF DecodeCase

LEMMA DecodeCache ==
  ASSUME CacheInv, NEW w \in Workers, NEW s \in EncSets, NEW k0 \in Keys, DecodeCase(w, s, k0), now' = now
  PROVE  /\ \A k \in Keys : ~(s.kind \in {"template", "withdraw"} /\ k = k0) =>
                              cache'[k].layout \in {"none", cache[k].layout}
         /\ s.kind \in {"template", "withdraw"} => cache'[k0].layout \in {"none", Says(s)}
<1>0. s.layout \in Layouts /\ NoTemplate.layout = "none"
  BY DEF EncSets, NoTemplate
<1>1. CASE s.kind = "template" /\ putTemplate(k0, s.layout)
  <2>1. (\A x \in Keys \ {k0} : cache'[x] \in {cache[x], NoTemplate}) /\ cache'[k0].layout \in {s.layout, "none"}
    BY <1>0, <1>1, PutFrame
  <2>. QED BY <1>0, <1>1, <2>1 DEF Says
<1>2. CASE s.kind = "withdraw" /\ deleteTemplate(k0)
  <2>1. (\A x \in Keys \ {k0} : cache'[x] = cache[x]) /\ cache'[k0].layout = "none"
    BY <1>2, DeleteInv
  <2>. QED BY <1>2, <2>1
<1>3. CASE s.kind = "data" /\ getTemplate(k0)
  <2>1. \A x \in Keys : cache'[x].layout = cache[x].layout
    BY <1>3, GetInv
  <2>. QED BY <1>3, <2>1
<1>4. CASE s.kind \in {"fixed", "truncated"} /\ UNCHANGED cacheVars
  BY <1>4 DEF cacheVars
<1>. QED BY <1>1, <1>2, <1>3, <1>4 DEF DecodeCase

LEMMA DecodeKeys ==
  ASSUME Types, CacheInv, NEW k \in Keys, KeyInv(k), NEW w \in Workers, Decode(w)
  PROVE  KeyInv(k)'
<1>0. CacheTypes
  BY DEF CacheInv
<1>1. PICK s : s = Head(job[w].sets)
  OBVIOUS
<1>2. PICK k0 : k0 = <<job[w].exp, job[w].src, s.tid>>
  OBVIOUS
<1>3. /\ job[w] \in JobRecs /\ job[w].pc = "decode" /\ job[w].sets # <<>> /\ s \in EncSets /\ k0 \in Keys
      /\ UNCHANGED <<told, sock, now>> /\ cache[k0].layout \in Said /\ DecodeCase(w, s, k0)
  BY <1>0, <1>1, <1>2, DecodeIs
<1>4. PICK i : i = job[w]
  OBVIOUS
<1>5. i.sets \in Seq(EncSets) /\ i.sets # <<>> /\ s = Head(i.sets) /\ k0 = <<i.exp, i.src, s.tid>>
  BY <1>1, <1>2, <1>3, <1>4 DEF JobRecs
<1>6. PICK v, V : KeyIs(k, v, V)
  BY DEF KeyInv
<1>7. \/ /\ \E j \in JobRecs : Cont(w, j, Tail(i.sets))
         /\ \A x \in Keys : x \notin lost' => x \notin lost \/ (x = k0 /\ s.kind \in {"template", "withdraw"})
      \/ \E j \in JobRecs : \E g : /\ Cont(w, j, <<>>) /\ lost' = Missed(i.exp, g)
                                   /\ g.src = i.src /\ g.sets = Tail(i.sets) /\ s.kind \in {"data", "fixed"}
      \/ /\ \E j \in JobRecs : Cont(w, j, <<>>)
         /\ lost' = Missed(i.exp, i) /\ s.kind = "truncated"
  BY <1>1, <1>2, <1>3, <1>4, DecodeWords
<1>8. /\ ~(s.kind \in {"template", "withdraw"} /\ k = k0) => cache'[k].layout \in {"none", cache[k].layout}
      /\ s.kind \in {"template", "withdraw"} => cache'[k0].layout \in {"none", Says(s)}
  BY <1>3, DecodeCache
<1>9. CASE k[1] = i.exp
  <2>1. Hash[k[1]] = w /\ Right(v, k, i) /\ V[1] = Tells(v, k, i) /\ v \in Said
    BY <1>3, <1>4, <1>6, <1>9, WorkerKeys
  <2>2. PICK u : u = First(v, k, k[1], i.src, s)
    OBVIOUS
  <2>3. u \in Said
    BY <1>3, <2>1, <2>2 DEF First, Says, EncSets, Said
  <2>4. ASSUME NEW h, h.src = i.src, h.sets = Tail(i.sets) PROVE Right(u, k, h) /\ V[1] = Tells(u, k, h)
    BY <1>5, <2>1, <2>2, <2>4, RightTail
  <2>5. (s.kind \in {"template", "withdraw"} /\ k = k0 => u = Says(s)) /\ (~(s.kind \in {"template", "withdraw"} /\ k = k0) => u = v)
    BY <1>5, <1>9, <2>2 DEF First
  <2>6. k \notin lost => cache[k].layout \in {"none", v}
    BY <1>6 DEF KeyIs
  <2>7. k \notin lost \/ (k = k0 /\ s.kind \in {"template", "withdraw"}) => cache'[k].layout \in {"none", u}
    BY <1>8, <2>5, <2>6
  <2>8. ASSUME NEW j \in JobRecs, Cont(w, j, Tail(i.sets)),
               \A x \in Keys : x \notin lost' => x \notin lost \/ (x = k0 /\ s.kind \in {"template", "withdraw"})
        PROVE  KeyInv(k)'
    <3>1. job' = [job EXCEPT ![Hash[k[1]]] = j] /\ j.exp = k[1] /\ j.src = i.src /\ j.sets = Tail(i.sets)
      BY <1>4, <1>9, <2>1, <2>8 DEF Cont
    <3>2. Right(u, k, j) /\ V[1] = Tells(u, k, j) /\ j # Idle
      BY <2>4, <3>1, JobIs
    <3>3. k \notin lost' => cache'[k].layout \in {"none", u}
      BY <2>7, <2>8
    <3>4. Handed(k, u, j, V[1]) /\ UNCHANGED <<told, sock>>
      BY <1>3, <3>1, <3>2 DEF Handed
    <3>. QED BY <1>6, <2>3, <3>1, <3>3, <3>4, KeyMoves
  <2>9. ASSUME NEW j \in JobRecs, NEW g, Cont(w, j, <<>>), lost' = Missed(i.exp, g), g.src = i.src, g.sets = Tail(i.sets)
        PROVE  KeyInv(k)'
    <3>1. job' = [job EXCEPT ![Hash[k[1]]] = j] /\ j.exp = k[1] /\ j.sets = <<>> /\ lost' = Missed(k[1], g)
      BY <1>4, <1>9, <2>1, <2>9 DEF Cont
    <3>2. V[1] = Tells(u, k, g)
      BY <2>4, <2>9
    <3>. QED BY <1>3, <1>6, <2>7, <3>1, <3>2, KeyCut
  <2>10. ASSUME NEW j \in JobRecs, Cont(w, j, <<>>), lost' = Missed(i.exp, i), s.kind = "truncated"
         PROVE  KeyInv(k)'
    <3>1. job' = [job EXCEPT ![Hash[k[1]]] = j] /\ j.exp = k[1] /\ j.sets = <<>> /\ lost' = Missed(k[1], i)
      BY <1>4, <1>9, <2>1, <2>10 DEF Cont
    <3>2. u = v
      BY <2>5, <2>10
    <3>. QED BY <1>3, <1>6, <2>1, <2>7, <3>1, <3>2, KeyCut
  <2>. QED BY <1>7, <2>8, <2>9, <2>10
<1>10. CASE k[1] # i.exp
  <2>1. PICK j \in JobRecs : \E ss : Cont(w, j, ss)
    BY <1>7
  <2>2. job' = [job EXCEPT ![w] = j] /\ j.exp = i.exp
    BY <1>4, <2>1 DEF Cont
  <2>3. (InHand(k)' <=> InHand(k)) /\ (InHand(k) => job'[Hash[k[1]]] = job[Hash[k[1]]])
    BY <1>4, <1>10, <2>2, OtherKeys
  <2>4. k # k0
    BY <1>5, <1>10
  <2>5. k \notin lost' => k \notin lost
    BY <1>7, <2>4 DEF Missed
  <2>. QED BY <1>3, <1>8, <2>3, <2>4, <2>5, KeyStays
<1>. QED BY <1>9, <1>10

\* A record that is read is encoded as it is read.
LEMMA DecodeReads ==
  ASSUME Types, CacheInv, ReadInv, NEW w \in Workers, Decode(w)
  PROVE  NeverMisread'
<1>0. CacheTypes
  BY DEF CacheInv
<1>1. PICK s : s = Head(job[w].sets)
  OBVIOUS
<1>2. PICK k : k = <<job[w].exp, job[w].src, s.tid>>
  OBVIOUS
<1>3. /\ job[w] \in JobRecs /\ job[w].pc = "decode" /\ job[w].sets # <<>> /\ s \in EncSets /\ k \in Keys
      /\ cache[k].layout \in Said /\ DecodeCase(w, s, k)
  BY <1>0, <1>1, <1>2, DecodeIs
<1>4. PICK i : i = job[w]
  OBVIOUS
<1>5. ASSUME NEW layout \in Said, Decoded(w, s, k, layout), k \notin lost /\ layout # "none" => s.enc = layout
      PROVE  NeverMisread'
  <2>1. read' = read \/ (k \notin lost /\ layout # "none" /\ read' = read \cup {[enc |-> s.enc, as |-> layout]})
    BY <1>3, <1>5, DecodedIs
  <2>. QED BY <1>5, <2>1 DEF ReadInv, NeverMisread
<1>6. CASE UNCHANGED read
  BY <1>6 DEF ReadInv, NeverMisread
<1>7. CASE s.kind = "data" /\ Decoded(w, s, k, cache[k].layout)
  <2>1. PICK v, V : KeyIs(k, v, V)
    BY <1>3 DEF ReadInv, KeyInv
  <2>2. k[1] = job[w].exp
    BY <1>2
  <2>3. Right(v, k, i)
    BY <1>3, <1>4, <2>1, <2>2, WorkerKeys
  <2>4. i.sets \in Seq(EncSets) /\ i.sets # <<>> /\ Head(i.sets) = s /\ k = <<k[1], i.src, s.tid>>
    BY <1>1, <1>2, <1>3, <1>4 DEF JobRecs
  <2>5. s.enc = v
    BY <1>7, <2>3, <2>4, RightHead
  <2>6. k \notin lost => cache[k].layout \in {"none", v}
    BY <2>1 DEF KeyIs
  <2>. QED BY <1>3, <1>5, <1>7, <2>5, <2>6
<1>8. CASE s.kind = "fixed" /\ Decoded(w, s, k, s.layout)
  <2>1. s.enc = s.layout /\ s.layout \in Said
    BY <1>3, <1>8 DEF EncSets, Said
  <2>. QED BY <1>5, <1>8, <2>1
<1>. QED BY <1>3, <1>6, <1>7, <1>8 DEF DecodeCase

LEMMA ReadInit ==
  ASSUME Init PROVE ReadInv
<1>1. ASSUME NEW k \in Keys PROVE KeyInv(k)
  <2>. DEFINE V == [n \in 1..1 |-> "plain"]
  <2>1. k[1] \in Exporters /\ Hash[k[1]] \in Workers
    BY KeyParts
  <2>2. sock[k[1]] = <<>> /\ told[k] = "plain" /\ job[Hash[k[1]]] = Idle /\ cache[k] = NoTemplate
    BY <2>1 DEF Init
  <2>3. "plain" \in Said /\ Len(<<>>) = 0
    BY DEF Said, Layouts
  <2>4. V \in [1..(0 + 1) -> Said] /\ V[0 + 1] = "plain" /\ V[1] = "plain"
    BY <2>3
  <2>. HIDE DEF V
  <2>5. Linked(k, V, <<>>, "plain")
    BY <2>3, <2>4 DEF Linked
  <2>6. KeyIs(k, "plain", V)
    BY <2>2, <2>3, <2>4, <2>5 DEF KeyIs, InHand, NoTemplate
  <2>. QED BY <2>6 DEF KeyInv
<1>. QED BY <1>1 DEF Init, ReadInv, NeverMisread

LEMMA ReadNext ==
  ASSUME Types, CacheInv, ReadInv, [Next]_vars PROVE ReadInv'
<1>1. ASSUME NEW w \in Workers, Decode(w) PROVE ReadInv'
  BY <1>1, DecodeKeys, DecodeReads DEF ReadInv
<1>2. ASSUME ~\E w \in Workers : Decode(w) PROVE NeverMisread'
  <2>1. UNCHANGED read
    BY <1>2 DEF Next, WorkerStep, Send, Lose, Tick, StoreRegistry, StoreLive, ReadFromUDP, Lookup, HandleFlows, vars
  <2>. QED BY <2>1 DEF ReadInv, NeverMisread
<1>3. ASSUME NEW k \in Keys, UNCHANGED <<told, sock, job, cache, lost>> PROVE KeyInv(k)'
  BY <1>3, KeyStays DEF ReadInv, InHand
<1>4. ASSUME NEW k \in Keys, ~\E w \in Workers : Decode(w) PROVE KeyInv(k)'
  <2>0. KeyInv(k)
    BY DEF ReadInv
  <2>1. ASSUME NEW e \in Exporters, NEW g \in Datagrams[e], Send(e, g) PROVE KeyInv(k)'
    BY <2>0, <2>1, SendKeys
  <2>2. ASSUME NEW e \in Exporters, Lose(e) PROVE KeyInv(k)'
    BY <2>0, <2>2, LoseKeys
  <2>3. ASSUME NEW w \in Workers, ReadFromUDP(w) PROVE KeyInv(k)'
    BY <2>0, <2>3, ReadKeys
  <2>4. ASSUME NEW w \in Workers, Lookup(w) PROVE KeyInv(k)'
    BY <2>0, <2>4, LookupKeys
  <2>5. ASSUME NEW w \in Workers, HandleFlows(w) PROVE KeyInv(k)'
    BY <2>0, <2>5, HandleKeys
  <2>6. CASE Tick \/ (\E r \in Registries : StoreRegistry(r)) \/ (\E lv \in Lives : StoreLive(lv)) \/ UNCHANGED vars
    <3>1. UNCHANGED <<told, sock, job, cache, lost>>
      BY <2>6 DEF Tick, StoreRegistry, StoreLive, netVars, cacheVars, vars
    <3>. QED BY <1>3, <3>1
  <2>. QED BY <1>4, <2>1, <2>2, <2>3, <2>4, <2>5, <2>6 DEF Next, WorkerStep
<1>. QED BY <1>1, <1>2, <1>4 DEF ReadInv

\* A record is read by the layout its exporter wrote it in, or not at all, whatever
\* datagrams are sent, lost or refused and however many workers share the cache, unless
\* the word about its layout was itself lost (netflow9.go and ipfix.go, Decode; receiver.go).
THEOREM RecordsAreNeverMisread == IntakeSpec => []NeverMisread
<1>1. IntakeInit => PathInv /\ ReadInv
  BY PathInit, ReadInit DEF IntakeInit
<1>2. PathInv /\ ReadInv /\ [IntakeNext]_intakeVars => ReadInv'
  BY ReadNext, IntakeSteps DEF PathInv
<1>3. ReadInv => NeverMisread
  BY DEF ReadInv
<1>. QED BY <1>1, <1>2, <1>3, PathAlways, PTL DEF IntakeSpec, intakeVars
=============================================================================
