---------------------------- MODULE ArchiveProofs ---------------------------
(***************************************************************************)
(* Proofs about Archive, for any rows, tenants, settings, faults and       *)
(* crashes.                                                                *)
(*                                                                         *)
(* The sums that ExportDay returns are the hard part: a sweep drops a day  *)
(* because a number equals another.  Behind(a) are the rows of the tenants *)
(* an actor is done with; TotalOK and CoveredOK bound its sum by the size  *)
(* of a set of rows, from which Compare concludes that two sets are equal. *)
(* Without late rows the partition is whole or empty (WholeOrGone), so a   *)
(* sum that matches the partition means that S3 has the day.               *)
(***************************************************************************)
EXTENDS Archive, FiniteSetTheorems, TLAPS

\* The conditions of the theorems below.  No row arrives after its day and nobody
\* archives by hand before it is over, or while it has rows of no tenant.
InOrder == LateRows = {} /\ Manual # "any"
\* Every row belongs to a tenant that stays.
AllOwned == Deletable = {} /\ \A r \in Rows : Isp[r] \in Registered
\* Any TTL outlasts any hot window by two days, as it does when all settings have the
\* same window.
Window(s) == IF s.after < 1 THEN DefaultAfter ELSE s.after
Margin == \A s, t \in Configs : EffectiveTTL(s) >= Window(t) + 2

Working == {"stat", "insert"}
Behind(a) == {r \in Rows : Isp[r] \notin act[a].todo \cup {act[a].isp}}

\* Where an actor is in the list of tenants.
PlaceOK(a) ==
  /\ act[a].pc \in Working => act[a].isp \in ISPs /\ act[a].isp \notin act[a].todo
  /\ act[a].pc \notin Working => act[a].isp = NoIsp
  /\ act[a].pc \in {"compare", "mark"} => act[a].todo = {} /\ ~act[a].failed

\* Each tenant was counted once, so the sum is at most what arrived.
TotalOK(a) ==
  /\ act[a].total <= Cardinality(arrived \cap Behind(a))
  /\ act[a].pc \in Working => act[a].cu <= Cardinality(arrived \cap RowsOf(act[a].isp))

\* What the sweep counted is in S3, or reached its TTL meanwhile.
CoveredOK ==
  /\ act["sweep"].total <= Cardinality((Archived \cup expired) \cap Behind("sweep"))
  /\ act["sweep"].pc \in Working
       => act["sweep"].cu <= Cardinality((hot \cup expired) \cap RowsOf(act["sweep"].isp))

Counted ==
  /\ TypeOK
  /\ Archived \subseteq arrived
  /\ \A a \in Actors : PlaceOK(a) /\ TotalOK(a)
  /\ CoveredOK

\* The partition is whole or gone, and gone for a reason.
WholeOrGone ==
  /\ age = 0 => hot = arrived /\ ~marked /\ expired = {} /\ \A a \in Actors : act[a].pc = "idle"
  /\ hot = arrived \/ (hot = {} /\ (arrived \subseteq expired \/ marked))

\* An actor that began with every tenant of the day has the rows of those it is
\* done with in S3.
CountIsWhole(a) ==
  act[a].pc \in Working => act[a].cu = Cardinality(arrived \cap RowsOf(act[a].isp))
TenantsWhole(a) ==
  act[a].pc \in {"check", "count", "stat", "insert", "compare", "mark"} /\ ~act[a].failed
    => arrived \cap Behind(a) \subseteq Archived \cup expired

MarkWhole ==
  /\ MarkedMeansWhole
  /\ act["sweep"].pc = "mark" => arrived \ expired \subseteq Archived
  /\ act["sweep"].pc = "drop" => marked
  /\ TenantsWhole("manual")
  /\ \A a \in Actors : CountIsWhole(a)

DayInv == Counted /\ WholeOrGone /\ MarkWhole

\* What a search has seen.
Reading == {"days", "hot", "cold", "done"}
SearchOK ==
  srch.pc \in Reading /\ ~srch.err =>
    /\ srch.need \subseteq srch.scope
    /\ srch.quiet => srch.need \subseteq arrived \ expired
    /\ srch.saw => marked
    /\ srch.pc \in {"days", "hot"} => srch.hot = {} /\ srch.s3 = {}
    /\ srch.pc = "days" => ~srch.cold /\ (~srch.saw /\ srch.quiet => srch.need \subseteq hot)
    /\ srch.cold => srch.saw /\ hot \cap srch.scope = {} /\ srch.hot = {}
    /\ srch.pc = "hot" /\ ~srch.cold /\ srch.quiet => srch.need \subseteq hot
    /\ srch.pc = "cold" => srch.cold
    /\ srch.pc = "done" => /\ ~srch.cold => srch.s3 = {} /\ (srch.quiet => srch.need \subseteq srch.hot)
                           /\ srch.cold /\ srch.quiet => srch.need \subseteq srch.s3

\* The TTL and the daily sweep.
Lifetimes ==
  /\ isps = Registered
  /\ \E s \in Configs : ttl = EffectiveTTL(s)
  /\ TenantsWhole("sweep") /\ ~act["sweep"].failed
  /\ swept => age # 0 /\ hot \subseteq Archived
  /\ (\A t \in Configs : age >= Window(t) + 2) => hot \subseteq Archived
  /\ TTLSafe

TTLInv == DayInv /\ Lifetimes

-----------------------------------------------------------------------------
(* Sizes of sets of rows, and the record of an actor.                      *)

N == Cardinality(Rows)
Pcs == {"idle", "check", "count", "stat", "insert", "compare", "mark", "drop"}
ActRec == [pc : Pcs, todo : SUBSET ISPs, isp : ISPs \cup {NoIsp}, cu : 0..N, total : 0..N, failed : BOOLEAN]

LEMMA RowSets ==
  ASSUME NEW A, A \subseteq Rows
  PROVE  IsFiniteSet(A) /\ Cardinality(A) \in 0..N /\ (A = {} <=> Cardinality(A) = 0)
<1>1. IsFiniteSet(Rows) /\ N \in Nat
  BY ArchiveAssumption, FS_CardinalityType DEF N
<1>2. IsFiniteSet(A) /\ Cardinality(A) <= N
  BY <1>1, FS_Subset DEF N
<1>3. Cardinality(A) \in Nat /\ (Cardinality(A) = 0 <=> A = {})
  BY <1>2, FS_CardinalityType, FS_EmptySet
<1>. QED BY <1>1, <1>2, <1>3

LEMMA RowsGrow ==
  ASSUME NEW B, B \subseteq Rows, NEW A, A \subseteq B PROVE Cardinality(A) <= Cardinality(B)
<1>1. IsFiniteSet(B)
  BY RowSets
<1>. QED BY <1>1, FS_Subset

LEMMA RowsEqual ==
  ASSUME NEW B, B \subseteq Rows, NEW A, A \subseteq B, Cardinality(A) >= Cardinality(B) PROVE A = B
<1>1. IsFiniteSet(B) /\ Cardinality(A) \in Nat /\ Cardinality(B) \in Nat
  BY RowSets
<1>. QED BY <1>1, FS_Subset

LEMMA RowsAdd ==
  ASSUME NEW A, NEW B, A \subseteq Rows, B \subseteq Rows, A \cap B = {}
  PROVE  Cardinality(A \cup B) = Cardinality(A) + Cardinality(B)
<1>1. IsFiniteSet(A) /\ IsFiniteSet(B) /\ Cardinality(A \cap B) = 0
  BY RowSets, FS_EmptySet
<1>2. Cardinality(A \cup B) = Cardinality(A) + Cardinality(B) - Cardinality(A \cap B)
  BY <1>1, FS_Union
<1>. QED BY <1>1, <1>2, RowSets

\* A row belongs to one tenant, and to the object of that tenant.
LEMMA Owners ==
  ASSUME TypeOK
  PROVE  /\ Archived \subseteq Rows
         /\ \A i \in ISPs : RowsOf(i) \subseteq Rows /\ Archived \cap RowsOf(i) = obj[i]
         /\ \A r \in Rows : Isp[r] \in ISPs /\ (r \in Archived <=> r \in obj[Isp[r]])
<1>1. \A i \in ISPs : obj[i] \subseteq RowsOf(i)
  BY DEF TypeOK
<1>2. \A r \in Rows : Isp[r] \in ISPs
  BY ArchiveAssumption
<1>3. \A r : r \in Archived <=> \E i \in ISPs : r \in obj[i]
  BY DEF Archived
<1>. QED BY <1>1, <1>2, <1>3 DEF RowsOf

LEMMA RestRec ==
  /\ Rest \in ActRec /\ Rest.pc = "idle" /\ Rest.todo = {} /\ Rest.isp = NoIsp /\ Rest.cu = 0
  /\ Rest.total = 0 /\ Rest.failed = FALSE
<1>1. 0 \in 0..N
  BY RowSets
<1>. QED BY <1>1 DEF Rest, ActRec, Pcs

LEMMA GotoRec ==
  ASSUME NEW r \in ActRec, NEW step \in Pcs, NEW q, q = [r EXCEPT !.pc = step]
  PROVE  /\ q \in ActRec /\ q.pc = step /\ q.todo = r.todo /\ q.isp = r.isp /\ q.cu = r.cu
         /\ q.total = r.total /\ q.failed = r.failed
BY DEF ActRec

LEMMA SkipRec ==
  ASSUME NEW r \in ActRec, NEW todo \in SUBSET ISPs, NEW q, q = [r EXCEPT !.todo = todo]
  PROVE  /\ q \in ActRec /\ q.pc = r.pc /\ q.todo = todo /\ q.isp = r.isp /\ q.cu = r.cu
         /\ q.total = r.total /\ q.failed = r.failed
BY DEF ActRec

LEMMA ExportedRec ==
  ASSUME NEW r \in ActRec, r.total + r.cu \in 0..N,
         NEW q, q = [r EXCEPT !.pc = "count", !.isp = NoIsp, !.cu = 0, !.total = @ + r.cu]
  PROVE  /\ q \in ActRec /\ q.pc = "count" /\ q.todo = r.todo /\ q.isp = NoIsp /\ q.cu = 0
         /\ q.total = r.total + r.cu /\ q.failed = r.failed
<1>1. 0 \in 0..N
  BY RowSets
<1>. QED BY <1>1 DEF ActRec, Pcs

-----------------------------------------------------------------------------
(* What the steps do to an actor.                                          *)

Began(a, q) ==
  /\ act[a] = Rest /\ q.pc \in {"check", "count"} /\ q.todo = isps /\ q.isp = NoIsp
  /\ q.total = 0 /\ ~q.failed
  /\ a = "sweep" => q.pc = "check" /\ Eligible
  /\ a = "manual" => Manual = "any" \/ (age > 0 /\ \A r \in hot : Isp[r] \in isps)

\* The transitions of pc that leave the rest of the record alone.
Advance(a, q) ==
  \/ act[a].pc = "check" /\ (q.pc = "count" \/ (q.pc = "drop" /\ marked))
  \/ act[a].pc = "stat" /\ q.pc = "insert"
  \/ act[a].pc = "count" /\ q.pc \in {"compare", "mark"} /\ act[a].todo = {} /\ ~act[a].failed
     /\ (a = "sweep" => q.pc = "compare")
  \/ act[a].pc = "compare" /\ q.pc = "mark" /\ Cardinality(hot) = act[a].total
  \/ act[a].pc = "mark" /\ q.pc = "drop" /\ marked'
Moved(a, q) ==
  /\ q.todo = act[a].todo /\ q.isp = act[a].isp /\ q.cu = act[a].cu
  /\ q.total = act[a].total /\ q.failed = act[a].failed
  /\ Advance(a, q)

Skipped(a, q) ==
  /\ act[a].pc = "count" /\ q.pc = "count" /\ q.isp = act[a].isp
  /\ q.total = act[a].total /\ q.failed = act[a].failed
  /\ \E i \in act[a].todo : q.todo = act[a].todo \ {i} /\ hot \cap RowsOf(i) = {}

Taken(a, q) ==
  /\ act[a].pc = "count" /\ q.pc = "stat" /\ q.isp \in act[a].todo
  /\ q.todo = act[a].todo \ {q.isp} /\ q.cu = Cardinality(hot \cap RowsOf(q.isp))
  /\ hot # {} /\ q.total = act[a].total /\ q.failed = act[a].failed

Summed(a, q) ==
  /\ act[a].pc \in Working /\ q.pc = "count" /\ q.todo = act[a].todo /\ q.isp = NoIsp
  /\ q.total = act[a].total + act[a].cu /\ q.failed = act[a].failed
  /\ \/ obj' = obj /\ Cardinality(obj[act[a].isp]) = act[a].cu
     \/ obj'[act[a].isp] = hot \cap RowsOf(act[a].isp)

GaveUp(a, q) ==
  /\ a = "manual" /\ q.pc = "count" /\ q.todo \subseteq act[a].todo /\ q.isp = NoIsp
  /\ act[a].pc \in {"count", "stat", "insert"} /\ q.total = act[a].total /\ q.failed

Kind(a, q) ==
  Began(a, q) \/ Moved(a, q) \/ Skipped(a, q) \/ Taken(a, q) \/ Summed(a, q) \/ GaveUp(a, q)

Turn(a) ==
  \E q \in ActRec : act' = [act EXCEPT ![a] = q] /\ (q = Rest \/ Kind(a, q))

\* And to the rows.
Kept == arrived' = arrived /\ hot' = hot /\ uploaded' = uploaded /\ obj' = obj
        /\ marked' = marked /\ expired' = expired
Put(i) == /\ i \in ISPs \ uploaded /\ uploaded' = uploaded \cup {i}
          /\ obj' = [obj EXCEPT ![i] = hot \cap RowsOf(i)]
          /\ arrived' = arrived /\ hot' = hot /\ marked' = marked /\ expired' = expired
MayMark(a) == /\ act[a].pc = "mark" /\ marked' \in {marked, TRUE}
              /\ arrived' = arrived /\ hot' = hot /\ uploaded' = uploaded /\ obj' = obj
              /\ expired' = expired
MayDrop == /\ act["sweep"].pc = "drop" /\ hot' \in {hot, {}}
           /\ arrived' = arrived /\ uploaded' = uploaded /\ obj' = obj /\ marked' = marked
           /\ expired' = expired /\ act' = [act EXCEPT !["sweep"] = Rest]
           /\ srch' = [srch EXCEPT !.quiet = FALSE]
Effect(a) == Kept \/ (\E i \in ISPs : Put(i)) \/ MayMark(a) \/ (a = "sweep" /\ MayDrop)

ActType == act \in [Actors -> ActRec]

LEMMA ActTyped == ASSUME TypeOK PROVE ActType
BY DEF TypeOK, ActType, ActRec, Pcs, N

\* The sum never exceeds the rows there are.
LEMMA SumFits ==
  ASSUME TypeOK, NEW a \in Actors, PlaceOK(a), TotalOK(a), act[a].pc \in Working
  PROVE  /\ act[a].total + act[a].cu \in 0..N
         /\ act[a].total + act[a].cu <= Cardinality(arrived \cap (Behind(a) \cup RowsOf(act[a].isp)))
<1>. DEFINE A == arrived \cap Behind(a)
            B == arrived \cap RowsOf(act[a].isp)
<1>1. act[a].total \in Nat /\ act[a].cu \in Nat
  BY ActTyped, RowSets DEF ActType, ActRec
<1>2. A \subseteq Rows /\ B \subseteq Rows /\ A \cap B = {}
  BY DEF TypeOK, Behind, RowsOf
<1>3. Cardinality(A \cup B) = Cardinality(A) + Cardinality(B)
  BY <1>2, RowsAdd
<1>4. A \cup B = arrived \cap (Behind(a) \cup RowsOf(act[a].isp)) /\ A \cup B \subseteq Rows
  BY <1>2
<1>5. Cardinality(A) \in Nat /\ Cardinality(B) \in Nat /\ Cardinality(A \cup B) \in 0..N
  BY <1>2, <1>4, RowSets
<1>6. act[a].total <= Cardinality(A) /\ act[a].cu <= Cardinality(B)
  BY DEF TotalOK
<1>7. N \in Nat
  BY ArchiveAssumption, FS_CardinalityType DEF N
<1>8. act[a].total + act[a].cu <= Cardinality(A \cup B)
  <2>. HIDE DEF A, B
  <2>. QED BY <1>1, <1>3, <1>5, <1>6
<1>9. act[a].total + act[a].cu \in 0..N
  <2>. HIDE DEF A, B
  <2>. QED BY <1>1, <1>5, <1>7, <1>8
<1>. QED BY <1>4, <1>8, <1>9

LEMMA CountTurns ==
  ASSUME TypeOK, NEW a \in Actors, Count(a) PROVE Turn(a) /\ Kept
<1>1. act[a] \in ActRec /\ act[a].todo \in SUBSET ISPs /\ act[a].total \in 0..N
  BY ActTyped DEF ActType, ActRec
<1>0. PICK i : i \in act[a].todo /\ \E cu, todo :
        /\ cu = Cardinality(hot \cap RowsOf(i)) /\ todo = act[a].todo \ {i}
        /\ \/ Become(a, IF cu = 0 THEN [act[a] EXCEPT !.todo = todo]
                        ELSE [act[a] EXCEPT !.pc = "stat", !.todo = todo, !.isp = i, !.cu = cu])
           \/ ExportFails(a, todo)
  BY DEF Count
<1>2. PICK cu, todo :
        /\ i \in act[a].todo
        /\ cu = Cardinality(hot \cap RowsOf(i)) /\ todo = act[a].todo \ {i}
        /\ \/ Become(a, IF cu = 0 THEN [act[a] EXCEPT !.todo = todo]
                        ELSE [act[a] EXCEPT !.pc = "stat", !.todo = todo, !.isp = i, !.cu = cu])
           \/ ExportFails(a, todo)
  BY <1>0
<1>3. act[a].pc = "count" /\ Kept
  BY DEF Count, store, s3Vars, Kept
<1>4. todo \in SUBSET ISPs /\ i \in ISPs /\ hot \cap RowsOf(i) \subseteq Rows
  BY <1>1, <1>2 DEF TypeOK
<1>5. cu \in 0..N /\ (cu = 0 <=> hot \cap RowsOf(i) = {})
  BY <1>2, <1>4, RowSets
<1>6. CASE cu = 0 /\ Become(a, [act[a] EXCEPT !.todo = todo])
  <2>. PICK q : q = [act[a] EXCEPT !.todo = todo]
    OBVIOUS
  <2>1. Skipped(a, q) /\ q \in ActRec
    BY <1>1, <1>2, <1>3, <1>4, <1>5, <1>6, SkipRec DEF Skipped
  <2>. QED BY <1>3, <1>6, <2>1 DEF Become, Turn, Kind
<1>7. CASE cu # 0 /\ Become(a, [act[a] EXCEPT !.pc = "stat", !.todo = todo, !.isp = i, !.cu = cu])
  <2>. PICK q : q = [act[a] EXCEPT !.pc = "stat", !.todo = todo, !.isp = i, !.cu = cu]
    OBVIOUS
  <2>0. /\ q \in ActRec /\ q.pc = "stat" /\ q.todo = todo /\ q.isp = i /\ q.cu = cu
        /\ q.total = act[a].total /\ q.failed = act[a].failed
    BY <1>1, <1>4, <1>5 DEF ActRec, Pcs
  <2>1. Taken(a, q) /\ q \in ActRec
    BY <1>2, <1>3, <1>5, <1>7, <2>0 DEF Taken
  <2>. QED BY <1>3, <1>7, <2>1 DEF Become, Turn, Kind
<1>8. CASE ExportFails(a, todo)
  <2>1. CASE a = "sweep"
    BY <1>3, <1>8, <2>1, RestRec DEF ExportFails, Become, Turn
  <2>2. CASE a = "manual"
    <3>. PICK q : q = [Rest EXCEPT !.pc = "count", !.todo = todo, !.total = act[a].total, !.failed = TRUE]
      OBVIOUS
    <3>0. /\ q \in ActRec /\ q.pc = "count" /\ q.todo = todo /\ q.isp = NoIsp
          /\ q.total = act[a].total /\ q.failed = TRUE
      BY <1>1, <1>4, RestRec DEF ActRec, Pcs
    <3>1. GaveUp(a, q) /\ q \in ActRec
      BY <1>2, <1>3, <2>2, <3>0 DEF GaveUp
    <3>. QED BY <1>3, <1>8, <2>2, <3>1 DEF ExportFails, Become, Turn, Kind
  <2>. QED BY <2>1, <2>2 DEF Actors
<1>. QED BY <1>2, <1>6, <1>7, <1>8

\* ExportDay gives up on the tenant.
LEMMA FailTurns ==
  ASSUME TypeOK, NEW a \in Actors, act[a].pc \in Working, ExportFails(a, act[a].todo)
  PROVE  Turn(a)
<1>1. act[a].todo \in SUBSET ISPs /\ act[a].total \in 0..N
  BY ActTyped DEF ActType, ActRec
<1>2. CASE a = "sweep"
  BY <1>2, RestRec DEF ExportFails, Become, Turn
<1>3. CASE a = "manual"
  <2>. PICK q : q = [Rest EXCEPT !.pc = "count", !.todo = act[a].todo, !.total = act[a].total, !.failed = TRUE]
    OBVIOUS
  <2>0. /\ q \in ActRec /\ q.pc = "count" /\ q.todo = act[a].todo /\ q.isp = NoIsp
        /\ q.total = act[a].total /\ q.failed = TRUE
    BY <1>1, RestRec DEF ActRec, Pcs
  <2>1. GaveUp(a, q) /\ q \in ActRec
    BY <1>3, <2>0 DEF GaveUp, Working
  <2>. QED BY <1>3, <2>1 DEF ExportFails, Become, Turn, Kind
<1>. QED BY <1>2, <1>3 DEF Actors

LEMMA SumTurns ==
  ASSUME TypeOK, NEW a \in Actors, PlaceOK(a), TotalOK(a), act[a].pc \in Working, Exported(a),
         (obj' = obj /\ Cardinality(obj[act[a].isp]) = act[a].cu)
           \/ obj'[act[a].isp] = hot \cap RowsOf(act[a].isp)
  PROVE  Turn(a)
<1>1. act[a] \in ActRec /\ act[a].total + act[a].cu \in 0..N
  BY ActTyped, SumFits DEF ActType
<1>2. PICK q : q = [act[a] EXCEPT !.pc = "count", !.isp = NoIsp, !.cu = 0, !.total = @ + act[a].cu]
  OBVIOUS
<1>3. q \in ActRec /\ Summed(a, q)
  BY <1>1, <1>2, ExportedRec DEF Summed
<1>. QED BY <1>2, <1>3 DEF Exported, Become, Turn, Kind

LEMMA GoTurns ==
  ASSUME TypeOK, NEW a \in Actors, NEW step \in Pcs, Goto(a, step),
         \A q : q.pc = step => Advance(a, q)
  PROVE  Turn(a)
<1>1. act[a] \in ActRec
  BY ActTyped DEF ActType
<1>2. PICK q : q = [act[a] EXCEPT !.pc = step]
  OBVIOUS
<1>3. q \in ActRec /\ Moved(a, q)
  BY <1>1, <1>2, GotoRec DEF Moved
<1>. QED BY <1>2, <1>3 DEF Goto, Become, Turn, Kind

LEMMA ActorTurns ==
  ASSUME TypeOK, NEW a \in Actors, PlaceOK(a), TotalOK(a), ActorStep(a)
  PROVE  Turn(a) /\ Effect(a)
<1>1. CASE Count(a)
  BY <1>1, CountTurns DEF Effect
<1>2. CASE Stat(a)
  <2>1. Kept /\ act[a].pc = "stat" /\ act[a].pc \in Working
    BY <1>2 DEF Stat, store, s3Vars, Kept, Working
  <2>2. CASE Goto(a, "insert")
    BY <2>1, <2>2, GoTurns DEF Advance, Effect, Pcs
  <2>3. CASE Exported(a) /\ Cardinality(obj[act[a].isp]) = act[a].cu
    BY <2>1, <2>3, SumTurns DEF Kept, Effect
  <2>4. CASE ExportFails(a, act[a].todo)
    BY <2>1, <2>4, FailTurns DEF Effect
  <2>. QED BY <1>2, <2>2, <2>3, <2>4 DEF Stat
<1>3. CASE Insert(a)
  <2>1. act[a].pc = "insert" /\ act[a].pc \in Working
    BY <1>3 DEF Insert, Working
  <2>2. act[a].isp \in ISPs
    BY <2>1 DEF PlaceOK
  <2>3. Effect(a)
    BY <1>3, <2>2 DEF Insert, Effect, Kept, Put, s3Vars
  <2>4. CASE Exported(a) /\ obj' = [obj EXCEPT ![act[a].isp] = hot \cap RowsOf(act[a].isp)]
    <3>1. obj'[act[a].isp] = hot \cap RowsOf(act[a].isp)
      BY <2>2, <2>4 DEF TypeOK
    <3>. QED BY <2>1, <2>3, <2>4, <3>1, SumTurns
  <2>5. CASE ExportFails(a, act[a].todo)
    BY <2>1, <2>3, <2>5, FailTurns
  <2>. QED BY <1>3, <2>4, <2>5 DEF Insert
<1>4. CASE ExportsDone(a)
  <2>1. Kept /\ act[a].pc = "count" /\ act[a].todo = {}
    BY <1>4 DEF ExportsDone, store, s3Vars, Kept
  <2>2. CASE Become(a, Rest)
    BY <2>1, <2>2, RestRec DEF Become, Turn, Effect
  <2>3. CASE ~act[a].failed /\ a = "sweep" /\ Goto(a, "compare")
    BY <2>1, <2>3, GoTurns DEF Advance, Effect, Pcs
  <2>4. CASE ~act[a].failed /\ a # "sweep" /\ Goto(a, "mark")
    BY <2>1, <2>4, GoTurns DEF Advance, Effect, Pcs
  <2>. QED BY <1>4, <2>2, <2>3, <2>4 DEF ExportsDone
<1>5. CASE MarkDayArchived(a)
  <2>1. act[a].pc = "mark" /\ MayMark(a)
    BY <1>5 DEF MarkDayArchived, s3Vars, MayMark
  <2>2. CASE Become(a, Rest)
    BY <2>1, <2>2, RestRec DEF Become, Turn, Effect
  <2>3. CASE marked' /\ Goto(a, "drop")
    BY <2>1, <2>3, GoTurns DEF Advance, Effect, Pcs
  <2>. QED BY <1>5, <2>2, <2>3 DEF MarkDayArchived
<1>. QED BY <1>1, <1>2, <1>3, <1>4, <1>5 DEF ActorStep

LEMMA SweepTurns ==
  ASSUME TypeOK, PlaceOK("sweep"), TotalOK("sweep"), SweepStep
  PROVE  Turn("sweep") /\ Effect("sweep")
<1>. "sweep" \in Actors
  BY DEF Actors
<1>1. CASE SweepBegin
  <2>1. Kept
    BY <1>1 DEF SweepBegin, store, s3Vars, Kept
  <2>2. PICK q : q = [Rest EXCEPT !.pc = "check", !.todo = isps]
    OBVIOUS
  <2>3. isps \in SUBSET ISPs
    BY DEF TypeOK
  <2>0. /\ q \in ActRec /\ q.pc = "check" /\ q.todo = isps /\ q.isp = NoIsp
        /\ q.total = 0 /\ q.failed = FALSE
    BY <2>2, <2>3, RestRec DEF ActRec, Pcs
  <2>4. q \in ActRec /\ Began("sweep", q)
    BY <1>1, <2>0 DEF SweepBegin, Began
  <2>. QED BY <1>1, <2>1, <2>2, <2>4 DEF SweepBegin, Become, Turn, Kind, Effect
<1>2. CASE SweepCheck
  <2>1. Kept /\ act["sweep"].pc = "check"
    BY <1>2 DEF SweepCheck, store, s3Vars, Kept
  <2>2. CASE Goto("sweep", "count")
    BY <2>1, <2>2, GoTurns DEF Advance, Effect, Pcs
  <2>3. CASE marked /\ Goto("sweep", "drop")
    BY <2>1, <2>3, GoTurns DEF Advance, Effect, Pcs
  <2>. QED BY <1>2, <2>2, <2>3 DEF SweepCheck
<1>3. CASE ActorStep("sweep")
  BY <1>3, ActorTurns
<1>4. CASE Compare
  <2>1. Kept /\ act["sweep"].pc = "compare"
    BY <1>4 DEF Compare, store, s3Vars, Kept
  <2>2. CASE Cardinality(hot) = act["sweep"].total /\ Goto("sweep", "mark")
    BY <2>1, <2>2, GoTurns DEF Advance, Effect, Pcs
  <2>3. CASE Become("sweep", Rest)
    BY <2>1, <2>3, RestRec DEF Become, Turn, Effect
  <2>. QED BY <1>4, <2>2, <2>3 DEF Compare
<1>5. CASE DropDay
  BY <1>5, RestRec DEF DropDay, Become, Turn, Effect, MayDrop, s3Vars
<1>. QED BY <1>1, <1>2, <1>3, <1>4, <1>5 DEF SweepStep

LEMMA ManualTurns ==
  ASSUME TypeOK, ManualBegin PROVE Turn("manual") /\ Kept
<1>1. Kept
  BY DEF ManualBegin, store, s3Vars, Kept
<1>2. PICK q : q = [Rest EXCEPT !.pc = "count", !.todo = isps]
  OBVIOUS
<1>3. isps \in SUBSET ISPs
  BY DEF TypeOK
<1>0. /\ q \in ActRec /\ q.pc = "count" /\ q.todo = isps /\ q.isp = NoIsp
      /\ q.total = 0 /\ q.failed = FALSE
  BY <1>2, <1>3, RestRec DEF ActRec, Pcs
<1>4. q \in ActRec /\ Began("manual", q)
  BY <1>0, ArchiveAssumption DEF ManualBegin, Began
<1>. QED BY <1>1, <1>2, <1>4 DEF ManualBegin, Become, Turn, Kind

-----------------------------------------------------------------------------
(* Every step, and the types.                                              *)

Calm == act' = act /\ (Kept \/ (\E r \in Rows : Arrive(r)) \/ Expire)
Restart == act' = [a \in Actors |-> Rest] /\ Kept

LEMMA Steps ==
  ASSUME TypeOK, \A a \in Actors : PlaceOK(a) /\ TotalOK(a), [Next]_vars
  PROVE  Calm \/ Restart \/ \E a \in Actors : Turn(a) /\ Effect(a)
<1>. "sweep" \in Actors /\ "manual" \in Actors
  BY DEF Actors
<1>1. CASE \E r \in Rows : Arrive(r)
  BY <1>1 DEF Arrive, Calm
<1>2. CASE NextDay
  BY <1>2 DEF NextDay, Calm, Kept, s3Vars
<1>3. CASE Expire
  BY <1>3 DEF Expire, Calm
<1>4. CASE \E i \in ISPs : DeleteISP(i)
  BY <1>4 DEF DeleteISP, Calm, Kept, s3Vars
<1>5. CASE \E s \in Configs : PutSettings(s)
  BY <1>5 DEF PutSettings, Calm, Kept, s3Vars
<1>6. CASE Apply
  BY <1>6 DEF Apply, Calm, Kept, s3Vars
<1>7. CASE SweepStep
  BY <1>7, SweepTurns
<1>8. CASE ManualBegin
  BY <1>8, ManualTurns DEF Effect
<1>9. CASE ActorStep("manual")
  BY <1>9, ActorTurns
<1>10. CASE SearchStep
  BY <1>10 DEF SearchStep, SearchBegin, SearchDays, SearchHot, SearchCold, Search, base, Calm,
               Kept, s3Vars
<1>11. CASE Crash
  BY <1>11 DEF Crash, Restart, Kept, s3Vars
<1>12. CASE UNCHANGED vars
  BY <1>12 DEF vars, Calm, Kept, s3Vars
<1>. QED BY <1>1, <1>2, <1>3, <1>4, <1>5, <1>6, <1>7, <1>8, <1>9, <1>10, <1>11, <1>12 DEF Next

RowsType ==
  /\ arrived \subseteq Rows /\ hot \subseteq arrived /\ expired \subseteq arrived
  /\ uploaded \subseteq ISPs /\ obj \in [ISPs -> SUBSET Rows]
  /\ \A i \in ISPs : obj[i] \subseteq (IF i \in uploaded THEN RowsOf(i) ELSE {})
  /\ marked \in BOOLEAN
MiscType ==
  /\ swept \in BOOLEAN /\ due \in BOOLEAN /\ isps \subseteq ISPs
  /\ age \in 0..MaxAge /\ faults \in 0..MaxFaults
  /\ settings \in Configs /\ saved \in Configs /\ lastRet \in Nat /\ ttl \in Nat \ {0}
SearchType ==
  srch \in [pc : {"idle", "days", "hot", "cold", "done"}, scope : SUBSET Rows,
            need : SUBSET Rows, saw : BOOLEAN, cold : BOOLEAN,
            hot : SUBSET Rows, s3 : SUBSET Rows, err : BOOLEAN, quiet : BOOLEAN]

LEMMA TypeParts == TypeOK <=> RowsType /\ ActType /\ MiscType /\ SearchType
BY DEF TypeOK, RowsType, ActType, MiscType, SearchType, ActRec, Pcs, N

LEMMA RowsTyped ==
  ASSUME TypeOK, Calm \/ Restart \/ \E a \in Actors : Turn(a) /\ Effect(a)
  PROVE  RowsType' /\ ActType'
<1>1. RowsType /\ ActType
  BY TypeParts
<1>2. ActType'
  <2>1. CASE act' = act \/ act' = [a \in Actors |-> Rest]
    BY <1>1, <2>1, RestRec DEF ActType
  <2>2. ASSUME NEW a \in Actors, Turn(a) PROVE ActType'
    BY <1>1, <2>2 DEF ActType, Turn
  <2>. QED BY <2>1, <2>2 DEF Calm, Restart
<1>3. CASE Kept
  BY <1>1, <1>2, <1>3 DEF RowsType, RowsOf, Kept
<1>4. ASSUME NEW r \in Rows, Arrive(r) PROVE RowsType'
  BY <1>1, <1>4 DEF RowsType, RowsOf, Arrive, s3Vars
<1>5. CASE Expire
  BY <1>1, <1>2, <1>5 DEF RowsType, RowsOf, Expire, s3Vars
<1>6. ASSUME NEW i \in ISPs, Put(i) PROVE RowsType'
  <2>1. hot \cap RowsOf(i) \in SUBSET Rows
    BY <1>1 DEF RowsType
  <2>2. /\ arrived' \subseteq Rows /\ hot' \subseteq arrived' /\ expired' \subseteq arrived'
        /\ uploaded' \subseteq ISPs /\ obj' \in [ISPs -> SUBSET Rows] /\ marked' \in BOOLEAN
    BY <1>1, <1>6, <2>1 DEF RowsType, Put
  <2>3. ASSUME NEW j \in ISPs PROVE obj'[j] \subseteq (IF j \in uploaded' THEN RowsOf(j) ELSE {})
    BY <1>1, <1>6, <2>1 DEF RowsType, Put
  <2>. QED BY <2>2, <2>3 DEF RowsType, RowsOf
<1>7. ASSUME NEW a \in Actors, MayMark(a) PROVE RowsType'
  BY <1>1, <1>7 DEF RowsType, RowsOf, MayMark
<1>8. CASE MayDrop
  BY <1>1, <1>2, <1>8 DEF RowsType, RowsOf, MayDrop
<1>. QED BY <1>2, <1>3, <1>4, <1>5, <1>6, <1>7, <1>8 DEF Calm, Restart, Effect

LEMMA Lifetime ==
  ASSUME NEW s \in Configs
  PROVE  EffectiveTTL(s) \in Nat \ {0} /\ s.after \in Nat /\ s.ret \in Nat \ {0}
<1>1. s.after \in Nat /\ s.ret \in Nat \ {0}
  BY ArchiveAssumption
<1>. QED BY <1>1 DEF EffectiveTTL

LEMMA MiscTyped ==
  ASSUME TypeOK, [Next]_vars PROVE MiscType'
<1>1. MiscType /\ MaxAge \in Nat /\ MaxFaults \in Nat
  BY TypeParts, ArchiveAssumption
<1>2. ASSUME Fine \/ Fault PROVE faults' \in 0..MaxFaults
  BY <1>1, <1>2 DEF Fine, Fault, MiscType
<1>3. ASSUME NEW a, NEW rec, Become(a, rec) PROVE swept' \in BOOLEAN
  BY <1>3 DEF Become
<1>4. ASSUME faults' \in 0..MaxFaults, swept' \in BOOLEAN, UNCHANGED <<isps, age, ttlVars>>
      PROVE  MiscType'
  BY <1>1, <1>4 DEF MiscType, ttlVars
<1>5. CASE \E r \in Rows : Arrive(r)
  BY <1>1, <1>4, <1>5 DEF Arrive, MiscType
<1>6. CASE NextDay
  <2>1. age < MaxAge /\ age' = age + 1 /\ swept' = FALSE /\ UNCHANGED <<isps, ttlVars, faults>>
    BY <1>6, Zenon DEF NextDay
  <2>2. age' \in 0..MaxAge
    BY <1>1, <2>1 DEF MiscType
  <2>. QED BY <1>1, <2>1, <2>2 DEF MiscType, ttlVars
<1>7. CASE Expire
  BY <1>1, <1>4, <1>7 DEF Expire, MiscType
<1>8. CASE \E i \in ISPs : DeleteISP(i)
  BY <1>1, <1>8 DEF DeleteISP, MiscType, ttlVars
<1>9. CASE \E s \in Configs : PutSettings(s)
  BY <1>1, <1>2, <1>9 DEF PutSettings, MiscType
<1>10. CASE Apply
  BY <1>1, <1>2, <1>10, Lifetime DEF Apply, MiscType
<1>11. ASSUME NEW a, Count(a) \/ Stat(a) \/ Insert(a) \/ ExportsDone(a) \/ MarkDayArchived(a)
       PROVE  MiscType'
  <2>1. (Fine \/ Fault) /\ UNCHANGED <<isps, age, ttlVars>>
    BY <1>11 DEF Count, Stat, Insert, ExportsDone, MarkDayArchived, store
  <2>2. \E rec : Become(a, rec)
    BY <1>11 DEF Count, Stat, Insert, ExportsDone, MarkDayArchived, ExportFails, Exported, Goto
  <2>. QED BY <1>2, <1>3, <1>4, <2>1, <2>2
<1>12. CASE SweepBegin \/ SweepCheck \/ Compare \/ DropDay
  <2>1. (Fine \/ Fault) /\ UNCHANGED <<isps, age, ttlVars>>
    BY <1>12 DEF SweepBegin, SweepCheck, Compare, DropDay, store
  <2>2. \E rec : Become("sweep", rec)
    BY <1>12 DEF SweepBegin, SweepCheck, Compare, DropDay, Goto
  <2>. QED BY <1>2, <1>3, <1>4, <2>1, <2>2
<1>13. CASE ManualBegin
  BY <1>2, <1>3, <1>4, <1>13 DEF ManualBegin, store
<1>14. CASE SearchStep
  <2>1. (Fine \/ Fault) /\ UNCHANGED <<isps, age, ttlVars, swept>>
    BY <1>14 DEF SearchStep, SearchBegin, SearchDays, SearchHot, SearchCold, Search, base
  <2>. QED BY <1>1, <1>2, <1>4, <2>1 DEF MiscType
<1>15. CASE Crash
  BY <1>1, <1>2, <1>15, Lifetime DEF Crash, MiscType
<1>16. CASE UNCHANGED vars
  BY <1>1, <1>16 DEF vars, MiscType, ttlVars
<1>. QED BY <1>5, <1>6, <1>7, <1>8, <1>9, <1>10, <1>11, <1>12, <1>13, <1>14, <1>15, <1>16
         DEF Next, SweepStep, ActorStep

\* The records a search goes through.
SearchRec ==
  [pc : {"idle", "days", "hot", "cold", "done"}, scope : SUBSET Rows,
   need : SUBSET Rows, saw : BOOLEAN, cold : BOOLEAN,
   hot : SUBSET Rows, s3 : SUBSET Rows, err : BOOLEAN, quiet : BOOLEAN]
\* The flag that a row left hot storage during the search.
LEMMA Disturbed ==
  ASSUME SearchType, NEW q, q = [srch EXCEPT !.quiet = FALSE]
  PROVE  /\ q \in SearchRec /\ q.pc = srch.pc /\ q.scope = srch.scope /\ q.need = srch.need
         /\ q.saw = srch.saw /\ q.cold = srch.cold /\ q.hot = srch.hot /\ q.s3 = srch.s3
         /\ q.err = srch.err /\ q.quiet = FALSE
BY DEF SearchType, SearchRec

\* What each step of a search leaves in its record.
Opened ==
  /\ srch'.pc = "days" /\ srch'.scope \subseteq Rows
  /\ srch'.need = srch'.scope \cap (arrived \ expired)
  /\ srch'.cold = FALSE /\ srch'.hot = {} /\ srch'.s3 = {} /\ srch'.quiet = TRUE
  /\ srch'.err = TRUE \/ srch'.saw = marked
Looked ==
  /\ srch.pc = "days" /\ srch'.pc = "hot" /\ srch'.scope = srch.scope /\ srch'.need = srch.need
  /\ srch'.saw = srch.saw /\ srch'.hot = srch.hot /\ srch'.s3 = srch.s3 /\ srch'.quiet = srch.quiet
  /\ \/ srch'.err = TRUE
     \/ srch'.err = srch.err /\ (srch'.cold <=> srch.saw /\ hot \cap srch.scope = {})
ReadHot ==
  /\ srch.pc = "hot" /\ srch'.pc = (IF srch.cold THEN "cold" ELSE "done")
  /\ srch'.hot = hot \cap srch.scope /\ srch'.scope = srch.scope /\ srch'.need = srch.need
  /\ srch'.saw = srch.saw /\ srch'.cold = srch.cold /\ srch'.s3 = srch.s3 /\ srch'.err = srch.err
  /\ srch'.quiet = srch.quiet
ReadCold ==
  /\ srch.pc = "cold" /\ srch'.pc = "done"
  /\ srch'.s3 = Archived \cap srch.scope /\ srch'.scope = srch.scope /\ srch'.need = srch.need
  /\ srch'.saw = srch.saw /\ srch'.cold = srch.cold /\ srch'.hot = srch.hot /\ srch'.err = srch.err
  /\ srch'.quiet = srch.quiet

LEMMA SearchKinds ==
  ASSUME TypeOK, SearchStep
  PROVE  /\ srch' \in SearchRec /\ UNCHANGED base
         /\ srch' = NoSearch \/ Opened \/ Looked \/ ReadHot \/ ReadCold
<1>1. srch \in SearchRec /\ arrived \subseteq Rows /\ hot \subseteq Rows /\ marked \in BOOLEAN
  BY DEF SearchRec, TypeOK
<1>2. NoSearch \in SearchRec
  BY DEF NoSearch, SearchRec
<1>3. UNCHANGED base
  BY DEF SearchStep, SearchBegin, SearchDays, SearchHot, SearchCold, Search
<1>7. CASE SearchBegin
  <2>1. PICK scope \in {Rows} \cup {RowsOf(i) : i \in ISPs}, saw \in {marked, FALSE}, err \in BOOLEAN :
          /\ srch' = [pc |-> "days", scope |-> scope, need |-> scope \cap (arrived \ expired), saw |-> saw,
                      cold |-> FALSE, hot |-> {}, s3 |-> {}, err |-> err, quiet |-> TRUE]
          /\ err = TRUE \/ saw = marked
    <3>1. PICK scope \in {Rows} \cup {RowsOf(i) : i \in ISPs} :
            \/ srch' = [[NoSearch EXCEPT !.pc = "days", !.scope = scope,
                                         !.need = scope \cap (arrived \ expired)] EXCEPT !.saw = marked]
            \/ srch' = [[NoSearch EXCEPT !.pc = "days", !.scope = scope,
                                         !.need = scope \cap (arrived \ expired)] EXCEPT !.err = TRUE]
      BY <1>7 DEF SearchBegin, Search
    <3>2. \/ srch' = [pc |-> "days", scope |-> scope, need |-> scope \cap (arrived \ expired), saw |-> marked,
                      cold |-> FALSE, hot |-> {}, s3 |-> {}, err |-> FALSE, quiet |-> TRUE]
          \/ srch' = [pc |-> "days", scope |-> scope, need |-> scope \cap (arrived \ expired), saw |-> FALSE,
                      cold |-> FALSE, hot |-> {}, s3 |-> {}, err |-> TRUE, quiet |-> TRUE]
      BY <3>1 DEF NoSearch
    <3>. QED BY <3>2
  <2>2. scope \subseteq Rows /\ saw \in BOOLEAN
    BY <1>1 DEF RowsOf
  <2>3. srch' \in SearchRec
    BY <1>1, <2>1, <2>2 DEF SearchRec
  <2>4. Opened
    BY <2>1, <2>2 DEF Opened
  <2>. QED BY <1>3, <2>3, <2>4
<1>8. CASE SearchDays
  <2>1. PICK b \in BOOLEAN, err \in BOOLEAN :
          /\ srch' = [srch EXCEPT !.pc = "hot", !.cold = b, !.err = err]
          /\ err = TRUE \/ (err = srch.err /\ (b <=> srch.saw /\ hot \cap srch.scope = {}))
    <3>1. ColdDay(hot \cap srch.scope # {}) \in BOOLEAN /\ ColdDay(FALSE) \in BOOLEAN
      BY DEF ColdDay
    <3>2. CASE srch' = [srch EXCEPT !.pc = "hot", !.cold = ColdDay(hot \cap srch.scope # {})]
      <4>1. PICK b \in BOOLEAN : b = ColdDay(hot \cap srch.scope # {})
        BY <3>1
      <4>2. srch' = [srch EXCEPT !.pc = "hot", !.cold = b, !.err = srch.err] /\ srch.err \in BOOLEAN
        BY <1>1, <3>2, <4>1 DEF SearchRec
      <4>3. b <=> srch.saw /\ hot \cap srch.scope = {}
        BY <4>1 DEF ColdDay
      <4>. QED BY <4>2, <4>3
    <3>3. CASE srch' = [srch EXCEPT !.pc = "hot", !.cold = ColdDay(FALSE), !.err = TRUE]
      BY <3>1, <3>3
    <3>. QED BY <1>8, <3>2, <3>3 DEF SearchDays, Search
  <2>2. srch' \in SearchRec
    BY <1>1, <2>1 DEF SearchRec
  <2>3. srch'.cold = b /\ srch'.err = err
    BY <1>1, <2>1 DEF SearchRec
  <2>4. /\ srch'.pc = "hot" /\ srch'.scope = srch.scope /\ srch'.need = srch.need /\ srch'.saw = srch.saw
        /\ srch'.hot = srch.hot /\ srch'.s3 = srch.s3 /\ srch'.quiet = srch.quiet
    BY <1>1, <2>1 DEF SearchRec
  <2>5. Looked
    BY <1>8, <2>1, <2>3, <2>4 DEF Looked, SearchDays
  <2>. QED BY <1>3, <2>2, <2>5
<1>9. CASE SearchHot
  <2>1. CASE srch' = [srch EXCEPT !.pc = IF srch.cold THEN "cold" ELSE "done", !.hot = hot \cap srch.scope]
    <3>1. srch' \in SearchRec
      BY <1>1, <2>1 DEF SearchRec
    <3>2. ReadHot
      BY <1>1, <1>9, <2>1 DEF SearchRec, ReadHot, SearchHot
    <3>. QED BY <1>3, <3>1, <3>2
  <2>. QED BY <1>2, <1>3, <1>9, <2>1 DEF SearchHot, Search
<1>10. CASE SearchCold
  <2>1. CASE srch' = [srch EXCEPT !.pc = "done", !.s3 = Archived \cap srch.scope]
    <3>1. Archived \subseteq Rows
      BY Owners
    <3>2. srch' \in SearchRec
      BY <1>1, <2>1, <3>1 DEF SearchRec
    <3>3. ReadCold
      BY <1>1, <1>10, <2>1 DEF SearchRec, ReadCold, SearchCold
    <3>. QED BY <1>3, <3>2, <3>3
  <2>. QED BY <1>2, <1>3, <1>10, <2>1 DEF SearchCold, Search
<1>. QED BY <1>7, <1>8, <1>9, <1>10 DEF SearchStep

LEMMA SearchTyped ==
  ASSUME TypeOK, [Next]_vars PROVE SearchType'
<1>1. SearchType /\ srch \in SearchRec /\ arrived \subseteq Rows /\ hot \subseteq Rows /\ marked \in BOOLEAN
  BY TypeParts DEF SearchType, SearchRec, TypeOK
<1>2. NoSearch \in SearchRec
  BY DEF NoSearch, SearchRec
<1>3. ASSUME srch' \in SearchRec PROVE SearchType'
  BY <1>3 DEF SearchType, SearchRec
<1>4. CASE UNCHANGED srch
  BY <1>1, <1>4 DEF SearchType
<1>5. CASE srch' = [srch EXCEPT !.quiet = FALSE]
  BY <1>1, <1>3, <1>5, Disturbed
<1>6. CASE srch' = NoSearch
  BY <1>2, <1>3, <1>6
<1>7. CASE SearchStep
  BY <1>3, <1>7, SearchKinds
<1>11. CASE \E r \in Rows : Arrive(r)
  BY <1>4, <1>11 DEF Arrive
<1>12. CASE NextDay
  BY <1>4, <1>12 DEF NextDay
<1>13. CASE Expire
  BY <1>5, <1>13 DEF Expire
<1>14. CASE \E i \in ISPs : DeleteISP(i)
  BY <1>4, <1>14 DEF DeleteISP
<1>15. CASE \E s \in Configs : PutSettings(s)
  BY <1>4, <1>15 DEF PutSettings
<1>16. CASE Apply
  BY <1>4, <1>16 DEF Apply
<1>17. ASSUME NEW a, Count(a) \/ Stat(a) \/ Insert(a) \/ ExportsDone(a) \/ MarkDayArchived(a)
       PROVE  SearchType'
  BY <1>4, <1>17 DEF Count, Stat, Insert, ExportsDone, MarkDayArchived, store
<1>18. CASE SweepBegin \/ SweepCheck \/ Compare \/ ManualBegin
  BY <1>4, <1>18 DEF SweepBegin, SweepCheck, Compare, ManualBegin, store
<1>19. CASE DropDay
  BY <1>5, <1>19 DEF DropDay
<1>20. CASE Crash
  BY <1>6, <1>20 DEF Crash
<1>21. CASE UNCHANGED vars
  BY <1>4, <1>21 DEF vars
<1>. QED BY <1>7, <1>11, <1>12, <1>13, <1>14, <1>15, <1>16, <1>17, <1>18,
            <1>19, <1>20, <1>21 DEF Next, SweepStep, ActorStep

-----------------------------------------------------------------------------
(* The sums.                                                               *)

\* Rows arrive, are archived, expire; only a drop takes them from hot storage
\* otherwise.
Grow ==
  /\ arrived \subseteq arrived' /\ expired \subseteq expired'
  /\ Archived \subseteq Archived' /\ Archived' \subseteq Archived \cup hot
  /\ hot \cup expired \subseteq hot' \cup expired' \/ (act["sweep"].pc = "drop" /\ act'["sweep"] = Rest)

LEMMA Grows ==
  ASSUME TypeOK, Calm \/ Restart \/ \E a \in Actors : Turn(a) /\ Effect(a)
  PROVE  Grow
<1>0. \A r : r \in Archived <=> \E i \in ISPs : r \in obj[i]
  BY DEF Archived
<1>00. \A r : r \in Archived' <=> \E i \in ISPs : r \in obj'[i]
  BY DEF Archived
<1>1. CASE Kept
  BY <1>1, <1>0, <1>00 DEF Kept, Grow
<1>2. ASSUME NEW r \in Rows, Arrive(r) PROVE Grow
  BY <1>2, <1>0, <1>00 DEF Arrive, Grow, s3Vars
<1>3. CASE Expire
  BY <1>3, <1>0, <1>00 DEF Expire, Grow, s3Vars
<1>4. ASSUME NEW i \in ISPs, Put(i) PROVE Grow
  <2>1. obj[i] = {} /\ obj'[i] = hot \cap RowsOf(i) /\ \A j \in ISPs : j # i => obj'[j] = obj[j]
    BY <1>4 DEF Put, TypeOK
  <2>. QED BY <1>4, <2>1, <1>0, <1>00 DEF Put, Grow
<1>5. ASSUME NEW a \in Actors, MayMark(a) PROVE Grow
  BY <1>5, <1>0, <1>00 DEF MayMark, Grow
<1>6. CASE MayDrop
  <2>1. act'["sweep"] = Rest
    BY <1>6, ActTyped DEF MayDrop, ActType, Actors
  <2>. QED BY <1>6, <2>1, <1>0, <1>00 DEF MayDrop, Grow
<1>. QED BY <1>1, <1>2, <1>3, <1>4, <1>5, <1>6 DEF Calm, Restart, Effect

Change(b) == act'[b] = act[b] \/ act'[b] = Rest \/ Kind(b, act'[b])

LEMMA Changes ==
  ASSUME TypeOK, Calm \/ Restart \/ \E a \in Actors : Turn(a) /\ Effect(a), NEW b \in Actors
  PROVE  Change(b)
<1>1. ActType
  BY ActTyped
<1>2. ASSUME NEW a \in Actors, NEW q \in ActRec, act' = [act EXCEPT ![a] = q], q = Rest \/ Kind(a, q)
      PROVE  Change(b)
  <2>1. CASE a = b
    <3>1. act'[b] = q
      BY <1>1, <1>2, <2>1 DEF ActType
    <3>. QED BY <1>2, <2>1, <3>1 DEF Change
  <2>2. CASE a # b
    BY <1>1, <1>2, <2>2 DEF ActType, Change
  <2>. QED BY <2>1, <2>2
<1>. QED BY <1>2 DEF Calm, Restart, Turn, Change

\* Apart from the steps that end an export, a sum starts again or covers no less.
Mild(b) ==
  /\ act'[b].total = 0 \/ (act'[b].total = act[b].total /\ Behind(b) \subseteq Behind(b)')
  /\ act'[b].pc \in Working =>
       \/ act[b].pc \in Working /\ act'[b].isp = act[b].isp /\ act'[b].cu = act[b].cu
       \/ act'[b].cu = Cardinality(hot \cap RowsOf(act'[b].isp)) /\ act'[b].isp \in ISPs /\ hot # {}

LEMMA MildOrSummed ==
  ASSUME TypeOK, NEW b \in Actors, PlaceOK(b), Change(b)
  PROVE  Mild(b) \/ (Summed(b, act'[b]) /\ Behind(b)' = Behind(b) \cup RowsOf(act[b].isp))
<1>1. act[b] \in ActRec /\ act[b].todo \subseteq ISPs /\ NoIsp \notin ISPs /\ Isp \in [Rows -> ISPs]
  BY ActTyped, ArchiveAssumption DEF ActType, ActRec
<1>2. \A r \in Rows : Isp[r] \in ISPs /\ Isp[r] # NoIsp
  BY <1>1
<1>3. CASE act'[b] = act[b]
  BY <1>3 DEF Mild, Behind
<1>4. CASE act'[b] = Rest
  BY <1>4, RestRec DEF Mild, Working
<1>5. CASE Began(b, act'[b])
  BY <1>5 DEF Began, Mild, Working
<1>6. CASE Moved(b, act'[b])
  <2>1. Behind(b)' = Behind(b) /\ act'[b].total = act[b].total
    BY <1>6 DEF Moved, Behind
  <2>2. act'[b].pc \in Working => act[b].pc \in Working /\ act'[b].isp = act[b].isp /\ act'[b].cu = act[b].cu
    BY <1>6 DEF Moved, Advance, Working
  <2>. QED BY <2>1, <2>2 DEF Mild
<1>7. CASE Skipped(b, act'[b])
  <2>1. Behind(b) \subseteq Behind(b)' /\ act'[b].total = act[b].total
    BY <1>7 DEF Skipped, Behind
  <2>. QED BY <1>7, <2>1 DEF Mild, Skipped, Working
<1>8. CASE Taken(b, act'[b])
  <2>1. Behind(b) \subseteq Behind(b)' /\ act'[b].total = act[b].total
    BY <1>8 DEF Taken, Behind
  <2>2. act'[b].cu = Cardinality(hot \cap RowsOf(act'[b].isp)) /\ act'[b].isp \in ISPs /\ hot # {}
    BY <1>1, <1>8 DEF Taken
  <2>. QED BY <2>1, <2>2 DEF Mild
<1>9. CASE Summed(b, act'[b])
  <2>1. Behind(b)' = Behind(b) \cup RowsOf(act[b].isp)
    BY <1>2, <1>9 DEF Summed, Behind, RowsOf, PlaceOK
  <2>. QED BY <1>9, <2>1
<1>10. CASE GaveUp(b, act'[b])
  <2>1. Behind(b) \subseteq Behind(b)' /\ act'[b].total = act[b].total
    BY <1>2, <1>10 DEF GaveUp, Behind
  <2>. QED BY <1>10, <2>1 DEF Mild, GaveUp, Working
<1>. QED BY <1>3, <1>4, <1>5, <1>6, <1>7, <1>8, <1>9, <1>10 DEF Change, Kind

LEMMA PlaceStep ==
  ASSUME TypeOK, NEW b \in Actors, PlaceOK(b), Change(b) PROVE PlaceOK(b)'
<1>1. act[b] \in ActRec /\ act[b].todo \subseteq ISPs
  BY ActTyped DEF ActType, ActRec
<1>3. CASE act'[b] = act[b]
  BY <1>3 DEF PlaceOK
<1>4. CASE act'[b] = Rest
  BY <1>4, RestRec DEF PlaceOK, Working
<1>5. CASE Began(b, act'[b])
  BY <1>5 DEF Began, PlaceOK, Working
<1>6. CASE Moved(b, act'[b])
  BY <1>6 DEF Moved, Advance, PlaceOK, Working
<1>7. CASE Skipped(b, act'[b])
  BY <1>7 DEF Skipped, PlaceOK, Working
<1>8. CASE Taken(b, act'[b])
  BY <1>1, <1>8 DEF Taken, PlaceOK, Working
<1>9. CASE Summed(b, act'[b])
  BY <1>9 DEF Summed, PlaceOK, Working
<1>10. CASE GaveUp(b, act'[b])
  BY <1>10 DEF GaveUp, PlaceOK, Working
<1>. QED BY <1>3, <1>4, <1>5, <1>6, <1>7, <1>8, <1>9, <1>10 DEF Change, Kind

LEMMA TotalStep ==
  ASSUME TypeOK, TypeOK', NEW b \in Actors, PlaceOK(b), TotalOK(b), Change(b), Grow
  PROVE  TotalOK(b)'
<1>1. /\ act[b].total \in Nat /\ act[b].cu \in Nat /\ act'[b].total \in Nat
      /\ arrived' \subseteq Rows /\ arrived \subseteq arrived' /\ hot \subseteq arrived
  <2>1. N \in Nat
    BY ArchiveAssumption, FS_CardinalityType DEF N
  <2>2. act[b] \in ActRec
    BY ActTyped DEF ActType
  <2>3. act'[b] \in ActRec
    BY DEF TypeOK, ActRec, Pcs, N
  <2>4. act[b].total \in Nat /\ act[b].cu \in Nat /\ act'[b].total \in Nat
    BY <2>1, <2>2, <2>3 DEF ActRec
  <2>5. arrived' \subseteq Rows /\ arrived \subseteq arrived' /\ hot \subseteq arrived
    BY DEF TypeOK, Grow
  <2>. QED BY <2>4, <2>5
<1>2. ASSUME Mild(b) PROVE TotalOK(b)'
  <2>1. act'[b].total <= Cardinality(arrived' \cap Behind(b)')
    <3>0. arrived \cap Behind(b) \subseteq Rows /\ arrived' \cap Behind(b)' \subseteq Rows
      BY <1>1
    <3>1. Cardinality(arrived \cap Behind(b)) \in Nat /\ Cardinality(arrived' \cap Behind(b)') \in Nat
      BY <3>0, RowSets
    <3>2. CASE act'[b].total = 0
      BY <3>1, <3>2
    <3>3. CASE act'[b].total = act[b].total /\ Behind(b) \subseteq Behind(b)'
      <4>1. Cardinality(arrived \cap Behind(b)) <= Cardinality(arrived' \cap Behind(b)')
        BY <1>1, <3>0, <3>3, RowsGrow
      <4>. QED BY <1>1, <3>1, <3>3, <4>1 DEF TotalOK
    <3>. QED BY <1>2, <3>2, <3>3 DEF Mild
  <2>2. ASSUME act'[b].pc \in Working
        PROVE  act'[b].cu <= Cardinality(arrived' \cap RowsOf(act'[b].isp))
    <3>0. /\ arrived \cap RowsOf(act'[b].isp) \subseteq arrived' \cap RowsOf(act'[b].isp)
          /\ hot \cap RowsOf(act'[b].isp) \subseteq arrived' \cap RowsOf(act'[b].isp)
          /\ arrived' \cap RowsOf(act'[b].isp) \subseteq Rows
      BY <1>1
    <3>1. /\ Cardinality(arrived \cap RowsOf(act'[b].isp)) <= Cardinality(arrived' \cap RowsOf(act'[b].isp))
          /\ Cardinality(hot \cap RowsOf(act'[b].isp)) <= Cardinality(arrived' \cap RowsOf(act'[b].isp))
      BY <3>0, RowsGrow
    <3>2. /\ Cardinality(arrived \cap RowsOf(act'[b].isp)) \in Nat
          /\ Cardinality(arrived' \cap RowsOf(act'[b].isp)) \in Nat
          /\ Cardinality(hot \cap RowsOf(act'[b].isp)) \in Nat
      BY <1>1, RowSets
    <3>. QED BY <1>1, <1>2, <2>2, <3>1, <3>2 DEF Mild, TotalOK
  <2>. QED BY <2>1, <2>2 DEF TotalOK, RowsOf
<1>3. ASSUME Summed(b, act'[b]), Behind(b)' = Behind(b) \cup RowsOf(act[b].isp) PROVE TotalOK(b)'
  <2>1. act[b].pc \in Working /\ act'[b].pc = "count" /\ act'[b].total = act[b].total + act[b].cu
    BY <1>3 DEF Summed
  <2>2. act'[b].total <= Cardinality(arrived \cap Behind(b)')
    BY <1>3, <2>1, SumFits
  <2>3. arrived \cap Behind(b)' \subseteq arrived' \cap Behind(b)' /\ arrived' \cap Behind(b)' \subseteq Rows
    BY <1>1
  <2>4. Cardinality(arrived \cap Behind(b)') <= Cardinality(arrived' \cap Behind(b)')
    BY <2>3, RowsGrow
  <2>5. Cardinality(arrived \cap Behind(b)') \in Nat /\ Cardinality(arrived' \cap Behind(b)') \in Nat
    BY <2>3, RowSets
  <2>6. act'[b].total <= Cardinality(arrived' \cap Behind(b)')
    BY <1>1, <2>2, <2>4, <2>5
  <2>. QED BY <2>1, <2>6 DEF TotalOK, Working
<1>. QED BY <1>2, <1>3, MildOrSummed

LEMMA CoveredStep ==
  ASSUME TypeOK, TypeOK', PlaceOK("sweep"), CoveredOK, Change("sweep"), Grow,
         Archived \subseteq arrived
  PROVE  CoveredOK'
<1>. DEFINE b == "sweep"
            kept == Archived \cup expired
            keptNow == Archived' \cup expired'
            i == act[b].isp
<1>0. b \in Actors
  BY DEF Actors
<1>1. /\ act[b].total \in Nat /\ act[b].cu \in Nat /\ act'[b].total \in Nat /\ act'[b].cu \in Nat
      /\ arrived \subseteq Rows /\ hot \subseteq Rows /\ kept \subseteq Rows /\ keptNow \subseteq Rows
      /\ hot' \cup expired' \subseteq Rows
  <2>1. act[b] \in ActRec /\ act'[b] \in ActRec
    BY <1>0, ActTyped, ActTyped DEF ActType, TypeOK, ActRec, Pcs, N
  <2>2. \A r : r \in Archived' <=> \E j \in ISPs : r \in obj'[j]
    BY DEF Archived
  <2>3. Archived \subseteq Rows /\ Archived' \subseteq Rows
    BY <2>2, Owners DEF TypeOK
  <2>4. N \in Nat
    BY ArchiveAssumption, FS_CardinalityType DEF N
  <2>. QED BY <2>1, <2>3, <2>4 DEF TypeOK, ActRec
<1>2. ASSUME Mild(b) PROVE CoveredOK'
  <2>1. act'[b].total <= Cardinality(keptNow \cap Behind(b)')
    <3>0. kept \cap Behind(b) \subseteq Rows /\ keptNow \cap Behind(b)' \subseteq Rows /\ kept \subseteq keptNow
      BY <1>1 DEF Grow
    <3>1. Cardinality(kept \cap Behind(b)) \in Nat /\ Cardinality(keptNow \cap Behind(b)') \in Nat
      BY <3>0, RowSets
    <3>2. CASE act'[b].total = 0
      BY <3>1, <3>2
    <3>3. CASE act'[b].total = act[b].total /\ Behind(b) \subseteq Behind(b)'
      <4>1. Cardinality(kept \cap Behind(b)) <= Cardinality(keptNow \cap Behind(b)')
        BY <3>0, <3>3, RowsGrow
      <4>. QED BY <1>1, <3>1, <3>3, <4>1 DEF CoveredOK
    <3>. QED BY <1>2, <3>2, <3>3 DEF Mild
  <2>2. ASSUME act'[b].pc \in Working
        PROVE  act'[b].cu <= Cardinality((hot' \cup expired') \cap RowsOf(act'[b].isp))
    <3>1. hot \cup expired \subseteq hot' \cup expired'
      BY <2>2, RestRec DEF Grow, Working
    <3>2. PICK A, B, C : /\ A = (hot \cup expired) \cap RowsOf(act'[b].isp)
                         /\ B = (hot' \cup expired') \cap RowsOf(act'[b].isp)
                         /\ C = hot \cap RowsOf(act'[b].isp)
      OBVIOUS
    <3>3. A \subseteq B /\ C \subseteq B /\ B \subseteq Rows
      BY <1>1, <3>1, <3>2
    <3>4. Cardinality(A) <= Cardinality(B) /\ Cardinality(C) <= Cardinality(B)
      BY <3>3, RowsGrow
    <3>5. Cardinality(A) \in Nat /\ Cardinality(B) \in Nat /\ Cardinality(C) \in Nat
      BY <3>3, RowSets
    <3>6. act'[b].cu <= Cardinality(A) \/ act'[b].cu = Cardinality(C)
      BY <1>2, <2>2, <3>2 DEF Mild, CoveredOK
    <3>. QED BY <1>1, <3>2, <3>4, <3>5, <3>6
  <2>. QED BY <2>1, <2>2 DEF CoveredOK, RowsOf
<1>3. ASSUME Summed(b, act'[b]), Behind(b)' = Behind(b) \cup RowsOf(i) PROVE CoveredOK'
  <2>1. act[b].pc \in Working /\ act'[b].pc = "count" /\ act'[b].total = act[b].total + act[b].cu
    BY <1>3 DEF Summed
  <2>2. i \in ISPs /\ Behind(b) \cap RowsOf(i) = {}
    BY <2>1 DEF PlaceOK, Behind, RowsOf
  <2>3. PICK A, B, C : /\ A = kept \cap Behind(b) /\ B = keptNow \cap RowsOf(i)
                       /\ C = keptNow \cap Behind(b)'
    OBVIOUS
  <2>4. A \subseteq Rows /\ B \subseteq Rows /\ C \subseteq Rows /\ A \cap B = {} /\ A \cup B \subseteq C
    BY <1>1, <1>3, <2>2, <2>3 DEF Grow
  <2>5. Cardinality(A) + Cardinality(B) <= Cardinality(C)
    <3>1. Cardinality(A \cup B) = Cardinality(A) + Cardinality(B)
      BY <2>4, RowsAdd
    <3>2. Cardinality(A \cup B) <= Cardinality(C)
      BY <2>4, RowsGrow
    <3>. QED BY <3>1, <3>2
  <2>6. Cardinality(A) \in Nat /\ Cardinality(B) \in Nat /\ Cardinality(C) \in Nat
    BY <2>4, RowSets
  <2>7. act[b].cu <= Cardinality(B)
    <3>1. CASE obj' = obj /\ Cardinality(obj[i]) = act[b].cu
      <4>1. obj[i] \subseteq B
        BY <2>2, <2>3, Owners DEF Grow
      <4>2. Cardinality(obj[i]) <= Cardinality(B)
        BY <2>4, <4>1, RowsGrow
      <4>. QED BY <3>1, <4>2
    <3>2. CASE obj'[i] = hot \cap RowsOf(i)
      <4>1. PICK D : D = (hot \cup expired) \cap RowsOf(i)
        OBVIOUS
      <4>2. obj'[i] \subseteq Archived'
        BY <2>2 DEF Archived
      <4>3. D \subseteq B
        BY <2>3, <3>2, <4>1, <4>2 DEF Grow
      <4>4. Cardinality(D) <= Cardinality(B) /\ Cardinality(D) \in Nat
        BY <2>4, <4>3, RowsGrow, RowSets
      <4>. QED BY <1>1, <2>1, <2>6, <4>1, <4>4 DEF CoveredOK
    <3>. QED BY <1>3, <3>1, <3>2 DEF Summed
  <2>8. act[b].total <= Cardinality(A)
    BY <2>3 DEF CoveredOK
  <2>9. act'[b].total <= Cardinality(C)
    BY <1>1, <2>1, <2>5, <2>6, <2>7, <2>8
  <2>. QED BY <2>1, <2>3, <2>9 DEF CoveredOK, Working
<1>. QED BY <1>0, <1>2, <1>3, MildOrSummed

LEMMA CountedInit == ASSUME Init PROVE Counted
<1>0. N \in Nat /\ 0 \in 0..N /\ Cardinality({}) = 0
  BY ArchiveAssumption, FS_CardinalityType, FS_EmptySet DEF N
<1>1. \A r : r \notin Archived
  BY DEF Archived, Init
<1>2. act = [a \in Actors |-> Rest]
  BY DEF Init
<1>3. RowsType
  BY DEF RowsType, Init
<1>4. ActType
  BY <1>2, RestRec DEF ActType
<1>5. MiscType
  <2>1. settings \in Configs /\ saved = settings /\ lastRet = EffectiveTTL(settings) /\ ttl = EffectiveTTL(settings)
    BY DEF Init
  <2>2. EffectiveTTL(settings) \in Nat \ {0}
    BY <2>1, Lifetime
  <2>3. swept \in BOOLEAN /\ due \in BOOLEAN /\ isps \subseteq ISPs /\ age \in 0..MaxAge /\ faults \in 0..MaxFaults
    <3>1. 0 \in 0..MaxAge /\ 0 \in 0..MaxFaults /\ Registered \subseteq ISPs
      BY ArchiveAssumption
    <3>. QED BY <3>1 DEF Init
  <2>. QED BY <2>1, <2>2, <2>3 DEF MiscType
<1>6. SearchType
  BY DEF SearchType, Init, NoSearch
<1>7. TypeOK
  BY <1>3, <1>4, <1>5, <1>6, TypeParts
<1>8. ASSUME NEW a \in Actors PROVE PlaceOK(a) /\ TotalOK(a)
  <2>1. act[a] = Rest /\ arrived \cap Behind(a) = {}
    BY <1>2 DEF Init
  <2>. QED BY <1>0, <2>1, RestRec DEF PlaceOK, TotalOK, Working
<1>9. CoveredOK
  <2>1. act["sweep"] = Rest /\ (Archived \cup expired) \cap Behind("sweep") = {}
    BY <1>1, <1>2 DEF Init, Actors
  <2>. QED BY <1>0, <2>1, RestRec DEF CoveredOK, Working
<1>. QED BY <1>1, <1>7, <1>8, <1>9 DEF Counted

LEMMA CountedStep == ASSUME Counted, [Next]_vars PROVE Counted'
<1>1. /\ TypeOK /\ Archived \subseteq arrived /\ CoveredOK
      /\ \A a \in Actors : PlaceOK(a) /\ TotalOK(a)
  BY DEF Counted
<1>2. Calm \/ Restart \/ \E a \in Actors : Turn(a) /\ Effect(a)
  BY <1>1, Steps
<1>3. RowsType' /\ ActType' /\ MiscType' /\ SearchType'
  BY <1>1, <1>2, RowsTyped, MiscTyped, SearchTyped
<1>4. TypeOK'
  BY <1>3, TypeParts DEF TypeOK, RowsType, ActType, MiscType, SearchType, ActRec, Pcs, N
<1>5. Grow
  BY <1>1, <1>2, Grows
<1>6. Archived' \subseteq arrived'
  BY <1>1, <1>5 DEF Grow, TypeOK
<1>7. ASSUME NEW b \in Actors PROVE PlaceOK(b)' /\ TotalOK(b)'
  <2>1. Change(b)
    BY <1>1, <1>2, Changes
  <2>. QED BY <1>1, <1>4, <1>5, <2>1, PlaceStep, TotalStep
<1>8. CoveredOK'
  <2>1. "sweep" \in Actors
    BY DEF Actors
  <2>2. Change("sweep")
    BY <1>1, <1>2, <2>1, Changes
  <2>. QED BY <1>1, <1>4, <1>5, <2>1, <2>2, CoveredStep
<1>. QED BY <1>4, <1>6, <1>7, <1>8 DEF Counted, Actors

\* The invariant of the sums, whatever the settings, the tenants and the failures.
THEOREM AlwaysCounted == Spec => []Counted
<1>1. Init => Counted
  BY CountedInit
<1>2. Counted /\ [Next]_vars => Counted'
  BY CountedStep
<1>. QED BY <1>1, <1>2, PTL DEF Spec

\* When a sweep has found its sum equal to the rows of the partition and goes on to
\* mark and drop the day, S3 holds as many rows as it counted, stragglers, retries,
\* leftover objects and a manual archive at the same time notwithstanding, unless the
\* TTL took some of them first.
THEOREM ExportedRows == Spec => [](TTLSafe => ExportedRowsExist)
<1>1. ASSUME Counted, TTLSafe, act["sweep"].pc = "mark" PROVE Cardinality(Archived) >= act["sweep"].total
  <2>1. PICK A : A = (Archived \cup expired) \cap Behind("sweep")
    OBVIOUS
  <2>2. A \subseteq Archived /\ Archived \subseteq Rows
    BY <1>1, <2>1, Owners DEF TTLSafe, Counted
  <2>3. Cardinality(A) <= Cardinality(Archived) /\ Cardinality(A) \in Nat /\ Cardinality(Archived) \in Nat
    BY <2>2, RowsGrow, RowSets
  <2>4. act["sweep"].total <= Cardinality(A) /\ act["sweep"].total \in Nat
    <3>1. act["sweep"] \in ActRec /\ N \in Nat
      BY <1>1, ActTyped, ArchiveAssumption, FS_CardinalityType DEF ActType, Actors, Counted, N
    <3>. QED BY <1>1, <2>1, <3>1 DEF Counted, CoveredOK, ActRec
  <2>. QED BY <2>3, <2>4
<1>2. Counted => (TTLSafe => ExportedRowsExist)
  BY <1>1 DEF ExportedRowsExist
<1>. QED BY <1>2, AlwaysCounted, PTL

-----------------------------------------------------------------------------
(* A day that is over: whole or gone, and marked only when S3 has it.      *)

LEMMA Ages ==
  ASSUME TypeOK, [Next]_vars PROVE age \in Nat /\ age' \in Nat /\ (age' = age \/ age' > 0)
<1>1. age \in Nat /\ MaxAge \in Nat
  BY ArchiveAssumption DEF TypeOK
<1>2. CASE age' = age
  BY <1>1, <1>2
<1>3. CASE age' = age + 1
  BY <1>1, <1>3
<1>4. age' = age \/ age' = age + 1
  <2>1. CASE (\E r \in Rows : Arrive(r)) \/ NextDay \/ Expire \/ (\E i \in ISPs : DeleteISP(i))
    <3>1. CASE NextDay
      BY <3>1, Zenon DEF NextDay
    <3>. QED BY <2>1, <3>1 DEF Arrive, Expire, DeleteISP
  <2>2. CASE (\E s \in Configs : PutSettings(s)) \/ Apply \/ Crash \/ UNCHANGED vars
    BY <2>2 DEF PutSettings, Apply, Crash, vars
  <2>3. CASE SweepBegin \/ SweepCheck \/ Compare \/ DropDay \/ ManualBegin
    BY <2>3 DEF SweepBegin, SweepCheck, Compare, DropDay, ManualBegin, store
  <2>4. ASSUME NEW a, ActorStep(a) PROVE age' = age
    BY <2>4 DEF ActorStep, Count, Stat, Insert, ExportsDone, MarkDayArchived, store
  <2>5. CASE SearchStep
    BY <2>5 DEF SearchStep, SearchBegin, SearchDays, SearchHot, SearchCold, Search, base
  <2>. QED BY <2>1, <2>2, <2>3, <2>4, <2>5 DEF Next, SweepStep
<1>. QED BY <1>2, <1>3, <1>4

LEMMA Windows ==
  ASSUME TypeOK PROVE HotWindow \in Nat /\ HotWindow >= 1 /\ ttl \in Nat /\ ttl >= 1
<1>1. settings.after \in Nat /\ DefaultAfter \in Nat \ {0}
  BY Lifetime, ArchiveAssumption DEF TypeOK
<1>2. ttl \in Nat /\ ttl >= 1
  BY DEF TypeOK
<1>. QED BY <1>1, <1>2 DEF HotWindow

\* On the day itself nothing happens to it but that rows arrive.
LEMMA IdleDay ==
  ASSUME InOrder, DayInv, age = 0, [Next]_vars
  PROVE  \A b \in Actors : act[b].pc = "idle" /\ act'[b].pc = "idle"
<1>1. TypeOK /\ \A a \in Actors : act[a].pc = "idle" /\ PlaceOK(a) /\ TotalOK(a)
  BY DEF DayInv, WholeOrGone, Counted
<1>2. ~Eligible
  BY <1>1, Windows DEF Eligible
<1>3. Calm \/ Restart \/ \E a \in Actors : Turn(a) /\ Effect(a)
  BY <1>1, Steps
<1>4. ASSUME NEW b \in Actors PROVE act'[b].pc = "idle"
  <2>1. Change(b)
    BY <1>1, <1>3, Changes
  <2>2. ~Kind(b, act'[b])
    BY <1>1, <1>2 DEF Kind, Began, Moved, Advance, Skipped, Taken, Summed, GaveUp, Working, InOrder, Actors
  <2>. QED BY <1>1, <2>1, <2>2, RestRec DEF Change
<1>. QED BY <1>1, <1>4

LEMMA FirstDay ==
  ASSUME InOrder, DayInv, age = 0, [Next]_vars, Counted'
  PROVE  DayInv'
<1>1. /\ Counted /\ TypeOK /\ hot = arrived /\ marked = FALSE /\ expired = {}
      /\ \A a \in Actors : act[a].pc = "idle" /\ PlaceOK(a) /\ TotalOK(a)
  BY DEF DayInv, WholeOrGone, Counted, TypeOK
<1>3. Calm \/ Restart \/ \E a \in Actors : Turn(a) /\ Effect(a)
  BY <1>1, Steps
<1>4. \A b \in Actors : act'[b].pc = "idle"
  BY IdleDay
<1>5. hot' = arrived' /\ ~marked' /\ expired' = {}
  <2>1. CASE Kept
    BY <1>1, <2>1 DEF Kept
  <2>2. CASE \E r \in Rows : Arrive(r)
    BY <1>1, <2>2 DEF Arrive
  <2>3. ~Expire
    BY <1>1, Windows DEF Expire
  <2>4. CASE \E i \in ISPs : Put(i)
    BY <1>1, <2>4 DEF Put
  <2>5. ASSUME NEW a \in Actors PROVE ~MayMark(a) /\ ~MayDrop
    BY <1>1 DEF MayMark, MayDrop, Actors
  <2>. QED BY <1>3, <2>1, <2>2, <2>3, <2>4, <2>5 DEF Calm, Restart, Effect
<1>6. WholeOrGone'
  BY <1>4, <1>5 DEF WholeOrGone
<1>7. MarkWhole'
  BY <1>4, <1>5 DEF MarkWhole, MarkedMeansWhole, TenantsWhole, CountIsWhole, Working, Actors
<1>. QED BY <1>6, <1>7 DEF DayInv

Saved == hot = arrived \/ arrived \subseteq Archived \cup expired

LEMMA CountWholeStep ==
  ASSUME TypeOK, NEW b \in Actors, PlaceOK(b), CountIsWhole(b), Change(b), arrived' = arrived,
         hot # {} => hot = arrived
  PROVE  CountIsWhole(b)'
<1>1. CASE Mild(b)
  BY <1>1 DEF Mild, CountIsWhole, RowsOf
<1>2. CASE Summed(b, act'[b])
  BY <1>2 DEF Summed, CountIsWhole, Working
<1>. QED BY <1>1, <1>2, MildOrSummed

LEMMA TenantsStep ==
  ASSUME TypeOK, NEW b \in Actors, PlaceOK(b), CountIsWhole(b), TenantsWhole(b), Change(b), Grow, Saved,
         Archived \subseteq arrived, arrived' = arrived,
         Began(b, act'[b]) => \A r \in hot : Isp[r] \in isps
  PROVE  TenantsWhole(b)'
<1>1. /\ act[b] \in ActRec /\ act[b].todo \subseteq ISPs /\ NoIsp \notin ISPs /\ Isp \in [Rows -> ISPs]
      /\ arrived \subseteq Rows /\ expired \subseteq expired' /\ Archived \subseteq Archived'
  BY ActTyped, ArchiveAssumption DEF ActType, ActRec, TypeOK, Grow
<1>2. \A r \in Rows : Isp[r] \in ISPs /\ Isp[r] # NoIsp
  BY <1>1
<1>3. ASSUME TenantsWhole(b), act[b].pc \in {"check", "count", "stat", "insert", "compare", "mark"}, ~act[b].failed
      PROVE  \A r \in arrived : r \in Behind(b) => r \in Archived \cup expired
  BY <1>3 DEF TenantsWhole
<1>4. CASE act'[b] = act[b]
  <2>1. Behind(b)' = Behind(b)
    BY <1>4 DEF Behind
  <2>. QED BY <1>1, <1>4, <2>1 DEF TenantsWhole
<1>5. CASE act'[b] = Rest
  BY <1>5, RestRec DEF TenantsWhole
<1>6. CASE Began(b, act'[b])
  <2>1. \A r \in Rows : r \in Behind(b)' => Isp[r] \notin isps
    BY <1>6 DEF Began, Behind
  <2>2. arrived \cap Behind(b)' \subseteq Archived \cup expired
    BY <1>1, <1>6, <2>1 DEF Saved
  <2>. QED BY <1>1, <2>2 DEF TenantsWhole
<1>7. CASE Moved(b, act'[b])
  <2>1. Behind(b)' = Behind(b)
    BY <1>7 DEF Behind, Moved
  <2>2. act'[b].failed = act[b].failed
    BY <1>7 DEF Moved
  <2>3. act[b].pc \in {"check", "count", "stat", "insert", "compare", "mark"}
    BY <1>7 DEF Moved, Advance
  <2>. QED BY <1>1, <2>1, <2>2, <2>3 DEF TenantsWhole
<1>8. CASE Skipped(b, act'[b])
  <2>1. PICK i \in act[b].todo : act'[b].todo = act[b].todo \ {i} /\ hot \cap RowsOf(i) = {}
    BY <1>8 DEF Skipped
  <2>2. act[b].pc = "count" /\ act'[b].isp = act[b].isp /\ act'[b].failed = act[b].failed
    BY <1>8 DEF Skipped
  <2>3. \A r \in Rows : r \in Behind(b)' => r \in Behind(b) \/ r \in RowsOf(i)
    BY <2>1, <2>2 DEF Behind, RowsOf
  <2>4. ASSUME ~act'[b].failed PROVE arrived \cap Behind(b)' \subseteq Archived \cup expired
    BY <1>1, <1>3, <2>1, <2>2, <2>3, <2>4 DEF Saved
  <2>. QED BY <1>1, <2>4 DEF TenantsWhole
<1>9. CASE Taken(b, act'[b])
  <2>1. act[b].pc = "count" /\ act'[b].failed = act[b].failed
    BY <1>9 DEF Taken
  <2>2. Behind(b)' \subseteq Behind(b)
    BY <1>2, <1>9, <2>1 DEF Taken, Behind, PlaceOK, Working
  <2>. QED BY <1>1, <2>1, <2>2 DEF TenantsWhole
<1>10. CASE Summed(b, act'[b])
  <2>0. PICK i : i = act[b].isp
    OBVIOUS
  <2>1. act[b].pc \in Working /\ act'[b].failed = act[b].failed /\ i \in ISPs
    BY <1>10, <2>0 DEF Summed, PlaceOK
  <2>2. \A r \in Rows : r \in Behind(b)' => r \in Behind(b) \/ r \in RowsOf(i)
    BY <1>10, <2>0 DEF Summed, Behind, RowsOf
  <2>3. arrived \cap RowsOf(i) \subseteq Archived' \cup expired'
    <3>1. CASE obj' = obj /\ Cardinality(obj[i]) = act[b].cu
      <4>0. PICK A, B : A = obj[i] /\ B = arrived \cap RowsOf(i)
        OBVIOUS
      <4>1. A \subseteq B /\ B \subseteq Rows
        BY <1>1, <2>1, <4>0, Owners
      <4>2. Cardinality(A) = Cardinality(B)
        BY <2>0, <2>1, <3>1, <4>0 DEF CountIsWhole
      <4>3. A = B
        BY <4>1, <4>2, RowsEqual, RowSets
      <4>. QED BY <1>1, <2>1, <4>0, <4>3, Owners
    <3>2. CASE obj'[i] = hot \cap RowsOf(i)
      <4>1. obj'[i] \subseteq Archived'
        BY <2>1 DEF Archived
      <4>. QED BY <1>1, <3>2, <4>1 DEF Saved
    <3>. QED BY <1>10, <2>0, <3>1, <3>2 DEF Summed
  <2>4. ASSUME ~act'[b].failed PROVE arrived \cap Behind(b)' \subseteq Archived' \cup expired'
    <3>1. \A r \in arrived : r \in Behind(b) => r \in Archived \cup expired
      BY <1>3, <2>1, <2>4 DEF Working
    <3>. QED BY <1>1, <2>2, <2>3, <3>1
  <2>. QED BY <2>4 DEF TenantsWhole
<1>11. CASE GaveUp(b, act'[b])
  BY <1>11 DEF GaveUp, TenantsWhole
<1>. QED BY <1>4, <1>5, <1>6, <1>7, <1>8, <1>9, <1>10, <1>11 DEF Change, Kind

\* Afterwards the rows of the day are what they are.
LEMMA Later ==
  ASSUME InOrder, DayInv, age # 0, [Next]_vars, Calm \/ Restart \/ \E a \in Actors : Turn(a) /\ Effect(a)
  PROVE  /\ arrived' = arrived /\ (marked => marked') /\ age' # 0
         /\ marked' /\ ~marked => \E a \in Actors : act[a].pc = "mark"
<1>1. TypeOK
  BY DEF DayInv, Counted
<1>2. age' # 0
  BY <1>1, Ages
<1>3. \A r \in Rows : ~Arrive(r)
  BY DEF Arrive, InOrder
<1>4. CASE Kept
  BY <1>2, <1>4 DEF Kept
<1>5. CASE Expire
  BY <1>2, <1>5 DEF Expire
<1>6. CASE \E i \in ISPs : Put(i)
  BY <1>2, <1>6 DEF Put
<1>7. ASSUME NEW a \in Actors, MayMark(a)
      PROVE  arrived' = arrived /\ (marked => marked') /\ (marked' /\ ~marked => \E c \in Actors : act[c].pc = "mark")
  <2>1. arrived' = arrived /\ act[a].pc = "mark" /\ (marked' = marked \/ marked' = TRUE)
    BY <1>7 DEF MayMark
  <2>2. CASE marked' = marked
    BY <1>1, <2>1, <2>2 DEF TypeOK
  <2>3. CASE marked' = TRUE
    BY <1>1, <2>1, <2>3 DEF TypeOK
  <2>. QED BY <2>1, <2>2, <2>3
<1>8. CASE MayDrop
  BY <1>2, <1>8 DEF MayDrop
<1>. QED BY <1>2, <1>3, <1>4, <1>5, <1>6, <1>7, <1>8 DEF Calm, Restart, Effect

LEMMA LaterStep ==
  ASSUME InOrder, DayInv, age # 0, [Next]_vars, Counted' PROVE DayInv'
<1>1. /\ Counted /\ TypeOK /\ Archived \subseteq arrived /\ CoveredOK
      /\ \A a \in Actors : PlaceOK(a) /\ TotalOK(a) /\ CountIsWhole(a)
      /\ MarkedMeansWhole /\ TenantsWhole("manual")
      /\ act["sweep"].pc = "mark" => arrived \ expired \subseteq Archived
      /\ act["sweep"].pc = "drop" => marked
      /\ hot = arrived \/ (hot = {} /\ (arrived \subseteq expired \/ marked))
  BY DEF DayInv, WholeOrGone, MarkWhole, Counted
<1>2. Calm \/ Restart \/ \E a \in Actors : Turn(a) /\ Effect(a)
  BY <1>1, Steps
<1>3. /\ arrived' = arrived /\ (marked => marked') /\ age' # 0
      /\ marked' /\ ~marked => \E a \in Actors : act[a].pc = "mark"
  BY <1>2, Later
<1>4. Grow /\ "sweep" \in Actors /\ "manual" \in Actors
  BY <1>1, <1>2, Grows DEF Actors
<1>5. Saved /\ (hot # {} => hot = arrived)
  BY <1>1 DEF Saved, MarkedMeansWhole
<1>6. hot' = arrived' \/ (hot' = {} /\ (arrived' \subseteq expired' \/ marked'))
  <2>1. CASE hot' = hot
    BY <1>1, <1>3, <1>4, <2>1 DEF Grow
  <2>2. CASE Expire
    BY <1>3, <1>5, <2>2 DEF Expire
  <2>3. CASE MayDrop
    BY <1>1, <1>3, <2>1, <2>3 DEF MayDrop
  <2>4. hot' = hot \/ Expire \/ MayDrop
    <3>1. \A r \in Rows : ~Arrive(r)
      BY DEF Arrive, InOrder
    <3>. QED BY <1>2, <3>1 DEF Calm, Restart, Effect, Kept, Put, MayMark
  <2>. QED BY <2>1, <2>2, <2>3, <2>4
<1>7. WholeOrGone'
  BY <1>3, <1>6 DEF WholeOrGone
<1>8. \A b \in Actors : Change(b)
  BY <1>1, <1>2, Changes
<1>9. \A b \in Actors : CountIsWhole(b)'
  BY <1>1, <1>3, <1>5, <1>8, CountWholeStep
<1>10. TenantsWhole("manual")'
  <2>1. Began("manual", act'["manual"]) => \A r \in hot : Isp[r] \in isps
    BY DEF Began, InOrder
  <2>. QED BY <1>1, <1>3, <1>4, <1>5, <1>8, <2>1, TenantsStep
<1>11. ASSUME NEW a \in Actors, act[a].pc = "mark" PROVE arrived \ expired \subseteq Archived
  <2>1. CASE a = "sweep"
    BY <1>1, <1>11, <2>1
  <2>2. CASE a = "manual"
    <3>1. act[a].todo = {} /\ ~act[a].failed /\ act[a].isp = NoIsp
      BY <1>1, <1>11 DEF PlaceOK, Working
    <3>2. \A r \in Rows : r \in Behind(a)
      BY <3>1, ArchiveAssumption DEF Behind
    <3>. QED BY <1>1, <1>11, <2>2, <3>1, <3>2 DEF TenantsWhole, TypeOK
  <2>. QED BY <2>1, <2>2 DEF Actors
<1>12. MarkedMeansWhole'
  <2>1. marked' => arrived \ expired \subseteq Archived
    BY <1>1, <1>3, <1>11 DEF MarkedMeansWhole
  <2>. QED BY <1>3, <1>4, <2>1 DEF MarkedMeansWhole, Grow
<1>13. ASSUME act'["sweep"].pc = "mark" PROVE arrived' \ expired' \subseteq Archived'
  <2>1. arrived \ expired \subseteq Archived
    <3>1. CASE act["sweep"].pc = "mark"
      BY <1>1, <3>1
    <3>2. CASE act["sweep"].pc # "mark"
      <4>1. act["sweep"].pc = "compare" /\ Cardinality(hot) = act["sweep"].total
        BY <1>4, <1>8, <1>13, <3>2, RestRec
           DEF Change, Kind, Began, Moved, Advance, Skipped, Taken, Summed, GaveUp
      <4>2. CASE hot = arrived
        <5>0. PICK A : A = (Archived \cup expired) \cap Behind("sweep")
          OBVIOUS
        <5>1. A \subseteq arrived /\ arrived \subseteq Rows
          BY <1>1, <5>0 DEF TypeOK
        <5>2. Cardinality(A) >= Cardinality(arrived)
          BY <1>1, <4>1, <4>2, <5>0, <5>1, RowSets DEF CoveredOK
        <5>3. A = arrived
          BY <5>1, <5>2, RowsEqual
        <5>. QED BY <5>0, <5>3
      <4>. QED BY <1>5, <4>2 DEF Saved
    <3>. QED BY <3>1, <3>2
  <2>. QED BY <1>3, <1>4, <2>1 DEF Grow
<1>14. ASSUME act'["sweep"].pc = "drop" PROVE marked'
  <2>1. CASE act["sweep"].pc = "drop"
    BY <1>1, <1>3, <2>1
  <2>2. CASE act["sweep"].pc # "drop"
    BY <1>3, <1>4, <1>8, <1>14, <2>2, RestRec
       DEF Change, Kind, Began, Moved, Advance, Skipped, Taken, Summed, GaveUp
  <2>. QED BY <2>1, <2>2
<1>15. MarkWhole'
  BY <1>9, <1>10, <1>12, <1>13, <1>14 DEF MarkWhole, Actors
<1>. QED BY <1>7, <1>15 DEF DayInv

\* In a world where rows arrive on their day and nobody archives it early, the day is
\* whole or gone and its marker is true.
THEOREM AlwaysWhole == ASSUME InOrder PROVE Spec => []DayInv
<1>1. Init => DayInv
  <2>1. ASSUME Init PROVE DayInv
    <3>1. Counted
      BY <2>1, CountedInit
    <3>2. \A a \in Actors : act[a].pc = "idle"
      BY <2>1, RestRec DEF Init
    <3>3. WholeOrGone
      BY <2>1, <3>2 DEF Init, WholeOrGone
    <3>4. MarkWhole
      BY <2>1, <3>2 DEF Init, MarkWhole, MarkedMeansWhole, TenantsWhole, CountIsWhole, Working, Actors
    <3>. QED BY <3>1, <3>3, <3>4 DEF DayInv
  <2>. QED BY <2>1
<1>2. DayInv /\ [Next]_vars => DayInv'
  <2>1. ASSUME DayInv, [Next]_vars PROVE DayInv'
    <3>1. Counted'
      BY <2>1, CountedStep DEF DayInv
    <3>. QED BY <2>1, <3>1, FirstDay, LaterStep
  <2>. QED BY <2>1
<1>. QED BY <1>1, <1>2, PTL DEF Spec

\* No row leaves hot storage before S3 holds it and the day is marked, and a marked day
\* is whole: for any rows, tenants, deletions of tenants and TTLs, and any number of
\* failures and crashes.
THEOREM DayStaysSound == InOrder => (Spec => []DaySound)
<1>. SUFFICES ASSUME InOrder PROVE Spec => []DaySound
  OBVIOUS
<1>1. ASSUME DayInv PROVE DaySound
  <2>1. TypeOK /\ MarkedMeansWhole
    BY <1>1 DEF DayInv, Counted, MarkWhole
  <2>2. hot = arrived \/ arrived \subseteq expired \/ marked
    BY <1>1 DEF DayInv, WholeOrGone
  <2>3. NothingLost
    BY <2>1, <2>2 DEF NothingLost, MarkedMeansWhole
  <2>. QED BY <2>1, <2>3 DEF DaySound
<1>2. DayInv => DaySound
  BY <1>1
<1>3. Spec => []DayInv
  BY AlwaysWhole
<1>. QED BY <1>2, <1>3, PTL

-----------------------------------------------------------------------------
(* A search beside the drop.                                               *)

LEMMA Beside ==
  ASSUME TypeOK, [Next]_vars
  PROVE  \/ SearchStep
         \/ srch' = NoSearch
         \/ srch' = srch /\ hot \subseteq hot' /\ expired' = expired
         \/ srch' = [srch EXCEPT !.quiet = FALSE] /\ hot' \subseteq hot
<1>1. CASE \E r \in Rows : Arrive(r)
  BY <1>1 DEF Arrive
<1>2. CASE NextDay \/ (\E i \in ISPs : DeleteISP(i)) \/ (\E s \in Configs : PutSettings(s)) \/ Apply
  <2>1. srch' = srch /\ hot' = hot /\ expired' = expired
    BY <1>2 DEF NextDay, DeleteISP, PutSettings, Apply
  <2>. QED BY <2>1
<1>3. CASE Expire
  BY <1>3 DEF Expire
<1>4. CASE SweepBegin \/ SweepCheck \/ Compare \/ ManualBegin
  BY <1>4 DEF SweepBegin, SweepCheck, Compare, ManualBegin, store
<1>5. ASSUME NEW a, ActorStep(a) PROVE srch' = srch /\ hot' = hot /\ expired' = expired
  BY <1>5 DEF ActorStep, Count, Stat, Insert, ExportsDone, MarkDayArchived, store
<1>6. CASE DropDay
  BY <1>6 DEF DropDay
<1>7. CASE Crash
  BY <1>7 DEF Crash
<1>8. CASE UNCHANGED vars
  BY <1>8 DEF vars
<1>. QED BY <1>1, <1>2, <1>3, <1>4, <1>5, <1>6, <1>7, <1>8 DEF Next, SweepStep

LEMMA SearchStepOK ==
  ASSUME InOrder, DayInv, SearchOK, [Next]_vars PROVE SearchOK'
<1>1. /\ Counted /\ TypeOK /\ MarkedMeansWhole /\ srch \in SearchRec
      /\ \A a \in Actors : PlaceOK(a) /\ TotalOK(a)
      /\ hot = arrived \/ (hot = {} /\ (arrived \subseteq expired \/ marked))
      /\ age = 0 => ~marked
  BY DEF DayInv, WholeOrGone, MarkWhole, Counted, TypeOK, SearchRec
<1>2. Calm \/ Restart \/ \E a \in Actors : Turn(a) /\ Effect(a)
  BY <1>1, Steps
<1>3. /\ marked => marked'
      /\ arrived \subseteq arrived' /\ (marked => hot' \subseteq hot)
  <2>1. CASE age = 0
    BY <1>1, <1>2, <2>1, Grows DEF Grow
  <2>2. CASE age # 0
    <3>1. arrived' = arrived /\ (marked => marked')
      BY <1>2, <2>2, Later
    <3>2. hot' \subseteq hot
      <4>1. \A r \in Rows : ~Arrive(r)
        BY <2>2 DEF Arrive, InOrder
      <4>. QED BY <1>2, <4>1 DEF Calm, Restart, Effect, Kept, Put, MayMark, MayDrop, Expire
    <3>. QED BY <3>1, <3>2
  <2>. QED BY <2>1, <2>2
<1>4. CASE srch' = NoSearch
  BY <1>4 DEF SearchOK, NoSearch, Reading
<1>5. CASE srch' = srch /\ hot \subseteq hot' /\ expired' = expired
  <2>. SUFFICES ASSUME srch.pc \in Reading, ~srch.err PROVE SearchOK'
    BY <1>5 DEF SearchOK
  <2>1. /\ srch.quiet => srch.need \subseteq arrived' \ expired'
        /\ srch.saw => marked'
    BY <1>3, <1>5 DEF SearchOK
  <2>2. /\ srch.pc = "days" => ~srch.cold /\ (~srch.saw /\ srch.quiet => srch.need \subseteq hot')
        /\ srch.pc = "hot" /\ ~srch.cold /\ srch.quiet => srch.need \subseteq hot'
    BY <1>5 DEF SearchOK
  <2>3. srch.cold => srch.saw /\ hot' \cap srch.scope = {} /\ srch.hot = {}
    BY <1>3 DEF SearchOK
  <2>. QED BY <1>5, <2>1, <2>2, <2>3 DEF SearchOK
<1>6. CASE srch' = [srch EXCEPT !.quiet = FALSE] /\ hot' \subseteq hot
  <2>. SUFFICES ASSUME srch.pc \in Reading, ~srch.err PROVE SearchOK'
    BY <1>1, <1>6, Disturbed DEF SearchOK, SearchType, SearchRec
  <2>1. /\ srch'.pc = srch.pc /\ srch'.scope = srch.scope /\ srch'.need = srch.need
        /\ srch'.saw = srch.saw /\ srch'.cold = srch.cold /\ srch'.hot = srch.hot /\ srch'.s3 = srch.s3
        /\ srch'.quiet = FALSE
    BY <1>1, <1>6, Disturbed DEF SearchType, SearchRec
  <2>2. /\ srch.saw => marked'
        /\ srch.cold => srch.saw /\ hot' \cap srch.scope = {} /\ srch.hot = {}
    BY <1>3, <1>6 DEF SearchOK
  <2>. QED BY <2>1, <2>2 DEF SearchOK
<1>7. CASE SearchStep
  <2>0. arrived' = arrived /\ hot' = hot /\ expired' = expired /\ marked' = marked
    BY <1>1, <1>7, SearchKinds DEF base
  <2>1. CASE Opened
    <3>1. ~marked => arrived \ expired \subseteq hot
      BY <1>1
    <3>. QED BY <1>1, <2>0, <2>1, <3>1 DEF Opened, SearchOK
  <2>2. CASE Looked
    <3>. SUFFICES ASSUME srch'.err # TRUE PROVE SearchOK'
      BY DEF SearchOK
    <3>1. ~srch.err /\ srch.pc = "days" /\ srch'.pc = "hot" /\ (srch'.cold <=> srch.saw /\ hot \cap srch.scope = {})
      BY <2>2 DEF Looked
    <3>2. /\ srch.need \subseteq srch.scope /\ (srch.quiet => srch.need \subseteq arrived \ expired)
          /\ srch.saw => marked
          /\ srch.hot = {} /\ srch.s3 = {} /\ (~srch.saw /\ srch.quiet => srch.need \subseteq hot)
      BY <3>1 DEF SearchOK, Reading
    <3>3. ~srch'.cold /\ srch.quiet => srch.need \subseteq hot
      BY <1>1, <3>1, <3>2
    <3>. QED BY <2>0, <2>2, <3>1, <3>2, <3>3 DEF Looked, SearchOK
  <2>3. CASE ReadHot
    <3>. SUFFICES ASSUME ~srch'.err PROVE SearchOK'
      BY DEF SearchOK
    <3>1. srch.pc = "hot" /\ ~srch.err
      BY <2>3 DEF ReadHot
    <3>2. /\ srch.need \subseteq srch.scope /\ (srch.quiet => srch.need \subseteq arrived \ expired)
          /\ srch.saw => marked
          /\ srch.s3 = {}
          /\ srch.cold => srch.saw /\ hot \cap srch.scope = {}
          /\ ~srch.cold /\ srch.quiet => srch.need \subseteq hot
      BY <3>1 DEF SearchOK, Reading
    <3>3. CASE srch.cold
      BY <2>0, <2>3, <3>2, <3>3 DEF ReadHot, SearchOK
    <3>4. CASE ~srch.cold
      BY <2>0, <2>3, <3>2, <3>4 DEF ReadHot, SearchOK
    <3>. QED BY <3>3, <3>4
  <2>4. CASE ReadCold
    <3>. SUFFICES ASSUME ~srch'.err PROVE SearchOK'
      BY DEF SearchOK
    <3>1. srch.pc = "cold" /\ ~srch.err
      BY <2>4 DEF ReadCold
    <3>2. /\ srch.need \subseteq srch.scope /\ (srch.quiet => srch.need \subseteq arrived \ expired)
          /\ srch.saw => marked
          /\ srch.cold /\ srch.saw /\ hot \cap srch.scope = {} /\ srch.hot = {}
      BY <3>1 DEF SearchOK, Reading
    <3>3. srch.quiet => srch.need \subseteq Archived \cap srch.scope
      BY <1>1, <3>2 DEF MarkedMeansWhole
    <3>. QED BY <2>0, <2>4, <3>2, <3>3 DEF ReadCold, SearchOK
  <2>. QED BY <1>1, <1>4, <1>7, <2>1, <2>2, <2>3, <2>4, SearchKinds
<1>. QED BY <1>1, <1>4, <1>5, <1>6, <1>7, Beside

\* A search that no error reached returns every record of its scope, whichever side of
\* the drop it reads hot and cold storage on, and none of them twice.
THEOREM SearchStaysExact == InOrder => (Spec => []SearchExact)
<1>. SUFFICES ASSUME InOrder PROVE Spec => []SearchExact
  OBVIOUS
<1>1. Init => SearchOK
  BY DEF Init, SearchOK, NoSearch, Reading
<1>2. DayInv /\ SearchOK /\ [Next]_vars => SearchOK'
  BY SearchStepOK
<1>3. ASSUME SearchOK PROVE SearchExact
  <2>1. CASE srch.pc = "done" /\ ~srch.err
    BY <1>3, <2>1 DEF SearchOK, SearchExact, NoDuplicates, SearchFinds, Reading
  <2>. QED BY <2>1 DEF SearchExact, NoDuplicates, SearchFinds
<1>4. SearchOK => SearchExact
  BY <1>3
<1>5. Spec => []DayInv
  BY AlwaysWhole
<1>. QED BY <1>1, <1>2, <1>4, <1>5, PTL DEF Spec

-----------------------------------------------------------------------------
(* The TTL behind the daily sweep.                                         *)

\* What ends a sweep without a failure.
LEMMA SweptBy ==
  ASSUME TypeOK, [Next]_vars, swept'
  PROVE  \/ swept
         \/ hot' = {} /\ act["sweep"].pc = "drop"
         \/ /\ act["sweep"].pc = "count" /\ act["sweep"].todo = {} /\ hot' = hot
<1>0. act["sweep"] \in ActRec
  BY ActTyped DEF ActType, Actors
<1>1. CASE SweepStep
  <2>1. CASE SweepBegin
    BY <2>1, RestRec DEF SweepBegin, Become
  <2>2. CASE SweepCheck \/ Compare \/ Stat("sweep") \/ Insert("sweep") \/ MarkDayArchived("sweep")
    <3>1. act["sweep"].pc \notin {"count", "drop"}
      BY <2>2 DEF SweepCheck, Compare, Stat, Insert, MarkDayArchived
    <3>2. \E rec : Become("sweep", rec)
      BY <2>2 DEF SweepCheck, Compare, Stat, Insert, MarkDayArchived, ExportFails, Exported, Goto
    <3>. QED BY <3>1, <3>2 DEF Become
  <2>3. CASE Count("sweep")
    <3>0. act["sweep"].pc = "count"
      BY <2>3 DEF Count
    <3>1. ASSUME NEW i \in act["sweep"].todo, NEW cu, NEW todo,
                 Become("sweep", IF cu = 0 THEN [act["sweep"] EXCEPT !.todo = todo]
                                 ELSE [act["sweep"] EXCEPT !.pc = "stat", !.todo = todo, !.isp = i, !.cu = cu])
          PROVE  swept
      <4>1. /\ [act["sweep"] EXCEPT !.todo = todo].pc = "count"
            /\ [act["sweep"] EXCEPT !.pc = "stat", !.todo = todo, !.isp = i, !.cu = cu].pc = "stat"
        BY <1>0, <3>0 DEF ActRec
      <4>2. /\ [act["sweep"] EXCEPT !.todo = todo] # Rest
            /\ [act["sweep"] EXCEPT !.pc = "stat", !.todo = todo, !.isp = i, !.cu = cu] # Rest
        BY <4>1, RestRec
      <4>. QED BY <3>1, <4>2 DEF Become
    <3>2. ASSUME NEW todo, Fault, ExportFails("sweep", todo) PROVE swept
      <4>1. faults' # faults
        BY <3>2 DEF Fault, TypeOK
      <4>. QED BY <3>2, <4>1 DEF ExportFails, Become
    <3>. QED BY <2>3, <3>1, <3>2 DEF Count
  <2>4. CASE ExportsDone("sweep")
    BY <2>4 DEF ExportsDone, store
  <2>5. CASE DropDay
    <3>1. CASE hot' = {}
      BY <2>5, <3>1 DEF DropDay
    <3>2. CASE Fault
      <4>1. faults' # faults
        BY <3>2 DEF Fault, TypeOK
      <4>. QED BY <2>5, <4>1 DEF DropDay, Become
    <3>. QED BY <2>5, <3>1, <3>2 DEF DropDay
  <2>. QED BY <1>1, <2>1, <2>2, <2>3, <2>4, <2>5 DEF SweepStep, ActorStep
<1>2. CASE ManualBegin \/ ActorStep("manual")
  <2>1. \E rec : Become("manual", rec)
    BY <1>2 DEF ManualBegin, ActorStep, Count, Stat, Insert, ExportsDone, MarkDayArchived, ExportFails, Exported, Goto
  <2>. QED BY <2>1 DEF Become
<1>3. CASE SearchStep
  BY <1>3, SearchKinds DEF base
<1>4. CASE NextDay
  BY <1>4 DEF NextDay
<1>5. CASE (\E r \in Rows : Arrive(r)) \/ Expire \/ (\E i \in ISPs : DeleteISP(i))
           \/ (\E s \in Configs : PutSettings(s)) \/ Apply \/ Crash \/ UNCHANGED vars
  BY <1>5 DEF Arrive, Expire, DeleteISP, PutSettings, Apply, Crash, vars
<1>. QED BY <1>1, <1>2, <1>3, <1>4, <1>5 DEF Next

\* What does not touch the TTL, the tenants or the rows the TTL took.
LEMMA SlowVars ==
  ASSUME TypeOK, AllOwned, [Next]_vars
  PROVE  /\ isps' = isps
         /\ ttl' = ttl \/ \E s \in Configs : ttl' = EffectiveTTL(s)
         /\ expired' = expired \/ Expire
         /\ age' = age \/ NextDay
<1>1. ASSUME NEW a, ActorStep(a) PROVE isps' = isps /\ ttl' = ttl /\ expired' = expired /\ age' = age
  BY <1>1 DEF ActorStep, Count, Stat, Insert, ExportsDone, MarkDayArchived, store, ttlVars
<1>2. CASE SweepBegin \/ SweepCheck \/ Compare \/ DropDay \/ ManualBegin
  BY <1>2 DEF SweepBegin, SweepCheck, Compare, DropDay, ManualBegin, store, ttlVars
<1>3. CASE SearchStep
  BY <1>3, SearchKinds DEF base, ttlVars
<1>4. CASE NextDay
  BY <1>4, Zenon DEF NextDay, ttlVars
<1>5. CASE (\E r \in Rows : Arrive(r)) \/ Expire
  BY <1>5 DEF Arrive, Expire, ttlVars
<1>6. CASE \E i \in ISPs : DeleteISP(i)
  BY <1>6 DEF DeleteISP, AllOwned
<1>7. CASE \E s \in Configs : PutSettings(s)
  BY <1>7 DEF PutSettings
<1>8. CASE Apply \/ Crash
  BY <1>8 DEF Apply, Crash, TypeOK
<1>9. CASE UNCHANGED vars
  BY <1>9 DEF vars, ttlVars
<1>. QED BY <1>1, <1>2, <1>3, <1>4, <1>5, <1>6, <1>7, <1>8, <1>9 DEF Next, SweepStep

LEMMA LifetimesStep ==
  ASSUME InOrder, AllOwned, Margin, SweepDaily, TTLInv, [Next]_vars PROVE Lifetimes'
<1>1. /\ DayInv /\ Counted /\ TypeOK /\ Archived \subseteq arrived
      /\ \A a \in Actors : PlaceOK(a) /\ TotalOK(a) /\ CountIsWhole(a)
      /\ "sweep" \in Actors
  BY DEF TTLInv, DayInv, MarkWhole, Counted, Actors
<1>2. /\ isps = Registered /\ (\E s \in Configs : ttl = EffectiveTTL(s))
      /\ TenantsWhole("sweep") /\ ~act["sweep"].failed
      /\ swept => age # 0 /\ hot \subseteq Archived
      /\ (\A t \in Configs : age >= Window(t) + 2) => hot \subseteq Archived
      /\ expired \subseteq Archived
  BY DEF TTLInv, Lifetimes, TTLSafe
<1>3. Calm \/ Restart \/ \E a \in Actors : Turn(a) /\ Effect(a)
  BY <1>1, Steps
<1>4. Grow /\ Change("sweep")
  BY <1>1, <1>3, Grows, Changes
<1>5. /\ isps' = isps /\ (ttl' = ttl \/ \E s \in Configs : ttl' = EffectiveTTL(s))
      /\ expired' = expired \/ Expire
      /\ age' = age \/ NextDay
  BY <1>1, SlowVars
<1>6. Archived \subseteq Archived' /\ age \in Nat /\ (age # 0 => hot' \subseteq hot /\ arrived' = arrived)
  <2>1. ASSUME age # 0 PROVE hot' \subseteq hot
    <3>1. \A r \in Rows : ~Arrive(r)
      BY <2>1 DEF Arrive, InOrder
    <3>. QED BY <1>3, <3>1 DEF Calm, Restart, Effect, Kept, Put, MayMark, MayDrop, Expire
  <2>. QED BY <1>1, <1>3, <1>4, <2>1, Later, Ages DEF Grow
<1>7. ~act'["sweep"].failed
  BY <1>2, <1>4, RestRec DEF Change, Kind, Began, Moved, Skipped, Taken, Summed, GaveUp
<1>8. TenantsWhole("sweep")'
  <2>1. CASE age = 0
    BY <1>1, <2>1, IdleDay DEF TenantsWhole
  <2>2. CASE age # 0
    <3>1. \A r \in hot : Isp[r] \in isps
      BY <1>1, <1>2 DEF AllOwned, TypeOK
    <3>2. Saved
      BY <1>1 DEF Saved, DayInv, WholeOrGone, MarkWhole, MarkedMeansWhole
    <3>. QED BY <1>1, <1>2, <1>4, <1>6, <2>2, <3>1, <3>2, TenantsStep
  <2>. QED BY <2>1, <2>2
<1>9. ASSUME swept' PROVE age' # 0 /\ hot' \subseteq Archived'
  <2>1. age # 0
    <3>1. CASE age = 0
      <4>1. act["sweep"].pc = "idle"
        BY <1>1, <3>1, IdleDay
      <4>. QED BY <1>1, <1>2, <1>9, <3>1, <4>1, SweptBy
    <3>. QED BY <3>1
  <2>2. age' # 0
    BY <1>1, <2>1, Ages
  <2>3. CASE swept
    BY <1>2, <1>6, <2>1, <2>2, <2>3
  <2>4. CASE act["sweep"].pc = "count" /\ act["sweep"].todo = {} /\ hot' = hot
    <3>1. act["sweep"].isp = NoIsp
      BY <1>1, <2>4 DEF PlaceOK, Working
    <3>2. \A r \in Rows : r \in Behind("sweep")
      BY <2>4, <3>1, ArchiveAssumption DEF Behind
    <3>3. arrived \subseteq Archived
      BY <1>1, <1>2, <2>4, <3>2 DEF TenantsWhole, TypeOK
    <3>. QED BY <1>1, <1>6, <2>2, <2>4, <3>3 DEF TypeOK
  <2>. QED BY <1>1, <1>9, <2>2, <2>3, <2>4, SweptBy
<1>10. ASSUME \A t \in Configs : age' >= Window(t) + 2 PROVE hot' \subseteq Archived'
  <2>0. \A t \in Configs : Window(t) \in Nat
    BY Lifetime, ArchiveAssumption DEF Window
  <2>1. age # 0
    <3>1. PICK t \in Configs : TRUE
      BY ArchiveAssumption
    <3>2. CASE age = 0 /\ age' = age
      BY <1>10, <2>0, <3>1, <3>2
    <3>3. CASE age = 0 /\ NextDay
      <4>0. age' = age + 1
        BY <3>3, Zenon DEF NextDay
      <4>1. age' = 1
        BY <3>3, <4>0
      <4>2. Window(t) >= 1 /\ Window(t) \in Nat
        BY <3>1, Lifetime, ArchiveAssumption DEF Window
      <4>. QED BY <1>10, <3>1, <4>1, <4>2
    <3>. QED BY <1>5, <3>2, <3>3
  <2>2. CASE age' = age
    BY <1>2, <1>6, <1>10, <2>1, <2>2
  <2>3. CASE NextDay
    <3>1. age' = age + 1 /\ hot' = hot /\ (Eligible => swept)
      BY <2>3, Zenon DEF NextDay
    <3>2. settings \in Configs /\ HotWindow = Window(settings) /\ Window(settings) \in Nat
      BY <1>1, <2>0 DEF TypeOK, HotWindow, Window
    <3>3. age > HotWindow
      BY <1>6, <1>10, <3>1, <3>2
    <3>. QED BY <1>2, <1>6, <3>1, <3>3 DEF Eligible
  <2>. QED BY <1>5, <2>2, <2>3
<1>11. TTLSafe'
  <2>1. CASE expired' = expired
    BY <1>2, <1>6, <2>1 DEF TTLSafe
  <2>2. CASE Expire
    <3>1. PICK s \in Configs : ttl = EffectiveTTL(s)
      BY <1>2
    <3>2. \A t \in Configs : Window(t) \in Nat
      BY Lifetime, ArchiveAssumption DEF Window
    <3>3. age >= ttl /\ ttl \in Nat
      BY <1>1, <2>2 DEF Expire, TypeOK
    <3>4. \A t \in Configs : age >= Window(t) + 2
      BY <1>6, <3>1, <3>2, <3>3 DEF Margin
    <3>5. hot \subseteq Archived /\ expired' = expired \cup hot
      BY <1>2, <2>2, <3>4 DEF Expire
    <3>. QED BY <1>2, <1>6, <3>5 DEF TTLSafe
  <2>. QED BY <1>5, <2>1, <2>2
<1>12. isps' = Registered /\ \E s \in Configs : ttl' = EffectiveTTL(s)
  BY <1>2, <1>5
<1>. QED BY <1>7, <1>8, <1>9, <1>10, <1>11, <1>12 DEF Lifetimes

\* With a sweep that succeeds every day, a TTL two days above the window and rows of
\* tenants that stay, the TTL never removes a row that S3 does not hold.
THEOREM TTLStaysSafe ==
  InOrder /\ AllOwned /\ Margin /\ SweepDaily => (Spec => []TTLSafe)
<1>. SUFFICES ASSUME InOrder, AllOwned, Margin, SweepDaily PROVE Spec => []TTLSafe
  OBVIOUS
<1>1. Init => Lifetimes
  <2>1. ASSUME Init PROVE Lifetimes
    <3>1. act["sweep"] = Rest
      BY <2>1 DEF Init, Actors
    <3>. QED BY <2>1, <3>1, RestRec DEF Init, Lifetimes, TenantsWhole, TTLSafe
  <2>. QED BY <2>1
<1>2. DayInv /\ Lifetimes /\ [Next]_vars => Lifetimes'
  BY LifetimesStep DEF TTLInv
<1>3. Lifetimes => TTLSafe
  BY DEF Lifetimes
<1>4. Spec => []DayInv
  BY AlwaysWhole
<1>. QED BY <1>1, <1>2, <1>3, <1>4, PTL DEF Spec

\* And then what a sweep counted before it drops the day is in S3.
THEOREM SweptRowsExist ==
  InOrder /\ AllOwned /\ Margin /\ SweepDaily => (Spec => []ExportedRowsExist)
<1>. SUFFICES ASSUME InOrder, AllOwned, Margin, SweepDaily PROVE Spec => []ExportedRowsExist
  OBVIOUS
<1>1. Spec => []TTLSafe
  BY TTLStaysSafe
<1>. QED BY <1>1, ExportedRows, PTL
=============================================================================
