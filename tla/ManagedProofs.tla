--------------------------- MODULE ManagedProofs ---------------------------
(* Proofs about Managed: a registry is never replaced by an older one.       *)
EXTENDS Managed, TLAPS

\* What the steps of PollOnce know: only the holder of the lock is between the
\* fetch and the return, and a bundle that is about to be installed is no older
\* than the registry and no newer than the table.
PollInv ==
  /\ edits \in Nat /\ reg.ver \in Nat /\ reg.ver <= edits
  /\ pc \in [Clients -> {"idle", "lock", "fetch", "build", "load", "store"}]
  /\ got \in [Clients -> [ver : Nat, rows : SUBSET Row, mode : Modes]]
  /\ table \subseteq Row /\ mode \in Modes
  /\ \A c \in Clients : got[c].ver <= edits
  /\ \A c \in Clients : pc[c] \notin {"idle", "lock"} => mutex = c
  /\ \A c \in Clients : pc[c] = "build" => reg.ver <= got[c].ver

\* A collector starts with an empty table and nobody polling.
LEMMA InitPoll == Init => PollInv
  BY ManagedAssumption DEF Init, PollInv, Bundle, Row, Clients

\* A change of the table only makes what was fetched older.
LEMMA EditPoll ==
  ASSUME PollInv, Edit, table' \subseteq Row, mode' \in Modes
  PROVE  PollInv'
  BY ManagedAssumption DEF PollInv, Edit

\* A step that leaves the versions alone and enters no critical section.
LEMMA IdlePoll ==
  ASSUME PollInv, UNCHANGED <<dirVars, reg, got, mutex>>, NEW c \in Clients,
         NEW l \in {"idle", "lock", "load", "store"}, Goto(c, l),
         l \in {"idle", "lock"} \/ mutex = c
  PROVE  PollInv'
  BY DEF PollInv, Goto, dirVars

\* Every step of PollOnce keeps the invariant; the fetch reads the table while the
\* lock keeps other installs out.
LEMMA StepPoll ==
  ASSUME PollInv, NEW c \in Clients, PollStep(c)
  PROVE  PollInv' /\ reg'.ver >= reg.ver
<1>1. CASE Lock(c)
  BY <1>1 DEF PollInv, Lock, Goto, dirVars, Clients
<1>2. CASE Fetch(c)
  BY <1>2 DEF PollInv, Fetch, Goto, Return, Bundle, dirVars
<1>3. CASE Install(c)
  <2>1. ~Validate(got[c].rows) => UNCHANGED reg /\ Return(c)
    BY <1>3 DEF Install
  <2>2. Validate(got[c].rows) =>
          reg'.ver = got[c].ver /\ ((Goto(c, "load") /\ UNCHANGED mutex) \/ Return(c))
    BY <1>3 DEF Install
  <2>3. pc[c] = "build" /\ mutex = c /\ UNCHANGED <<table, mode, edits, got>>
    BY <1>3 DEF Install, PollInv, dirVars
  <2>4. \A x \in Clients : pc'[x] # "build"
    BY <2>1, <2>2, <2>3 DEF PollInv, Goto, Return
  <2>5. \A x \in Clients : pc'[x] \notin {"idle", "lock"} => mutex' = x
    BY <2>1, <2>2, <2>3 DEF PollInv, Goto, Return
  <2>6. reg'.ver \in Nat /\ reg'.ver <= edits /\ reg'.ver >= reg.ver
    BY <2>1, <2>2, <2>3 DEF PollInv
  <2>7. pc' \in [Clients -> {"idle", "lock", "fetch", "build", "load", "store"}]
    BY <2>1, <2>2 DEF PollInv, Goto, Return
  <2> QED BY <2>3, <2>4, <2>5, <2>6, <2>7 DEF PollInv
<1>4. CASE LoadLive(c)
  BY <1>4, IdlePoll DEF PollInv, LoadLive, dirVars
<1>5. CASE StoreLive(c)
  BY <1>5 DEF PollInv, StoreLive, Return, Goto, dirVars
<1> QED BY <1>1, <1>2, <1>3, <1>4, <1>5 DEF PollStep

\* Edits, the ticker, reloads and polls keep the invariant and the order of versions.
LEMMA NextPoll ==
  ASSUME PollInv, [Next]_vars
  PROVE  PollInv' /\ reg'.ver >= reg.ver
<1>1. ASSUME NEW a \in Addrs, NEW i \in Tenants, CreateDevice(a, i)
      PROVE  PollInv' /\ reg'.ver >= reg.ver
  <2>1. [addr |-> a, isp |-> i, enabled |-> TRUE] \in Row
    BY DEF Row
  <2>2. table' = table \cup {[addr |-> a, isp |-> i, enabled |-> TRUE]}
    BY <1>1, Zenon DEF CreateDevice
  <2>3. Edit /\ UNCHANGED mode
    BY <1>1, Zenon DEF CreateDevice
  <2>4. table' \subseteq Row
    BY <2>1, <2>2, Zenon DEF PollInv
  <2> QED BY <2>3, <2>4, EditPoll DEF Edit, PollInv
<1>2. ASSUME NEW r \in table, DeleteDevice(r)
      PROVE  PollInv' /\ reg'.ver >= reg.ver
  BY <1>2, EditPoll DEF DeleteDevice, Edit, PollInv
<1>3. ASSUME NEW r \in table, NEW a \in Addrs, NEW on \in BOOLEAN, UpdateDevice(r, a, on)
      PROVE  PollInv' /\ reg'.ver >= reg.ver
  <2>1. [r EXCEPT !.addr = a, !.enabled = on] \in Row
    BY DEF PollInv, Row
  <2> QED BY <1>3, <2>1, EditPoll DEF UpdateDevice, Edit, PollInv
<1>4. ASSUME NEW m \in Modes, PutMode(m)
      PROVE  PollInv' /\ reg'.ver >= reg.ver
  BY <1>4, EditPoll DEF PutMode, Edit, PollInv
<1>5. CASE Start
  BY <1>5, IdlePoll DEF Start, Clients, PollInv, dirVars
<1>6. CASE Reload
  BY <1>6, IdlePoll DEF Reload, Clients, PollInv, dirVars
<1>7. ASSUME NEW c \in Clients, PollStep(c)
      PROVE  PollInv' /\ reg'.ver >= reg.ver
  BY <1>7, StepPoll
<1>8. CASE UNCHANGED vars
  BY <1>8 DEF vars, dirVars, PollInv
<1> QED BY <1>1, <1>2, <1>3, <1>4, <1>5, <1>6, <1>7, <1>8 DEF Next

\* PollInv holds of every collector, whatever the tables, clients and failures.
THEOREM PollInvariant == Spec => []PollInv
<1>1. PollInv /\ [Next]_vars => PollInv'
  BY NextPoll
<1> QED BY InitPoll, <1>1, PTL DEF Spec

\* The lock is held from the fetch to the install (managed.go:107-128), so no
\* step of the poll loop or of a reload installs a registry older than the one in
\* force.
THEOREM RegistryNeverGoesBack == Spec => NeverGoesBack
<1>1. PollInv /\ [Next]_vars => [reg'.ver >= reg.ver]_vars
  BY NextPoll
<1> QED BY PollInvariant, <1>1, PTL DEF Spec, NeverGoesBack

\* Build gives the address of each row to that row, if Validate accepts the rows.
LEMMA BuildOwns ==
  ASSUME NEW rows, Validate(rows), NEW r \in rows
  PROVE  Build(rows)[Key[r.addr]] = r
<1> DEFINE k == Key[r.addr]
<1>1. k \in {Key[x.addr] : x \in rows}
  OBVIOUS
<1>2. Build(rows)[k] = CHOOSE x \in rows : Key[x.addr] = k
  BY <1>1 DEF Build
<1>3. \A x \in rows : Key[x.addr] = k => x = r
  BY DEF Validate
<1> QED BY <1>2, <1>3

\* A registry is replaced only by one that Build made of validated rows.
LEMMA NextOwns ==
  ASSUME OneTenantPerAddress, [Next]_vars
  PROVE  OneTenantPerAddress'
<1>1. ASSUME NEW c \in Clients, Install(c), Validate(got[c].rows)
      PROVE  OneTenantPerAddress'
  <2>1. reg' = [ver |-> got[c].ver, rows |-> got[c].rows, devs |-> Build(got[c].rows)]
    BY <1>1 DEF Install
  <2> QED BY <1>1, <2>1, BuildOwns DEF OneTenantPerAddress
<1>2. CASE UNCHANGED reg
  BY <1>2 DEF OneTenantPerAddress
<1>3. ASSUME NEW c \in Clients, PollStep(c)
      PROVE  UNCHANGED reg \/ (Install(c) /\ Validate(got[c].rows))
  BY <1>3 DEF PollStep, Lock, Fetch, Install, LoadLive, StoreLive
<1>4. UNCHANGED reg \/ \E c \in Clients : PollStep(c)
  BY DEF Next, CreateDevice, DeleteDevice, UpdateDevice, PutMode, Edit, Start, Reload, vars
<1> QED BY <1>1, <1>2, <1>3, <1>4

\* In every registry a collector ever has in force, each exporter address belongs
\* to the one row of the director's table that claims it.
THEOREM AddressesHaveOneTenant == Spec => []OneTenantPerAddress
<1>1. Init => OneTenantPerAddress
  BY DEF Init, OneTenantPerAddress
<1>2. OneTenantPerAddress /\ [Next]_vars => OneTenantPerAddress'
  BY NextOwns
<1> QED BY <1>1, <1>2, PTL DEF Spec
============================================================================
