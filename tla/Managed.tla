------------------------------ MODULE Managed ------------------------------
(* The device registry of a collector and the tunables it runs with: the     *)
(* director's device table and bundle (director/server.go), the managed      *)
(* client (internal/managed), device.Build, and the collector's reload.      *)
EXTENDS Naturals, FiniteSets, Functions

CONSTANTS
  Addrs,      \* exporter addresses as written in the device table
  Key,        \* address -> its 4 or 16 bytes, the key of the registry
  Tenants,
  Modes,      \* unknown-exporter modes
  LocalMode,  \* security.unknown_exporter_mode of the YAML file
  ManageLive, \* split deployment: the client owns UnknownMode
  MaxEdits, MaxReloads, MaxFaults \* bounds

Row == [addr : Addrs, isp : Tenants, enabled : BOOLEAN]
Clients == {"run", "reload"}  \* the poll loop and the SIGHUP handler

ASSUME ManagedAssumption ==
  /\ DOMAIN Key = Addrs /\ LocalMode \in Modes
  /\ ManageLive \in BOOLEAN
  /\ MaxEdits \in Nat /\ MaxReloads \in Nat /\ MaxFaults \in Nat

VARIABLES
  table,   \* the devices table
  mode,    \* the director's unknown-exporter mode
  edits,   \* changes of table and mode so far, the version of a bundle
  file,    \* version of the YAML file
  faults,
  pc, got, \* client -> step of PollOnce, bundle fetched
  cur,     \* client -> copy of the tunables
  mutex,   \* holder of Client.mu, or "free"
  reg,     \* the registry in force: [ver, devs]; ghost: rows it was built from
  live     \* the tunables in force: [mode, file]

dirVars == <<table, mode, edits>>
vars == <<dirVars, file, faults, pc, got, cur, mutex, reg, live>>

Bundle == [ver |-> edits, rows |-> table, mode |-> mode]

\* Mutant: addresses are compared as they are written.
ValidateText(rows) == TRUE

\* Validate: no two devices have the same address.
Validate(rows) == \A a, b \in rows : a # b => Key[a.addr] # Key[b.addr]

\* Build: the registry, by address.
Build(rows) == [k \in {Key[r.addr] : r \in rows} |->
                  CHOOSE r \in rows : Key[r.addr] = k]

Init ==
  /\ table = {} /\ mode \in Modes /\ edits = 0
  /\ file = 0 /\ faults = 0
  /\ pc = [c \in Clients |-> "idle"]
  /\ got = [c \in Clients |-> Bundle]
  /\ live = [mode |-> LocalMode, file |-> 0]
  /\ cur = [c \in Clients |-> live]
  /\ mutex = "free"
  /\ reg = [ver |-> 0, rows |-> {}, devs |-> Build({})]

-----------------------------------------------------------------------------
(* The director.                                                           *)

Edit ==
  /\ edits < MaxEdits /\ edits' = edits + 1
  /\ UNCHANGED <<file, faults, pc, got, cur, mutex, reg, live>>

\* handleCreateDevice: valid by itself, and the column exporter_ip is unique.
CreateDevice(a, i) ==
  /\ \A r \in table : r.addr # a
  /\ table' = table \cup {[addr |-> a, isp |-> i, enabled |-> TRUE]}
  /\ Edit /\ UNCHANGED mode

DeleteDevice(r) ==
  /\ table' = table \ {r}
  /\ Edit /\ UNCHANGED mode

\* apiUpdateDevice and the toggles write back a row read earlier, so the enabled
\* flag and the address may be of any age; the address stays unique.
UpdateDevice(r, a, on) ==
  /\ \A x \in table \ {r} : x.addr # a
  /\ table' = (table \ {r}) \cup {[r EXCEPT !.addr = a, !.enabled = on]}
  /\ Edit /\ UNCHANGED mode

PutMode(m) ==
  /\ m # mode /\ mode' = m
  /\ Edit /\ UNCHANGED table

-----------------------------------------------------------------------------
(* PollOnce.                                                               *)

Goto(c, l) == pc' = [pc EXCEPT ![c] = l]

Start ==
  /\ pc["run"] = "idle" /\ Goto("run", "lock")
  /\ UNCHANGED <<dirVars, file, faults, got, cur, mutex, reg, live>>

\* The reload of the collector stores the tunables of the file, the local mode
\* among them, and polls.
Reload ==
  /\ pc["reload"] = "idle" /\ file < MaxReloads
  /\ file' = file + 1
  /\ live' = [mode |-> LocalMode, file |-> file + 1]
  /\ Goto("reload", "lock")
  /\ UNCHANGED <<dirVars, faults, got, cur, mutex, reg>>

\* Mutant: the lock is not taken before the fetch.
LockLate(c) ==
  /\ pc[c] = "lock" /\ Goto(c, "fetch")
  /\ UNCHANGED <<dirVars, file, faults, got, cur, mutex, reg, live>>

Lock(c) ==
  /\ pc[c] = "lock" /\ mutex = "free"
  /\ mutex' = c /\ Goto(c, "fetch")
  /\ UNCHANGED <<dirVars, file, faults, got, cur, reg, live>>

\* Returning releases the lock.
Return(c) == Goto(c, "idle") /\ mutex' = IF mutex = c THEN "free" ELSE mutex

\* src.Fetch: the director's answer, an error or a timeout.
Fetch(c) ==
  /\ pc[c] = "fetch"
  /\ \/ got' = [got EXCEPT ![c] = Bundle] /\ Goto(c, "build")
        /\ UNCHANGED <<faults, mutex>>
     \/ faults < MaxFaults /\ faults' = faults + 1 /\ Return(c) /\ UNCHANGED got
  /\ UNCHANGED <<dirVars, file, cur, reg, live>>

\* device.Build and c.devices.Store; an invalid bundle keeps the registry.
Install(c) ==
  /\ pc[c] = "build"
  /\ \/ /\ Validate(got[c].rows)
        /\ reg' = [ver |-> got[c].ver, rows |-> got[c].rows,
                   devs |-> Build(got[c].rows)]
        /\ IF ManageLive THEN Goto(c, "load") /\ UNCHANGED mutex ELSE Return(c)
     \/ /\ ~Validate(got[c].rows)
        /\ Return(c) /\ UNCHANGED reg
  /\ UNCHANGED <<dirVars, file, faults, got, cur, live>>

\* cur := *c.live.Load()
LoadLive(c) ==
  /\ pc[c] = "load" /\ cur' = [cur EXCEPT ![c] = live] /\ Goto(c, "store")
  /\ UNCHANGED <<dirVars, file, faults, got, mutex, reg, live>>

\* Mutant: the mode of the bundle is not taken over.
StoreLiveAsIs(c) ==
  /\ pc[c] = "store"
  /\ live' = cur[c]
  /\ Return(c)
  /\ UNCHANGED <<dirVars, file, faults, got, cur, reg>>

\* cur.UnknownMode = mode; c.live.Store(cur)
StoreLive(c) ==
  /\ pc[c] = "store"
  /\ live' = [cur[c] EXCEPT !.mode = got[c].mode]
  /\ Return(c)
  /\ UNCHANGED <<dirVars, file, faults, got, cur, reg>>

PollStep(c) == Lock(c) \/ Fetch(c) \/ Install(c) \/ LoadLive(c) \/ StoreLive(c)

Next ==
  \/ \E a \in Addrs, i \in Tenants : CreateDevice(a, i)
  \/ \E r \in table : DeleteDevice(r)
  \/ \E r \in table, a \in Addrs, on \in BOOLEAN : UpdateDevice(r, a, on)
  \/ \E m \in Modes : PutMode(m)
  \/ Start \/ Reload
  \/ \E c \in Clients : PollStep(c)

Spec == Init /\ [][Next]_vars

\* The ticker fires, and goroutines that can run do; a mutex is granted to those
\* that keep waiting for it.
FairSpec ==
  /\ Spec /\ WF_vars(Start)
  /\ \A c \in Clients : WF_vars(PollStep(c)) /\ SF_vars(Lock(c))

-----------------------------------------------------------------------------
TypeOK ==
  /\ table \subseteq Row /\ mode \in Modes /\ edits \in 0..MaxEdits
  /\ file \in 0..MaxReloads /\ faults \in 0..MaxFaults
  /\ pc \in [Clients -> {"idle", "lock", "fetch", "build", "load", "store"}]
  /\ live \in [mode : Modes, file : 0..MaxReloads]
  /\ cur \in [Clients -> [mode : Modes, file : 0..MaxReloads]]
  /\ mutex \in Clients \cup {"free"}
  /\ \A c \in Clients : mutex = c => pc[c] \notin {"idle", "lock"}
  /\ reg.ver \in 0..edits
  /\ \A k \in DOMAIN reg.devs : reg.devs[k] \in Row

\* A registry is never replaced by an older one, although the poll loop and a
\* reload fetch and install bundles at the same time (managed.go:106-109).
NeverGoesBack == [][reg'.ver >= reg.ver]_vars

\* An exporter belongs to one tenant: every row of the table a registry in force
\* was built from owns its address in it, so no other tenant's row displaced it
\* (README.md:278-281).
OneTenantPerAddress == \A r \in reg.rows : reg.devs[Key[r.addr]] = r

\* The collector "pulls the device registry + exporter policy from the Director"
\* (docs/control-plane.md:55-57): when edits, reloads and failures cease, the
\* registry and the mode in force become the director's and stay so, unless two
\* rows of the table spell the same address, which invalidates every bundle.
Converges ==
  <>[](Validate(table) => /\ reg.devs = Build(table)
                          /\ ManageLive => live.mode = mode)
============================================================================
