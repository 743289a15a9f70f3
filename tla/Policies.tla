------------------------------ MODULE Policies ------------------------------
(* Capture policies, devices and the tenants they belong to: policies.go and     *)
(* console_admin.go of internal/director over store/policies.go and              *)
(* store/mysql.go.  Handlers check what they read and write later; only the      *)
(* policy and tenant writes are transactions that check again.  Behind the       *)
(* management gateway (management.go) these requests hold its mutex one by one.  *)
EXTENDS Naturals

CONSTANTS
  Calls,        \* requests in flight
  Rules,        \* the skip rules a policy or a device may have
  Names,        \* policy names, up to case
  MaxPolicies,  \* bound: policy ids ever given out
  MaxDevices    \* bound: device ids ever given out

ASSUME PoliciesAssumption == MaxPolicies \in Nat /\ MaxDevices \in Nat /\ 0 \notin Calls

VARIABLES
  tenants,   \* isps: the tenants there are
  policies,  \* capture_policies: id -> [isp, name, rules]; isp 0 is a global preset
  devices,   \* devices: id -> [isp, policy, rules, found]; found is kept for the property:
             \* the name was that of a policy when the rules were copied
  last,      \* ids given out: [policy, device]
  call,      \* the requests
  gateway,   \* the requests come through the management gateway
  mutations  \* the gateway's mutex: the request that holds it, or 0

polVars == <<tenants, policies, devices, last, call, gateway, mutations>>

TenantIds == {1, 2}
NoCall == [op |-> "none"]

PolInit ==
  /\ tenants = TenantIds /\ policies = <<>> /\ devices = <<>>
  /\ last = [policy |-> 0, device |-> 0]
  /\ call = [q \in Calls |-> NoCall] /\ mutations = 0 /\ gateway \in BOOLEAN

PolTypeOK ==
  /\ tenants \subseteq TenantIds /\ DOMAIN policies \subseteq 1..last.policy /\ DOMAIN devices \subseteq 1..last.device
  /\ last \in [policy : 0..MaxPolicies, device : 0..MaxDevices]
  /\ \A p \in DOMAIN policies : policies[p] \in [isp : TenantIds \cup {0}, name : Names, rules : Rules]
  /\ \A d \in DOMAIN devices :
       devices[d] \in [isp : TenantIds, policy : Names, rules : Rules, found : BOOLEAN]

\* managementHandler: the mutex is held from a mutation's arrival to its answer.
Arrive(q, r) ==
  /\ call[q] = NoCall /\ (gateway => mutations = 0)
  /\ call' = [call EXCEPT ![q] = r]
  /\ mutations' = IF gateway THEN q ELSE mutations
  /\ UNCHANGED gateway
Answer(q) ==
  /\ call' = [call EXCEPT ![q] = NoCall]
  /\ mutations' = IF gateway THEN 0 ELSE mutations
  /\ UNCHANGED gateway
GoOn(q, r) == call' = [call EXCEPT ![q] = r] /\ UNCHANGED <<gateway, mutations>>

Drop(f, x) == [y \in DOMAIN f \ {x} |-> f[y]]
Put(f, x, v) == [y \in DOMAIN f \cup {x} |-> IF y = x THEN v ELSE f[y]]

-----------------------------------------------------------------------------
(* Policies.                                                                 *)

policyOverlap(p, q) == (p.isp = 0 \/ q.isp = 0 \/ p.isp = q.isp) /\ p.name = q.name
policyReference(p, d) == (p.isp = 0 \/ p.isp = d.isp) /\ p.name = d.policy

\* savePolicy for a new one: the tenant is looked up before the transaction.
apiCreatePolicy(q, isp, name, rules) ==
  /\ isp \in tenants \cup {0}
  /\ Arrive(q, [op |-> "create", row |-> [isp |-> isp, name |-> name, rules |-> rules]])
  /\ UNCHANGED <<tenants, policies, devices, last>>

\* savePolicy and apiDeletePolicy for an old one: getPolicy reads the row, whose
\* version is the one of the form.
apiUpdatePolicy(q, p, name, rules) ==
  /\ policies[p].isp \in tenants \cup {0}
  /\ Arrive(q, [op |-> "update", id |-> p, old |-> policies[p],
                row |-> [isp |-> policies[p].isp, name |-> name, rules |-> rules]])
  /\ UNCHANGED <<tenants, policies, devices, last>>
apiDeletePolicy(q, p) ==
  /\ Arrive(q, [op |-> "delete", id |-> p, old |-> policies[p]])
  /\ UNCHANGED <<tenants, policies, devices, last>>

\* Mutant: the transaction trusts the handler's look at the tenant.
ScopeExistsTrusted(isp) == TRUE

\* SavePolicy, one serializable transaction over the locked policy table.
ScopeExists(isp) == isp \in tenants \cup {0}
InUse(p) == \E d \in DOMAIN devices : policyReference(p, devices[d])
Clash(row, others) == \E p \in others : policyOverlap(row, policies[p])
SavePolicy(q) ==
  LET r == call[q]
      current == r.id \in DOMAIN policies /\ policies[r.id] = r.old
  IN
  /\ r.op \in {"create", "update", "delete"}
  /\ Answer(q)
  /\ CASE r.op = "delete" ->
            policies' = IF current /\ ~InUse(r.old) THEN Drop(policies, r.id) ELSE policies
       [] r.op = "update" ->
            policies' = IF /\ current /\ (r.row.name # r.old.name => ~InUse(r.old))
                           /\ ~Clash(r.row, DOMAIN policies \ {r.id})
                        THEN Put(policies, r.id, r.row) ELSE policies
       [] r.op = "create" ->
            /\ last.policy < MaxPolicies
            /\ policies' = IF ScopeExists(r.row.isp) /\ ~Clash(r.row, DOMAIN policies)
                           THEN Put(policies, last.policy + 1, r.row) ELSE policies
  /\ last' = IF DOMAIN policies' \subseteq DOMAIN policies THEN last ELSE [last EXCEPT !.policy = @ + 1]
  /\ UNCHANGED <<tenants, devices>>

-----------------------------------------------------------------------------
(* Devices.  Their handlers check and write in separate statements; an        *)
(* exporter address that is taken (ErrDuplicate) changes nothing.             *)

\* resolvePolicy: the policies a tenant sees are its own and the global ones.
Visible(isp, name) == {p \in DOMAIN policies : policies[p].isp \in {0, isp} /\ policies[p].name = name}
resolvePolicy(row) ==
  IF Visible(row.isp, row.policy) = {} THEN {[row EXCEPT !.found = FALSE]}
  ELSE {[row EXCEPT !.rules = policies[p].rules, !.found = TRUE] : p \in Visible(row.isp, row.policy)}

apiCreateDevice(q, isp, name, rules) ==
  /\ isp \in tenants
  /\ Arrive(q, [op |-> "newdevice",
                row |-> [isp |-> isp, policy |-> name, rules |-> rules, found |-> FALSE]])
  /\ UNCHANGED <<tenants, policies, devices, last>>
\* apiUpdateDevice writes back the row it read with the form's fields.
apiUpdateDevice(q, x, name, rules) ==
  /\ Arrive(q, [op |-> "setdevice", x |-> x,
                row |-> [devices[x] EXCEPT !.policy = name, !.rules = rules]])
  /\ UNCHANGED <<tenants, policies, devices, last>>
Resolve(q) ==
  /\ call[q].op \in {"newdevice", "setdevice"}
  /\ \E row \in resolvePolicy(call[q].row) :
       GoOn(q, [call[q] EXCEPT !.op = IF @ = "newdevice" THEN "insert" ELSE "write", !.row = row])
  /\ UNCHANGED <<tenants, policies, devices, last>>
CreateDevice(q) ==
  /\ call[q].op = "insert" /\ last.device < MaxDevices /\ Answer(q)
  /\ devices' = Put(devices, last.device + 1, call[q].row)
  /\ last' = [last EXCEPT !.device = @ + 1]
  /\ UNCHANGED <<tenants, policies>>
UpdateDevice(q) ==
  /\ call[q].op = "write" /\ Answer(q)
  /\ devices' = IF call[q].x \in DOMAIN devices THEN Put(devices, call[q].x, call[q].row) ELSE devices
  /\ UNCHANGED <<tenants, policies, last>>
\* apiDeleteDevice: one statement after the ownership check, here one step.
DeleteDevice(x) ==
  /\ gateway => mutations = 0
  /\ devices' = Drop(devices, x)
  /\ UNCHANGED <<tenants, policies, last, call, gateway, mutations>>

\* DeleteISPAccount, a serializable transaction; the rest of it is in Accounts.
DeleteTenant(i) ==
  /\ gateway => mutations = 0
  /\ \A d \in DOMAIN devices : devices[d].isp # i
  /\ \A p \in DOMAIN policies : policies[p].isp # i
  /\ tenants' = tenants \ {i}
  /\ UNCHANGED <<policies, devices, last, call, gateway, mutations>>

PolNext ==
  \/ \E q \in Calls, i \in TenantIds \cup {0}, n \in Names, u \in Rules : apiCreatePolicy(q, i, n, u)
  \/ \E q \in Calls, p \in DOMAIN policies :
       apiDeletePolicy(q, p) \/ \E n \in Names, u \in Rules : apiUpdatePolicy(q, p, n, u)
  \/ \E q \in Calls, i \in TenantIds, n \in Names, u \in Rules : apiCreateDevice(q, i, n, u)
  \/ \E q \in Calls, x \in DOMAIN devices, n \in Names, u \in Rules : apiUpdateDevice(q, x, n, u)
  \/ \E q \in Calls : SavePolicy(q) \/ Resolve(q) \/ CreateDevice(q) \/ UpdateDevice(q)
  \/ \E x \in DOMAIN devices : DeleteDevice(x)
  \/ \E i \in tenants : DeleteTenant(i)

-----------------------------------------------------------------------------
\* However the checks and writes of requests interleave, a tenant's policies have
\* their tenant and no name means two policies in one scope; through the gateway,
\* which is to "serialize tenant and dependent inventory/account writes"
\* (management.go:41), devices have their tenant too, and a device that took its
\* rules from a policy still finds a policy of that name.
PoliciesSound ==
  /\ \A p \in DOMAIN policies : policies[p].isp # 0 => policies[p].isp \in tenants
  /\ \A p, o \in DOMAIN policies : p # o => ~policyOverlap(policies[p], policies[o])
  /\ gateway => \A d \in DOMAIN devices :
       /\ devices[d].isp \in tenants
       /\ devices[d].found => Visible(devices[d].isp, devices[d].policy) # {}
=============================================================================
