------------------------------ MODULE Accounts ------------------------------
(* Logins and tenant accounts of the director: internal/director/users.go and   *)
(* isps.go over store/user_edit.go and store/isp_accounts.go.  An operator       *)
(* opens a form, the handler reads the row again and compares it with the form,  *)
(* and a transaction compares the row with what the handler read.  Any other     *)
(* request may come between two of these.                                        *)
EXTENDS Naturals

CONSTANTS
  Requests,  \* requests in flight
  MaxUsers,  \* bound: user ids ever given out
  MaxEdits   \* bound: new addresses and passwords ever chosen, and changes of a tenant

ASSUME AccountsAssumption == MaxUsers \in Nat /\ MaxUsers >= 3 /\ MaxEdits \in Nat

VARIABLES
  users,  \* the users table: id -> row; an address or password is the number of its choice
  isps,   \* isps and isp_profiles: tenant -> row; admin = 0 and version = 0 without a profile
  used,   \* ids, and choices, given out so far
  req,    \* the requests
  part    \* the part of the console this behaviour is about (Console)

accVars == <<users, isps, used, req>>

Tenants == {1, 2}
Row == [isp : Tenants \cup {0}, role : {"director", "isp", "analyst"}, email : Nat, pw : Nat]
Idle == [op |-> "none"]

AccTypeOK ==
  /\ DOMAIN users \subseteq 1..MaxUsers /\ \A u \in DOMAIN users : users[u] \in Row
  /\ DOMAIN isps \subseteq Tenants
  /\ \A i \in DOMAIN isps : isps[i] \in [enabled : BOOLEAN, admin : 0..MaxUsers, version : Nat]

\* A director and a tenant with two logins, created before profiles existed; the
\* second tenant has no login yet.
AccInit ==
  /\ users = [u \in 1..3 |-> [isp |-> IF u = 1 THEN 0 ELSE 1, email |-> 0, pw |-> 0,
                              role |-> IF u = 1 THEN "director" ELSE "isp"]]
  /\ isps = [i \in Tenants |-> [enabled |-> TRUE, admin |-> 0, version |-> 0]]
  /\ used = [ids |-> 3, choices |-> 0]
  /\ req = [q \in Requests |-> Idle]

-----------------------------------------------------------------------------
(* What the store and the handlers derive from the tables.                   *)

Logins(i) == {u \in DOMAIN users : users[u].isp = i /\ users[u].role = "isp"}
Oldest(i) == IF Logins(i) = {} THEN 0 ELSE CHOOSE u \in Logins(i) : \A v \in Logins(i) : u <= v

\* ispSelect: the profile's login, or else the oldest one, if it is there.
primary(i) ==
  LET p == IF isps[i].admin # 0 THEN isps[i].admin ELSE Oldest(i)
  IN  IF p \in Logins(i) THEN p ELSE 0
IsPrimary(u) == users[u].isp \in DOMAIN isps /\ primary(users[u].isp) = u

\* The identity in a session cookie; role and tenant of a login never change.
Identity(u) == [user |-> u, isp |-> users[u].isp, role |-> users[u].role]
canManageUser(id, row) ==
  \/ id.role = "director"
  \/ id.role = "isp" /\ row.isp = id.isp /\ row.role # "director"

\* userVersion hashes id, tenant, role, address and password, not the TOTP columns.
userVersion(row) == row

-----------------------------------------------------------------------------
(* Requests about a user.                                                    *)

Ops == {"edit", "reset", "delete"}

\* apiGetUser: the operator opens the account.
apiGetUser(q, a, op, u) ==
  /\ req[q] = Idle
  /\ canManageUser(Identity(a), users[u])
  /\ req' = [req EXCEPT ![q] = [op |-> op, by |-> Identity(a), user |-> u,
                                seen |-> userVersion(users[u]), old |-> users[u], read |-> FALSE]]
  /\ UNCHANGED <<users, isps, used>>

\* Mutant: the version of the form is not compared.
formCurrentSkipped(r) == TRUE

\* The checks of userSave, apiDeleteUser and apiResetPassword on the row they read.
formCurrent(r) == r.seen = userVersion(users[r.user])
Acceptable(r) ==
  /\ r.user \in DOMAIN users
  /\ canManageUser(r.by, users[r.user]) /\ r.user # r.by.user
  /\ r.op = "edit" => ~IsPrimary(r.user)
  /\ formCurrent(r)

\* The handler reads the row and goes on to the transaction, or answers an error.
ownedUser(q) ==
  LET r == req[q] IN
  /\ r.op \in Ops /\ ~r.read
  /\ req' = [req EXCEPT ![q] =
               IF Acceptable(r) THEN [r EXCEPT !.old = users[r.user], !.read = TRUE] ELSE Idle]
  /\ UNCHANGED <<users, isps, used>>

\* apiChangeOwnPassword: the present password stands in for the version.
apiChangeOwnPassword(q, a) ==
  /\ req[q] = Idle
  /\ req' = [req EXCEPT ![q] = [op |-> "own", by |-> Identity(a), user |-> a,
                                seen |-> userVersion(users[a]), old |-> users[a], read |-> TRUE]]
  /\ UNCHANGED <<users, isps, used>>

\* SaveUser inside its transaction: the primary login of a tenant is not deleted.
Refused(u) == users[u].role = "isp" /\ IsPrimary(u)
Without(f, x) == [y \in DOMAIN f \ {x} |-> f[y]]
Choose(n) == used.choices + n <= MaxEdits /\ used' = [used EXCEPT !.choices = @ + n]
Fresh == used.choices + 1

SaveUser(q) ==
  LET r == req[q]
      u == r.user
  IN
  /\ r.op \in Ops \cup {"own"} /\ r.read
  /\ req' = [req EXCEPT ![q] = Idle]
  /\ UNCHANGED isps
  /\ IF u \notin DOMAIN users \/ users[u] # r.old \/ (r.op = "delete" /\ Refused(u))
     THEN UNCHANGED <<users, used>>
     ELSE CASE r.op = "delete" -> users' = Without(users, u) /\ UNCHANGED used
            [] r.op \in {"reset", "own"} ->
                 Choose(1) /\ users' = [users EXCEPT ![u] = [r.old EXCEPT !.pw = Fresh]]
            [] r.op = "edit" ->   \* a new address, and a password if one was typed
                 Choose(1) /\ \E p \in {r.old.pw, Fresh} :
                   users' = [users EXCEPT ![u] = [r.old EXCEPT !.email = Fresh, !.pw = p]]

\* userSave without an old row: the tenant is looked up, then the row is inserted.
apiCreateUser(q, a, i) ==
  /\ req[q] = Idle /\ i \in DOMAIN isps
  /\ canManageUser(Identity(a), [isp |-> i, role |-> "isp"])
  /\ req' = [req EXCEPT ![q] = [op |-> "create", isp |-> i]]
  /\ UNCHANGED <<users, isps, used>>
NewUser(row) ==
  /\ used.ids < MaxUsers /\ used.choices < MaxEdits
  /\ used' = [ids |-> used.ids + 1, choices |-> Fresh]
  /\ users' = [u \in DOMAIN users \cup {used.ids + 1} |-> IF u \in DOMAIN users THEN users[u] ELSE row]
CreateUser(q, role) ==
  /\ req[q].op = "create"
  /\ req' = [req EXCEPT ![q] = Idle]
  /\ NewUser([isp |-> req[q].isp, role |-> role, email |-> Fresh, pw |-> Fresh])
  /\ UNCHANGED isps

-----------------------------------------------------------------------------
(* Requests about a tenant; directors only.                                  *)

\* apiGetISP, and the handler's own read, which must find the same version.
apiGetISP(q, op, i) ==
  /\ req[q] = Idle
  /\ req' = [req EXCEPT ![q] = [op |-> op, isp |-> i, version |-> isps[i].version, read |-> FALSE,
                                hash |-> FALSE]]
  /\ UNCHANGED <<users, isps, used>>
ispSave(q, hash) ==
  LET r == req[q] IN
  /\ r.op \in {"isp", "delisp"} /\ ~r.read
  /\ req' = [req EXCEPT ![q] =
               IF /\ r.isp \in DOMAIN isps
                  /\ r.op = "isp" => isps[r.isp].version = r.version /\ (primary(r.isp) = 0 => hash)
                  /\ r.op = "delisp" => ~isps[r.isp].enabled
               THEN [r EXCEPT !.read = TRUE, !.hash = hash] ELSE Idle]
  /\ UNCHANGED <<users, isps, used>>

\* SaveISPAccount for an existing tenant: a login is created, or the primary one
\* takes the address and, if one was typed, the password of the form.
SaveISPAccount(q, on) ==
  LET r == req[q]
      i == r.isp
      p == primary(i)
      saved(admin) == isps' = [isps EXCEPT ![i] = [enabled |-> on, admin |-> admin, version |-> r.version + 1]]
  IN
  /\ r.op = "isp" /\ r.read
  /\ req' = [req EXCEPT ![q] = Idle]
  /\ IF i \notin DOMAIN isps \/ isps[i].version # r.version \/ (p = 0 /\ ~r.hash)
     THEN UNCHANGED <<users, isps, used>>
     ELSE IF p = 0
          THEN saved(used.ids + 1) /\ NewUser([isp |-> i, role |-> "isp", email |-> Fresh, pw |-> Fresh])
          ELSE /\ saved(p) /\ Choose(1)
               /\ users' = [users EXCEPT ![p].email = Fresh, ![p].pw = IF r.hash THEN Fresh ELSE @]

\* DeleteISPAccount: the tenant, its profile and its isp logins; devices and
\* policies that forbid it are the matter of Policies.
DeleteISPAccount(q) ==
  LET r == req[q]
      i == r.isp
  IN
  /\ r.op = "delisp" /\ r.read
  /\ req' = [req EXCEPT ![q] = Idle]
  /\ IF i \notin DOMAIN isps \/ isps[i].version # r.version \/ isps[i].enabled
     THEN UNCHANGED <<users, isps>>
     ELSE /\ users' = [u \in DOMAIN users \ Logins(i) |-> users[u]]
          /\ isps' = Without(isps, i)
  /\ UNCHANGED used

\* apiToggleISP: the value written is the opposite of one read earlier.
SetISPEnabled(i, on) ==
  /\ isps[i].enabled # on /\ Choose(1)
  /\ isps' = [isps EXCEPT ![i].enabled = on,
                          ![i].version = IF isps[i].admin = 0 THEN @ ELSE @ + 1]
  /\ UNCHANGED <<users, req>>

AccNext ==
  \/ \E q \in Requests, a \in DOMAIN users :
       \/ \E op \in Ops, u \in DOMAIN users : apiGetUser(q, a, op, u)
       \/ apiChangeOwnPassword(q, a)
       \/ \E i \in Tenants : apiCreateUser(q, a, i)
  \/ \E q \in Requests : ownedUser(q) \/ SaveUser(q) \/ DeleteISPAccount(q)
  \/ \E q \in Requests, role \in {"isp", "analyst"} : CreateUser(q, role)
  \/ \E q \in Requests, op \in {"isp", "delisp"}, i \in DOMAIN isps : apiGetISP(q, op, i)
  \/ \E q \in Requests, b \in BOOLEAN : ispSave(q, b) \/ SaveISPAccount(q, b)
  \/ \E i \in DOMAIN isps, on \in BOOLEAN : SetISPEnabled(i, on)

-----------------------------------------------------------------------------
\* "This account changed. Close and reopen it before saving." (users.go:134): what
\* a form overwrites or deletes is exactly what its author saw when opening it,
\* and it is never another tenant's, nor the author's own, whatever ran between.
EditsChecked ==
  [][\A q \in Requests :
       LET r == req[q] IN
       SaveUser(q) /\ r.op \in Ops /\ users' # users =>
         /\ userVersion(users[r.user]) = r.seen
         /\ r.user # r.by.user
         /\ r.by.role = "director" \/ users[r.user].isp = r.by.isp]_accVars

\* "primary ISP login must be managed through ISPs" (user_edit.go:9): a tenant that
\* has a login keeps one, and a profile's login exists, under every interleaving of
\* deletions, edits of the tenant and new logins.
ProfileLogin == \A i \in DOMAIN isps : isps[i].admin # 0 => isps[i].admin \in Logins(i)
LoginKept ==
  /\ []ProfileLogin
  /\ [][\A i \in DOMAIN isps : i \in DOMAIN isps' /\ Logins(i) # {} => Logins(i)' # {}]_accVars

\* Forms overwrite what their author saw, and tenants keep their logins.
AccountsSafe == EditsChecked /\ LoginKept
=============================================================================
