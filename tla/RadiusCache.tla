----------------------------- MODULE RadiusCache ----------------------------
(* The address-to-subscriber cache fed by RADIUS accounting,                     *)
(* internal/radiusacct/radius.go, for one address that the NAS gives to one      *)
(* session after another.  Accounting packets are UDP: lost, late, repeated, out *)
(* of order.  A lookup reads under the read lock and deletes an expired entry    *)
(* later, under the write lock.                                                  *)
EXTENDS Naturals

CONSTANTS
  MaxSessions, \* bound: sessions that get the address
  SessionTTL,  \* ttl, in ticks
  MaxRepeats   \* bound: packets delivered a second time

ASSUME RadiusAssumption == MaxSessions \in Nat /\ SessionTTL \in Nat \ {0} /\ MaxRepeats \in Nat

VARIABLES
  holder,   \* the session that has the address, 0 for none
  begun,    \* sessions begun so far
  wire,     \* packets under way: [type, session]; once sent they may be long in coming
  repeats,  \* packets delivered again so far
  byIP,     \* the cache's entry: [session, age], session 0 for none
  lookup,   \* a lookup between its two locks
  sid       \* the NAS sends Acct-Session-Id

radVars == <<holder, begun, wire, repeats, byIP, lookup, sid>>

NoSession == [session |-> 0, age |-> 0]
RadInit ==
  /\ holder = 0 /\ begun = 0 /\ wire = {} /\ repeats = 0 /\ byIP = NoSession /\ lookup = FALSE
  /\ sid \in BOOLEAN

RadTypeOK ==
  /\ holder \in 0..MaxSessions /\ byIP \in [session : 0..MaxSessions, age : 0..(SessionTTL + 1)]
  /\ wire \subseteq [type : {"start", "interim", "stop"}, session : 1..MaxSessions]

-----------------------------------------------------------------------------
(* The NAS.                                                                  *)

Send(type, s) == wire' = wire \cup {[type |-> type, session |-> s]}
BeginSession ==
  /\ holder = 0 /\ begun < MaxSessions /\ begun' = begun + 1 /\ holder' = begun + 1
  /\ Send("start", begun + 1)
  /\ UNCHANGED <<repeats, byIP, lookup, sid>>
InterimUpdate ==
  /\ holder # 0 /\ Send("interim", holder)
  /\ UNCHANGED <<holder, begun, repeats, byIP, lookup, sid>>
EndSession ==
  /\ holder # 0 /\ holder' = 0 /\ Send("stop", holder)
  /\ UNCHANGED <<begun, repeats, byIP, lookup, sid>>

-----------------------------------------------------------------------------
(* The server.                                                               *)

\* Mutant: an interim update only refreshes the entry of its session.
applyRefresh(p) ==
  byIP' = CASE p.type = "stop" -> IF byIP.session # p.session /\ sid THEN byIP ELSE NoSession
            [] p.type = "start" -> [session |-> p.session, age |-> 0]
            [] p.type = "interim" -> IF byIP.session = p.session THEN [byIP EXCEPT !.age = 0] ELSE byIP

\* apply: a stop removes its own session, or any if it has no id.
apply(p) ==
  byIP' = IF p.type = "stop"
          THEN IF byIP.session # p.session /\ sid THEN byIP ELSE NoSession
          ELSE [session |-> p.session, age |-> 0]
\* handle; the packet may come again, at most MaxRepeats times in all.
handle(p, again) ==
  /\ p \in wire /\ apply(p)
  /\ again => repeats < MaxRepeats
  /\ repeats' = IF again THEN repeats + 1 ELSE repeats
  /\ wire' = IF again THEN wire ELSE wire \ {p}
  /\ UNCHANGED <<holder, begun, lookup, sid>>
Lose(p) ==
  /\ p \in wire /\ wire' = wire \ {p}
  /\ UNCHANGED <<holder, begun, repeats, byIP, lookup, sid>>

Expired == byIP.session # 0 /\ byIP.age > SessionTTL
\* Lookup: an expired entry is found, and whatever is there later is deleted.
LookupExpired ==
  /\ Expired /\ ~lookup /\ lookup' = TRUE
  /\ UNCHANGED <<holder, begun, wire, repeats, byIP, sid>>
LookupDelete ==
  /\ lookup /\ lookup' = FALSE /\ byIP' = NoSession
  /\ UNCHANGED <<holder, begun, wire, repeats, sid>>

RadHour ==
  /\ byIP.session # 0 /\ byIP.age <= SessionTTL
  /\ byIP' = [byIP EXCEPT !.age = @ + 1]
  /\ UNCHANGED <<holder, begun, wire, repeats, lookup, sid>>

RadNext ==
  \/ BeginSession \/ InterimUpdate \/ EndSession \/ LookupExpired \/ LookupDelete \/ RadHour
  \/ \E p \in wire : Lose(p) \/ \E again \in BOOLEAN : handle(p, again)

InterimArrives(s) == handle([type |-> "interim", session |-> s], FALSE)

-----------------------------------------------------------------------------
\* A lasting session is known again and again: neither a lookup that deletes the
\* entry of a session it did not find (radius.go:44), nor late, repeated or foreign
\* packets, nor a lost start, keep its address without its subscriber for good.
SubscriberKnown ==
  \A s \in 1..MaxSessions : <>[](holder = s) => []<>(byIP.session = s /\ ~Expired)
=============================================================================
