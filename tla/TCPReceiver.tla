---------------------------- MODULE TCPReceiver -----------------------------
(* The TCP syslog receiver, internal/receiver/tcp.go: an accept loop, a reader    *)
(* per connection, and Stop, which closes the listener, then the connections in   *)
(* the active map, then waits for all of them.                                    *)
EXTENDS Naturals, FiniteSets

CONSTANT Conns   \* connections peers may open

ASSUME TCPAssumption == IsFiniteSet(Conns)

VARIABLES
  conn,     \* away, backlog, accepted (the loop has it), reading, or ended
  active,   \* the active map
  closed,   \* connections Stop has closed
  loop,     \* the accept loop runs
  stop      \* Stop: no, listener (it is closed), waiting, returned

tcpVars == <<conn, active, closed, loop, stop>>

TCPInit ==
  /\ conn = [c \in Conns |-> "away"] /\ active = {} /\ closed = {} /\ loop = TRUE /\ stop = "no"

TCPTypeOK ==
  /\ conn \in [Conns -> {"away", "backlog", "accepted", "reading", "ended"}]
  /\ active \subseteq Conns /\ closed \subseteq Conns /\ stop \in {"no", "listener", "waiting", "returned"}

Connect(c) ==
  /\ conn[c] = "away" /\ stop = "no"
  /\ conn' = [conn EXCEPT ![c] = "backlog"]
  /\ UNCHANGED <<active, closed, loop, stop>>

\* Mutant: the loop leaves the registration to the reader and accepts the next.
AcceptSpawn(c) ==
  /\ conn[c] = "backlog" /\ stop = "no" /\ loop
  /\ conn' = [conn EXCEPT ![c] = "accepted"]
  /\ UNCHANGED <<active, closed, loop, stop>>

\* Accept returns a connection; the loop has one at a time.
Accept(c) ==
  /\ conn[c] = "backlog" /\ stop = "no" /\ loop
  /\ \A d \in Conns : conn[d] # "accepted"
  /\ conn' = [conn EXCEPT ![c] = "accepted"]
  /\ UNCHANGED <<active, closed, loop, stop>>
\* It is entered in active under the mutex and gets its reader.
Register(c) ==
  /\ conn[c] = "accepted"
  /\ conn' = [conn EXCEPT ![c] = "reading"] /\ active' = active \cup {c}
  /\ UNCHANGED <<closed, loop, stop>>
AcceptEnds ==
  /\ loop /\ stop # "no" /\ \A c \in Conns : conn[c] # "accepted"
  /\ loop' = FALSE
  /\ UNCHANGED <<conn, active, closed, stop>>
\* The peer is done, or the connection was closed: the reader leaves.
ReadEnds(c) ==
  /\ conn[c] = "reading"
  /\ conn' = [conn EXCEPT ![c] = "ended"] /\ active' = active \ {c}
  /\ UNCHANGED <<closed, loop, stop>>

StopListener ==
  /\ stop = "no" /\ stop' = "listener"
  /\ conn' = [c \in Conns |-> IF conn[c] = "backlog" THEN "ended" ELSE conn[c]]
  /\ UNCHANGED <<active, closed, loop>>
StopConns ==
  /\ stop = "listener" /\ stop' = "waiting"
  /\ closed' = active
  /\ UNCHANGED <<conn, active, loop>>
StopReturns ==
  /\ stop = "waiting" /\ ~loop /\ \A c \in Conns : conn[c] # "reading"
  /\ stop' = "returned"
  /\ UNCHANGED <<conn, active, closed, loop>>

TCPNext ==
  \/ \E c \in Conns : Connect(c) \/ Accept(c) \/ Register(c) \/ ReadEnds(c)
  \/ AcceptEnds \/ StopListener \/ StopConns \/ StopReturns

-----------------------------------------------------------------------------
\* Stop leaves nothing behind but one connection: while it waits, all connections it
\* waits for have been closed by it, except at most the one the accept loop held when
\* Stop walked the map (tcp.go:46), whose peer it depends on; when it has returned, no
\* reader hands on a packet any more.
StopCloses ==
  /\ stop = "waiting" => Cardinality({c \in Conns \ closed : conn[c] \in {"accepted", "reading"}}) <= 1
  /\ stop = "returned" => \A c \in Conns : conn[c] \notin {"accepted", "reading"}
=============================================================================
