----------------------------- MODULE Dashboard ------------------------------
(* The dashboard's cache of one tenant and window, handleConsoleData and         *)
(* refreshConsoleAsync of internal/director/console.go: a snapshot is served     *)
(* however old, and a stale one is computed again in the background.  The first  *)
(* requests find no snapshot, compute one each, and store it whatever was stored *)
(* meanwhile; only the deadlines of the queries keep them apart from refreshes.  *)
EXTENDS Naturals

CONSTANTS
  Viewers,       \* requests for the dashboard in flight
  Refreshers,    \* goroutines that may compute a snapshot in the background
  CacheTTL,      \* consoleCacheTTL, 45 s
  LoadLimit,     \* the deadline of a request that computes the snapshot, 25 s
  RefreshLimit   \* the deadline of a background computation, 30 s

ASSUME DashboardAssumption ==
  /\ CacheTTL \in Nat /\ LoadLimit \in Nat /\ RefreshLimit \in Nat
  /\ LoadLimit < CacheTTL /\ RefreshLimit < CacheTTL

VARIABLES
  snapshot,   \* consoleCache[k]: [age, blank, refreshing], or NoSnapshot
  viewer,     \* a request: [at, age]; it computes, or is about to ask for a refresh
  refresher   \* a background computation: its age, or Off

dashVars == <<snapshot, viewer, refresher>>

NoSnapshot == [age |-> 0]
Away == [at |-> "away", age |-> 0]
Off == CacheTTL   \* no computation gets that old
Cached == snapshot # NoSnapshot
InFlight == {g \in Refreshers : refresher[g] # Off}
FirstLoads == {v \in Viewers : viewer[v].at = "load"}

DashInit ==
  /\ snapshot = NoSnapshot
  /\ viewer = [v \in Viewers |-> Away] /\ refresher = [g \in Refreshers |-> Off]

DashTypeOK ==
  /\ Cached => snapshot \in [age : 0..CacheTTL, blank : BOOLEAN, refreshing : BOOLEAN]
  /\ viewer \in [Viewers -> [at : {"away", "load", "stale"}, age : 0..LoadLimit]]
  /\ refresher \in [Refreshers -> 0..CacheTTL]

\* Mutant: snapshots go stale before the requests that computed them side by side ended.
WithinTTLBriefly == snapshot.age < 1

\* handleConsoleData with cachedConsole: a fresh snapshot changes nothing.
WithinTTL == snapshot.age < CacheTTL
handleConsoleData(v) ==
  /\ viewer[v] = Away
  /\ ~Cached \/ ~WithinTTL
  /\ viewer' = [viewer EXCEPT ![v] = [at |-> IF Cached THEN "stale" ELSE "load", age |-> 0]]
  /\ UNCHANGED <<snapshot, refresher>>

\* ConsoleData zero-fills what a failed query should have filled: blank.
storeConsole(v, blank) ==
  /\ viewer[v].at = "load"
  /\ snapshot' = [age |-> 0, blank |-> blank, refreshing |-> FALSE]
  /\ viewer' = [viewer EXCEPT ![v] = Away]
  /\ UNCHANGED refresher

\* refreshConsoleAsync, in a critical section of its own.
refreshConsoleAsync(v, g) ==
  /\ viewer[v].at = "stale" /\ g \notin InFlight
  /\ viewer' = [viewer EXCEPT ![v] = Away]
  /\ IF snapshot.refreshing THEN UNCHANGED <<snapshot, refresher>>
     ELSE /\ snapshot' = [snapshot EXCEPT !.refreshing = TRUE]
          /\ refresher' = [refresher EXCEPT ![g] = 0]

\* The goroutine's end: a blank result never replaces a good snapshot.
Refreshed(g, blank) ==
  /\ g \in InFlight
  /\ snapshot' = IF blank /\ ~snapshot.blank THEN [snapshot EXCEPT !.refreshing = FALSE]
                 ELSE [age |-> 0, blank |-> blank, refreshing |-> FALSE]
  /\ refresher' = [refresher EXCEPT ![g] = Off]
  /\ UNCHANGED viewer

\* Time passes; a computation ends by its deadline.
DashTick ==
  /\ \A v \in FirstLoads : viewer[v].age < LoadLimit
  /\ \A g \in InFlight : refresher[g] < RefreshLimit
  /\ viewer' = [v \in Viewers |-> IF v \in FirstLoads THEN [viewer[v] EXCEPT !.age = @ + 1] ELSE viewer[v]]
  /\ refresher' = [g \in Refreshers |-> IF g \in InFlight THEN refresher[g] + 1 ELSE Off]
  /\ snapshot' = IF Cached /\ snapshot.age < CacheTTL THEN [snapshot EXCEPT !.age = @ + 1] ELSE snapshot

DashNext ==
  \/ \E v \in Viewers : handleConsoleData(v) \/ \E b \in BOOLEAN : storeConsole(v, b)
  \/ \E v \in Viewers, g \in Refreshers : refreshConsoleAsync(v, g)
  \/ \E g \in Refreshers, b \in BOOLEAN : Refreshed(g, b)
  \/ DashTick

-----------------------------------------------------------------------------
\* "at most one refresh in flight per tenant (so a burst of stale hits can't
\* stampede)" (console.go:726): the flag says whether one runs, however late the
\* first requests store theirs; and once they are done, a dashboard that shows
\* data does not go blank because queries fail (console.go:749-752).
OneRefresh == Cached => \A g, h \in InFlight : g = h /\ snapshot.refreshing
FlagCleared == Cached /\ snapshot.refreshing => InFlight # {}
DashboardKept ==
  /\ [](OneRefresh /\ FlagCleared)
  /\ [][FirstLoads = {} /\ Cached /\ ~snapshot.blank => ~snapshot'.blank]_dashVars
=============================================================================
