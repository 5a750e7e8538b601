-------------------------- MODULE MCRouteScenarios --------------------------
(***************************************************************************)
(* TunnelRoutes for TLC, in two scenarios.  Both have the sync loop, two   *)
(* free ports and the crash.  In "compete" one session serves two routes,  *)
(* which want the same port; its handler and the sync loop may both be in  *)
(* applyRoutes and both listen.  In "reconnect" the client has one route   *)
(* and two connections, of which the later displaces the earlier, so that  *)
(* three workers apply routes.                                             *)
(***************************************************************************)
EXTENDS MCTunnelRoutes

RouteUnused(r) ==
    /\ rows[r] = None
    /\ \A l \in Listeners : listener[l] # None => listener[l].route # r
    /\ \A w \in Workers : job[w].desired[r] = None

SessionUnused(s) == SessionUnreferenced(s) /\ current # s /\ s \notin overlapped

\* The action constraint: a step leads to a state of one scenario.
InOneScenario == RouteUnused(ra)' \/ SessionUnused(s2)'

(***************************************************************************)
(* States are told apart by what the next steps read.  A listener is       *)
(* replaced by its record: open ones have different ports, and of a closed *)
(* one it only matters whether it is the one Unpublish would find.  A new  *)
(* listener is the open one on the job's port.  Rows that were applied are *)
(* read for the message only, and no invariant is about the messages.      *)
(***************************************************************************)
ListenerOf(l) == IF l = None THEN None ELSE listener[l]

SnapshotOf(w) ==
    [r \in Routes |->
        LET l == job[w].snapshot[r] IN
        IF l = None THEN None ELSE <<listener[l], l = routes[job[w].target][r]>>]

DesiredOf(w) ==
    IF job[w].pc \in {"apply", "reserve", "listen", "publish", "write"}
      THEN [r \in job[w].todo \cup ({job[w].route} \ {None}) |-> job[w].desired[r]]
      ELSE job[w].desired

JobOf(w) ==
    IF job[w] = NoJob THEN None
    ELSE <<job[w].pc, job[w].target, job[w].visit, job[w].todo, job[w].route, job[w].reserved,
           job[w].port, job[w].created = None, DesiredOf(w), SnapshotOf(w)>>

ScenarioView ==
    <<rows, current, replaced, sessClosed, overlapped,
      [s \in Sessions |-> [r \in Routes |-> ListenerOf(routes[s][r])]],
      {listener[l] : l \in Listeners},
      [w \in Workers |-> JobOf(w)]>>
=============================================================================
