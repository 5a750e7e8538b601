---------------------------- MODULE TunnelRoutes ----------------------------
(***************************************************************************)
(* How the classic tunnel server applies the routes of the database to the *)
(* sessions of one client (src/internal/tunnel/managed_server.go,          *)
(* applyRoutes and its callers; managed_store.go).                         *)
(*                                                                         *)
(* Several goroutines run applyRoutes: the sync loop of the server, and    *)
(* the handler of each session right after it registered.  They share the  *)
(* session's map of listeners, the TCP ports of the host and the rows of   *)
(* the database, and nothing orders them: each works from the snapshot of  *)
(* the rows it read when it began.  The administrator changes rows at any  *)
(* time.  One step is one critical section of routesMu, one database       *)
(* transaction, or one call of net.Listen or Close; isClosed() is read     *)
(* together with the critical section that follows it.                     *)
(*                                                                         *)
(* The presence flag of the client and the shutdown of the server are the  *)
(* subject of TunnelControl and are left out here, as are database reads   *)
(* that fail (the worker then tries again at the next tick).               *)
(***************************************************************************)
EXTENDS Naturals, FiniteSets

CONSTANTS
    Sessions,       \* control connections of the client
    Syncer,         \* the sync loop
    Routes,         \* route names
    MaxPort,        \* the TCP ports of the host are 1..MaxPort
    BusyPorts,      \* ports that other programs of the host occupy
    AutoRange,      \* the ports of the auto port range; {} when it is not set
    Requests,       \* per route, what the administrator may save: [enabled, pub, udp]
    Listeners,      \* identities of managedRouteListener objects: the bound on the
                    \* objects that are in use at a time
    None            \* the nil session, listener or row

ASSUME NoneAssumption == None \notin Sessions \cup Routes \cup Listeners
ASSUME SyncerAssumption == Syncer \notin Sessions
ASSUME PortAssumption ==
    MaxPort \in Nat /\ BusyPorts \subseteq 1..MaxPort /\ AutoRange \subseteq 1..MaxPort
ASSUME RequestAssumption ==
    Requests \in [Routes -> SUBSET [enabled : BOOLEAN, pub : 0..MaxPort, udp : BOOLEAN]]

Ports == 1..MaxPort
Workers == Sessions \cup {Syncer}

VARIABLES
    rows,       \* tunnel_routes: the row of each route of the client, or None
    current,    \* ManagedServer.clients[name]
    replaced,   \* per session: the session registerClient displaced
    sessClosed, \* managedClientSession.closed
    routes,     \* managedClientSession.routes
    listener,   \* the managedRouteListener objects: port, PublicPort, open
    job,        \* per worker: where it is in applyRoutes, and its local variables
    sent,       \* per session: the routes of the last sync_routes message
    overlapped  \* history: two workers applied routes to one session at a time

hostVars    == <<sessClosed, routes, listener>>
sessionVars == <<current, replaced>>
vars == <<rows, sessionVars, hostVars, job, sent, overlapped>>

Row == [enabled : BOOLEAN, pub : 0..MaxPort, udp : BOOLEAN,
        assigned : 0..MaxPort, active : 0..MaxPort]
Listener == [sess : Sessions, route : Routes, port : Ports, pub : 0..MaxPort, open : BOOLEAN]
NoRoutes == [r \in Routes |-> None]

ASSUME ObjectAssumption == None \notin Row \cup Listener

HandlerStates == {"replace", "serve", "close", "closeActive", "mark"}
ApplyStates == {"stale", "unpublish", "clear", "apply", "reserve", "listen", "publish", "write"}
States == {"idle", "list", "sessions", "begin"} \cup HandlerStates \cup ApplyStates

Job ==
    [pc       : States,
     target   : Sessions \cup {None},               \* the session it applies routes to
     desired  : [Routes -> Row \cup {None}],        \* the rows as ListDesiredRoutes returned them
     snapshot : [Routes -> Listeners \cup {None}],  \* its copy of session.routes ("current")
     visit    : SUBSET Routes,                      \* names of the copy not looked at yet
     todo     : SUBSET Routes,                      \* routes of desired not applied yet
     route    : Routes \cup {None},                 \* the route in hand
     created  : Listeners \cup {None},              \* created, not published yet
     reserved : SUBSET Ports,                       \* what GetAssignedPorts returned
     port     : 0..MaxPort]                         \* what it is about to write as active port

NoJob == [pc |-> "idle", target |-> None, desired |-> NoRoutes, snapshot |-> NoRoutes,
          visit |-> {}, todo |-> {}, route |-> None, created |-> None,
          reserved |-> {}, port |-> 0]

\* A handler keeps running after applyRoutes: it reads the control connection.
Done(w) == IF w = Syncer THEN NoJob ELSE [NoJob EXCEPT !.pc = "serve"]

TypeOK ==
    /\ rows \in [Routes -> Row \cup {None}]
    /\ current \in Sessions \cup {None}
    /\ replaced \in [Sessions -> Sessions \cup {None}]
    /\ sessClosed \in [Sessions -> BOOLEAN]
    /\ routes \in [Sessions -> [Routes -> Listeners \cup {None}]]
    /\ listener \in [Listeners -> Listener \cup {None}]
    /\ job \in [Workers -> Job]
    /\ sent \in [Sessions -> SUBSET Routes]
    /\ overlapped \in SUBSET Sessions

-----------------------------------------------------------------------------
(* ManagedStore *)

\* The unique index over (protocol, assigned_public_port).
PortTaken(r, p) ==
    \E q \in Routes \ {r} :
        rows[q] # None /\ rows[q].udp = rows[r].udp /\ rows[q].assigned = p

UpdateRefusedNoIndex(r, p) == p > 0 /\ rows[r].assigned \notin {0, p}

\* UpdateRouteRuntime: the first port a route is exposed on is its port for good.
UpdateRefused(r, p) ==
    /\ p > 0
    /\ \/ rows[r].assigned = 0 /\ PortTaken(r, p)
       \/ rows[r].assigned \notin {0, p}

UpdateRouteRuntimeMoves(r, p) ==
    IF rows[r] = None
      THEN UNCHANGED rows
      ELSE rows' = [rows EXCEPT ![r] = [@ EXCEPT !.active = p, !.assigned = IF p = 0 THEN @ ELSE p]]

UpdateRouteRuntime(r, p) ==
    IF rows[r] = None \/ UpdateRefused(r, p)
      THEN UNCHANGED rows     \* no such row, or an error the callers ignore
      ELSE rows' = [rows EXCEPT ![r] = [@ EXCEPT
                     !.active = p,
                     !.assigned = IF rows[r].assigned = 0 THEN p ELSE rows[r].assigned]]

\* The runtime columns of a row: MarkClientDisconnected and InitializeRuntimeState
\* reset them for all routes.
ClearRuntime(db) ==
    [r \in Routes |-> IF db[r] = None THEN None
                      ELSE [db[r] EXCEPT !.active = 0]]

\* ListDesiredRoutes; applyRoutes reads no runtime column of the rows it returns.
DesiredRoutes == ClearRuntime(rows)

\* GetAssignedPorts("tcp")
AssignedPorts == {rows[r].assigned : r \in {q \in Routes : rows[q] # None /\ ~rows[q].udp}} \ {0}

\* SaveRouteWithOptions refuses to move a route that has its port.
SaveRefused(r, req) ==
    /\ rows[r] # None /\ rows[r].assigned > 0
    /\ rows[r].pub # req.pub \/ rows[r].udp # req.udp

SaveRoute(r, req) ==
    /\ ~SaveRefused(r, req)
    /\ rows' = [rows EXCEPT ![r] =
                 [enabled |-> req.enabled, pub |-> req.pub, udp |-> req.udp,
                  assigned |-> IF rows[r] = None THEN 0 ELSE rows[r].assigned,
                  active |-> 0]]
    /\ UNCHANGED <<sessionVars, hostVars, job, sent, overlapped>>

DeleteRoute(r) ==
    /\ rows[r] # None
    /\ rows' = [rows EXCEPT ![r] = None]
    /\ UNCHANGED <<sessionVars, hostVars, job, sent, overlapped>>

Admin == \E r \in Routes : DeleteRoute(r) \/ \E req \in Requests[r] : SaveRoute(r, req)

-----------------------------------------------------------------------------
(* applyRoutes, run by worker w *)

\* An enabled TCP route: the only kind the classic engine exposes.
Exposable(r) == r # None /\ r.enabled /\ ~r.udp

IsOpen(l) == listener[l] # None /\ listener[l].open
PortFree(p) == p \notin BusyPorts /\ \A l \in Listeners : IsOpen(l) => listener[l].port # p

Closed(ls) ==
    [l \in Listeners |-> IF l \in ls THEN [listener[l] EXCEPT !.open = FALSE] ELSE listener[l]]

\* The objects that are left when the map of listeners is rts and the jobs are jb: a
\* closed listener no variable points to is garbage.
Live(objects, rts, jb) ==
    [l \in Listeners |->
        IF \/ objects[l] # None /\ objects[l].open
           \/ \E s \in Sessions, r \in Routes : rts[s][r] = l
           \/ \E w \in Workers, r \in Routes : jb[w].snapshot[r] = l
        THEN objects[l] ELSE None]

\* Worker w goes on as job j.
SetJob(w, j) == job' = [job EXCEPT ![w] = j]

Unused == {l \in Listeners : listener[l] = None}
NewListener == CHOOSE l \in Unused : TRUE

\* The sync loop's tick: syncAllRoutes reads the rows first, then the sessions.
SyncList ==
    /\ job[Syncer].pc = "idle"
    /\ SetJob(Syncer, [job[Syncer] EXCEPT !.desired = DesiredRoutes, !.pc = "sessions"])
    /\ UNCHANGED <<rows, sessionVars, hostVars, sent, overlapped>>

SyncSessions ==
    /\ job[Syncer].pc = "sessions"
    /\ SetJob(Syncer, IF current = None THEN NoJob
                      ELSE [job[Syncer] EXCEPT !.target = current, !.pc = "begin"])
    /\ UNCHANGED <<rows, sessionVars, hostVars, sent, overlapped>>

\* syncSessionRoutes, called once by the handler of a session.
HandlerList(s) ==
    /\ job[s].pc = "list"
    /\ SetJob(s, [job[s] EXCEPT !.desired = DesiredRoutes, !.target = s, !.pc = "begin"])
    /\ UNCHANGED <<rows, sessionVars, hostVars, sent, overlapped>>

\* Copy session.routes; a closed session has none.
Begin(w) ==
    LET s == job[w].target IN
    /\ job[w].pc = "begin"
    /\ SetJob(w, IF sessClosed[s] THEN Done(w)
                 ELSE [job[w] EXCEPT !.snapshot = routes[s], !.pc = "stale",
                                     !.visit = {r \in Routes : routes[s][r] # None}])
    /\ overlapped' = IF \E v \in Workers \ {w} : job[v].target = s /\ job[v].pc # "begin"
                     THEN overlapped \cup {s} ELSE overlapped
    /\ UNCHANGED <<rows, sessionVars, hostVars, sent>>

IsStaleEnabled(w, r) ==
    LET want == job[w].desired[r] IN
    want = None \/ want.pub # listener[job[w].snapshot[r]].pub

\* A listener goes when its route is gone, disabled or asks for another public port.
IsStale(w, r) ==
    LET want == job[w].desired[r] IN
    want = None \/ ~want.enabled \/ want.pub # listener[job[w].snapshot[r]].pub

\* The first loop: look at one entry of the copy, close its listener if it is stale.
VisitCurrent(w) ==
    /\ job[w].pc = "stale"
    /\ \E r \in job[w].visit :
         IF sessClosed[job[w].target]
           THEN SetJob(w, Done(w)) /\ listener' = Live(listener, routes, job')
           ELSE IF IsStale(w, r)
             THEN /\ listener' = Closed({job[w].snapshot[r]})
                  /\ SetJob(w, [job[w] EXCEPT !.visit = @ \ {r}, !.route = r, !.pc = "unpublish"])
             ELSE SetJob(w, [job[w] EXCEPT !.visit = @ \ {r}]) /\ UNCHANGED listener
    /\ UNCHANGED <<rows, sessionVars, sessClosed, routes, sent, overlapped>>

\* delete(session.routes, name), unless the entry was replaced meanwhile.
Unpublish(w) ==
    LET s == job[w].target
        r == job[w].route IN
    /\ job[w].pc = "unpublish"
    /\ routes' = IF routes[s][r] = job[w].snapshot[r]
                 THEN [routes EXCEPT ![s][r] = None] ELSE routes
    /\ SetJob(w, [job[w] EXCEPT !.pc = "clear"])
    /\ UNCHANGED <<rows, sessionVars, sessClosed, listener, sent, overlapped>>

ClearRoute(w) ==
    /\ job[w].pc = "clear"
    /\ UpdateRouteRuntime(job[w].route, 0)
    /\ SetJob(w, [job[w] EXCEPT !.pc = "stale", !.route = None])
    /\ UNCHANGED <<sessionVars, hostVars, sent, overlapped>>

VisitEnd(w) ==
    /\ job[w].pc = "stale" /\ job[w].visit = {}
    /\ SetJob(w, [job[w] EXCEPT !.pc = "apply", !.snapshot = NoRoutes,
                                !.todo = {r \in Routes : job[w].desired[r] # None}])
    /\ listener' = Live(listener, routes, job')
    /\ UNCHANGED <<rows, sessionVars, sessClosed, routes, sent, overlapped>>

\* The second loop takes the next route: write it off, refresh the listener it
\* has, or go on to create one.  (The text of last_error is left out.)
ApplyNext(w) ==
    /\ job[w].pc = "apply"
    /\ \E r \in job[w].todo :
         LET s == job[w].target
             want == job[w].desired[r]
             l == routes[s][r]
             Take(next, p) ==
                 SetJob(w, [job[w] EXCEPT !.todo = @ \ {r}, !.route = r, !.pc = next, !.port = p]) IN
         IF sessClosed[s]
           THEN SetJob(w, Done(w)) /\ UNCHANGED listener
           ELSE IF ~Exposable(want)
             THEN Take("write", 0) /\ UNCHANGED listener
             ELSE IF l # None
               THEN /\ Take("write", listener[l].port)
                    /\ listener' = [listener EXCEPT ![l].pub = want.pub]      \* setRoute
               ELSE Take(IF want.pub = 0 /\ want.assigned = 0 /\ AutoRange # {}
                         THEN "reserve" ELSE "listen", 0) /\ UNCHANGED listener
    /\ UNCHANGED <<rows, sessionVars, sessClosed, routes, sent, overlapped>>

\* allocateNewPort reads the ports it must not take ...
Reserve(w) ==
    /\ job[w].pc = "reserve"
    /\ SetJob(w, [job[w] EXCEPT !.reserved = AssignedPorts, !.pc = "listen"])
    /\ UNCHANGED <<rows, sessionVars, hostVars, sent, overlapped>>

\* listenPublicRoutePort: the ports net.Listen may return for this route.
ListenPorts(w) ==
    LET want == job[w].desired[job[w].route]
        exact == IF want.pub # 0 THEN want.pub ELSE want.assigned
        auto == {p \in AutoRange \ job[w].reserved : PortFree(p)} IN
    IF exact # 0 THEN {p \in {exact} : PortFree(p)}
    ELSE IF AutoRange = {} THEN {p \in Ports : PortFree(p)}
    ELSE {p \in auto : \A q \in auto : p <= q}

\* ... and net.Listen succeeds, or no port is to be had.
Listen(w) ==
    /\ job[w].pc = "listen"
    /\ \/ /\ ListenPorts(w) = {}
          /\ SetJob(w, [job[w] EXCEPT !.pc = "write", !.reserved = {}])
          /\ UNCHANGED listener
       \/ \E p \in ListenPorts(w) :
            /\ Unused # {}
            /\ listener' = [listener EXCEPT ![NewListener] =
                 [sess |-> job[w].target, route |-> job[w].route, port |-> p,
                  pub |-> job[w].desired[job[w].route].pub, open |-> TRUE]]
            /\ SetJob(w, [job[w] EXCEPT !.pc = "publish", !.created = NewListener,
                                        !.port = p, !.reserved = {}])
    /\ UNCHANGED <<rows, sessionVars, sessClosed, routes, sent, overlapped>>

PublishForgets(w) ==
    LET s == job[w].target IN
    /\ job[w].pc = "publish"
    /\ IF sessClosed[s]
         THEN SetJob(w, Done(w)) /\ UNCHANGED routes
         ELSE /\ routes' = [routes EXCEPT ![s][job[w].route] = job[w].created]
              /\ SetJob(w, [job[w] EXCEPT !.created = None, !.pc = "write"])
    /\ UNCHANGED <<listener, rows, sessionVars, sessClosed, sent, overlapped>>

\* The new listener enters session.routes unless the session was closed meanwhile.
Publish(w) ==
    LET s == job[w].target IN
    /\ job[w].pc = "publish"
    /\ IF sessClosed[s]
         THEN /\ SetJob(w, Done(w))
              /\ listener' = Live(Closed({job[w].created}), routes, job')
              /\ UNCHANGED routes
         ELSE /\ routes' = [routes EXCEPT ![s][job[w].route] = job[w].created]
              /\ SetJob(w, [job[w] EXCEPT !.created = None, !.pc = "write"])
              /\ UNCHANGED listener
    /\ UNCHANGED <<rows, sessionVars, sessClosed, sent, overlapped>>

WriteRuntime(w) ==
    /\ job[w].pc = "write"
    /\ UpdateRouteRuntime(job[w].route, job[w].port)
    /\ SetJob(w, [job[w] EXCEPT !.pc = "apply", !.route = None, !.port = 0])
    /\ UNCHANGED <<sessionVars, hostVars, sent, overlapped>>

SendRoutesSkipped(w) ==
    /\ job[w].pc = "apply" /\ job[w].todo = {}
    /\ SetJob(w, Done(w))
    /\ UNCHANGED <<sent, rows, sessionVars, hostVars, overlapped>>

\* The sync_routes message; a session that was closed has no connection to write to.
SendRoutes(w) ==
    LET s == job[w].target IN
    /\ job[w].pc = "apply" /\ job[w].todo = {}
    /\ sent' = IF sessClosed[s] THEN sent
               ELSE [sent EXCEPT ![s] = {r \in Routes : Exposable(job[w].desired[r])}]
    /\ SetJob(w, Done(w))
    /\ UNCHANGED <<rows, sessionVars, hostVars, overlapped>>

ApplyRoutes(w) ==
    \/ Begin(w) \/ VisitCurrent(w) \/ Unpublish(w) \/ ClearRoute(w) \/ VisitEnd(w)
    \/ ApplyNext(w) \/ Reserve(w) \/ Listen(w) \/ Publish(w) \/ WriteRuntime(w) \/ SendRoutes(w)

-----------------------------------------------------------------------------
(* The handler of a session: registerClient, the initial sync, unregisterClient *)

\* session.close(): take the map of listeners, then close each of them.
CloseSession(s) ==
    /\ sessClosed' = [sessClosed EXCEPT ![s] = TRUE]
    /\ routes' = [routes EXCEPT ![s] = NoRoutes]
    /\ listener' = Live(Closed({routes[s][r] : r \in Routes} \ {None}), routes', job)

SessionUnreferenced(s) ==
    /\ job[s].pc = "idle"
    /\ \A w \in Workers : job[w].target # s
    /\ \A t \in Sessions : replaced[t] # s

RegisterClient(s) ==
    /\ SessionUnreferenced(s)
    /\ current' = s
    /\ replaced' = [replaced EXCEPT ![s] = current]
    /\ sessClosed' = [sessClosed EXCEPT ![s] = FALSE]
    /\ sent' = [sent EXCEPT ![s] = {}]
    /\ SetJob(s, [job[s] EXCEPT !.pc = IF current = None THEN "list" ELSE "replace"])
    /\ UNCHANGED <<rows, routes, listener, overlapped>>

CloseReplaced(s) ==
    /\ job[s].pc = "replace"
    /\ CloseSession(replaced[s])
    /\ replaced' = [replaced EXCEPT ![s] = None]
    /\ SetJob(s, [job[s] EXCEPT !.pc = "list"])
    /\ UNCHANGED <<rows, current, sent, overlapped>>

UnregisterClient(s) ==
    /\ job[s].pc = "serve"
    /\ current' = IF current = s THEN None ELSE current
    /\ SetJob(s, [job[s] EXCEPT !.pc = IF current = s THEN "closeActive" ELSE "close"])
    /\ UNCHANGED <<rows, replaced, hostVars, sent, overlapped>>

CloseOwn(s) ==
    /\ job[s].pc \in {"close", "closeActive"}
    /\ IF sessClosed[s] THEN UNCHANGED hostVars ELSE CloseSession(s)
    /\ SetJob(s, [job[s] EXCEPT !.pc = IF @ = "closeActive" THEN "mark" ELSE "idle"])
    /\ UNCHANGED <<rows, sessionVars, sent, overlapped>>

\* MarkClientDisconnected also resets the runtime columns of the client's routes.
MarkOwn(s) ==
    /\ job[s].pc = "mark"
    /\ rows' = ClearRuntime(rows)
    /\ SetJob(s, [job[s] EXCEPT !.pc = "idle"])
    /\ UNCHANGED <<sessionVars, hostVars, sent, overlapped>>

Handler(s) ==
    \/ RegisterClient(s) \/ CloseReplaced(s) \/ HandlerList(s)
    \/ UnregisterClient(s) \/ CloseOwn(s) \/ MarkOwn(s)

\* The process dies and the server is started again: InitializeRuntimeState.
Restart ==
    /\ rows' = ClearRuntime(rows)
    /\ current' = None
    /\ replaced' = [s \in Sessions |-> None]
    /\ sessClosed' = [s \in Sessions |-> TRUE]
    /\ routes' = [s \in Sessions |-> NoRoutes]
    /\ listener' = [l \in Listeners |-> None]
    /\ job' = [w \in Workers |-> NoJob]
    /\ sent' = [s \in Sessions |-> {}]
    /\ overlapped' = {}

Init ==
    /\ rows = [r \in Routes |-> None]
    /\ current = None
    /\ replaced = [s \in Sessions |-> None]
    /\ sessClosed = [s \in Sessions |-> TRUE]
    /\ routes = [s \in Sessions |-> NoRoutes]
    /\ listener = [l \in Listeners |-> None]
    /\ job = [w \in Workers |-> NoJob]
    /\ sent = [s \in Sessions |-> {}]
    /\ overlapped = {}

Next ==
    \/ \E w \in Workers : ApplyRoutes(w)
    \/ SyncList \/ SyncSessions
    \/ \E s \in Sessions : Handler(s)
    \/ Admin \/ Restart

Spec == Init /\ [][Next]_vars

\* Every goroutine that can run eventually runs and the sync loop ticks forever;
\* clients, administrators and crashes are free.
FairSpec ==
    /\ Spec
    /\ \A w \in Workers : WF_vars(ApplyRoutes(w))
    /\ WF_vars(SyncList \/ SyncSessions)
    /\ \A s \in Sessions :
         /\ WF_vars(CloseReplaced(s) \/ HandlerList(s) \/ CloseOwn(s) \/ MarkOwn(s))
         /\ WF_vars(sessClosed[s] /\ UnregisterClient(s))

-----------------------------------------------------------------------------
(* Properties *)

\* A closed session publishes no listener, even when applyRoutes was busy
\* creating one while the session was being closed.
ClosedSessionExposesNothing ==
    \A s \in Sessions : sessClosed[s] =>
        \A r \in Routes : routes[s][r] = None

\* Two routes of one protocol never get the same port for good, although
\* allocateNewPort reads the taken ports long before its own is recorded.
AssignedUnique ==
    \A q, r \in Routes :
        /\ q # r /\ rows[q] # None /\ rows[r] # None
        /\ rows[q].udp = rows[r].udp /\ rows[q].assigned = rows[r].assigned
        => rows[q].assigned = 0

\* The database never shows a route active on a port that is not its own.
ActiveIsAssigned ==
    \A r \in Routes : rows[r] # None => rows[r].active \in {0, rows[r].assigned}

\* The three together: what the rows and the listeners of a session promise, however
\* the workers that apply routes overlap and whenever the session is closed.
RoutesSafe == TypeOK /\ ClosedSessionExposesNothing /\ AssignedUnique /\ ActiveIsAssigned

\* Once a route has a port it keeps it until it is deleted, across updates,
\* disconnections and restarts.
AssignedStable ==
    [][\A r \in Routes :
         rows[r] # None /\ rows[r].assigned # 0 /\ rows'[r] # None =>
             rows'[r].assigned = rows[r].assigned]_vars

\* Listener l is in the map of its session or in the hands of its creator.
Owned(l) ==
    \/ routes[listener[l].sess][listener[l].route] = l
    \/ \E w \in Workers : job[w].created = l

\* A listening socket is lost (open, and closed by nobody) only for a session to
\* which two workers applied routes at the same time.
LostOnlyByOverlap ==
    \A l \in Listeners : IsOpen(l) /\ ~Owned(l) => listener[l].sess \in overlapped

\* A connected client eventually has the routes of the database, when those
\* remain unchanged ("The server syncs route changes to online clients
\* automatically").
WantedRoutes == {r \in Routes : Exposable(rows[r])}
RoutesSynced ==
    \A s \in Sessions, wanted \in SUBSET Routes :
        <>[](current = s /\ WantedRoutes = wanted) => <>[](sent[s] = wanted)

\* A route that stays deleted or disabled ends up without a listening socket,
\* unless workers overlapped.
Withdrawn(r) == \A l \in Listeners : IsOpen(l) => listener[l].route # r
WithdrawnEventually ==
    \A r \in Routes :
        <>[]((rows[r] = None \/ ~rows[r].enabled) /\ overlapped = {}) => <>[]Withdrawn(r)
=============================================================================
