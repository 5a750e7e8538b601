----------------------------- MODULE QuicControl -----------------------------
(***************************************************************************)
(* The QUIC tunnel server (src/internal/tunnel/quic_server.go): control    *)
(* connections, presence and the public routes of one client name.         *)
(*                                                                         *)
(* A session is one QUIC connection with its control stream.  The handler  *)
(* of each session, its datagram receiver, the sync loop and the closer    *)
(* share the registry entry of the name, the bindings (TCP listeners and   *)
(* UDP sockets) of the sessions, and the rows of the database.  One step   *)
(* is one critical section of mu or routesMu, one database transaction,    *)
(* one message or one call of net.Listen or Close.  Names do not interact, *)
(* and port numbers are the subject of TunnelRoutes: here net.Listen may   *)
(* fail for any reason, a port in use included.                            *)
(***************************************************************************)
EXTENDS Naturals, FiniteSets

CONSTANTS
    Sessions,       \* quicManagedClientSession objects of the name
    Syncer,         \* the sync loop
    Routes,         \* route names
    Requests,       \* what the administrator may save: [enabled, proto]
    Bindings,       \* the listeners and sockets the host can open
    StoreMayFail,   \* TRUE: a presence write may return an error
    None            \* the nil session, binding or row

ASSUME SyncerAssumption == Syncer \notin Sessions
ASSUME NoneAssumption == None \notin Sessions \cup Bindings
ASSUME StoreMayFailAssumption == StoreMayFail \in BOOLEAN
ASSUME RequestAssumption == Requests \subseteq [enabled : BOOLEAN, proto : {"tcp", "udp"}]

VARIABLES
    phase,      \* "down", "running", "closing" (inside close()), "closed" (Wait returned)
    closed,     \* QUICManagedServer.closed
    queue,      \* sessions close() captured and has not closed
    marking,    \* close() has closed a session and is to mark its client
    current,    \* QUICManagedServer.clients[name]
    handler,    \* where handleConn of a session is
    displaced,  \* "existing" of registerClient
    sessClosed, \* quicManagedClientSession.closed
    linkDown,   \* the QUIC connection of the session is closed
    receiver,   \* receiveClientDatagrams of the session is running
    bound,      \* quicManagedClientSession.routes
    binding,    \* the binding objects: session, route, protocol, open
    job,        \* per worker: where it is in applyRoutes, and its local variables
    rows,       \* tunnel_routes of the client: [enabled, proto], or None
    connected,  \* tunnel_clients.connected
    storeFailed,\* history: a presence write returned an error since the last start
    overlapped  \* history: sessions two workers applied routes to at a time

serverVars == <<phase, closed, queue, marking, current>>
connVars   == <<handler, displaced, sessClosed, linkDown, receiver>>
routeVars  == <<bound, binding, job>>
history    == <<storeFailed, overlapped>>
vars == <<serverVars, connVars, routeVars, rows, connected, history>>

Workers == Sessions \cup {Syncer}
Binding == [sess : Sessions, route : Routes, proto : {"tcp", "udp"}, open : BOOLEAN]
NoRoutes == [r \in Routes |-> None]

ASSUME BindingAssumption == None \notin Binding

HandlerStates == {"idle", "hello", "replace", "upsert", "ack", "list", "apply",
                  "serve", "unregister", "close", "mark"}
ApplyStates == {"idle", "sessions", "begin", "retire", "unpublish", "expose", "publish"}

Job == [pc       : ApplyStates,
        target   : Sessions \cup {None},
        desired  : [Routes -> Requests \cup {None}],
        snapshot : [Routes -> Bindings \cup {None}],
        route    : Routes \cup {None},
        todo     : SUBSET Routes,
        created  : Bindings \cup {None}]

NoJob == [pc |-> "idle", target |-> None, desired |-> NoRoutes, snapshot |-> NoRoutes,
          route |-> None, todo |-> {}, created |-> None]

TypeOK ==
    /\ phase \in {"down", "running", "closing", "closed"}
    /\ closed \in BOOLEAN /\ marking \in BOOLEAN
    /\ queue \in SUBSET Sessions
    /\ current \in Sessions \cup {None}
    /\ handler \in [Sessions -> HandlerStates]
    /\ displaced \in [Sessions -> Sessions \cup {None}]
    /\ sessClosed \in [Sessions -> BOOLEAN]
    /\ linkDown \in [Sessions -> BOOLEAN]
    /\ receiver \in [Sessions -> BOOLEAN]
    /\ bound \in [Sessions -> [Routes -> Bindings \cup {None}]]
    /\ binding \in [Bindings -> Binding \cup {None}]
    /\ job \in [Workers -> Job]
    /\ rows \in [Routes -> Requests \cup {None}]
    /\ connected \in BOOLEAN
    /\ storeFailed \in BOOLEAN /\ overlapped \in SUBSET Sessions

-----------------------------------------------------------------------------
(* Bindings and sessions *)

IsOpen(b) == binding[b] # None /\ binding[b].open
Closed(bs) ==
    [b \in Bindings |-> IF b \in bs THEN [binding[b] EXCEPT !.open = FALSE] ELSE binding[b]]

\* What is left of the objects: a closed binding no variable points to is garbage.
Live(objects, maps, jobs) ==
    [b \in Bindings |->
        IF \/ objects[b] # None /\ objects[b].open
           \/ \E s \in Sessions, r \in Routes : maps[s][r] = b
           \/ \E w \in Workers, r \in Routes : jobs[w].snapshot[r] = b
        THEN objects[b] ELSE None]

Unused == {b \in Bindings : binding[b] = None}
NewBinding == CHOOSE b \in Unused : TRUE

CloseSessionKeepsRoutes(s) ==
    /\ sessClosed' = [sessClosed EXCEPT ![s] = TRUE]
    /\ linkDown' = [linkDown EXCEPT ![s] = TRUE]
    /\ UNCHANGED <<bound, binding>>

\* session.close(): once; its bindings, its control stream and its connection go.
CloseSession(s) ==
    IF sessClosed[s]
      THEN UNCHANGED <<sessClosed, linkDown, bound, binding>>
      ELSE /\ sessClosed' = [sessClosed EXCEPT ![s] = TRUE]
           /\ linkDown' = [linkDown EXCEPT ![s] = TRUE]
           /\ bound' = [bound EXCEPT ![s] = NoRoutes]
           /\ binding' = Live(Closed({bound[s][r] : r \in Routes} \ {None}), bound', job)

\* UpsertClientHeartbeat(..., true) and MarkClientDisconnected: a write that may fail.
WritePresence(ok, shown) ==
    /\ ok \/ StoreMayFail
    /\ connected' = (IF ok THEN shown ELSE connected)
    /\ storeFailed' = (storeFailed \/ ~ok)
UpsertClientHeartbeat(ok) == WritePresence(ok, TRUE)
MarkClientDisconnected == \E ok \in BOOLEAN : WritePresence(ok, FALSE)

-----------------------------------------------------------------------------
(* handleConn *)

Unreferenced(s) ==
    /\ handler[s] = "idle" /\ ~receiver[s] /\ current # s /\ s \notin queue
    /\ \A t \in Sessions : displaced[t] # s
    /\ \A w \in Workers : job[w].target # s
    /\ \A b \in Bindings : binding[b] # None => binding[b].sess # s

\* serve() accepts a connection; its handler waits for the control stream.
Accept(s) ==
    /\ phase = "running" /\ Unreferenced(s)
    /\ handler' = [handler EXCEPT ![s] = "hello"]
    /\ sessClosed' = [sessClosed EXCEPT ![s] = FALSE]
    /\ linkDown' = [linkDown EXCEPT ![s] = FALSE]
    /\ overlapped' = overlapped \ {s}
    /\ UNCHANGED <<serverVars, displaced, receiver, routeVars, rows, connected, storeFailed>>

\* No stream, no valid register message, or a wrong token.
RejectHello(s) ==
    /\ handler[s] = "hello"
    /\ handler' = [handler EXCEPT ![s] = "idle"]
    /\ linkDown' = [linkDown EXCEPT ![s] = TRUE]
    /\ UNCHANGED <<serverVars, displaced, sessClosed, receiver, routeVars, rows, connected, history>>

\* The network or the peer ends the connection (its idle timeout included).
LinkFails(s) ==
    /\ handler[s] # "idle" /\ ~linkDown[s]
    /\ linkDown' = [linkDown EXCEPT ![s] = TRUE]
    /\ UNCHANGED <<serverVars, handler, displaced, sessClosed, receiver, routeVars, rows, connected, history>>

\* registerClient, critical section: a closed server refuses, otherwise the name is taken.
RegisterClient(s) ==
    /\ handler[s] = "hello"
    /\ IF closed
         THEN /\ handler' = [handler EXCEPT ![s] = "idle"]
              /\ linkDown' = [linkDown EXCEPT ![s] = TRUE]
              /\ UNCHANGED <<current, displaced>>
         ELSE /\ current' = s
              /\ displaced' = [displaced EXCEPT ![s] = current]
              /\ handler' = [handler EXCEPT ![s] = IF current = None THEN "upsert" ELSE "replace"]
              /\ UNCHANGED linkDown
    /\ UNCHANGED <<phase, closed, queue, marking, sessClosed, receiver, routeVars, rows, connected, history>>

\* registerClient: existing.close().
CloseDisplaced(s) ==
    /\ handler[s] = "replace"
    /\ CloseSession(displaced[s])
    /\ displaced' = [displaced EXCEPT ![s] = None]
    /\ handler' = [handler EXCEPT ![s] = "upsert"]
    /\ UNCHANGED <<serverVars, receiver, job, rows, connected, history>>

\* registerClient: the first heartbeat.  When it fails the handler closes the
\* connection and returns, and the session keeps the name: the deferred
\* unregisterClient is only set up after registerClient succeeded.
FirstHeartbeat(s) ==
    /\ handler[s] = "upsert"
    /\ \E ok \in BOOLEAN :
         /\ UpsertClientHeartbeat(ok)
         /\ handler' = [handler EXCEPT ![s] = IF ok THEN "ack" ELSE "idle"]
         /\ linkDown' = [linkDown EXCEPT ![s] = @ \/ ~ok]
    /\ UNCHANGED <<serverVars, displaced, sessClosed, receiver, routeVars, rows, overlapped>>

\* The acknowledgement; without a connection it fails and the handler unregisters.
Ack(s) ==
    /\ handler[s] = "ack"
    /\ handler' = [handler EXCEPT ![s] = IF linkDown[s] THEN "unregister" ELSE "list"]
    /\ UNCHANGED <<serverVars, displaced, sessClosed, linkDown, receiver, routeVars, rows, connected, history>>

\* syncSessionRoutes: read the rows, then apply them (applyRoutes below).
HandlerList(s) ==
    /\ handler[s] = "list"
    /\ job' = [job EXCEPT ![s] = [NoJob EXCEPT !.pc = "begin", !.target = s, !.desired = rows]]
    /\ handler' = [handler EXCEPT ![s] = "apply"]
    /\ UNCHANGED <<serverVars, displaced, sessClosed, linkDown, receiver, bound, binding, rows, connected, history>>

\* After the initial sync the receiver is started and the read loop begins.
HandlerSynced(s) ==
    /\ handler[s] = "apply" /\ job[s].pc = "idle"
    /\ handler' = [handler EXCEPT ![s] = "serve"]
    /\ receiver' = [receiver EXCEPT ![s] = TRUE]
    /\ UNCHANGED <<serverVars, displaced, sessClosed, linkDown, routeVars, rows, connected, history>>

ClientHeartbeatIgnored(s) ==
    /\ handler[s] = "serve" /\ ~linkDown[s]
    /\ UNCHANGED <<connected, serverVars, connVars, routeVars, rows, history>>

\* A heartbeat message of the client: the row is written without asking whether
\* the session still owns the name.
ClientHeartbeat(s) ==
    /\ handler[s] = "serve" /\ ~linkDown[s]
    /\ \E ok \in BOOLEAN : UpsertClientHeartbeat(ok)
    /\ UNCHANGED <<serverVars, connVars, routeVars, rows, overlapped>>

ReadFails(s) ==
    /\ handler[s] = "serve" /\ linkDown[s]
    /\ handler' = [handler EXCEPT ![s] = "unregister"]
    /\ UNCHANGED <<serverVars, displaced, sessClosed, linkDown, receiver, routeVars, rows, connected, history>>

UnregisterClientForgets(s) ==
    /\ handler[s] = "unregister"
    /\ handler' = [handler EXCEPT ![s] = "close"]
    /\ UNCHANGED <<current, phase, closed, queue, marking, displaced, sessClosed, linkDown, receiver, routeVars, rows, connected, history>>

\* unregisterClient: forget the session if it still has the name ...
UnregisterClient(s) ==
    /\ handler[s] = "unregister"
    /\ current' = IF current = s THEN None ELSE current
    /\ handler' = [handler EXCEPT ![s] = "close"]
    /\ UNCHANGED <<phase, closed, queue, marking, displaced, sessClosed, linkDown, receiver,
                   routeVars, rows, connected, history>>

\* ... close it, and mark the client disconnected, whoever has the name now.
CloseOwn(s) ==
    /\ handler[s] = "close"
    /\ CloseSession(s)
    /\ handler' = [handler EXCEPT ![s] = "mark"]
    /\ UNCHANGED <<serverVars, displaced, receiver, job, rows, connected, history>>

MarkOwn(s) ==
    /\ handler[s] = "mark"
    /\ MarkClientDisconnected
    /\ handler' = [handler EXCEPT ![s] = "idle"]
    /\ UNCHANGED <<serverVars, displaced, sessClosed, linkDown, receiver, routeVars, rows, overlapped>>

\* receiveClientDatagrams ends with the connection or with the server's context.
ReceiverEnds(s) ==
    /\ receiver[s] /\ (linkDown[s] \/ phase # "running")
    /\ receiver' = [receiver EXCEPT ![s] = FALSE]
    /\ UNCHANGED <<serverVars, handler, displaced, sessClosed, linkDown, routeVars, rows, connected, history>>

HandlerStep(s) ==
    \/ CloseDisplaced(s) \/ FirstHeartbeat(s) \/ Ack(s) \/ HandlerList(s) \/ HandlerSynced(s)
    \/ ReadFails(s) \/ UnregisterClient(s) \/ CloseOwn(s) \/ MarkOwn(s) \/ ReceiverEnds(s)
Handler(s) ==
    \/ Accept(s) \/ RejectHello(s) \/ LinkFails(s) \/ RegisterClient(s) \/ ClientHeartbeat(s)
    \/ HandlerStep(s)

-----------------------------------------------------------------------------
(* applyRoutes, run by worker w: the sync loop or the handler of a session *)

\* syncAllRoutes reads the rows, and only then the sessions.  (A tick that select
\* prefers to the cancelled context is taken to have come just before it.)
SyncList ==
    /\ phase = "running" /\ job[Syncer].pc = "idle"
    /\ job' = [job EXCEPT ![Syncer].pc = "sessions", ![Syncer].desired = rows]
    /\ UNCHANGED <<serverVars, connVars, bound, binding, rows, connected, history>>

SyncSessions ==
    /\ job[Syncer].pc = "sessions"
    /\ job' = [job EXCEPT ![Syncer] =
                 IF current = None THEN NoJob ELSE [@ EXCEPT !.target = current, !.pc = "begin"]]
    /\ UNCHANGED <<serverVars, connVars, bound, binding, rows, connected, history>>

\* Copy session.routes; a closed session is left alone.
Begin(w) ==
    LET s == job[w].target IN
    /\ job[w].pc = "begin"
    /\ job' = [job EXCEPT ![w] =
                 IF sessClosed[s] THEN NoJob
                 ELSE [@ EXCEPT !.snapshot = bound[s], !.pc = "retire"]]
    /\ overlapped' = IF \E v \in Workers \ {w} :
                           job[v].target = s /\ job[v].pc \notin {"begin", "sessions"}
                     THEN overlapped \cup {s} ELSE overlapped
    /\ UNCHANGED <<serverVars, connVars, bound, binding, rows, connected, storeFailed>>

\* A binding goes when its route is gone, disabled or of the other protocol now.
IsStale(w, r) ==
    LET want == job[w].desired[r] IN
    want = None \/ ~want.enabled \/ want.proto # binding[job[w].snapshot[r]].proto

StaleRoutes(w) == {r \in Routes : job[w].snapshot[r] # None /\ IsStale(w, r)}

\* The first loop closes a stale binding of the copy ...
Retire(w) ==
    /\ job[w].pc = "retire"
    /\ \E r \in StaleRoutes(w) :
         IF sessClosed[job[w].target]
           THEN job' = [job EXCEPT ![w] = NoJob] /\ binding' = Live(binding, bound, job')
           ELSE /\ binding' = Closed({job[w].snapshot[r]})
                /\ job' = [job EXCEPT ![w].pc = "unpublish", ![w].route = r]
    /\ UNCHANGED <<serverVars, connVars, bound, rows, connected, history>>

\* ... and deletes it from session.routes, unless it was replaced meanwhile.
Unpublish(w) ==
    LET s == job[w].target
        r == job[w].route IN
    /\ job[w].pc = "unpublish"
    /\ bound' = IF bound[s][r] = job[w].snapshot[r] THEN [bound EXCEPT ![s][r] = None] ELSE bound
    /\ job' = [job EXCEPT ![w].pc = "retire", ![w].route = None, ![w].snapshot[r] = None]
    /\ binding' = Live(binding, bound', job')
    /\ UNCHANGED <<serverVars, connVars, rows, connected, history>>

RetireEnd(w) ==
    /\ job[w].pc = "retire" /\ StaleRoutes(w) = {}
    /\ job' = [job EXCEPT ![w].pc = "expose", ![w].snapshot = NoRoutes,
                          ![w].todo = {r \in Routes : job[w].desired[r] # None}]
    /\ binding' = Live(binding, bound, job')
    /\ UNCHANGED <<serverVars, connVars, bound, rows, connected, history>>

\* The second loop: a disabled route is only written off, a bound one is refreshed
\* (setRoute, which keeps the binding), for another one newRouteBinding opens a
\* listener or a socket, or fails.
Expose(w) ==
    /\ job[w].pc = "expose"
    /\ \E r \in job[w].todo :
         LET s == job[w].target
             want == job[w].desired[r] IN
         \/ /\ sessClosed[s]
            /\ job' = [job EXCEPT ![w] = NoJob] /\ UNCHANGED binding
         \/ /\ ~sessClosed[s]
            /\ job' = [job EXCEPT ![w].todo = @ \ {r}] /\ UNCHANGED binding
         \/ /\ ~sessClosed[s] /\ want.enabled /\ bound[s][r] = None
            /\ Unused # {}
            /\ binding' = [binding EXCEPT ![NewBinding] =
                  [sess |-> s, route |-> r, proto |-> want.proto, open |-> TRUE]]
            /\ job' = [job EXCEPT ![w].todo = @ \ {r}, ![w].route = r, ![w].pc = "publish",
                                  ![w].created = NewBinding]
    /\ UNCHANGED <<serverVars, connVars, bound, rows, connected, history>>

PublishUnchecked(w) ==
    /\ job[w].pc = "publish"
    /\ bound' = [bound EXCEPT ![job[w].target][job[w].route] = job[w].created]
    /\ job' = [job EXCEPT ![w].pc = "expose", ![w].route = None, ![w].created = None]
    /\ UNCHANGED <<binding, serverVars, connVars, rows, connected, history>>

\* The new binding enters session.routes unless the session was closed meanwhile.
Publish(w) ==
    LET s == job[w].target IN
    /\ job[w].pc = "publish"
    /\ IF sessClosed[s]
         THEN /\ job' = [job EXCEPT ![w] = NoJob]
              /\ binding' = Live(Closed({job[w].created}), bound, job')
              /\ UNCHANGED bound
         ELSE /\ bound' = [bound EXCEPT ![s][job[w].route] = job[w].created]
              /\ job' = [job EXCEPT ![w].pc = "expose", ![w].route = None, ![w].created = None]
              /\ UNCHANGED binding
    /\ UNCHANGED <<serverVars, connVars, rows, connected, history>>

\* The sync_routes message (it may fail; nobody reacts) ends applyRoutes.
ApplyEnd(w) ==
    /\ job[w].pc = "expose" /\ job[w].todo = {}
    /\ job' = [job EXCEPT ![w] = NoJob]
    /\ UNCHANGED <<serverVars, connVars, bound, binding, rows, connected, history>>

ApplyRoutes(w) ==
    \/ Begin(w) \/ Retire(w) \/ Unpublish(w) \/ RetireEnd(w)
    \/ Expose(w) \/ Publish(w) \/ ApplyEnd(w)

-----------------------------------------------------------------------------
(* Start, close and Wait *)

Start ==
    /\ phase \in {"down", "closed"}
    /\ phase' = "running"
    /\ closed' = FALSE /\ current' = None
    /\ connected' = FALSE                   \* InitializeRuntimeState
    /\ storeFailed' = FALSE
    /\ UNCHANGED <<queue, marking, connVars, routeVars, rows, overlapped>>

\* The context is cancelled or serve() gave up: close() closes the QUIC listener.
CloseListener ==
    /\ phase = "running"
    /\ phase' = "closing"
    /\ UNCHANGED <<closed, queue, marking, current, connVars, routeVars, rows, connected, history>>

CloseRegistry ==
    /\ phase = "closing" /\ ~closed
    /\ closed' = TRUE
    /\ queue' = {current} \ {None}
    /\ current' = None
    /\ UNCHANGED <<phase, marking, connVars, routeVars, rows, connected, history>>

CloseNextSkipped ==
    /\ ~marking
    /\ \E s \in queue : queue' = queue \ {s}
    /\ marking' = TRUE
    /\ UNCHANGED <<sessClosed, linkDown, bound, binding, phase, closed, current, handler, displaced,
                   receiver, job, rows, connected, history>>

CloseNext ==
    /\ ~marking
    /\ \E s \in queue : CloseSession(s) /\ queue' = queue \ {s}
    /\ marking' = TRUE
    /\ UNCHANGED <<phase, closed, current, handler, displaced, receiver, job, rows, connected, history>>

CloseMark ==
    /\ marking
    /\ marking' = FALSE
    /\ MarkClientDisconnected
    /\ UNCHANGED <<phase, closed, queue, current, connVars, routeVars, rows, overlapped>>

\* Wait returns: closer, sync loop, handlers and receivers have returned.
Stopped ==
    /\ phase = "closing" /\ closed /\ queue = {} /\ ~marking
    /\ job[Syncer].pc = "idle"
    /\ \A s \in Sessions : handler[s] = "idle" /\ ~receiver[s]
    /\ phase' = "closed"
    /\ UNCHANGED <<closed, queue, marking, current, connVars, routeVars, rows, connected, history>>

Server == CloseRegistry \/ CloseNext \/ CloseMark \/ Stopped

\* SaveRoute and DeleteRoute of the store.
Admin ==
    /\ \E r \in Routes, row \in Requests \cup {None} : rows' = [rows EXCEPT ![r] = row]
    /\ UNCHANGED <<serverVars, connVars, routeVars, connected, history>>

Init ==
    /\ phase = "down" /\ closed = FALSE /\ queue = {} /\ marking = FALSE
    /\ current = None
    /\ handler = [s \in Sessions |-> "idle"]
    /\ displaced = [s \in Sessions |-> None]
    /\ sessClosed = [s \in Sessions |-> TRUE]
    /\ linkDown = [s \in Sessions |-> TRUE]
    /\ receiver = [s \in Sessions |-> FALSE]
    /\ bound = [s \in Sessions |-> NoRoutes]
    /\ binding = [b \in Bindings |-> None]
    /\ job = [w \in Workers |-> NoJob]
    /\ rows = NoRoutes
    /\ connected = FALSE
    /\ storeFailed = FALSE /\ overlapped = {}

Next ==
    \/ \E s \in Sessions : Handler(s)
    \/ \E w \in Workers : ApplyRoutes(w)
    \/ SyncList \/ SyncSessions \/ Server
    \/ Start \/ CloseListener \/ Admin

Spec == Init /\ [][Next]_vars

\* Every goroutine that can run eventually runs; the client sends its heartbeats for
\* ever and one of them is written in the end.  Peers, the administrator and the
\* operator are free: a peer may never send its register message.
FairSpec ==
    /\ Spec
    /\ \A s \in Sessions :
         /\ WF_vars(HandlerStep(s))
         /\ SF_vars(ClientHeartbeat(s) /\ connected')
    /\ \A w \in Workers : WF_vars(ApplyRoutes(w))
    /\ WF_vars(SyncList \/ SyncSessions) /\ WF_vars(Server)

-----------------------------------------------------------------------------
(* Properties *)

\* The handler of the session has still to run, or is running, unregisterClient.
Registered(s) == handler[s] \notin {"idle", "hello"}

\* The session that has the name is served by its handler, and a client is shown as
\* connected only while a handler of it, or the closer, has still to mark it
\* disconnected: the last word of every handler is MarkClientDisconnected.  Both hold
\* until a presence write fails: a session whose first heartbeat fails keeps the
\* name although its handler has returned.
PresenceOwned ==
    ~storeFailed =>
        /\ current # None => Registered(current)
        /\ connected => marking \/ queue # {} \/ \E s \in Sessions : Registered(s)

\* A session that is not closed has the name, or a handler that will close it, or was
\* captured by the one that displaced it or by close(): none is left open for good.
NoOrphan ==
    \A s \in Sessions :
        ~sessClosed[s] /\ current # s /\ ~linkDown[s] =>
            handler[s] # "idle" \/ s \in queue \/ \E t \in Sessions : displaced[t] = s

QuicSafe == TypeOK /\ PresenceOwned /\ NoOrphan /\ (closed => current = None)

\* An open public listener or socket is in the map of its session, which is not
\* closed, or in the hands of the worker that created it or is closing it; otherwise
\* two workers applied routes to that session at a time.  In particular a stopped
\* server exposes nothing.
Exposed(b) ==
    \/ ~sessClosed[binding[b].sess] /\ bound[binding[b].sess][binding[b].route] = b
    \/ \E w \in Workers : job[w].created = b
LostOnlyByOverlap ==
    /\ \A b \in Bindings : IsOpen(b) /\ ~Exposed(b) => binding[b].sess \in overlapped
    /\ \A s \in Sessions : sessClosed[s] => bound[s] = NoRoutes

\* "When the QUIC connection closes, route listeners [...] are cleaned up
\* automatically": a listener whose connection is gone has somebody who will close
\* it, unless a presence write failed or workers overlapped.
CleanupCommitted ==
    \A b \in Bindings :
        LET s == binding[b].sess IN
        IsOpen(b) /\ linkDown[s] /\ s \notin overlapped /\ ~storeFailed =>
            \/ Registered(s) \/ s \in queue
            \/ \E t \in Sessions : displaced[t] = s
            \/ \E w \in Workers : job[w].created = b

\* A client whose session keeps the name and its connection is shown as connected
\* again and again, although the late unregisterClient of every older session marks
\* it disconnected.
PresenceHeals ==
    \A s \in Sessions :
        <>[](current = s /\ handler[s] = "serve" /\ ~linkDown[s]) => []<>connected

\* A server that begins to close finishes, unless a peer that was accepted never
\* sends its register message: that read has no deadline.
ShutdownTerminates ==
    (phase = "closing") ~> (phase = "closed" \/ \E s \in Sessions : handler[s] = "hello")
=============================================================================
