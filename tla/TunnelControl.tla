--------------------------- MODULE TunnelControl ---------------------------
(***************************************************************************)
(* The client registry of the classic managed tunnel server and the        *)
(* presence flag it writes back to the database                            *)
(* (src/internal/tunnel/managed_server.go, managed_store.go).              *)
(*                                                                         *)
(* A session is one control connection of a named client.  Three kinds of  *)
(* goroutines share the registry: the handler of each session              *)
(* (handleControlConn), the heartbeat loop the handler starts, and the     *)
(* closer of the server.  Every critical section of ManagedServer.mu or    *)
(* session.routesMu and every database transaction is one step; between    *)
(* two of them any other goroutine may run.                                *)
(*                                                                         *)
(* A member of Sessions stands for one session object; once its handler    *)
(* and its heartbeat have returned and nothing refers to it any more, the  *)
(* same member may stand for a later connection.                           *)
(***************************************************************************)
EXTENDS Naturals

CONSTANTS
    Clients,        \* client names
    Sessions,       \* session objects (control connections)
    ClientOf,       \* the client name each session announces
    NoSession,      \* the nil session
    StoreMayFail,   \* TRUE: a database write of the server may return an error
    OtherEngine     \* TRUE: the QUIC server may be started over the same database

ASSUME ClientOfAssumption == ClientOf \in [Sessions -> Clients]
ASSUME NoSessionAssumption == NoSession \notin Sessions
ASSUME StoreMayFailAssumption == StoreMayFail \in BOOLEAN
ASSUME OtherEngineAssumption == OtherEngine \in BOOLEAN

VARIABLES
    phase,      \* "down", "running", "closing" (inside close()), "closed"
    clients,    \* ManagedServer.clients: the session registered for a name
    closed,     \* ManagedServer.closed
    closeQueue, \* sessions captured by ManagedServer.close() and not closed yet
    closeMark,  \* session closed by close() whose client is to be marked
    handler,    \* where the handler goroutine of a session is
    replaced,   \* the session that registerClient displaced ("existing")
    sessClosed, \* managedClientSession.closed
    heartbeat,  \* where the heartbeat goroutine of a session is
    row,        \* the client has a row in tunnel_clients
    connected,  \* tunnel_clients.connected
    seen        \* history: clients registered since the last Start

serverVars  == <<phase, closed, closeQueue, closeMark>>
sessionVars == <<handler, replaced, sessClosed, heartbeat>>
storeVars   == <<row, connected>>
vars == <<serverVars, clients, sessionVars, storeVars, seen>>

HandlerStates == {"idle", "replace", "upsert", "serve", "close", "closeActive", "mark"}
HeartbeatStates == {"off", "wait", "upsert"}

\* The handler has registered its session and has not unregistered it.
Registered(s) == handler[s] \in {"replace", "upsert", "serve"}

TypeOK ==
    /\ phase \in {"down", "running", "closing", "closed"}
    /\ clients \in [Clients -> Sessions \cup {NoSession}]
    /\ closed \in BOOLEAN
    /\ closeQueue \in SUBSET Sessions
    /\ closeMark \in Sessions \cup {NoSession}
    /\ handler \in [Sessions -> HandlerStates]
    /\ replaced \in [Sessions -> Sessions \cup {NoSession}]
    /\ sessClosed \in [Sessions -> BOOLEAN]
    /\ heartbeat \in [Sessions -> HeartbeatStates]
    /\ row \in [Clients -> BOOLEAN]
    /\ connected \in [Clients -> BOOLEAN]
    /\ seen \in SUBSET Clients

-----------------------------------------------------------------------------
(* ManagedStore *)

\* UpsertClientHeartbeat(name, ..., true).
UpsertClientHeartbeat(c) ==
    \/ /\ row' = [row EXCEPT ![c] = TRUE]
       /\ connected' = [connected EXCEPT ![c] = TRUE]
    \/ StoreMayFail /\ UNCHANGED storeVars

\* MarkClientDisconnected(name): an UPDATE, so it creates no row.
MarkClientDisconnected(c) ==
    \/ connected' = [connected EXCEPT ![c] = FALSE] /\ UNCHANGED row
    \/ StoreMayFail /\ UNCHANGED storeVars

InitializeRuntimeStateSkipped == UNCHANGED storeVars

\* InitializeRuntimeState: no client is connected when a server starts.
InitializeRuntimeState ==
    connected' = [c \in Clients |-> FALSE] /\ UNCHANGED row

-----------------------------------------------------------------------------
(* The handler of a control connection *)

\* The registry forgets a session only if it still holds that very session.
IsCurrentAny(s) == clients[ClientOf[s]] # NoSession
IsCurrent(s) == clients[ClientOf[s]] = s

\* registerClient refuses a client once the server is closed.
Accepts == phase \in {"running", "closing"} /\ ~closed

CloseSession(s) == sessClosed' = [sessClosed EXCEPT ![s] = TRUE]

Unreferenced(s) ==
    /\ handler[s] = "idle" /\ heartbeat[s] = "off"
    /\ s # closeMark /\ s \notin closeQueue
    /\ \A t \in Sessions : replaced[t] # s

\* registerClient, first critical section: the session takes over the name.
RegisterClient(s) ==
    LET existing == clients[ClientOf[s]] IN
    /\ Accepts
    /\ Unreferenced(s)
    /\ clients' = [clients EXCEPT ![ClientOf[s]] = s]
    /\ replaced' = [replaced EXCEPT ![s] = existing]
    /\ sessClosed' = [sessClosed EXCEPT ![s] = FALSE]
    /\ handler' = [handler EXCEPT ![s] = IF existing = NoSession THEN "upsert" ELSE "replace"]
    /\ seen' = seen \cup {ClientOf[s]}
    /\ UNCHANGED <<serverVars, heartbeat, storeVars>>

CloseReplacedSkipped(s) ==
    /\ handler[s] = "replace"
    /\ replaced' = [replaced EXCEPT ![s] = NoSession]
    /\ handler' = [handler EXCEPT ![s] = "upsert"]
    /\ UNCHANGED <<serverVars, clients, sessClosed, heartbeat, storeVars, seen>>

\* registerClient: existing.close(), after ManagedServer.mu is released.
CloseReplaced(s) ==
    /\ handler[s] = "replace"
    /\ CloseSession(replaced[s])
    /\ replaced' = [replaced EXCEPT ![s] = NoSession]
    /\ handler' = [handler EXCEPT ![s] = "upsert"]
    /\ UNCHANGED <<serverVars, clients, heartbeat, storeVars, seen>>

\* registerClient: the first heartbeat is written, then the loop is started.
FirstHeartbeat(s) ==
    /\ handler[s] = "upsert"
    /\ UpsertClientHeartbeat(ClientOf[s])
    /\ heartbeat' = [heartbeat EXCEPT ![s] = "wait"]
    /\ handler' = [handler EXCEPT ![s] = "serve"]
    /\ UNCHANGED <<serverVars, clients, replaced, sessClosed, seen>>

UnregisterClientForgets(s) ==
    /\ handler[s] = "serve"
    /\ handler' = [handler EXCEPT ![s] = IF IsCurrent(s) THEN "closeActive" ELSE "close"]
    /\ UNCHANGED <<clients, serverVars, replaced, sessClosed, heartbeat, storeVars, seen>>

\* unregisterClient, critical section.  The read loop ends when the session was
\* closed, or at any time because the peer or the network dropped the connection.
UnregisterClient(s) ==
    /\ handler[s] = "serve"
    /\ IF IsCurrent(s)
         THEN /\ clients' = [clients EXCEPT ![ClientOf[s]] = NoSession]
              /\ handler' = [handler EXCEPT ![s] = "closeActive"]
         ELSE /\ handler' = [handler EXCEPT ![s] = "close"]
              /\ UNCHANGED clients
    /\ UNCHANGED <<serverVars, replaced, sessClosed, heartbeat, storeVars, seen>>

\* unregisterClient: session.close().
CloseOwn(s) ==
    /\ handler[s] \in {"close", "closeActive"}
    /\ CloseSession(s)
    /\ handler' = [handler EXCEPT ![s] = IF @ = "closeActive" THEN "mark" ELSE "idle"]
    /\ UNCHANGED <<serverVars, clients, replaced, heartbeat, storeVars, seen>>

\* unregisterClient: MarkClientDisconnected, only when the session was current.
MarkOwn(s) ==
    /\ handler[s] = "mark"
    /\ MarkClientDisconnected(ClientOf[s])
    /\ handler' = [handler EXCEPT ![s] = "idle"]
    /\ UNCHANGED <<serverVars, clients, replaced, sessClosed, heartbeat, seen>>

Handler(s) ==
    \/ RegisterClient(s) \/ CloseReplaced(s) \/ FirstHeartbeat(s)
    \/ UnregisterClient(s) \/ CloseOwn(s) \/ MarkOwn(s)

-----------------------------------------------------------------------------
(* The heartbeat loop of a session *)

\* <-session.done: the loop ends with the session.
HeartbeatDone(s) ==
    /\ heartbeat[s] = "wait" /\ sessClosed[s]
    /\ heartbeat' = [heartbeat EXCEPT ![s] = "off"]
    /\ UNCHANGED <<serverVars, clients, handler, replaced, sessClosed, storeVars, seen>>

\* <-ticker.C: look the session up under mu; select may pick this even if done is closed.
HeartbeatTick(s) ==
    /\ heartbeat[s] = "wait"
    /\ heartbeat' = [heartbeat EXCEPT ![s] = IF clients[ClientOf[s]] = s THEN "upsert" ELSE "off"]
    /\ UNCHANGED <<serverVars, clients, handler, replaced, sessClosed, storeVars, seen>>

HeartbeatUpsertSkipped(s) ==
    /\ heartbeat[s] = "upsert"
    /\ heartbeat' = [heartbeat EXCEPT ![s] = "wait"]
    /\ UNCHANGED <<serverVars, clients, handler, replaced, sessClosed, storeVars, seen>>

\* The lookup is no longer protected by mu when the row is written.
HeartbeatUpsert(s) ==
    /\ heartbeat[s] = "upsert"
    /\ UpsertClientHeartbeat(ClientOf[s])
    /\ heartbeat' = [heartbeat EXCEPT ![s] = "wait"]
    /\ UNCHANGED <<serverVars, clients, handler, replaced, sessClosed, seen>>

Heartbeat(s) == HeartbeatDone(s) \/ HeartbeatTick(s) \/ HeartbeatUpsert(s)

-----------------------------------------------------------------------------
(* The life of the server *)

\* The context is cancelled or serve() returned: close() closes the listener.
CloseListener ==
    /\ phase = "running"
    /\ phase' = "closing"
    /\ UNCHANGED <<clients, closed, closeQueue, closeMark, sessionVars, storeVars, seen>>

\* close(), critical section: capture the sessions and forget them.
CloseRegistry ==
    /\ phase = "closing" /\ ~closed
    /\ closed' = TRUE
    /\ closeQueue' = {clients[c] : c \in Clients} \ {NoSession}
    /\ clients' = [c \in Clients |-> NoSession]
    /\ UNCHANGED <<phase, closeMark, sessionVars, storeVars, seen>>

CloseNextSkipped ==
    /\ closeMark = NoSession
    /\ \E s \in closeQueue :
         /\ closeQueue' = closeQueue \ {s}
         /\ closeMark' = s
    /\ UNCHANGED <<sessClosed, phase, clients, closed, handler, replaced, heartbeat, storeVars, seen>>

\* close(): session.close() for the next captured session ...
CloseNext ==
    /\ closeMark = NoSession
    /\ \E s \in closeQueue :
         /\ CloseSession(s)
         /\ closeQueue' = closeQueue \ {s}
         /\ closeMark' = s
    /\ UNCHANGED <<phase, clients, closed, handler, replaced, heartbeat, storeVars, seen>>

\* ... followed by MarkClientDisconnected for its client.
CloseMark ==
    /\ closeMark # NoSession
    /\ MarkClientDisconnected(ClientOf[closeMark])
    /\ closeMark' = NoSession
    /\ UNCHANGED <<phase, clients, closed, closeQueue, sessionVars, seen>>

\* Wait() returns: the closer, every handler and every heartbeat loop have returned.
Stopped ==
    /\ phase = "closing" /\ closed /\ closeQueue = {} /\ closeMark = NoSession
    /\ \A s \in Sessions : handler[s] = "idle" /\ heartbeat[s] = "off"
    /\ phase' = "closed"
    /\ UNCHANGED <<clients, closed, closeQueue, closeMark, sessionVars, storeVars, seen>>

\* Start: a new ManagedServer object over the same database.
Start ==
    /\ phase \in {"down", "closed"}
    /\ phase' = "running"
    /\ closed' = FALSE
    /\ seen' = {}
    /\ InitializeRuntimeState
    /\ UNCHANGED <<clients, closeQueue, closeMark, sessionVars>>

\* The process dies: everything but the database is lost.
Crash ==
    /\ phase # "down"
    /\ phase' = "down"
    /\ closed' = FALSE
    /\ clients' = [c \in Clients |-> NoSession]
    /\ closeQueue' = {} /\ closeMark' = NoSession
    /\ handler' = [s \in Sessions |-> "idle"]
    /\ replaced' = [s \in Sessions |-> NoSession]
    /\ sessClosed' = [s \in Sessions |-> FALSE]
    /\ heartbeat' = [s \in Sessions |-> "off"]
    /\ UNCHANGED <<storeVars, seen>>

\* The QUIC server of the same process starts: it resets the shared tables too.
OtherEngineStart ==
    /\ OtherEngine /\ phase # "down"
    /\ InitializeRuntimeState
    /\ UNCHANGED <<serverVars, clients, sessionVars, seen>>

-----------------------------------------------------------------------------
(* The administrator *)

\* SaveRoute / EnsureClient: FirstOrCreate of a client row, not connected.
EnsureClient(c) ==
    /\ ~row[c]
    /\ row' = [row EXCEPT ![c] = TRUE]
    /\ connected' = [connected EXCEPT ![c] = FALSE]
    /\ UNCHANGED <<serverVars, clients, sessionVars, seen>>

\* DeleteClient refuses a client whose row says it is connected.
DeleteClient(c) ==
    /\ row[c] /\ ~connected[c]
    /\ row' = [row EXCEPT ![c] = FALSE]
    /\ UNCHANGED <<connected, serverVars, clients, sessionVars, seen>>

Admin == \E c \in Clients : EnsureClient(c) \/ DeleteClient(c)

Server == CloseListener \/ CloseRegistry \/ CloseNext \/ CloseMark \/ Stopped

Init ==
    /\ phase = "down"
    /\ clients = [c \in Clients |-> NoSession]
    /\ closed = FALSE
    /\ closeQueue = {} /\ closeMark = NoSession
    /\ handler = [s \in Sessions |-> "idle"]
    /\ replaced = [s \in Sessions |-> NoSession]
    /\ sessClosed = [s \in Sessions |-> FALSE]
    /\ heartbeat = [s \in Sessions |-> "off"]
    /\ row = [c \in Clients |-> FALSE]
    /\ connected = [c \in Clients |-> FALSE]
    /\ seen = {}

Next ==
    \/ \E s \in Sessions : Handler(s) \/ Heartbeat(s)
    \/ Server \/ Start \/ Crash \/ OtherEngineStart \/ Admin

Spec == Init /\ [][Next]_vars

-----------------------------------------------------------------------------
(* Fairness *)

(***************************************************************************)
(* Every goroutine that can run eventually runs.  Nothing obliges a client *)
(* to connect, a healthy connection to drop, the administrator to act or   *)
(* the server to be stopped: the read loop is only obliged to return once  *)
(* the session, and with it the control connection, has been closed.  The  *)
(* database may fail now and then, but not forever: a heartbeat loop that  *)
(* keeps writing eventually succeeds.                                      *)
(***************************************************************************)
Fairness ==
    /\ \A s \in Sessions :
         /\ WF_vars(CloseReplaced(s) \/ FirstHeartbeat(s) \/ CloseOwn(s) \/ MarkOwn(s))
         /\ WF_vars(sessClosed[s] /\ UnregisterClient(s))
         /\ WF_vars(Heartbeat(s))
         /\ SF_vars(HeartbeatUpsert(s) /\ connected'[ClientOf[s]])
    /\ WF_vars(CloseRegistry \/ CloseNext \/ CloseMark \/ Stopped)

FairSpec == Spec /\ Fairness

-----------------------------------------------------------------------------
(* Properties *)

\* A registered name always belongs to a session of that name whose handler has
\* still to run unregisterClient: no entry of ManagedServer.clients can be left
\* behind by a handler that returned (handleControlConn's deferred unregister).
RegistryOwned ==
    \A c \in Clients : clients[c] # NoSession =>
        /\ ClientOf[clients[c]] = c
        /\ Registered(clients[c])

\* Somebody is committed to closing session s: the handler that displaced it, or
\* the closer of the server.
ToBeClosed(s) ==
    \/ \E t \in Sessions : handler[t] = "replace" /\ replaced[t] = s
    \/ s \in closeQueue

\* A session that lost its name while its handler is still serving is closed, or
\* somebody is committed to closing it: no displaced session keeps its control
\* connection and its routes next to the session that displaced it.
NoOrphan ==
    \A s \in Sessions :
        Registered(s) /\ ~sessClosed[s] /\ clients[ClientOf[s]] # s => ToBeClosed(s)

\* A heartbeat loop never outlives the handler of a session that nobody closes,
\* so it always learns that it has to stop (session.done).
HeartbeatOwned ==
    \A s \in Sessions :
        heartbeat[s] # "off" /\ ~sessClosed[s] =>
            handler[s] \in {"serve", "close", "closeActive"}

\* After close() has emptied the registry nobody registers again: registerClient
\* reads ManagedServer.closed in the critical section that close() sets it in.
ClosedEmpty == closed => \A c \in Clients : clients[c] = NoSession

\* A client is shown as connected only if it registered since the last start,
\* whatever the database said when the process died (InitializeRuntimeState).
RestartForgets == \A c \in Clients : connected[c] => c \in seen

\* What the registry must guarantee at every moment.
RegistrySafe == TypeOK /\ RegistryOwned /\ HeartbeatOwned /\ ClosedEmpty

\* The sessions between registerClient and unregisterClient.
Serving == {s \in Sessions : Registered(s)}

\* The registry implements NameService: a session loses its name only to a newer
\* session, to its own handler or to the closer (the late unregisterClient of a
\* displaced session never removes the session that displaced it), and a displaced
\* session stops being served.
Registry == INSTANCE NameService WITH
    Names <- Clients, NameOf <- ClientOf, None <- NoSession,
    owner <- clients, serving <- Serving
ImplementsNameService == Registry!Spec

\* A client that stays registered is shown as connected again and again: the
\* heartbeat repairs what a late MarkClientDisconnected of the previous session,
\* or the start of the other engine, wrote over it.
PresenceHeals ==
    \A s \in Sessions :
        <>[](clients[ClientOf[s]] = s) => []<>connected[ClientOf[s]]

\* A server that began to close finishes: Wait() finds every goroutine returned.
ShutdownTerminates == (phase = "closing") ~> (phase \in {"closed", "down"})

=============================================================================
