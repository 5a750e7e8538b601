----------------------------- MODULE TunnelData -----------------------------
(***************************************************************************)
(* Public connections of one route of the classic tunnel server: from      *)
(* Accept on the public port, over the open message to the client and the  *)
(* data connection the client answers with, to the relay                   *)
(* (src/internal/tunnel/managed_server.go, managed_sessions.go, relay.go). *)
(*                                                                         *)
(* A public connection passes from hand to hand: the accept loop of its    *)
(* listener, the map of pending connections, then either the handler of a  *)
(* data connection, the expiry timer or the closer of the listener.  Each  *)
(* critical section of pendingMu, routesMu, mu and sessionsMu, and each    *)
(* call on a connection, is one step.                                      *)
(*                                                                         *)
(* There is one session; the administrator may withdraw its route and      *)
(* expose it again, which gives it another listener.  The peer on the      *)
(* control and data connections is a client that knows the token; it may   *)
(* answer an open message late, never or more than once.                   *)
(***************************************************************************)
EXTENDS Naturals, FiniteSets

CONSTANTS
    Conns,          \* public connections; also their connection IDs
    Listeners,      \* managedRouteListener objects of the route
    DataConns,      \* data connections, with their handlers
    MaxPending,     \* MaxPendingConnections
    None            \* no listener, no connection

ASSUME NoneAssumption == None \notin Conns \cup Listeners
ASSUME MaxPendingAssumption == MaxPending \in Nat \ {0}

VARIABLES
    registered, \* ManagedServer.clients[name] is this session
    sessClosed, \* managedClientSession.closed
    route,      \* session.routes[name]
    socket,     \* per listener: "unused", "open", "shut" (not accepting), "closed"
    pending,    \* per listener: managedRouteListener.pending
    acceptor,   \* per listener: acceptPublicConnections and the connection in hand
    public,     \* per public connection: "none", "open", "closed" (by the server)
    timer,      \* per public connection: expirePendingConnection
    origin,     \* per public connection: the listener that accepted it
    announced,  \* IDs sent to the client in an open message
    data,       \* per data connection: where its handler is, the ID it presented
    tracked     \* ManagedServer.sessions, the list of active sessions

sessionVars == <<registered, sessClosed, route>>
connVars    == <<public, origin>>
vars == <<sessionVars, socket, pending, acceptor, connVars, timer, announced, data, tracked>>

AcceptorStates == {"accept", "check", "insert", "announce", "drop"}
TimerStates == {"off", "armed", "fired"}
DataStates == {"idle", "session", "route", "take", "reply", "track", "relay", "end"}

Acceptor == [pc : AcceptorStates, conn : Conns \cup {None}]
Data == [pc : DataStates, id : Conns \cup {None}, listener : Listeners \cup {None}]
Accepting == [pc |-> "accept", conn |-> None]
NoData == [pc |-> "idle", id |-> None, listener |-> None]

TypeOK ==
    /\ registered \in BOOLEAN
    /\ sessClosed \in BOOLEAN
    /\ route \in Listeners \cup {None}
    /\ socket \in [Listeners -> {"unused", "open", "shut", "closed"}]
    /\ pending \in [Listeners -> SUBSET Conns]
    /\ acceptor \in [Listeners -> Acceptor]
    /\ public \in [Conns -> {"none", "open", "closed"}]
    /\ timer \in [Conns -> TimerStates]
    /\ origin \in [Conns -> Listeners \cup {None}]
    /\ announced \in SUBSET Conns
    /\ data \in [DataConns -> Data]
    /\ tracked \in SUBSET Conns

ClosePublic(c) == public' = [public EXCEPT ![c] = "closed"]
Withdraw(l, c) == pending' = [pending EXCEPT ![l] = @ \ {c}]

-----------------------------------------------------------------------------
(* The accept loop of a listener *)

\* Accept, then isSourceAllowed: a source the IP whitelist does not name is closed.
Accept(l) ==
    /\ socket[l] = "open" /\ acceptor[l].pc = "accept"
    /\ \E c \in Conns :
         /\ public[c] = "none"
         /\ origin' = [origin EXCEPT ![c] = l]
         /\ \/ ClosePublic(c) /\ UNCHANGED acceptor
            \/ /\ public' = [public EXCEPT ![c] = "open"]
               /\ acceptor' = [acceptor EXCEPT ![l] = [pc |-> "check", conn |-> c]]
    /\ UNCHANGED <<sessionVars, socket, pending, timer, announced, data, tracked>>

OpenPendingUnbounded(l) ==
    /\ acceptor[l].pc = "check"
    /\ acceptor' = [acceptor EXCEPT ![l].pc = "insert"]
    /\ UNCHANGED <<public, sessionVars, socket, pending, timer, origin, announced, data, tracked>>

\* openPendingConnection, first critical section: is there room?  pendingMu is
\* released before the connection is entered.
OpenPending(l) ==
    /\ acceptor[l].pc = "check"
    /\ IF Cardinality(pending[l]) >= MaxPending
         THEN ClosePublic(acceptor[l].conn) /\ acceptor' = [acceptor EXCEPT ![l] = Accepting]
         ELSE acceptor' = [acceptor EXCEPT ![l].pc = "insert"] /\ UNCHANGED public
    /\ UNCHANGED <<sessionVars, socket, pending, timer, origin, announced, data, tracked>>

\* openPendingConnection, second critical section.
InsertPending(l) ==
    /\ acceptor[l].pc = "insert"
    /\ pending' = [pending EXCEPT ![l] = @ \cup {acceptor[l].conn}]
    /\ acceptor' = [acceptor EXCEPT ![l].pc = "announce"]
    /\ UNCHANGED <<sessionVars, socket, connVars, timer, announced, data, tracked>>

AnnounceTimeless(l) ==
    LET c == acceptor[l].conn IN
    /\ acceptor[l].pc = "announce"
    /\ \/ /\ ~sessClosed
          /\ announced' = announced \cup {c}
          /\ acceptor' = [acceptor EXCEPT ![l] = Accepting]
          /\ UNCHANGED pending
       \/ /\ Withdraw(l, c)
          /\ acceptor' = [acceptor EXCEPT ![l].pc = "drop"]
          /\ UNCHANGED announced
    /\ UNCHANGED <<timer, sessionVars, socket, connVars, data, tracked>>

\* writeControl of the open message: the timer is started when it succeeded; when
\* it failed (it must once the session is closed) the entry is removed again.
Announce(l) ==
    LET c == acceptor[l].conn IN
    /\ acceptor[l].pc = "announce"
    /\ \/ /\ ~sessClosed
          /\ announced' = announced \cup {c}
          /\ timer' = [timer EXCEPT ![c] = "armed"]
          /\ acceptor' = [acceptor EXCEPT ![l] = Accepting]
          /\ UNCHANGED pending
       \/ /\ Withdraw(l, c)
          /\ acceptor' = [acceptor EXCEPT ![l].pc = "drop"]
          /\ UNCHANGED <<announced, timer>>
    /\ UNCHANGED <<sessionVars, socket, connVars, data, tracked>>

\* acceptPublicConnections closes the connection it could not announce.
Drop(l) ==
    /\ acceptor[l].pc = "drop"
    /\ ClosePublic(acceptor[l].conn)
    /\ acceptor' = [acceptor EXCEPT ![l] = Accepting]
    /\ UNCHANGED <<sessionVars, socket, pending, timer, origin, announced, data, tracked>>

OpenPublic(l) == OpenPending(l) \/ InsertPending(l) \/ Announce(l) \/ Drop(l)

-----------------------------------------------------------------------------
(* The expiry timer of a pending connection *)

\* PendingTimeout has passed: take the connection out, if it is still there ...
Expire(c) ==
    /\ timer[c] = "armed"
    /\ Withdraw(origin[c], c)
    /\ timer' = [timer EXCEPT ![c] = IF c \in pending[origin[c]] THEN "fired" ELSE "off"]
    /\ UNCHANGED <<sessionVars, socket, acceptor, connVars, announced, data, tracked>>

\* ... and then close it.
ExpireClose(c) ==
    /\ timer[c] = "fired"
    /\ ClosePublic(c)
    /\ timer' = [timer EXCEPT ![c] = "off"]
    /\ UNCHANGED <<sessionVars, socket, pending, acceptor, origin, announced, data, tracked>>

-----------------------------------------------------------------------------
(* The handler of a data connection *)

Reject(d) == data' = [data EXCEPT ![d] = NoData]

\* A client presents the ID of an open message it received.
DataHandshake(d) ==
    /\ data[d].pc = "idle"
    /\ \E c \in announced : data' = [data EXCEPT ![d] = [NoData EXCEPT !.pc = "session", !.id = c]]
    /\ UNCHANGED <<sessionVars, socket, pending, acceptor, connVars, timer, announced, tracked>>

LookUpSession(d) ==
    /\ data[d].pc = "session"
    /\ IF registered THEN data' = [data EXCEPT ![d].pc = "route"] ELSE Reject(d)
    /\ UNCHANGED <<sessionVars, socket, pending, acceptor, connVars, timer, announced, tracked>>

LookUpRoute(d) ==
    /\ data[d].pc = "route"
    /\ IF route = None THEN Reject(d)
       ELSE data' = [data EXCEPT ![d].listener = route, ![d].pc = "take"]
    /\ UNCHANGED <<sessionVars, socket, pending, acceptor, connVars, timer, announced, tracked>>

TakePendingKeeps(d) ==
    LET held == data[d].id \in pending[data[d].listener] IN
    /\ data[d].pc = "take"
    /\ IF held THEN data' = [data EXCEPT ![d].pc = "reply"] ELSE Reject(d)
    /\ UNCHANGED <<pending, sessionVars, socket, acceptor, connVars, timer, announced, tracked>>

\* takePending: look the connection up and remove it, in one critical section.
TakePending(d) ==
    LET held == data[d].id \in pending[data[d].listener] IN
    /\ data[d].pc = "take"
    /\ Withdraw(data[d].listener, data[d].id)
    /\ IF held THEN data' = [data EXCEPT ![d].pc = "reply"] ELSE Reject(d)
    /\ UNCHANGED <<sessionVars, socket, acceptor, connVars, timer, announced, tracked>>

\* The OK response; when it cannot be written both connections are closed.
Reply(d) ==
    /\ data[d].pc = "reply"
    /\ \/ data' = [data EXCEPT ![d].pc = "track"] /\ UNCHANGED public
       \/ Reject(d) /\ ClosePublic(data[d].id)
    /\ UNCHANGED <<sessionVars, socket, pending, acceptor, timer, origin, announced, tracked>>

\* trackActiveSession, then the relay is started.
Track(d) ==
    /\ data[d].pc = "track"
    /\ tracked' = tracked \cup {data[d].id}
    /\ data' = [data EXCEPT ![d].pc = "relay"]
    /\ UNCHANGED <<sessionVars, socket, pending, acceptor, connVars, timer, announced>>

\* Both directions of the relay ended: OnClose untracks the session first ...
RelayDone(d) ==
    /\ data[d].pc = "relay"
    /\ tracked' = tracked \ {data[d].id}
    /\ data' = [data EXCEPT ![d].pc = "end"]
    /\ UNCHANGED <<sessionVars, socket, pending, acceptor, connVars, timer, announced>>

\* ... and the connections are closed.
RelayClose(d) ==
    /\ data[d].pc = "end"
    /\ ClosePublic(data[d].id)
    /\ Reject(d)
    /\ UNCHANGED <<sessionVars, socket, pending, acceptor, timer, origin, announced, tracked>>

HandleDataConn(d) ==
    LookUpSession(d) \/ LookUpRoute(d) \/ TakePending(d) \/ Reply(d) \/ Track(d) \/ RelayClose(d)

-----------------------------------------------------------------------------
(* The listener comes and goes *)

\* applyRoutes exposes the route on a new listener.
Expose(l) ==
    /\ socket[l] = "unused" /\ route = None /\ ~sessClosed
    /\ socket' = [socket EXCEPT ![l] = "open"]
    /\ route' = l
    /\ UNCHANGED <<registered, sessClosed, pending, acceptor, connVars, timer, announced, data, tracked>>

\* managedRouteListener.close(), by applyRoutes or by session.close(): stop accepting ...
Shut(l) ==
    /\ socket[l] = "open"
    /\ socket' = [socket EXCEPT ![l] = "shut"]
    /\ UNCHANGED <<sessionVars, pending, acceptor, connVars, timer, announced, data, tracked>>

\* ... and close what is pending, under pendingMu.
ClearPending(l) ==
    /\ socket[l] = "shut"
    /\ socket' = [socket EXCEPT ![l] = "closed"]
    /\ public' = [c \in Conns |-> IF c \in pending[l] THEN "closed" ELSE public[c]]
    /\ pending' = [pending EXCEPT ![l] = {}]
    /\ UNCHANGED <<sessionVars, acceptor, origin, timer, announced, data, tracked>>

\* applyRoutes removes the listener it closed from session.routes.
Unpublish(l) ==
    /\ socket[l] = "closed" /\ route = l
    /\ route' = None
    /\ UNCHANGED <<registered, sessClosed, socket, pending, acceptor, connVars, timer, announced,
                   data, tracked>>

\* The registry forgets the session (unregisterClient, a reconnection).
Unregister ==
    /\ registered
    /\ registered' = FALSE
    /\ UNCHANGED <<sessClosed, route, socket, pending, acceptor, connVars, timer, announced, data,
                   tracked>>

\* ManagedServer.close() also drops the list of active sessions.
CloseServer ==
    /\ registered
    /\ registered' = FALSE
    /\ tracked' = {}
    /\ UNCHANGED <<sessClosed, route, socket, pending, acceptor, connVars, timer, announced, data>>

\* session.close(): take the map of listeners; each is then closed.
CloseSession ==
    /\ ~registered /\ ~sessClosed
    /\ sessClosed' = TRUE
    /\ route' = None
    /\ UNCHANGED <<registered, socket, pending, acceptor, connVars, timer, announced, data, tracked>>

Init ==
    /\ registered = TRUE /\ sessClosed = FALSE /\ route = None
    /\ socket = [l \in Listeners |-> "unused"]
    /\ pending = [l \in Listeners |-> {}]
    /\ acceptor = [l \in Listeners |-> Accepting]
    /\ public = [c \in Conns |-> "none"]
    /\ timer = [c \in Conns |-> "off"]
    /\ origin = [c \in Conns |-> None]
    /\ announced = {}
    /\ data = [d \in DataConns |-> NoData]
    /\ tracked = {}

Next ==
    \/ \E l \in Listeners :
         Accept(l) \/ OpenPublic(l) \/ Expose(l) \/ Shut(l) \/ ClearPending(l) \/ Unpublish(l)
    \/ \E c \in Conns : Expire(c) \/ ExpireClose(c)
    \/ \E d \in DataConns : DataHandshake(d) \/ HandleDataConn(d) \/ RelayDone(d)
    \/ Unregister \/ CloseServer \/ CloseSession

Spec == Init /\ [][Next]_vars

(***************************************************************************)
(* Goroutines that can run do; PendingTimeout passes.  writeControl has no *)
(* deadline: that Announce is taken assumes that the client reads its      *)
(* control connection, which its read loop does (ManagedClient.runOnce),   *)
(* or that the session is closed.  Connections need not arrive, clients    *)
(* need not answer and relays need not end.                                *)
(***************************************************************************)
FairSpec ==
    /\ Spec
    /\ \A l \in Listeners : WF_vars(OpenPublic(l)) /\ WF_vars(ClearPending(l))
    /\ \A c \in Conns : WF_vars(Expire(c) \/ ExpireClose(c))
    /\ \A d \in DataConns : WF_vars(HandleDataConn(d))

-----------------------------------------------------------------------------
(* Properties *)

InHand(c) == \E l \in Listeners : acceptor[l].conn = c
Pending(c) == c \in pending[origin[c]]
Holds(d, c) == data[d].id = c /\ data[d].pc \in {"reply", "track", "relay", "end"}

\* MaxPendingConnections is kept, although openPendingConnection releases pendingMu
\* between counting the pending connections and adding one.
PendingBounded == \A l \in Listeners : Cardinality(pending[l]) <= MaxPending

\* Every open public connection is in somebody's hands: the accept loop's, a data
\* handler's, the timer's, or pending with its timer running.  None is forgotten
\* when its listener is closed while the connection is being entered.
NoneForgotten ==
    \A c \in Conns : public[c] = "open" =>
        \/ InHand(c)
        \/ Pending(c) /\ timer[c] = "armed"
        \/ timer[c] = "fired"
        \/ \E d \in DataConns : Holds(d, c)

\* A public connection is handed to one data connection at most, and while that
\* one relays it neither the timer nor the closer of the listener closes it.
OneTaker ==
    \A d, e \in DataConns, c \in Conns :
        Holds(d, c) => public[c] = "open" /\ ~Pending(c) /\ (Holds(e, c) => d = e)

\* The list of active sessions shows only connections that are being relayed.
TrackedRelays ==
    \A c \in tracked : \E d \in DataConns : data[d].id = c /\ data[d].pc = "relay"

DataSafe == TypeOK /\ PendingBounded /\ TrackedRelays

\* A public connection that was accepted is eventually relayed or closed: nobody
\* waits for a client that does not answer.
Settles ==
    \A c \in Conns :
        public[c] = "open" ~>
            (public[c] = "closed" \/ \E d \in DataConns : data[d].id = c /\ data[d].pc = "relay")
=============================================================================
