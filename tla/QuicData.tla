------------------------------ MODULE QuicData ------------------------------
(***************************************************************************)
(* The data path of one QUIC tunnel connection: public UDP packets over    *)
(* datagrams and public TCP connections over streams                       *)
(* (src/internal/tunnel/quic_server.go, quic_client.go).                   *)
(*                                                                         *)
(* The module starts when the bindings exist and the client is connected,  *)
(* and ends with the connection: bindings are closed one after the other   *)
(* (a withdrawn route, or session.close()), never reopened.  Datagrams are *)
(* lost and reordered.  Time is left out: a session may be idle for long   *)
(* enough at any tick of a timer.  Payloads are left out, and with them    *)
(* their encoding.  Packets the server drops for their size or source      *)
(* change no state and do not appear, nor do the responses, which the      *)
(* server writes to the source of the session.                             *)
(***************************************************************************)
EXTENDS Naturals, FiniteSets

CONSTANTS
    Routes,     \* UDP routes of the client, one binding each
    Sources,    \* addresses of the public side
    Ids,        \* session IDs newManagedConnectionID can draw
    Conns,      \* public TCP connections
    Objects,    \* quicClientUDPSession objects
    None        \* no session, no source

ASSUME NoneAssumption == None \notin Ids \cup Sources \cup Objects
ASSUME TrackedAssumption == Ids \cap Conns = {}

VARIABLES
    link,       \* "up", or "down": the QUIC connection is closed
    sockOpen,   \* the UDP socket of a binding is open
    swept,      \* close() of a binding has emptied its maps
    reading,    \* source of the packet serve() has read, or None
    byID,       \* quicManagedUDPRoute.sessionsByID: ID -> source address
    bySource,   \* quicManagedUDPRoute.sessionsBySource: source -> ID
    expired,    \* sessions cleanupLoop took from the maps and has not untracked
    tracked,    \* QUICManagedServer.sessions
    drawn,      \* IDs that were drawn (128 random bits: never drawn twice)
    toClient,   \* datagrams in flight to the client: session IDs
    toServer,   \* close frames in flight to the server: session IDs
    udpSessions,\* QUICManagedClient.udpSessions: ID -> object
    object,     \* client session objects: ID, socket, where readResponses is
    doomed,     \* objects closeUDPSessions took from the map and has not closed
    sweeping,   \* runOnce has still to run closeUDPSessions
    server,     \* per TCP connection: where handlePublicConnection or its relay is
    client      \* per TCP connection: where handleStream or its relay is

serverUDP == <<sockOpen, swept, reading, byID, bySource, expired, drawn>>
clientUDP == <<udpSessions, object, doomed, sweeping>>
wires     == <<toClient, toServer>>
streams   == <<server, client>>
vars == <<link, serverUDP, tracked, wires, clientUDP, streams>>

NoSessions == [i \in Ids |-> None]
NoObject == [id |-> None, open |-> FALSE, reader |-> "off"]
Object == [id : Ids \cup {None}, open : BOOLEAN, reader : {"off", "read", "farewell", "remove"}]

\* One side of a TCP connection: the copiers that are still running.
Relay(copiers) == [pc |-> "relay", copiers |-> copiers]
At(pc) == [pc |-> pc, copiers |-> {}]
Copiers == {"toStream", "fromStream"}
ServerStates == {"idle", "open", "ack", "relay", "done"}
ClientStates == {"idle", "dial", "refused", "relay", "done"}

TypeOK ==
    /\ link \in {"up", "down"}
    /\ sockOpen \in [Routes -> BOOLEAN] /\ swept \in [Routes -> BOOLEAN]
    /\ reading \in [Routes -> Sources \cup {None}]
    /\ byID \in [Routes -> [Ids -> Sources \cup {None}]]
    /\ bySource \in [Routes -> [Sources -> Ids \cup {None}]]
    /\ expired \in [Routes -> SUBSET Ids]
    /\ tracked \in SUBSET (Ids \cup Conns)
    /\ drawn \in SUBSET Ids
    /\ toClient \in SUBSET Ids /\ toServer \in SUBSET Ids
    /\ udpSessions \in [Ids -> Objects \cup {None}]
    /\ object \in [Objects -> Object]
    /\ doomed \in SUBSET Objects /\ sweeping \in BOOLEAN
    /\ server \in [Conns -> [pc : ServerStates, copiers : SUBSET Copiers]]
    /\ client \in [Conns -> [pc : ClientStates, copiers : SUBSET Copiers]]

-----------------------------------------------------------------------------
(* UDP, server: quicManagedUDPRoute *)

\* serve(): a packet of an allowed source.
ReadPacket(r, a) ==
    /\ sockOpen[r] /\ reading[r] = None
    /\ reading' = [reading EXCEPT ![r] = a]
    /\ UNCHANGED <<link, sockOpen, swept, byID, bySource, expired, drawn, tracked, wires,
                   clientUDP, streams>>

Enter(r, i, a) ==
    /\ byID' = [byID EXCEPT ![r][i] = a]
    /\ bySource' = [bySource EXCEPT ![r][a] = i]
    /\ tracked' = tracked \cup {i}
    /\ drawn' = drawn \cup {i}

\* A datagram that is sent while the connection is closed is lost.
Send(i) == toClient' = IF link = "up" THEN toClient \cup {i} ELSE toClient
SendClose(i) == toServer' = IF link = "up" THEN toServer \cup {i} ELSE toServer

\* getOrCreateSession, then the datagram to the client.  serve() does not look at
\* the binding again: close() may have emptied the maps since the packet was read.
ServePacket(r) ==
    LET a == reading[r] IN
    /\ a # None
    /\ reading' = [reading EXCEPT ![r] = None]
    /\ IF bySource[r][a] # None
         THEN Send(bySource[r][a]) /\ UNCHANGED <<byID, bySource, tracked, drawn>>
         ELSE \E i \in Ids \ drawn : Enter(r, i, a) /\ Send(i)
    /\ UNCHANGED <<link, sockOpen, swept, expired, toServer, clientUDP, streams>>

RemoveIDOnly(r, is) ==
    /\ byID' = [byID EXCEPT ![r] = [i \in Ids |-> IF i \in is THEN None ELSE @[i]]]
    /\ UNCHANGED bySource

\* Sessions leave both maps.
Remove(r, is) ==
    /\ byID' = [byID EXCEPT ![r] = [i \in Ids |-> IF i \in is THEN None ELSE @[i]]]
    /\ bySource' = [bySource EXCEPT ![r] = [a \in Sources |-> IF @[a] \in is THEN None ELSE @[a]]]

\* handleClientDatagram, close frame: every UDP binding answers it without an error,
\* so the first binding asked consumes it, whether it has the session or not.
CloseFrame(r, i) ==
    /\ i \in toServer
    /\ toServer' = toServer \ {i}
    /\ ~swept[r]
    /\ IF byID[r][i] # None
         THEN Remove(r, {i}) /\ tracked' = tracked \ {i}
         ELSE UNCHANGED <<byID, bySource, tracked>>
    /\ UNCHANGED <<link, sockOpen, swept, reading, expired, drawn, toClient, clientUDP, streams>>

Mapped(r) == {i \in Ids : byID[r][i] # None}

ExpireWhileOpen(r, is) ==
    /\ sockOpen[r]
    /\ expired[r] = {} /\ is # {} /\ is \subseteq Mapped(r)
    /\ Remove(r, is)
    /\ expired' = [expired EXCEPT ![r] = is]
    /\ UNCHANGED <<link, sockOpen, swept, reading, drawn, tracked, wires, clientUDP, streams>>

\* cleanupLoop: a tick takes idle sessions from the maps.  The loop never returns
\* (r.conn is never nil), and a closed binding needs it: a packet served after
\* close() leaves a session behind.
Expire(r, is) ==
    /\ expired[r] = {} /\ is # {} /\ is \subseteq Mapped(r)
    /\ Remove(r, is)
    /\ expired' = [expired EXCEPT ![r] = is]
    /\ UNCHANGED <<link, sockOpen, swept, reading, drawn, tracked, wires, clientUDP, streams>>

\* They are untracked after the lock was released.
Untrack(r) ==
    /\ expired[r] # {}
    /\ tracked' = tracked \ expired[r]
    /\ expired' = [expired EXCEPT ![r] = {}]
    /\ UNCHANGED <<link, sockOpen, swept, reading, byID, bySource, drawn, wires, clientUDP, streams>>

\* close() of a binding: the socket ...
CloseSocket(r) ==
    /\ sockOpen[r]
    /\ sockOpen' = [sockOpen EXCEPT ![r] = FALSE]
    /\ UNCHANGED <<link, swept, reading, byID, bySource, expired, drawn, tracked, wires,
                   clientUDP, streams>>

\* ... then, under sessionsMu, its sessions.
Sweep(r) ==
    /\ ~sockOpen[r] /\ ~swept[r]
    /\ swept' = [swept EXCEPT ![r] = TRUE]
    /\ tracked' = tracked \ Mapped(r)
    /\ Remove(r, Mapped(r))
    /\ UNCHANGED <<link, sockOpen, reading, expired, drawn, wires, clientUDP, streams>>

ServerUDP(r) ==
    \/ \E a \in Sources : ReadPacket(r, a)
    \/ ServePacket(r) \/ CloseSocket(r) \/ Sweep(r) \/ Untrack(r)
    \/ \E is \in SUBSET Ids : Expire(r, is)
    \/ \E i \in toServer : CloseFrame(r, i)

-----------------------------------------------------------------------------
(* UDP, client *)

Free(o) == object[o].reader = "off" /\ ~object[o].open

\* handleUDPDatagram: a packet of a route that the client's copy of the routes does
\* not have, or above the limit it gives, is answered with a close frame; another
\* one goes to the socket of its session, which is created together with its reader
\* when the ID is new.  (The copy changes with every sync_routes message.)
Refuse(i) ==
    /\ i \in toClient
    /\ toClient' = toClient \ {i}
    /\ SendClose(i)
    /\ UNCHANGED <<link, serverUDP, tracked, clientUDP, streams>>
Deliver(i) ==
    /\ i \in toClient
    /\ toClient' = toClient \ {i}
    /\ IF udpSessions[i] # None
         THEN UNCHANGED <<udpSessions, object>>
         ELSE \E o \in Objects :
                /\ Free(o)
                /\ udpSessions' = [udpSessions EXCEPT ![i] = o]
                /\ object' = [object EXCEPT ![o] = [id |-> i, open |-> TRUE, reader |-> "read"]]
    /\ UNCHANGED <<link, serverUDP, tracked, toServer, doomed, sweeping, streams>>

\* The reader gives up: its socket was closed, the session is idle, or the
\* connection refuses the datagram.
ReaderLeaves(o) ==
    /\ object[o].reader = "read"
    /\ object' = [object EXCEPT ![o].reader = "farewell"]
    /\ UNCHANGED <<link, serverUDP, tracked, wires, udpSessions, doomed, sweeping, streams>>

Farewell(o) ==
    /\ object[o].reader = "farewell"
    /\ SendClose(object[o].id)
    /\ object' = [object EXCEPT ![o].reader = "remove"]
    /\ UNCHANGED <<link, serverUDP, tracked, toClient, udpSessions, doomed, sweeping, streams>>

RemoveUDPSessionNoClose(o) ==
    /\ object[o].reader = "remove"
    /\ udpSessions' = [udpSessions EXCEPT ![object[o].id] = None]
    /\ object' = [object EXCEPT ![o].reader = "off"]
    /\ UNCHANGED <<link, serverUDP, tracked, wires, doomed, sweeping, streams>>

\* removeUDPSession goes by the ID: it removes and closes whatever object the map
\* holds under the ID now.
RemoveUDPSession(o) ==
    LET other == udpSessions[object[o].id] IN
    /\ object[o].reader = "remove"
    /\ udpSessions' = [udpSessions EXCEPT ![object[o].id] = None]
    /\ object' = [p \in Objects |->
                    [object[p] EXCEPT !.open = @ /\ p # other,
                                      !.reader = IF p = o THEN "off" ELSE @]]
    /\ UNCHANGED <<link, serverUDP, tracked, wires, doomed, sweeping, streams>>

\* runOnce is about to return: closeUDPSessions empties the map ...
CloseUDPSessions ==
    /\ link = "down" /\ sweeping
    /\ sweeping' = FALSE
    /\ doomed' = {udpSessions[i] : i \in Ids} \ {None}
    /\ udpSessions' = NoSessions
    /\ UNCHANGED <<link, serverUDP, tracked, wires, object, streams>>

\* ... and then closes the sockets.
CloseDoomed(o) ==
    /\ o \in doomed
    /\ doomed' = doomed \ {o}
    /\ object' = [object EXCEPT ![o].open = FALSE]
    /\ UNCHANGED <<link, serverUDP, tracked, wires, udpSessions, sweeping, streams>>

Reader(o) == Farewell(o) \/ RemoveUDPSession(o) \/ CloseDoomed(o)
ClientUDP ==
    \/ \E i \in toClient : Refuse(i) \/ Deliver(i)
    \/ \E o \in Objects : ReaderLeaves(o) \/ Reader(o)
    \/ CloseUDPSessions

-----------------------------------------------------------------------------
(* TCP *)

SetServer(c, state) ==
    /\ server' = [server EXCEPT ![c] = state]
    /\ UNCHANGED <<link, serverUDP, wires, clientUDP>>
SetClient(c, state) ==
    /\ client' = [client EXCEPT ![c] = state]
    /\ UNCHANGED <<link, serverUDP, wires, clientUDP, tracked, server>>

\* acceptPublicConnections starts handlePublicConnection.
PublicConnection(c) ==
    /\ server[c].pc = "idle" /\ link = "up"
    /\ SetServer(c, At("open")) /\ UNCHANGED <<tracked, client>>

\* OpenStreamSync within the handshake timeout, and the request on the stream.
OpenStream(c) ==
    /\ server[c].pc = "open"
    /\ IF link = "up"
         THEN /\ client' = [client EXCEPT ![c] = At("dial")]
              /\ SetServer(c, At("ack"))
         ELSE SetServer(c, At("done")) /\ UNCHANGED client
    /\ UNCHANGED tracked
OpenStreamFails(c) ==
    /\ server[c].pc = "open"
    /\ SetServer(c, At("done")) /\ UNCHANGED <<tracked, client>>

\* handleStream: the route is not served or the target cannot be dialled within the
\* timeout; or the target is there, and the relay starts after the acknowledgement.
ClientRefuses(c) == client[c].pc = "dial" /\ SetClient(c, At("refused"))
ClientAccepts(c) ==
    /\ client[c].pc = "dial"
    /\ SetClient(c, IF link = "up" THEN Relay(Copiers) ELSE At("done"))

\* The acknowledgement is read without a deadline; it comes, or the stream fails.
ReadAckFails(c) ==
    /\ server[c].pc = "ack"
    /\ link = "down" \/ client[c].pc \in {"refused", "done"}
    /\ SetServer(c, At("done")) /\ UNCHANGED <<tracked, client>>
ReadAck(c) ==
    /\ server[c].pc = "ack" /\ client[c].pc = "relay"
    /\ tracked' = tracked \cup {c}
    /\ SetServer(c, Relay(Copiers)) /\ UNCHANGED client

\* A copier of a relay ends: its connection or its stream was closed, reset or idle.
ServerCopierEnds(c, d) ==
    /\ server[c].pc = "relay" /\ d \in server[c].copiers
    /\ SetServer(c, Relay(server[c].copiers \ {d})) /\ UNCHANGED <<tracked, client>>
ClientCopierEnds(c, d) ==
    /\ client[c].pc = "relay" /\ d \in client[c].copiers
    /\ SetClient(c, Relay(client[c].copiers \ {d}))

ServerRelayEnds(c) ==
    /\ server[c] = Relay({})
    /\ tracked' = tracked \ {c}
    /\ SetServer(c, At("done")) /\ UNCHANGED client
ClientRelayEnds(c) == client[c] = Relay({}) /\ SetClient(c, At("done"))

TCP(c) ==
    \/ PublicConnection(c) \/ OpenStream(c) \/ OpenStreamFails(c)
    \/ ClientRefuses(c) \/ ClientAccepts(c) \/ ReadAckFails(c) \/ ReadAck(c)
    \/ \E d \in Copiers : ServerCopierEnds(c, d) \/ ClientCopierEnds(c, d)
    \/ ServerRelayEnds(c) \/ ClientRelayEnds(c)

-----------------------------------------------------------------------------
\* The network: the connection ends, and datagrams are lost.
LinkDown ==
    /\ link = "up"
    /\ link' = "down"
    /\ UNCHANGED <<serverUDP, tracked, wires, clientUDP, streams>>
Lose ==
    /\ \/ \E i \in toClient : toClient' = toClient \ {i} /\ UNCHANGED toServer
       \/ \E i \in toServer : toServer' = toServer \ {i} /\ UNCHANGED toClient
    /\ UNCHANGED <<link, serverUDP, tracked, clientUDP, streams>>

Init ==
    /\ link = "up"
    /\ sockOpen = [r \in Routes |-> TRUE] /\ swept = [r \in Routes |-> FALSE]
    /\ reading = [r \in Routes |-> None]
    /\ byID = [r \in Routes |-> NoSessions]
    /\ bySource = [r \in Routes |-> [a \in Sources |-> None]]
    /\ expired = [r \in Routes |-> {}]
    /\ tracked = {} /\ drawn = {}
    /\ toClient = {} /\ toServer = {}
    /\ udpSessions = NoSessions
    /\ object = [o \in Objects |-> NoObject]
    /\ doomed = {} /\ sweeping = TRUE
    /\ server = [c \in Conns |-> At("idle")] /\ client = [c \in Conns |-> At("idle")]

Next ==
    \/ \E r \in Routes : ServerUDP(r)
    \/ ClientUDP
    \/ \E c \in Conns : TCP(c)
    \/ LinkDown \/ Lose

Spec == Init /\ [][Next]_vars

(***************************************************************************)
(* Goroutines that can run eventually run.  Once the connection is closed  *)
(* the server closes the bindings (CleanupCommitted of QuicControl), every *)
(* copier fails on its stream, every reader of the client gives up (a      *)
(* response cannot be sent, and silence is ended by the idle timeout), and *)
(* the ticks of cleanupLoop come for ever: what is left in the maps of a   *)
(* closed binding is idle for good.                                        *)
(***************************************************************************)
FairSpec ==
    /\ Spec
    /\ \A r \in Routes :
         /\ WF_vars(ServePacket(r)) /\ WF_vars(Sweep(r)) /\ WF_vars(Untrack(r))
         /\ WF_vars(link = "down" /\ CloseSocket(r))
         /\ WF_vars(swept[r] /\ Expire(r, Mapped(r)))
    /\ \A o \in Objects :
         WF_vars(Farewell(o)) /\ WF_vars(RemoveUDPSession(o)) /\ WF_vars(CloseDoomed(o))
         /\ WF_vars(link = "down" /\ ReaderLeaves(o))
    /\ WF_vars(CloseUDPSessions)
    /\ \A c \in Conns :
         /\ WF_vars(OpenStream(c) \/ OpenStreamFails(c)) /\ WF_vars(ClientRefuses(c) \/ ClientAccepts(c))
         /\ WF_vars(ReadAck(c) \/ ReadAckFails(c))
         /\ WF_vars(ServerRelayEnds(c)) /\ WF_vars(ClientRelayEnds(c))
         /\ \A d \in Copiers : WF_vars(link = "down" /\ ServerCopierEnds(c, d))
                               /\ WF_vars(link = "down" /\ ClientCopierEnds(c, d))

-----------------------------------------------------------------------------
(* Properties *)

\* The two maps of a binding stay each other's inverse, whatever is removed by ID,
\* by the idle timer and by close() while packets arrive: a source never has two
\* sessions, and no source keeps a session that is gone.
MapsInverse ==
    \A r \in Routes, i \in Ids, a \in Sources : byID[r][i] = a <=> bySource[r][a] = i

\* A UDP session shown as active is in the maps of exactly one binding, or its timer
\* is about to untrack it.
TrackedIsMapped ==
    \A i \in tracked \cap Ids :
        \/ \E r \in Routes : i \in expired[r]
        \/ \E r \in Routes : i \in Mapped(r) /\ \A q \in Routes \ {r} : i \notin Mapped(q)

\* An open client socket is known under its ID and has a reader, or is about to be
\* closed, although readers remove sessions by ID and two objects may share one.
SocketsOwned ==
    \A o \in Objects : object[o].open =>
        o \in doomed \/ (udpSessions[object[o].id] = o /\ object[o].reader # "off")

UdpSafe == TypeOK /\ MapsInverse /\ TrackedIsMapped /\ SocketsOwned

\* "When the QUIC connection closes, [...] per-route UDP sessions are cleaned up
\* automatically on both server and client".  On the server: nothing of the
\* connection stays in the list of active sessions, public TCP connections included.
ServerCleansUp == [](link = "down" => <>[](tracked = {} /\ \A r \in Routes : Mapped(r) = {}))

\* On the client: no local socket stays open and no reader runs, even for datagrams
\* handled after closeUDPSessions.
ClientCleansUp ==
    [](link = "down" => <>[](\A o \in Objects : object[o] = [object[o] EXCEPT !.open = FALSE,
                                                                      !.reader = "off"]))
=============================================================================
