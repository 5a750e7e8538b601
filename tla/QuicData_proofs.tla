-------------------------- MODULE QuicData_proofs --------------------------
(***************************************************************************)
(* The UDP sessions of a QUIC tunnel connection stay consistent on both    *)
(* sides (UdpSafe), for any number of routes, sources, sessions, client    *)
(* objects and TCP connections.                                            *)
(*                                                                         *)
(* Two parts make the property inductive.  An ID that is in a map was      *)
(* drawn, so that a new session cannot get it again and an ID is in the    *)
(* map of one binding only (IDsDrawnOnce).  And an object of the client    *)
(* that is open or has a reader has an ID, and closeUDPSessions, which     *)
(* dooms what is in the map, runs only once (ObjectsOK).  The step that    *)
(* needs care is removeUDPSession, which closes whatever object has the    *)
(* ID of the reader: an object that stays open has another ID.             *)
(***************************************************************************)
EXTENDS QuicData, TLAPS

\* A session that is in a map was drawn, and is in the map of one binding only.
IDsDrawnOnce ==
    \A r \in Routes, i \in Ids : byID[r][i] # None =>
        i \in drawn /\ \A q \in Routes \ {r} : byID[q][i] = None

\* An object that is open or has a reader has an ID, and closeUDPSessions runs once.
ObjectsOK ==
    /\ \A o \in Objects : object[o].open \/ object[o].reader # "off" => object[o].id \in Ids
    /\ sweeping => doomed = {}

\* The inductive invariant.
IInv == TypeOK /\ IDsDrawnOnce /\ ObjectsOK /\ MapsInverse /\ TrackedIsMapped /\ SocketsOwned

-----------------------------------------------------------------------------
(* Effects of the operations *)

\* What the types say of single sessions and objects.
LEMMA Ranges ==
    TypeOK =>
      /\ \A r \in Routes, i \in Ids : byID[r][i] \in Sources \cup {None}
      /\ \A r \in Routes, a \in Sources : bySource[r][a] \in Ids \cup {None}
      /\ \A i \in Ids : udpSessions[i] \in Objects \cup {None}
      /\ \A o \in Objects : object[o].open \in BOOLEAN
BY DEF TypeOK, Object

\* Sessions leave both maps of a binding.
LEMMA RemoveEffect ==
    ASSUME TypeOK, NEW r \in Routes, NEW is \in SUBSET Ids, Remove(r, is)
    PROVE  /\ byID' \in [Routes -> [Ids -> Sources \cup {None}]]
           /\ \A q \in Routes, j \in Ids :
                byID'[q][j] = IF q = r /\ j \in is THEN None ELSE byID[q][j]
           /\ bySource' \in [Routes -> [Sources -> Ids \cup {None}]]
           /\ \A q \in Routes, a \in Sources :
                bySource'[q][a] = IF q = r /\ bySource[q][a] \in is THEN None ELSE bySource[q][a]
<1>1. /\ byID \in [Routes -> [Ids -> Sources \cup {None}]]
      /\ bySource \in [Routes -> [Sources -> Ids \cup {None}]]
  BY DEF TypeOK
<1>2. byID' = [byID EXCEPT ![r] = [i \in Ids |-> IF i \in is THEN None ELSE byID[r][i]]]
  BY <1>1 DEF Remove
<1>3. bySource' = [bySource EXCEPT ![r] =
                     [a \in Sources |-> IF bySource[r][a] \in is THEN None ELSE bySource[r][a]]]
  BY <1>1 DEF Remove
<1> QED
  BY <1>1, <1>2, <1>3

\* The server creates session i for source a,
Serves(r, a, i) ==
    /\ reading[r] = a /\ reading' = [reading EXCEPT ![r] = None]
    /\ bySource[r][a] = None /\ i \in Ids \ drawn
    /\ Enter(r, i, a) /\ Send(i)
    /\ UNCHANGED <<link, sockOpen, swept, expired, toServer, clientUDP, streams>>

\* and the client creates object o for session i.
Creates(i, o) ==
    /\ toClient' = toClient \ {i} /\ udpSessions[i] = None /\ Free(o)
    /\ udpSessions' = [udpSessions EXCEPT ![i] = o]
    /\ object' = [object EXCEPT ![o] = [id |-> i, open |-> TRUE, reader |-> "read"]]
    /\ UNCHANGED <<link, serverUDP, tracked, toServer, doomed, sweeping, streams>>

\* The steps of a TCP connection touch its two ends and the list of active sessions.
LEMMA StreamsOnly ==
    ASSUME NEW c \in Conns, TCP(c)
    PROVE  /\ UNCHANGED <<link, serverUDP, wires, clientUDP>>
           /\ tracked' \in {tracked, tracked \cup {c}, tracked \ {c}}
<1> USE DEF SetServer, SetClient
<1>1. CASE PublicConnection(c) \/ OpenStream(c) \/ OpenStreamFails(c) \/ ClientRefuses(c)
             \/ ClientAccepts(c)
  BY <1>1 DEF PublicConnection, OpenStream, OpenStreamFails, ClientRefuses, ClientAccepts
<1>2. CASE ReadAckFails(c) \/ ReadAck(c) \/ ServerRelayEnds(c) \/ ClientRelayEnds(c)
  BY <1>2 DEF ReadAckFails, ReadAck, ServerRelayEnds, ClientRelayEnds
<1>3. CASE \E d \in Copiers : ServerCopierEnds(c, d) \/ ClientCopierEnds(c, d)
  BY <1>3 DEF ServerCopierEnds, ClientCopierEnds
<1> QED
  BY <1>1, <1>2, <1>3 DEF TCP

\* Both ends keep their types.
LEMMA StreamsTyped ==
    ASSUME TypeOK, NEW c \in Conns, TCP(c)
    PROVE  /\ server' \in [Conns -> [pc : ServerStates, copiers : SUBSET Copiers]]
           /\ client' \in [Conns -> [pc : ClientStates, copiers : SUBSET Copiers]]
           /\ tracked' \in {tracked, tracked \cup {c}, tracked \ {c}}
<1>1. /\ server \in [Conns -> [pc : ServerStates, copiers : SUBSET Copiers]]
      /\ client \in [Conns -> [pc : ClientStates, copiers : SUBSET Copiers]]
  BY DEF TypeOK
<1>2. /\ server[c].copiers \in SUBSET Copiers /\ client[c].copiers \in SUBSET Copiers
  BY <1>1
<1>3. /\ \A pc \in ServerStates : At(pc) \in [pc : ServerStates, copiers : SUBSET Copiers]
      /\ \A pc \in ClientStates : At(pc) \in [pc : ClientStates, copiers : SUBSET Copiers]
  BY DEF At
<1>4. \A cs \in SUBSET Copiers :
         /\ Relay(cs) \in [pc : ServerStates, copiers : SUBSET Copiers]
         /\ Relay(cs) \in [pc : ClientStates, copiers : SUBSET Copiers]
  BY DEF Relay, ServerStates, ClientStates
<1>5. /\ \E x \in [pc : ServerStates, copiers : SUBSET Copiers] :
           server' \in {server, [server EXCEPT ![c] = x]}
      /\ \E y \in [pc : ClientStates, copiers : SUBSET Copiers] :
           client' \in {client, [client EXCEPT ![c] = y]}
  <2> USE DEF SetServer, SetClient
  <2>1. /\ "open" \in ServerStates /\ "ack" \in ServerStates /\ "done" \in ServerStates
        /\ "dial" \in ClientStates /\ "refused" \in ClientStates /\ "done" \in ClientStates
    BY DEF ServerStates, ClientStates
  <2>2. CASE PublicConnection(c) \/ OpenStreamFails(c) \/ ReadAckFails(c)
    BY <1>3, <2>1, <2>2 DEF PublicConnection, OpenStreamFails, ReadAckFails, streams
  <2>3. CASE OpenStream(c)
    BY <1>3, <2>1, <2>3 DEF OpenStream
  <2>4. CASE ClientRefuses(c) \/ ClientRelayEnds(c)
    BY <1>3, <2>1, <2>4 DEF ClientRefuses, ClientRelayEnds
  <2>5. CASE ClientAccepts(c)
    BY <1>3, <1>4, <2>1, <2>5 DEF ClientAccepts
  <2>6. CASE ReadAck(c) \/ ServerRelayEnds(c)
    BY <1>3, <1>4, <2>1, <2>6 DEF ReadAck, ServerRelayEnds
  <2>7. ASSUME NEW d \in Copiers, ServerCopierEnds(c, d) \/ ClientCopierEnds(c, d)
        PROVE  /\ \E x \in [pc : ServerStates, copiers : SUBSET Copiers] :
                    server' \in {server, [server EXCEPT ![c] = x]}
               /\ \E y \in [pc : ClientStates, copiers : SUBSET Copiers] :
                    client' \in {client, [client EXCEPT ![c] = y]}
    BY <1>1, <1>2, <1>4, <2>7 DEF ServerCopierEnds, ClientCopierEnds
  <2> QED
    BY <2>2, <2>3, <2>4, <2>5, <2>6, <2>7 DEF TCP
<1> QED
  BY <1>1, <1>5, StreamsOnly

-----------------------------------------------------------------------------
(* Every action keeps the invariant *)

\* A packet that was read has a source.
LEMMA ReadPacketStep ==
    ASSUME IInv, NEW r \in Routes, NEW a \in Sources, ReadPacket(r, a)
    PROVE  IInv'
<1> USE NoneAssumption
<1>0. TypeOK /\ IDsDrawnOnce /\ ObjectsOK /\ MapsInverse /\ TrackedIsMapped /\ SocketsOwned
  BY DEF IInv
<1>1. UNCHANGED <<link, sockOpen, swept, byID, bySource, expired, tracked, drawn, toClient,
                 toServer, udpSessions, object, doomed, sweeping, server, client>>
  BY DEF ReadPacket, serverUDP, clientUDP, wires, streams
<1>2. reading' \in [Routes -> Sources \cup {None}]
  BY <1>0 DEF ReadPacket, TypeOK
<1>3. TypeOK'
  BY <1>0, <1>1, <1>2 DEF TypeOK
<1>4. IDsDrawnOnce' /\ ObjectsOK' /\ MapsInverse' /\ TrackedIsMapped' /\ SocketsOwned'
  BY <1>0, <1>1 DEF IDsDrawnOnce, ObjectsOK, MapsInverse, TrackedIsMapped, Mapped, SocketsOwned
<1> QED
  BY <1>3, <1>4 DEF IInv

\* A session that is created is in both maps and shown as active; its ID is new.
LEMMA ServeNew ==
    ASSUME IInv, NEW r \in Routes, NEW a \in Sources, NEW i \in Ids, Serves(r, a, i)
    PROVE  IInv'
<1> USE NoneAssumption
<1>0. TypeOK /\ IDsDrawnOnce /\ ObjectsOK /\ MapsInverse /\ TrackedIsMapped /\ SocketsOwned
  BY DEF IInv
<1>1. UNCHANGED <<link, sockOpen, swept, expired, toServer, udpSessions, object, doomed,
                 sweeping, server, client>>
  BY DEF Serves, serverUDP, clientUDP, wires, streams
<1>2. reading' \in [Routes -> Sources \cup {None}] /\ i \notin drawn /\ bySource[r][a] = None
  BY <1>0 DEF Serves, TypeOK
<1>3. /\ byID' \in [Routes -> [Ids -> Sources \cup {None}]]
      /\ \A q \in Routes, j \in Ids : byID'[q][j] = IF q = r /\ j = i THEN a ELSE byID[q][j]
  BY <1>0 DEF Serves, Enter, TypeOK
<1>4. /\ bySource' \in [Routes -> [Sources -> Ids \cup {None}]]
      /\ \A q \in Routes, b \in Sources :
           bySource'[q][b] = IF q = r /\ b = a THEN i ELSE bySource[q][b]
  BY <1>0 DEF Serves, Enter, TypeOK
<1>5. tracked' = tracked \cup {i} /\ drawn' = drawn \cup {i}
  BY DEF Serves, Enter
<1>6. toClient' \in SUBSET Ids
  BY <1>0 DEF Serves, Send, TypeOK
<1>7. TypeOK'
  BY <1>0, <1>1, <1>2, <1>3, <1>4, <1>5, <1>6 DEF TypeOK
<1>8. IDsDrawnOnce'
  <2>1. ASSUME NEW q \in Routes, NEW j \in Ids, byID'[q][j] # None
        PROVE  j \in drawn' /\ \A p \in Routes \ {q} : byID'[p][j] = None
    <3>1. CASE j = i
      <4>1. \A p \in Routes : byID[p][i] = None
        BY <1>0, <1>2 DEF IDsDrawnOnce
      <4> QED
        BY <1>3, <1>5, <2>1, <3>1, <4>1
    <3>2. CASE j # i
      BY <1>0, <1>3, <1>5, <2>1, <3>2 DEF IDsDrawnOnce
    <3> QED
      BY <3>1, <3>2
  <2> QED
    BY <2>1 DEF IDsDrawnOnce
<1>9. MapsInverse'
  <2>1. ASSUME NEW q \in Routes, NEW j \in Ids, NEW b \in Sources
        PROVE  byID'[q][j] = b <=> bySource'[q][b] = j
    <3>1. (byID[q][j] = b <=> bySource[q][b] = j) /\ b # None /\ j # None
      BY <1>0 DEF MapsInverse
    <3>2. byID[r][i] = None /\ bySource[r][a] = None
      BY <1>0, <1>2 DEF IDsDrawnOnce
    <3>3. (j = i /\ q = r => byID[q][j] = None) /\ (b = a /\ q = r => bySource[q][b] = None)
      BY <3>2
    <3> QED
      BY <1>3, <1>4, <3>1, <3>3
  <2> QED
    BY <2>1 DEF MapsInverse
<1>10. TrackedIsMapped'
  <2>1. ASSUME NEW j \in Ids, j \in tracked'
        PROVE  \/ \E q \in Routes : j \in expired'[q]
               \/ \E q \in Routes : /\ byID'[q][j] # None
                                    /\ \A p \in Routes \ {q} : byID'[p][j] = None
    <3>1. CASE j = i
      <4>1. \A p \in Routes : byID[p][i] = None
        BY <1>0, <1>2 DEF IDsDrawnOnce
      <4>2. byID'[r][i] # None /\ \A p \in Routes \ {r} : byID'[p][i] = None
        BY <1>3, <4>1
      <4> QED
        BY <3>1, <4>2
    <3>2. CASE j # i
      <4>1. j \in tracked /\ \A q \in Routes : byID'[q][j] = byID[q][j]
        BY <1>3, <1>5, <2>1, <3>2
      <4> QED
        BY <1>0, <1>1, <4>1 DEF TrackedIsMapped, Mapped
    <3> QED
      BY <3>1, <3>2
  <2> QED
    BY <2>1 DEF TrackedIsMapped, Mapped
<1>11. ObjectsOK' /\ SocketsOwned'
  BY <1>0, <1>1 DEF ObjectsOK, SocketsOwned
<1> QED
  BY <1>7, <1>8, <1>9, <1>10, <1>11 DEF IInv

\* A packet of a known source changes no map.
LEMMA ServeKnown ==
    ASSUME IInv, NEW r \in Routes, ServePacket(r), bySource[r][reading[r]] # None
    PROVE  IInv'
<1> USE NoneAssumption
<1>0. TypeOK /\ IDsDrawnOnce /\ ObjectsOK /\ MapsInverse /\ TrackedIsMapped /\ SocketsOwned
  BY DEF IInv
<1>1. UNCHANGED <<link, sockOpen, swept, byID, bySource, expired, tracked, drawn, toServer,
                 udpSessions, object, doomed, sweeping, server, client>>
  BY DEF ServePacket, clientUDP, streams
<1>2. reading' \in [Routes -> Sources \cup {None}]
  BY <1>0 DEF ServePacket, TypeOK
<1>3. /\ UNCHANGED <<byID, bySource, tracked, drawn>>
      /\ toClient' \in SUBSET Ids
  BY <1>0, <1>1 DEF ServePacket, Send, TypeOK
<1>4. TypeOK'
  BY <1>0, <1>1, <1>2, <1>3 DEF TypeOK
<1>5. IDsDrawnOnce' /\ ObjectsOK' /\ MapsInverse' /\ TrackedIsMapped' /\ SocketsOwned'
  BY <1>0, <1>1 DEF IDsDrawnOnce, ObjectsOK, MapsInverse, TrackedIsMapped, Mapped, SocketsOwned
<1> QED
  BY <1>4, <1>5 DEF IInv

\* A session the client closed is removed and untracked at once.
LEMMA CloseFrameRemoves ==
    ASSUME IInv, NEW r \in Routes, NEW i \in Ids, CloseFrame(r, i), byID[r][i] # None
    PROVE  IInv'
<1> USE NoneAssumption
<1>0. TypeOK /\ IDsDrawnOnce /\ ObjectsOK /\ MapsInverse /\ TrackedIsMapped /\ SocketsOwned
  BY DEF IInv
<1>1. UNCHANGED <<link, sockOpen, swept, reading, expired, drawn, toClient, udpSessions, object,
                 doomed, sweeping, server, client>>
  BY DEF CloseFrame, Remove, clientUDP, streams
<1>2. /\ Remove(r, {i}) /\ tracked' = tracked \ {i} /\ toServer' = toServer \ {i}
  BY DEF CloseFrame
<1>3. /\ byID' \in [Routes -> [Ids -> Sources \cup {None}]]
      /\ \A q \in Routes, j \in Ids : byID'[q][j] = IF q = r /\ j \in {i} THEN None ELSE byID[q][j]
      /\ bySource' \in [Routes -> [Sources -> Ids \cup {None}]]
      /\ \A q \in Routes, a \in Sources :
           bySource'[q][a] = IF q = r /\ bySource[q][a] \in {i} THEN None ELSE bySource[q][a]
  BY <1>0, <1>2, RemoveEffect
<1>4. toServer' \in SUBSET Ids
  BY <1>0, <1>2 DEF TypeOK
<1>5. TypeOK'
  BY <1>0, <1>1, <1>2, <1>3, <1>4 DEF TypeOK
<1>6. IDsDrawnOnce'
  <2>1. ASSUME NEW q \in Routes, NEW j \in Ids, byID'[q][j] # None
        PROVE  j \in drawn' /\ \A p \in Routes \ {q} : byID'[p][j] = None
    <3>1. byID[q][j] # None /\ \A p \in Routes : byID[p][j] = None => byID'[p][j] = None
      BY <2>1, <1>1, <1>2, <1>3
    <3> QED
      BY <1>0, <1>1, <3>1 DEF IDsDrawnOnce
  <2> QED
    BY <2>1 DEF IDsDrawnOnce
<1>7. MapsInverse'
  <2>1. ASSUME NEW q \in Routes, NEW j \in Ids, NEW b \in Sources
        PROVE  byID'[q][j] = b <=> bySource'[q][b] = j
    <3>1. (byID[q][j] = b <=> bySource[q][b] = j) /\ b # None /\ j # None
      BY <1>0 DEF MapsInverse
    <3>2. CASE q = r
      BY <3>1, <3>2, <1>1, <1>2, <1>3
    <3>3. CASE q # r
      BY <3>1, <3>3, <1>1, <1>2, <1>3
    <3> QED
      BY <3>2, <3>3
  <2> QED
    BY <2>1 DEF MapsInverse
<1>8. TrackedIsMapped'
  <2>1. ASSUME NEW j \in Ids, j \in tracked'
        PROVE  \/ \E q \in Routes : j \in expired'[q]
               \/ \E q \in Routes : /\ byID'[q][j] # None
                                    /\ \A p \in Routes \ {q} : byID'[p][j] = None
    <3>1. j \in tracked
      BY <2>1, <1>1, <1>2, <1>3
    <3>2. CASE \E q \in Routes : j \in expired[q]
      BY <3>2, <1>1, <1>2, <1>3
    <3>3. ASSUME NEW q \in Routes, byID[q][j] # None, \A p \in Routes \ {q} : byID[p][j] = None
          PROVE  \/ \E p \in Routes : j \in expired'[p]
                 \/ /\ byID'[q][j] # None
                    /\ \A p \in Routes \ {q} : byID'[p][j] = None
      BY <2>1, <3>3, <1>1, <1>2, <1>3
    <3> QED
      BY <1>0, <3>1, <3>2, <3>3 DEF TrackedIsMapped, Mapped
  <2> QED
    BY <2>1 DEF TrackedIsMapped, Mapped
<1>9. ObjectsOK' /\ SocketsOwned'
  BY <1>0, <1>1 DEF ObjectsOK, SocketsOwned
<1> QED
  BY <1>5, <1>6, <1>7, <1>8, <1>9 DEF IInv

\* A close frame of an unknown session is consumed.
LEMMA CloseFrameIgnored ==
    ASSUME IInv, NEW r \in Routes, NEW i \in Ids, CloseFrame(r, i), byID[r][i] = None
    PROVE  IInv'
<1> USE NoneAssumption
<1>0. TypeOK /\ IDsDrawnOnce /\ ObjectsOK /\ MapsInverse /\ TrackedIsMapped /\ SocketsOwned
  BY DEF IInv
<1>1. UNCHANGED <<link, sockOpen, swept, reading, byID, bySource, expired, tracked, drawn,
                 toClient, udpSessions, object, doomed, sweeping, server, client>>
  BY DEF CloseFrame, serverUDP, clientUDP, wires, streams
<1>2. toServer' \in SUBSET Ids /\ UNCHANGED <<byID, bySource, tracked>>
  BY <1>0 DEF CloseFrame, TypeOK
<1>3. TypeOK'
  BY <1>0, <1>1, <1>2 DEF TypeOK
<1>4. IDsDrawnOnce' /\ ObjectsOK' /\ MapsInverse' /\ TrackedIsMapped' /\ SocketsOwned'
  BY <1>0, <1>1 DEF IDsDrawnOnce, ObjectsOK, MapsInverse, TrackedIsMapped, Mapped, SocketsOwned
<1> QED
  BY <1>3, <1>4 DEF IInv

\* The timer takes a session from both maps before it untracks it.
LEMMA ExpireStep ==
    ASSUME IInv, NEW r \in Routes, NEW is \in SUBSET Ids, Expire(r, is)
    PROVE  IInv'
<1> USE NoneAssumption
<1>0. TypeOK /\ IDsDrawnOnce /\ ObjectsOK /\ MapsInverse /\ TrackedIsMapped /\ SocketsOwned
  BY DEF IInv
<1>1. UNCHANGED <<link, sockOpen, swept, reading, tracked, drawn, toClient, toServer,
                 udpSessions, object, doomed, sweeping, server, client>>
  BY DEF Expire, serverUDP, clientUDP, wires, streams
<1>2. /\ byID' \in [Routes -> [Ids -> Sources \cup {None}]]
      /\ \A q \in Routes, j \in Ids : byID'[q][j] = IF q = r /\ j \in is THEN None ELSE byID[q][j]
      /\ bySource' \in [Routes -> [Sources -> Ids \cup {None}]]
      /\ \A q \in Routes, a \in Sources :
           bySource'[q][a] = IF q = r /\ bySource[q][a] \in is THEN None ELSE bySource[q][a]
  BY <1>0, RemoveEffect DEF Expire
<1>3. /\ expired[r] = {} /\ expired' \in [Routes -> SUBSET Ids]
      /\ \A q \in Routes : expired'[q] = IF q = r THEN is ELSE expired[q]
  BY <1>0 DEF Expire, TypeOK
<1>4. TypeOK'
  BY <1>0, <1>1, <1>2, <1>3 DEF TypeOK
<1>5. IDsDrawnOnce'
  <2>1. ASSUME NEW q \in Routes, NEW j \in Ids, byID'[q][j] # None
        PROVE  j \in drawn' /\ \A p \in Routes \ {q} : byID'[p][j] = None
    <3>1. byID[q][j] # None /\ \A p \in Routes : byID[p][j] = None => byID'[p][j] = None
      BY <2>1, <1>1, <1>2, <1>3
    <3> QED
      BY <1>0, <1>1, <3>1 DEF IDsDrawnOnce
  <2> QED
    BY <2>1 DEF IDsDrawnOnce
<1>6. MapsInverse'
  <2>1. ASSUME NEW q \in Routes, NEW j \in Ids, NEW b \in Sources
        PROVE  byID'[q][j] = b <=> bySource'[q][b] = j
    <3>1. (byID[q][j] = b <=> bySource[q][b] = j) /\ b # None /\ j # None
      BY <1>0 DEF MapsInverse
    <3>2. CASE q = r
      BY <3>1, <3>2, <1>1, <1>2, <1>3
    <3>3. CASE q # r
      BY <3>1, <3>3, <1>1, <1>2, <1>3
    <3> QED
      BY <3>2, <3>3
  <2> QED
    BY <2>1 DEF MapsInverse
<1>7. TrackedIsMapped'
  <2>1. ASSUME NEW j \in Ids, j \in tracked'
        PROVE  \/ \E q \in Routes : j \in expired'[q]
               \/ \E q \in Routes : /\ byID'[q][j] # None
                                    /\ \A p \in Routes \ {q} : byID'[p][j] = None
    <3>1. j \in tracked
      BY <2>1, <1>1, <1>2, <1>3
    <3>2. CASE \E q \in Routes : j \in expired[q]
      BY <3>2, <1>1, <1>2, <1>3
    <3>3. ASSUME NEW q \in Routes, byID[q][j] # None, \A p \in Routes \ {q} : byID[p][j] = None
          PROVE  \/ \E p \in Routes : j \in expired'[p]
                 \/ /\ byID'[q][j] # None
                    /\ \A p \in Routes \ {q} : byID'[p][j] = None
      BY <2>1, <3>3, <1>1, <1>2, <1>3
    <3> QED
      BY <1>0, <3>1, <3>2, <3>3 DEF TrackedIsMapped, Mapped
  <2> QED
    BY <2>1 DEF TrackedIsMapped, Mapped
<1>8. ObjectsOK' /\ SocketsOwned'
  BY <1>0, <1>1 DEF ObjectsOK, SocketsOwned
<1> QED
  BY <1>4, <1>5, <1>6, <1>7, <1>8 DEF IInv

\* What the timer took from the maps is untracked.
LEMMA UntrackStep ==
    ASSUME IInv, NEW r \in Routes, Untrack(r)
    PROVE  IInv'
<1> USE NoneAssumption
<1>0. TypeOK /\ IDsDrawnOnce /\ ObjectsOK /\ MapsInverse /\ TrackedIsMapped /\ SocketsOwned
  BY DEF IInv
<1>1. UNCHANGED <<link, sockOpen, swept, reading, byID, bySource, drawn, toClient, toServer,
                 udpSessions, object, doomed, sweeping, server, client>>
  BY DEF Untrack, serverUDP, clientUDP, wires, streams
<1>2. /\ tracked' = tracked \ expired[r] /\ expired' \in [Routes -> SUBSET Ids]
      /\ \A q \in Routes : expired'[q] = IF q = r THEN {} ELSE expired[q]
  BY <1>0 DEF Untrack, TypeOK
<1>3. TypeOK'
  BY <1>0, <1>1, <1>2 DEF TypeOK
<1>4. TrackedIsMapped'
  BY <1>0, <1>1, <1>2, Ranges DEF TrackedIsMapped, Mapped
<1>5. IDsDrawnOnce' /\ ObjectsOK' /\ MapsInverse' /\ SocketsOwned'
  BY <1>0, <1>1 DEF IDsDrawnOnce, ObjectsOK, MapsInverse, SocketsOwned
<1> QED
  BY <1>3, <1>4, <1>5 DEF IInv

\* The socket goes first.
LEMMA CloseSocketStep ==
    ASSUME IInv, NEW r \in Routes, CloseSocket(r)
    PROVE  IInv'
<1> USE NoneAssumption
<1>0. TypeOK /\ IDsDrawnOnce /\ ObjectsOK /\ MapsInverse /\ TrackedIsMapped /\ SocketsOwned
  BY DEF IInv
<1>1. UNCHANGED <<link, swept, reading, byID, bySource, expired, tracked, drawn, toClient,
                 toServer, udpSessions, object, doomed, sweeping, server, client>>
  BY DEF CloseSocket, serverUDP, clientUDP, wires, streams
<1>2. sockOpen' \in [Routes -> BOOLEAN]
  BY <1>0 DEF CloseSocket, TypeOK
<1>3. TypeOK'
  BY <1>0, <1>1, <1>2 DEF TypeOK
<1>4. IDsDrawnOnce' /\ ObjectsOK' /\ MapsInverse' /\ TrackedIsMapped' /\ SocketsOwned'
  BY <1>0, <1>1 DEF IDsDrawnOnce, ObjectsOK, MapsInverse, TrackedIsMapped, Mapped, SocketsOwned
<1> QED
  BY <1>3, <1>4 DEF IInv

\* A closed binding leaves no session behind.
LEMMA SweepStep ==
    ASSUME IInv, NEW r \in Routes, Sweep(r)
    PROVE  IInv'
<1> USE NoneAssumption
<1>0. TypeOK /\ IDsDrawnOnce /\ ObjectsOK /\ MapsInverse /\ TrackedIsMapped /\ SocketsOwned
  BY DEF IInv
<1>1. UNCHANGED <<link, sockOpen, reading, expired, drawn, toClient, toServer, udpSessions,
                 object, doomed, sweeping, server, client>>
  BY DEF Sweep, serverUDP, clientUDP, wires, streams
<1>2. /\ Remove(r, Mapped(r)) /\ tracked' = tracked \ Mapped(r) /\ Mapped(r) \in SUBSET Ids
  BY DEF Sweep, Mapped
<1>3. /\ byID' \in [Routes -> [Ids -> Sources \cup {None}]]
      /\ \A q \in Routes, j \in Ids :
           byID'[q][j] = IF q = r /\ j \in Mapped(r) THEN None ELSE byID[q][j]
      /\ bySource' \in [Routes -> [Sources -> Ids \cup {None}]]
      /\ \A q \in Routes, a \in Sources :
           bySource'[q][a] = IF q = r /\ bySource[q][a] \in Mapped(r) THEN None ELSE bySource[q][a]
  BY <1>0, <1>2, RemoveEffect
<1>4. swept' \in [Routes -> BOOLEAN]
  BY <1>0 DEF Sweep, TypeOK
<1>5. TypeOK'
  BY <1>0, <1>1, <1>2, <1>3, <1>4 DEF TypeOK
<1>6. IDsDrawnOnce'
  <2>1. ASSUME NEW q \in Routes, NEW j \in Ids, byID'[q][j] # None
        PROVE  j \in drawn' /\ \A p \in Routes \ {q} : byID'[p][j] = None
    <3>1. byID[q][j] # None /\ \A p \in Routes : byID[p][j] = None => byID'[p][j] = None
      BY <2>1, <1>1, <1>2, <1>3
    <3> QED
      BY <1>0, <1>1, <3>1 DEF IDsDrawnOnce
  <2> QED
    BY <2>1 DEF IDsDrawnOnce
<1>7. MapsInverse'
  <2>1. ASSUME NEW q \in Routes, NEW j \in Ids, NEW b \in Sources
        PROVE  byID'[q][j] = b <=> bySource'[q][b] = j
    <3>1. (byID[q][j] = b <=> bySource[q][b] = j) /\ b # None /\ j # None
      BY <1>0 DEF MapsInverse
    <3>2. CASE q = r
      BY <3>1, <3>2, <1>1, <1>2, <1>3
    <3>3. CASE q # r
      BY <3>1, <3>3, <1>1, <1>2, <1>3
    <3> QED
      BY <3>2, <3>3
  <2> QED
    BY <2>1 DEF MapsInverse
<1>8. TrackedIsMapped'
  <2>1. ASSUME NEW j \in Ids, j \in tracked'
        PROVE  \/ \E q \in Routes : j \in expired'[q]
               \/ \E q \in Routes : /\ byID'[q][j] # None
                                    /\ \A p \in Routes \ {q} : byID'[p][j] = None
    <3>1. j \in tracked
      BY <2>1, <1>1, <1>2, <1>3
    <3>2. CASE \E q \in Routes : j \in expired[q]
      BY <3>2, <1>1, <1>2, <1>3
    <3>3. ASSUME NEW q \in Routes, byID[q][j] # None, \A p \in Routes \ {q} : byID[p][j] = None
          PROVE  \/ \E p \in Routes : j \in expired'[p]
                 \/ /\ byID'[q][j] # None
                    /\ \A p \in Routes \ {q} : byID'[p][j] = None
      BY <2>1, <3>3, <1>1, <1>2, <1>3
    <3> QED
      BY <1>0, <3>1, <3>2, <3>3 DEF TrackedIsMapped, Mapped
  <2> QED
    BY <2>1 DEF TrackedIsMapped, Mapped
<1>9. ObjectsOK' /\ SocketsOwned'
  BY <1>0, <1>1 DEF ObjectsOK, SocketsOwned
<1> QED
  BY <1>5, <1>6, <1>7, <1>8, <1>9 DEF IInv

\* A refused packet changes no session.
LEMMA RefuseStep ==
    ASSUME IInv, NEW i \in Ids, Refuse(i)
    PROVE  IInv'
<1> USE NoneAssumption
<1>0. TypeOK /\ IDsDrawnOnce /\ ObjectsOK /\ MapsInverse /\ TrackedIsMapped /\ SocketsOwned
  BY DEF IInv
<1>1. UNCHANGED <<link, sockOpen, swept, reading, byID, bySource, expired, tracked, drawn,
                 udpSessions, object, doomed, sweeping, server, client>>
  BY DEF Refuse, serverUDP, clientUDP, wires, streams
<1>2. toClient' \in SUBSET Ids /\ toServer' \in SUBSET Ids
  BY <1>0 DEF Refuse, SendClose, TypeOK
<1>3. TypeOK'
  BY <1>0, <1>1, <1>2 DEF TypeOK
<1>4. IDsDrawnOnce' /\ ObjectsOK' /\ MapsInverse' /\ TrackedIsMapped' /\ SocketsOwned'
  BY <1>0, <1>1 DEF IDsDrawnOnce, ObjectsOK, MapsInverse, TrackedIsMapped, Mapped, SocketsOwned
<1> QED
  BY <1>3, <1>4 DEF IInv

\* A new socket is known under its ID and has a reader.
LEMMA DeliverNew ==
    ASSUME IInv, NEW i \in Ids, NEW o \in Objects, Creates(i, o)
    PROVE  IInv'
<1> USE NoneAssumption
<1>0. TypeOK /\ IDsDrawnOnce /\ ObjectsOK /\ MapsInverse /\ TrackedIsMapped /\ SocketsOwned
  BY DEF IInv
<1>1. UNCHANGED <<link, sockOpen, swept, reading, byID, bySource, expired, tracked, drawn,
                 toServer, doomed, sweeping, server, client>>
  BY DEF Creates, serverUDP, clientUDP, wires, streams
<1>2. udpSessions[i] = None /\ toClient' \in SUBSET Ids
  BY <1>0 DEF Creates, TypeOK
<1>3. /\ udpSessions' \in [Ids -> Objects \cup {None}]
      /\ \A j \in Ids : udpSessions'[j] = IF j = i THEN o ELSE udpSessions[j]
  BY <1>0 DEF Creates, TypeOK
<1>4. /\ object' \in [Objects -> Object]
      /\ \A p \in Objects : p # o => object'[p] = object[p]
      /\ object'[o].id = i /\ object'[o].open /\ object'[o].reader = "read"
  <2> DEFINE new == [id |-> i, open |-> TRUE, reader |-> "read"]
  <2>1. new \in Object /\ new.id = i /\ new.open /\ new.reader = "read"
    BY DEF Object
  <2>2. object' = [object EXCEPT ![o] = new]
    BY DEF Creates
  <2> HIDE DEF new
  <2> QED
    BY <1>0, <2>1, <2>2 DEF TypeOK
<1>5. TypeOK'
  BY <1>0, <1>1, <1>2, <1>3, <1>4 DEF TypeOK
<1>6. ObjectsOK'
  BY <1>0, <1>1, <1>2, <1>3, <1>4, Ranges DEF ObjectsOK
<1>7. SocketsOwned'
  <2>1. ASSUME NEW p \in Objects, object'[p].open
        PROVE  p \in doomed' \/ (udpSessions'[object'[p].id] = p /\ object'[p].reader # "off")
    <3>1. CASE p = o
      BY <1>1, <1>3, <1>4, <3>1
    <3>2. CASE p # o
      <4>1. object'[p] = object[p] /\ object[p].open /\ object[p].id \in Ids
        BY <1>0, <1>4, <2>1, <3>2 DEF ObjectsOK
      <4>2. CASE p \in doomed
        BY <1>1, <4>2
      <4>3. CASE udpSessions[object[p].id] = p /\ object[p].reader # "off"
        BY <1>2, <1>3, <4>1, <4>3
      <4> QED
        BY <1>0, <4>1, <4>2, <4>3 DEF SocketsOwned
    <3> QED
      BY <3>1, <3>2
  <2> QED
    BY <2>1 DEF SocketsOwned
<1>8. IDsDrawnOnce' /\ MapsInverse' /\ TrackedIsMapped'
  BY <1>0, <1>1 DEF IDsDrawnOnce, MapsInverse, TrackedIsMapped, Mapped
<1> QED
  BY <1>5, <1>6, <1>7, <1>8 DEF IInv

\* A packet of a known session goes to its socket.
LEMMA DeliverKnown ==
    ASSUME IInv, NEW i \in Ids, Deliver(i), udpSessions[i] # None
    PROVE  IInv'
<1> USE NoneAssumption
<1>0. TypeOK /\ IDsDrawnOnce /\ ObjectsOK /\ MapsInverse /\ TrackedIsMapped /\ SocketsOwned
  BY DEF IInv
<1>1. UNCHANGED <<link, sockOpen, swept, reading, byID, bySource, expired, tracked, drawn,
                 toServer, udpSessions, object, doomed, sweeping, server, client>>
  BY DEF Deliver, serverUDP, clientUDP, wires, streams
<1>2. toClient' \in SUBSET Ids /\ UNCHANGED <<udpSessions, object>>
  BY <1>0 DEF Deliver, TypeOK
<1>3. TypeOK'
  BY <1>0, <1>1, <1>2 DEF TypeOK
<1>4. IDsDrawnOnce' /\ ObjectsOK' /\ MapsInverse' /\ TrackedIsMapped' /\ SocketsOwned'
  BY <1>0, <1>1 DEF IDsDrawnOnce, ObjectsOK, MapsInverse, TrackedIsMapped, Mapped, SocketsOwned
<1> QED
  BY <1>3, <1>4 DEF IInv

\* A reader that gives up has still to remove its session.
LEMMA ReaderLeavesStep ==
    ASSUME IInv, NEW o \in Objects, ReaderLeaves(o)
    PROVE  IInv'
<1> USE NoneAssumption
<1>0. TypeOK /\ IDsDrawnOnce /\ ObjectsOK /\ MapsInverse /\ TrackedIsMapped /\ SocketsOwned
  BY DEF IInv
<1>1. UNCHANGED <<link, sockOpen, swept, reading, byID, bySource, expired, tracked, drawn,
                 toClient, toServer, udpSessions, doomed, sweeping, server, client>>
  BY DEF ReaderLeaves, serverUDP, clientUDP, wires, streams
<1>2. object[o].reader = "read"
  BY DEF ReaderLeaves
<1>3. /\ object' \in [Objects -> Object]
      /\ \A p \in Objects : p # o => object'[p] = object[p]
      /\ object'[o].reader = "farewell" /\ object'[o].id = object[o].id
      /\ object'[o].open = object[o].open
  <2>1. object[o] \in Object
    BY <1>0 DEF TypeOK
  <2> QED
    BY <1>0, <2>1 DEF ReaderLeaves, TypeOK, Object
<1>4. TypeOK'
  BY <1>0, <1>1, <1>2, <1>3 DEF TypeOK
<1>5. ObjectsOK'
  BY <1>0, <1>1, <1>2, <1>3, Ranges DEF ObjectsOK
<1>6. SocketsOwned'
  BY <1>0, <1>1, <1>2, <1>3, Ranges DEF SocketsOwned
<1>7. IDsDrawnOnce' /\ MapsInverse' /\ TrackedIsMapped'
  BY <1>0, <1>1 DEF IDsDrawnOnce, MapsInverse, TrackedIsMapped, Mapped
<1> QED
  BY <1>4, <1>5, <1>6, <1>7 DEF IInv

\* The close frame is sent before the session is removed.
LEMMA FarewellStep ==
    ASSUME IInv, NEW o \in Objects, Farewell(o)
    PROVE  IInv'
<1> USE NoneAssumption
<1>0. TypeOK /\ IDsDrawnOnce /\ ObjectsOK /\ MapsInverse /\ TrackedIsMapped /\ SocketsOwned
  BY DEF IInv
<1>1. UNCHANGED <<link, sockOpen, swept, reading, byID, bySource, expired, tracked, drawn,
                 toClient, udpSessions, doomed, sweeping, server, client>>
  BY DEF Farewell, serverUDP, clientUDP, wires, streams
<1>2. object[o].reader = "farewell"
  BY DEF Farewell
<1>3. /\ object' \in [Objects -> Object]
      /\ \A p \in Objects : p # o => object'[p] = object[p]
      /\ object'[o].reader = "remove" /\ object'[o].id = object[o].id
      /\ object'[o].open = object[o].open
  <2>1. object[o] \in Object
    BY <1>0 DEF TypeOK
  <2> QED
    BY <1>0, <2>1 DEF Farewell, TypeOK, Object
<1>4. toServer' \in SUBSET Ids
  <2>1. object[o].id \in Ids
    BY <1>0, <1>2 DEF ObjectsOK
  <2> QED
    BY <1>0, <2>1 DEF Farewell, SendClose, TypeOK
<1>5. TypeOK'
  BY <1>0, <1>1, <1>2, <1>3, <1>4 DEF TypeOK
<1>6. ObjectsOK'
  BY <1>0, <1>1, <1>2, <1>3, <1>4, Ranges DEF ObjectsOK
<1>7. SocketsOwned'
  BY <1>0, <1>1, <1>2, <1>3, <1>4, Ranges DEF SocketsOwned
<1>8. IDsDrawnOnce' /\ MapsInverse' /\ TrackedIsMapped'
  BY <1>0, <1>1 DEF IDsDrawnOnce, MapsInverse, TrackedIsMapped, Mapped
<1> QED
  BY <1>5, <1>6, <1>7, <1>8 DEF IInv

\* A reader closes whatever object has its ID now, its own or a later one.
LEMMA RemoveUDPSessionStep ==
    ASSUME IInv, NEW o \in Objects, RemoveUDPSession(o)
    PROVE  IInv'
<1> USE NoneAssumption
<1>0. TypeOK /\ IDsDrawnOnce /\ ObjectsOK /\ MapsInverse /\ TrackedIsMapped /\ SocketsOwned
  BY DEF IInv
<1>1. UNCHANGED <<link, sockOpen, swept, reading, byID, bySource, expired, tracked, drawn,
                 toClient, toServer, doomed, sweeping, server, client>>
  BY DEF RemoveUDPSession, serverUDP, clientUDP, wires, streams
<1>2. object[o].reader = "remove" /\ object[o].id \in Ids
  BY <1>0 DEF RemoveUDPSession, ObjectsOK
<1>3. /\ udpSessions' \in [Ids -> Objects \cup {None}]
      /\ \A j \in Ids : udpSessions'[j] = IF j = object[o].id THEN None ELSE udpSessions[j]
  BY <1>0, <1>2 DEF RemoveUDPSession, TypeOK
<1>4. /\ object' \in [Objects -> Object]
      /\ \A p \in Objects :
           /\ object'[p].id = object[p].id
           /\ object'[p].open = (object[p].open /\ p # udpSessions[object[o].id])
           /\ object'[p].reader = IF p = o THEN "off" ELSE object[p].reader
  <2> DEFINE other == udpSessions[object[o].id]
           new(p) == [object[p] EXCEPT !.open = @ /\ p # other,
                                !.reader = IF p = o THEN "off" ELSE @]
  <2>1. ASSUME NEW p \in Objects
        PROVE  /\ new(p) \in Object /\ new(p).id = object[p].id
               /\ new(p).open = (object[p].open /\ p # other)
               /\ new(p).reader = IF p = o THEN "off" ELSE object[p].reader
    <3>1. object[p] \in Object
      BY <1>0 DEF TypeOK
    <3> HIDE DEF other
    <3> QED
      BY <3>1 DEF Object
  <2>2. object' = [p \in Objects |-> new(p)]
    BY DEF RemoveUDPSession
  <2> HIDE DEF new
  <2> QED
    BY <2>1, <2>2
<1>5. TypeOK'
  BY <1>0, <1>1, <1>2, <1>3, <1>4 DEF TypeOK
<1>6. ObjectsOK'
  BY <1>0, <1>1, <1>2, <1>3, <1>4, Ranges DEF ObjectsOK
<1>7. SocketsOwned'
  <2>1. ASSUME NEW p \in Objects, object'[p].open
        PROVE  p \in doomed' \/ (udpSessions'[object'[p].id] = p /\ object'[p].reader # "off")
    <3>1. /\ object[p].open /\ object[p].id \in Ids /\ object'[p].id = object[p].id
          /\ p # udpSessions[object[o].id]
      BY <1>0, <1>4, <2>1 DEF ObjectsOK
    <3>2. CASE p \in doomed
      BY <1>1, <3>2
    <3>3. CASE udpSessions[object[p].id] = p /\ object[p].reader # "off"
      <4>1. object[p].id # object[o].id /\ p # o
        BY <3>1, <3>3
      <4> QED
        BY <1>3, <1>4, <3>1, <3>3, <4>1
    <3> QED
      BY <1>0, <3>1, <3>2, <3>3 DEF SocketsOwned
  <2> QED
    BY <2>1 DEF SocketsOwned
<1>8. IDsDrawnOnce' /\ MapsInverse' /\ TrackedIsMapped'
  BY <1>0, <1>1 DEF IDsDrawnOnce, MapsInverse, TrackedIsMapped, Mapped
<1> QED
  BY <1>5, <1>6, <1>7, <1>8 DEF IInv

\* The objects that were in the map are closed next.
LEMMA CloseUDPSessionsStep ==
    ASSUME IInv, CloseUDPSessions
    PROVE  IInv'
<1> USE NoneAssumption
<1>0. TypeOK /\ IDsDrawnOnce /\ ObjectsOK /\ MapsInverse /\ TrackedIsMapped /\ SocketsOwned
  BY DEF IInv
<1>1. UNCHANGED <<link, sockOpen, swept, reading, byID, bySource, expired, tracked, drawn,
                 toClient, toServer, object, server, client>>
  BY DEF CloseUDPSessions, serverUDP, clientUDP, wires, streams
<1>2. /\ sweeping /\ ~sweeping' /\ sweeping' \in BOOLEAN
      /\ doomed' = {udpSessions[i] : i \in Ids} \ {None} /\ udpSessions' = NoSessions
  BY DEF CloseUDPSessions
<1>3. doomed' \in SUBSET Objects /\ udpSessions' \in [Ids -> Objects \cup {None}]
  BY <1>0, <1>2 DEF TypeOK, NoSessions
<1>4. TypeOK'
  BY <1>0, <1>1, <1>2, <1>3 DEF TypeOK
<1>5. ObjectsOK'
  BY <1>0, <1>1, <1>2, <1>3, Ranges DEF ObjectsOK
<1>6. SocketsOwned'
  <2>1. ASSUME NEW p \in Objects, object'[p].open
        PROVE  p \in doomed' \/ (udpSessions'[object'[p].id] = p /\ object'[p].reader # "off")
    <3>1. /\ object[p].open /\ object[p].id \in Ids /\ doomed = {}
      BY <1>0, <1>1, <1>2, <2>1 DEF ObjectsOK
    <3>2. udpSessions[object[p].id] = p /\ p # None
      BY <1>0, <3>1 DEF SocketsOwned
    <3> QED
      BY <1>2, <3>1, <3>2
  <2> QED
    BY <2>1 DEF SocketsOwned
<1>7. IDsDrawnOnce' /\ MapsInverse' /\ TrackedIsMapped'
  BY <1>0, <1>1 DEF IDsDrawnOnce, MapsInverse, TrackedIsMapped, Mapped
<1> QED
  BY <1>4, <1>5, <1>6, <1>7 DEF IInv

\* A doomed socket is closed.
LEMMA CloseDoomedStep ==
    ASSUME IInv, NEW o \in Objects, CloseDoomed(o)
    PROVE  IInv'
<1> USE NoneAssumption
<1>0. TypeOK /\ IDsDrawnOnce /\ ObjectsOK /\ MapsInverse /\ TrackedIsMapped /\ SocketsOwned
  BY DEF IInv
<1>1. UNCHANGED <<link, sockOpen, swept, reading, byID, bySource, expired, tracked, drawn,
                 toClient, toServer, udpSessions, sweeping, server, client>>
  BY DEF CloseDoomed, serverUDP, clientUDP, wires, streams
<1>2. doomed' = doomed \ {o}
  BY DEF CloseDoomed
<1>3. /\ object' \in [Objects -> Object]
      /\ \A p \in Objects : p # o => object'[p] = object[p]
      /\ object'[o].open = FALSE /\ object'[o].id = object[o].id
      /\ object'[o].reader = object[o].reader
  <2>1. object[o] \in Object
    BY <1>0 DEF TypeOK
  <2> QED
    BY <1>0, <2>1 DEF CloseDoomed, TypeOK, Object
<1>4. TypeOK'
  BY <1>0, <1>1, <1>2, <1>3 DEF TypeOK
<1>5. ObjectsOK'
  BY <1>0, <1>1, <1>2, <1>3, Ranges DEF ObjectsOK
<1>6. SocketsOwned'
  BY <1>0, <1>1, <1>2, <1>3, Ranges DEF SocketsOwned
<1>7. IDsDrawnOnce' /\ MapsInverse' /\ TrackedIsMapped'
  BY <1>0, <1>1 DEF IDsDrawnOnce, MapsInverse, TrackedIsMapped, Mapped
<1> QED
  BY <1>4, <1>5, <1>6, <1>7 DEF IInv

\* The TCP connections share only the list of active sessions with the UDP sessions.
LEMMA TCPStep ==
    ASSUME IInv, NEW c \in Conns, TCP(c)
    PROVE  IInv'
<1> USE NoneAssumption
<1>0. TypeOK /\ IDsDrawnOnce /\ ObjectsOK /\ MapsInverse /\ TrackedIsMapped /\ SocketsOwned
  BY DEF IInv
<1>1. UNCHANGED <<link, sockOpen, swept, reading, byID, bySource, expired, drawn, toClient,
                 toServer, udpSessions, object, doomed, sweeping>>
  BY StreamsOnly DEF serverUDP, wires, clientUDP
<1>2. /\ server' \in [Conns -> [pc : ServerStates, copiers : SUBSET Copiers]]
      /\ client' \in [Conns -> [pc : ClientStates, copiers : SUBSET Copiers]]
      /\ tracked' \in {tracked, tracked \cup {c}, tracked \ {c}}
  BY <1>0, StreamsTyped
<1>3. c \notin Ids
  BY TrackedAssumption
<1>4. TypeOK'
  BY <1>0, <1>1, <1>2, <1>3 DEF TypeOK
<1>5. TrackedIsMapped'
  BY <1>0, <1>1, <1>2, <1>3, Ranges DEF TrackedIsMapped, Mapped
<1>6. IDsDrawnOnce' /\ ObjectsOK' /\ MapsInverse' /\ SocketsOwned'
  BY <1>0, <1>1 DEF IDsDrawnOnce, ObjectsOK, MapsInverse, SocketsOwned
<1> QED
  BY <1>4, <1>5, <1>6 DEF IInv

\* The connection ends.
LEMMA LinkDownStep ==
    ASSUME IInv, LinkDown
    PROVE  IInv'
<1> USE NoneAssumption
<1>0. TypeOK /\ IDsDrawnOnce /\ ObjectsOK /\ MapsInverse /\ TrackedIsMapped /\ SocketsOwned
  BY DEF IInv
<1>1. UNCHANGED <<sockOpen, swept, reading, byID, bySource, expired, tracked, drawn, toClient,
                 toServer, udpSessions, object, doomed, sweeping, server, client>>
  BY DEF LinkDown, serverUDP, clientUDP, wires, streams
<1>2. link' \in {"up", "down"}
  BY DEF LinkDown
<1>3. TypeOK'
  BY <1>0, <1>1, <1>2 DEF TypeOK
<1>4. IDsDrawnOnce' /\ ObjectsOK' /\ MapsInverse' /\ TrackedIsMapped' /\ SocketsOwned'
  BY <1>0, <1>1 DEF IDsDrawnOnce, ObjectsOK, MapsInverse, TrackedIsMapped, Mapped, SocketsOwned
<1> QED
  BY <1>3, <1>4 DEF IInv

\* A datagram is lost.
LEMMA LoseStep ==
    ASSUME IInv, Lose
    PROVE  IInv'
<1> USE NoneAssumption
<1>0. TypeOK /\ IDsDrawnOnce /\ ObjectsOK /\ MapsInverse /\ TrackedIsMapped /\ SocketsOwned
  BY DEF IInv
<1>1. UNCHANGED <<link, sockOpen, swept, reading, byID, bySource, expired, tracked, drawn,
                 udpSessions, object, doomed, sweeping, server, client>>
  BY DEF Lose, serverUDP, clientUDP, streams
<1>2. toClient' \in SUBSET Ids /\ toServer' \in SUBSET Ids
  BY <1>0 DEF Lose, TypeOK
<1>3. TypeOK'
  BY <1>0, <1>1, <1>2 DEF TypeOK
<1>4. IDsDrawnOnce' /\ ObjectsOK' /\ MapsInverse' /\ TrackedIsMapped' /\ SocketsOwned'
  BY <1>0, <1>1 DEF IDsDrawnOnce, ObjectsOK, MapsInverse, TrackedIsMapped, Mapped, SocketsOwned
<1> QED
  BY <1>3, <1>4 DEF IInv

\* getOrCreateSession finds the session of the source or creates it.
LEMMA ServePacketStep ==
    ASSUME IInv, NEW r \in Routes, ServePacket(r)
    PROVE  IInv'
<1>1. CASE bySource[r][reading[r]] # None
  BY <1>1, ServeKnown
<1>2. CASE bySource[r][reading[r]] = None
  <2>1. reading[r] \in Sources
    BY DEF ServePacket, IInv, TypeOK
  <2>2. PICK i \in Ids \ drawn : Serves(r, reading[r], i)
    BY <1>2 DEF ServePacket, Serves
  <2> QED
    BY <2>1, <2>2, ServeNew
<1> QED
  BY <1>1, <1>2

LEMMA CloseFrameStep ==
    ASSUME IInv, NEW r \in Routes, NEW i \in Ids, CloseFrame(r, i)
    PROVE  IInv'
BY CloseFrameRemoves, CloseFrameIgnored

\* A packet goes to the socket of its session, which may have to be created.
LEMMA DeliverStep ==
    ASSUME IInv, NEW i \in Ids, Deliver(i)
    PROVE  IInv'
<1>1. CASE udpSessions[i] # None
  BY <1>1, DeliverKnown
<1>2. CASE udpSessions[i] = None
  <2>1. PICK o \in Objects : Creates(i, o)
    BY <1>2 DEF Deliver, Creates
  <2> QED
    BY <2>1, DeliverNew
<1> QED
  BY <1>1, <1>2

LEMMA InitIInv == Init => IInv
<1> SUFFICES ASSUME Init PROVE IInv
  OBVIOUS
<1> USE NoneAssumption DEF Init, NoSessions
<1>1. TypeOK
  <2>1. NoObject \in Object
    BY DEF NoObject, Object
  <2>2. object \in [Objects -> Object]
    BY <2>1
  <2>3. /\ server \in [Conns -> [pc : ServerStates, copiers : SUBSET Copiers]]
        /\ client \in [Conns -> [pc : ClientStates, copiers : SUBSET Copiers]]
    BY DEF At, ServerStates, ClientStates
  <2> QED
    BY <2>2, <2>3 DEF TypeOK
<1>2. \A o \in Objects : ~object[o].open /\ object[o].reader = "off"
  BY DEF NoObject
<1>3. IDsDrawnOnce /\ MapsInverse /\ TrackedIsMapped
  BY DEF IDsDrawnOnce, MapsInverse, TrackedIsMapped
<1>4. ObjectsOK /\ SocketsOwned
  BY <1>2 DEF ObjectsOK, SocketsOwned
<1> QED
  BY <1>1, <1>3, <1>4 DEF IInv

LEMMA NextIInv == IInv /\ [Next]_vars => IInv'
<1> SUFFICES ASSUME IInv, [Next]_vars PROVE IInv'
  OBVIOUS
<1>1. toClient \in SUBSET Ids /\ toServer \in SUBSET Ids
  BY DEF IInv, TypeOK
<1>2. ASSUME NEW r \in Routes, ServerUDP(r)
      PROVE  IInv'
  BY <1>1, <1>2, ReadPacketStep, ServePacketStep, CloseSocketStep, SweepStep, UntrackStep,
     ExpireStep, CloseFrameStep DEF ServerUDP
<1>3. CASE ClientUDP
  <2>1. ASSUME NEW o \in Objects, ReaderLeaves(o) \/ Reader(o)
        PROVE  IInv'
    BY <2>1, ReaderLeavesStep, FarewellStep, RemoveUDPSessionStep, CloseDoomedStep DEF Reader
  <2> QED
    BY <1>1, <1>3, <2>1, RefuseStep, DeliverStep, CloseUDPSessionsStep DEF ClientUDP
<1>4. ASSUME NEW c \in Conns, TCP(c)
      PROVE  IInv'
  BY <1>4, TCPStep
<1>5. CASE LinkDown \/ Lose
  BY <1>5, LinkDownStep, LoseStep
<1>6. CASE UNCHANGED vars
  <2>1. UNCHANGED <<link, sockOpen, swept, reading, byID, bySource, expired, tracked, drawn,
                   toClient, toServer, udpSessions, object, doomed, sweeping, server, client>>
    BY <1>6 DEF vars, serverUDP, clientUDP, wires, streams
  <2> QED
    BY <2>1 DEF IInv, TypeOK, IDsDrawnOnce, ObjectsOK, MapsInverse, TrackedIsMapped, Mapped,
       SocketsOwned
<1> QED
  BY <1>2, <1>3, <1>4, <1>5, <1>6 DEF Next

-----------------------------------------------------------------------------
\* Every reachable state of the data path satisfies the inductive invariant.
THEOREM InductiveInvariant == Spec => []IInv
BY InitIInv, NextIInv, PTL DEF Spec

\* The UDP maps of a connection agree with each other and with the list of active
\* sessions, and no socket of the client is forgotten (UdpSafe), for any number of
\* routes, sources, session IDs and client sessions, with datagrams lost and reordered
\* and bindings closed at any time.
THEOREM UdpSessionsAreSafe == Spec => []UdpSafe
<1>1. IInv => UdpSafe
  BY DEF IInv, UdpSafe
<1> QED
  BY <1>1, InductiveInvariant, PTL
=============================================================================
