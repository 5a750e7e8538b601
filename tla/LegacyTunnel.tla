---------------------------- MODULE LegacyTunnel ----------------------------
(***************************************************************************)
(* The single-route tunnel: its server (src/internal/tunnel/server.go),    *)
(* its client (client.go), the public connections and the data connections *)
(* between them.  One tunnel name is modelled: names share nothing but the *)
(* public ports of the host.                                               *)
(*                                                                         *)
(* A session is one control connection: the serverTunnel object together   *)
(* with the handler that serves it.  One step is one critical section of   *)
(* mu or pendingMu, one message, or one call of net.Listen or Close.  The  *)
(* connections between client and server may break at any time, at most    *)
(* MaxDrops times; the server need not notice.                             *)
(***************************************************************************)
EXTENDS Naturals, FiniteSets

CONSTANTS
    Sessions,   \* control connections
    Conns,      \* public connections
    MaxPort,    \* the public ports of the host are 1..MaxPort
    ConfiguredPorts,    \* the ports the client may be configured to ask for, 0 for any
    MaxPendingConnections,
    MaxDrops,   \* bound: how often a connection breaks
    None        \* no session

ASSUME NoneAssumption == None \notin Sessions
ASSUME NumberAssumption ==
    MaxPort \in Nat /\ MaxPendingConnections \in Nat \ {0} /\ MaxDrops \in Nat
ASSUME ConfiguredAssumption == ConfiguredPorts \subseteq 0..MaxPort

VARIABLES
    phase,      \* "running", "closing" (inside close()), "closed" (close returned)
    queue,      \* tunnels captured by Server.close() and not closed yet
    tunnel,     \* Server.tunnels[name]
    handler,    \* where handleControlConn of a session is
    existing,   \* the tunnel registerTunnel took out of the map
    asked,      \* the port the register message of a session asks for
    port,       \* port of the open public listener of a session, or 0
    life,       \* serverTunnel.closeOnce: "open", "sweep" (running), "closed"
    reply,      \* what the client is going to read as its response: "none" yet, "ok", or "no",
                \* a refusal or another message
    link,       \* the client's current control connection
    publicPort, \* Client.PublicPort
    accepting,  \* where the accept goroutine is with a public connection
    home,       \* the session that accepted a public connection
    pending,    \* the connection is in serverTunnel.pending
    timer,      \* expirePendingConnection runs
    opening,    \* handleOpen and handleDataConn for a connection: where they are
    found,      \* the tunnel handleDataConn looked up
    fate,       \* "none", "held" (open), "relayed", "closed"
    drops       \* connections broken so far

serverVars == <<phase, queue, tunnel>>
sessVars   == <<handler, existing, asked, port, life, reply>>
clientVars == <<link, publicPort>>
connVars   == <<accepting, home, pending, timer, opening, found, fate>>
vars == <<serverVars, sessVars, clientVars, connVars, drops>>

Ports == 1..MaxPort

TypeOK ==
    /\ phase \in {"running", "closing", "closed"}
    /\ queue \subseteq Sessions
    /\ tunnel \in Sessions \cup {None}
    /\ handler \in [Sessions -> {"idle", "hello", "evict", "listen", "insert", "ack",
                                 "serve", "leave", "close"}]
    /\ existing \in [Sessions -> Sessions \cup {None}]
    /\ asked \in [Sessions -> 0..MaxPort] /\ port \in [Sessions -> 0..MaxPort]
    /\ life \in [Sessions -> {"open", "sweep", "closed"}]
    /\ reply \in [Sessions -> {"none", "ok", "no"}]
    /\ link \in Sessions \cup {None} /\ publicPort \in 0..MaxPort
    /\ accepting \in [Conns -> {"no", "check", "insert", "write"}]
    /\ home \in [Conns -> Sessions \cup {None}]
    /\ pending \in [Conns -> BOOLEAN] /\ timer \in [Conns -> BOOLEAN]
    /\ opening \in [Conns -> {"no", "sent", "lookup", "take", "answer"}]
    /\ found \in [Conns -> Sessions \cup {None}]
    /\ fate \in [Conns -> {"none", "held", "relayed", "closed"}]
    /\ drops \in 0..MaxDrops

-----------------------------------------------------------------------------
(* serverTunnel.close() *)

\* closeOnce: the listener and the control connection are closed ...
BeginClose(s) ==
    /\ life' = [life EXCEPT ![s] = "sweep"]
    /\ port' = [port EXCEPT ![s] = 0]

\* ... and the pending connections are closed; whoever calls close() meanwhile waits.
Sweep(s) ==
    /\ life[s] = "sweep"
    /\ life' = [life EXCEPT ![s] = "closed"]
    /\ pending' = [c \in Conns |-> pending[c] /\ home[c] # s]
    /\ fate' = [c \in Conns |-> IF pending[c] /\ home[c] = s THEN "closed" ELSE fate[c]]
    /\ UNCHANGED <<serverVars, handler, existing, asked, port, reply, clientVars,
                   accepting, home, timer, opening, found, drops>>

\* A call of close() on tunnel s: start it, or find it finished (done).
CloseTunnel(s, done) ==
    \/ life[s] = "open" /\ BeginClose(s) /\ ~done
    \/ life[s] = "closed" /\ UNCHANGED <<life, port>> /\ done

-----------------------------------------------------------------------------
(* The client *)

\* The session object and everything that refers to it is garbage.
Unreferenced(s) ==
    /\ handler[s] = "idle" /\ life[s] # "sweep" /\ link # s /\ s \notin queue
    /\ \A t \in Sessions : existing[t] # s
    /\ \A c \in Conns : home[c] = s \/ found[c] = s =>
          fate[c] \in {"relayed", "closed"} /\ accepting[c] = "no" /\ opening[c] = "no"

\* Session objects are alike: a new connection is any unreferenced one.
FreeSession == CHOOSE s \in Sessions : Unreferenced(s)

\* runOnce: dial and send the handshake; it asks for the port the client had before.
Connect ==
    /\ link = None /\ phase = "running"
    /\ \E s \in Sessions : Unreferenced(s)
    /\ LET s == FreeSession IN
         /\ link' = s
         /\ handler' = [handler EXCEPT ![s] = "hello"]
         /\ asked' = [asked EXCEPT ![s] = publicPort]
         /\ life' = [life EXCEPT ![s] = "open"]
         /\ reply' = [reply EXCEPT ![s] = "none"]
    /\ UNCHANGED <<publicPort, serverVars, existing, port, connVars, drops>>

\* runOnce reads the response; a refusal ends it, and Run dials again.
ReadResponse ==
    /\ link # None /\ reply[link] # "none"
    /\ IF reply[link] = "ok"
         THEN publicPort' = asked[link] /\ UNCHANGED link
         ELSE link' = None /\ UNCHANGED publicPort
    /\ reply' = [reply EXCEPT ![link] = "none"]
    /\ UNCHANGED <<serverVars, handler, existing, asked, port, life, connVars, drops>>

\* runOnce ends: the server has closed the control connection.
Disconnected ==
    /\ link # None /\ reply[link] = "none"
    /\ handler[link] = "idle" \/ life[link] # "open"
    /\ link' = None
    /\ UNCHANGED <<serverVars, sessVars, publicPort, connVars, drops>>

\* The client gives its connection up (a network error, a handshake that took too
\* long) and what it has not read; the server sees the end of it later, or never.
Drop ==
    /\ link # None /\ drops < MaxDrops
    /\ link' = None /\ drops' = drops + 1
    /\ reply' = [reply EXCEPT ![link] = "none"]
    /\ opening' = [c \in Conns |-> IF home[c] = link /\ opening[c] = "sent" /\ reply[link] # "none"
                                     THEN "no" ELSE opening[c]]
    /\ UNCHANGED <<serverVars, handler, existing, asked, port, life, publicPort,
                   accepting, home, pending, timer, found, fate>>

Client == ReadResponse \/ Disconnected

-----------------------------------------------------------------------------
(* handleControlConn *)

\* The handshake does not arrive before its deadline.
RejectHello(s) ==
    /\ handler[s] = "hello" /\ link # s
    /\ handler' = [handler EXCEPT ![s] = "idle"]
    /\ UNCHANGED <<serverVars, existing, asked, port, life, reply, clientVars, connVars, drops>>

TakeNameKeepsOld(s) ==
    /\ handler[s] = "hello"
    /\ tunnel' = None
    /\ handler' = [handler EXCEPT ![s] = "listen"]
    /\ UNCHANGED <<phase, queue, existing, asked, port, life, reply, clientVars, connVars, drops>>

\* registerTunnel: the name is taken from the tunnel that has it ...
TakeName(s) ==
    /\ handler[s] = "hello"
    /\ existing' = [existing EXCEPT ![s] = tunnel]
    /\ tunnel' = None
    /\ handler' = [handler EXCEPT ![s] = IF tunnel = None THEN "listen" ELSE "evict"]
    /\ UNCHANGED <<phase, queue, asked, port, life, reply, clientVars, connVars, drops>>

\* ... which is closed outside mu, so that its port becomes free ...
CloseExisting(s) ==
    /\ handler[s] = "evict"
    /\ \E done \in BOOLEAN :
         /\ CloseTunnel(existing[s], done)
         /\ IF done THEN /\ handler' = [handler EXCEPT ![s] = "listen"]
                         /\ existing' = [existing EXCEPT ![s] = None]
                    ELSE UNCHANGED <<handler, existing>>
    /\ UNCHANGED <<serverVars, asked, reply, clientVars, connVars, drops>>

\* The first message on a connection is the one the client reads as the response.
Respond(s, r) ==
    reply' = [reply EXCEPT ![s] = IF link = s /\ @ = "none" THEN r ELSE @]

Refuse(s) ==
    /\ handler' = [handler EXCEPT ![s] = "idle"]
    /\ Respond(s, "no")

\* ... the public port is opened, any free one if 0 was asked for ...
Listen(s) ==
    /\ handler[s] = "listen"
    /\ LET free == {p \in Ports : \A t \in Sessions : port[t] # p}
           fit  == IF asked[s] = 0 THEN free ELSE free \cap {asked[s]} IN
       \/ /\ \E p \in fit : port' = [port EXCEPT ![s] = p] /\ asked' = [asked EXCEPT ![s] = p]
          /\ handler' = [handler EXCEPT ![s] = "insert"]
          /\ UNCHANGED reply
       \/ /\ fit = {} /\ Refuse(s)
          /\ UNCHANGED <<port, asked>>
    /\ UNCHANGED <<serverVars, existing, life, clientVars, connVars, drops>>

InsertAlways(s) ==
    /\ handler[s] = "insert"
    /\ tunnel' = s
    /\ handler' = [handler EXCEPT ![s] = "ack"]
    /\ UNCHANGED <<port, reply, phase, queue, existing, asked, life, clientVars, connVars, drops>>

\* ... and the tunnel enters the map, unless another one did in the meantime.
Insert(s) ==
    /\ handler[s] = "insert"
    /\ IF tunnel # None
         THEN Refuse(s) /\ port' = [port EXCEPT ![s] = 0] /\ UNCHANGED tunnel
         ELSE /\ tunnel' = s
              /\ handler' = [handler EXCEPT ![s] = "ack"]
              /\ UNCHANGED <<port, reply>>
    /\ UNCHANGED <<phase, queue, existing, asked, life, clientVars, connVars, drops>>

\* The OK response; it fails if the tunnel was closed, and may if the client is gone.
Ack(s) ==
    /\ handler[s] = "ack"
    /\ \/ life[s] = "open"
          /\ Respond(s, "ok")
          /\ handler' = [handler EXCEPT ![s] = "serve"]
       \/ (life[s] # "open" \/ link # s)
          /\ handler' = [handler EXCEPT ![s] = "leave"] /\ UNCHANGED reply
    /\ UNCHANGED <<serverVars, existing, asked, port, life, clientVars, connVars, drops>>

\* The read loop ends: the tunnel was closed, or the client is gone.
ReadFails(s) ==
    /\ handler[s] = "serve"
    /\ life[s] # "open" \/ link # s
    /\ handler' = [handler EXCEPT ![s] = "leave"]
    /\ UNCHANGED <<serverVars, existing, asked, port, life, reply, clientVars, connVars, drops>>

UnregisterAny(s) ==
    /\ handler[s] = "leave"
    /\ tunnel' = None
    /\ handler' = [handler EXCEPT ![s] = "close"]
    /\ UNCHANGED <<phase, queue, existing, asked, port, life, reply, clientVars, connVars, drops>>

\* unregisterTunnel: the name is given up if it is still this tunnel's ...
Unregister(s) ==
    /\ handler[s] = "leave"
    /\ tunnel' = IF tunnel = s THEN None ELSE tunnel
    /\ handler' = [handler EXCEPT ![s] = "close"]
    /\ UNCHANGED <<phase, queue, existing, asked, port, life, reply, clientVars, connVars, drops>>

\* ... and the tunnel is closed.
CloseOwn(s) ==
    /\ handler[s] = "close"
    /\ \E done \in BOOLEAN :
         /\ CloseTunnel(s, done)
         /\ handler' = [handler EXCEPT ![s] = IF done THEN "idle" ELSE @]
    /\ UNCHANGED <<serverVars, existing, asked, reply, clientVars, connVars, drops>>

Handler(s) ==
    \/ TakeName(s) \/ CloseExisting(s) \/ Listen(s) \/ Insert(s) \/ Ack(s)
    \/ Unregister(s) \/ CloseOwn(s)

-----------------------------------------------------------------------------
(* Server.close() *)

\* The context is cancelled: the control listener is closed and the tunnels captured.
\* They stay in the map, and a handshake that is under way registers later on.
CaptureTunnels ==
    /\ phase = "running"
    /\ phase' = "closing"
    /\ queue' = {tunnel} \ {None}
    /\ UNCHANGED <<tunnel, sessVars, clientVars, connVars, drops>>

CloseCaptured ==
    /\ phase = "closing"
    /\ \E s \in queue, done \in BOOLEAN :
         CloseTunnel(s, done) /\ queue' = IF done THEN queue \ {s} ELSE queue
    /\ UNCHANGED <<phase, tunnel, handler, existing, asked, reply, clientVars, connVars, drops>>

CloseReturns ==
    /\ phase = "closing" /\ queue = {}
    /\ phase' = "closed"
    /\ UNCHANGED <<queue, tunnel, sessVars, clientVars, connVars, drops>>

-----------------------------------------------------------------------------
(* Public connections: acceptPublicConnections, one goroutine per tunnel *)

PendingOf(s) == {c \in Conns : pending[c] /\ home[c] = s}

Accept(c) ==
    /\ fate[c] = "none"
    /\ \E s \in Sessions :
         /\ port[s] # 0 /\ handler[s] \notin {"listen", "insert"}
         /\ \A d \in Conns : home[d] = s => accepting[d] = "no"
         /\ home' = [home EXCEPT ![c] = s]
    /\ fate' = [fate EXCEPT ![c] = "held"]
    /\ accepting' = [accepting EXCEPT ![c] = "check"]
    /\ UNCHANGED <<serverVars, sessVars, clientVars, pending, timer, opening, found, drops>>

\* openPendingConnection: first the limit, under pendingMu ...
CheckLimit(c) ==
    /\ accepting[c] = "check"
    /\ IF Cardinality(PendingOf(home[c])) >= MaxPendingConnections
         THEN /\ accepting' = [accepting EXCEPT ![c] = "no"]
              /\ fate' = [fate EXCEPT ![c] = "closed"]
         ELSE accepting' = [accepting EXCEPT ![c] = "insert"] /\ UNCHANGED fate
    /\ UNCHANGED <<serverVars, sessVars, clientVars, home, pending, timer, opening, found, drops>>

\* ... then the entry, under pendingMu again, even if close() has swept the map ...
InsertPending(c) ==
    /\ accepting[c] = "insert"
    /\ pending' = [pending EXCEPT ![c] = TRUE]
    /\ accepting' = [accepting EXCEPT ![c] = "write"]
    /\ UNCHANGED <<serverVars, sessVars, clientVars, home, timer, opening, found, fate, drops>>

\* The client reads an open message of s as one: it has the response, or reads it first.
ReadsOpen(s) == link = s /\ handler[s] # "ack" /\ reply[s] # "no"

\* ... then the open message.  It reaches the client or is lost with the connection;
\* once it is written the timer is started, and when it fails the entry is removed.  The
\* accept loop runs before the response is written: a message that overtakes the response
\* is read in its place.
WriteOpen(c) ==
    LET s == home[c] IN
    /\ accepting[c] = "write"
    /\ accepting' = [accepting EXCEPT ![c] = "no"]
    /\ \/ /\ life[s] = "open"
          /\ timer' = [timer EXCEPT ![c] = TRUE]
          /\ opening' = [opening EXCEPT ![c] = IF ReadsOpen(s) THEN "sent" ELSE @]
          /\ IF handler[s] = "ack" THEN Respond(s, "no") ELSE UNCHANGED reply
          /\ UNCHANGED <<pending, fate>>
       \/ /\ life[s] # "open" \/ link # s
          /\ pending' = [pending EXCEPT ![c] = FALSE]
          /\ fate' = [fate EXCEPT ![c] = "closed"]
          /\ UNCHANGED <<timer, opening, reply>>
    /\ UNCHANGED <<serverVars, handler, existing, asked, port, life, clientVars, home, found, drops>>

\* expirePendingConnection.
Expire(c) ==
    /\ timer[c]
    /\ timer' = [timer EXCEPT ![c] = FALSE]
    /\ pending' = [pending EXCEPT ![c] = FALSE]
    /\ fate' = [fate EXCEPT ![c] = IF pending[c] THEN "closed" ELSE @]
    /\ UNCHANGED <<serverVars, sessVars, clientVars, accepting, home, opening, found, drops>>

-----------------------------------------------------------------------------
(* Data connections: handleOpen of the client and handleDataConn of the server *)

\* handleOpen, once the message is read, dials the target and the server; either may fail.
HandleOpen(c) ==
    /\ opening[c] = "sent"
    /\ link = home[c] => reply[link] = "none"
    /\ \E ok \in BOOLEAN :
         opening' = [opening EXCEPT ![c] = IF ok /\ phase = "running" THEN "lookup" ELSE "no"]
    /\ UNCHANGED <<serverVars, sessVars, clientVars, accepting, home, pending, timer, found, fate, drops>>

\* getTunnel: the tunnel that has the name now, not the one that sent the message.
GetTunnel(c) ==
    /\ opening[c] = "lookup"
    /\ found' = [found EXCEPT ![c] = tunnel]
    /\ opening' = [opening EXCEPT ![c] = IF tunnel = None THEN "no" ELSE "take"]
    /\ UNCHANGED <<serverVars, sessVars, clientVars, accepting, home, pending, timer, fate, drops>>

\* takePending, under pendingMu: the entry is removed by whoever takes it.
TakePending(c) ==
    /\ opening[c] = "take"
    /\ LET mine == pending[c] /\ home[c] = found[c] IN
         /\ pending' = [pending EXCEPT ![c] = @ /\ ~mine]
         /\ opening' = [opening EXCEPT ![c] = IF mine THEN "answer" ELSE "no"]
    /\ found' = [found EXCEPT ![c] = None]
    /\ UNCHANGED <<serverVars, sessVars, clientVars, accepting, home, timer, fate, drops>>

\* The response; when it fails both connections are closed.
AnswerData(c) ==
    /\ opening[c] = "answer"
    /\ opening' = [opening EXCEPT ![c] = "no"]
    /\ \E ok \in BOOLEAN : fate' = [fate EXCEPT ![c] = IF ok THEN "relayed" ELSE "closed"]
    /\ UNCHANGED <<serverVars, sessVars, clientVars, accepting, home, pending, timer, found, drops>>

\* relayConnections ends and closes both, or the connection is garbage: the member
\* stands for a later public connection.
Recycle(c) ==
    /\ fate[c] \in {"relayed", "closed"}
    /\ accepting[c] = "no" /\ ~timer[c] /\ opening[c] = "no"
    /\ fate' = [fate EXCEPT ![c] = "none"]
    /\ home' = [home EXCEPT ![c] = None]
    /\ UNCHANGED <<serverVars, sessVars, clientVars, accepting, pending, timer, opening, found, drops>>

Accepting(c) == CheckLimit(c) \/ InsertPending(c) \/ WriteOpen(c)
Opening(c) == HandleOpen(c) \/ GetTunnel(c) \/ TakePending(c) \/ AnswerData(c)

Init ==
    /\ phase = "running" /\ queue = {} /\ tunnel = None
    /\ handler = [s \in Sessions |-> "idle"]
    /\ existing = [s \in Sessions |-> None]
    /\ asked = [s \in Sessions |-> 0] /\ port = [s \in Sessions |-> 0]
    /\ life = [s \in Sessions |-> "closed"]
    /\ reply = [s \in Sessions |-> "none"]
    /\ link = None /\ publicPort \in ConfiguredPorts
    /\ accepting = [c \in Conns |-> "no"] /\ home = [c \in Conns |-> None]
    /\ pending = [c \in Conns |-> FALSE] /\ timer = [c \in Conns |-> FALSE]
    /\ opening = [c \in Conns |-> "no"] /\ found = [c \in Conns |-> None]
    /\ fate = [c \in Conns |-> "none"]
    /\ drops = 0

Next ==
    \/ Connect \/ Client \/ Drop
    \/ \E s \in Sessions : Handler(s) \/ RejectHello(s) \/ ReadFails(s) \/ Sweep(s)
    \/ CaptureTunnels \/ CloseCaptured \/ CloseReturns
    \/ \E c \in Conns : Accept(c) \/ Accepting(c) \/ Expire(c) \/ Opening(c) \/ Recycle(c)

Spec == Init /\ [][Next]_vars

\* Every goroutine that can run eventually runs, timers fire, and the client dials
\* again and again.  The server need not learn that the client is gone (its read has
\* no deadline), and nobody has to connect to the public port or to stop the server.
FairSpec ==
    /\ Spec
    /\ WF_vars(Connect) /\ WF_vars(Client)
    /\ \A s \in Sessions :
         /\ WF_vars(Handler(s)) /\ WF_vars(Sweep(s))
         /\ WF_vars(life[s] # "open" /\ ReadFails(s))
    /\ WF_vars(CloseCaptured \/ CloseReturns)
    /\ \A c \in Conns :
         WF_vars(Accepting(c)) /\ WF_vars(Expire(c)) /\ WF_vars(Opening(c))

-----------------------------------------------------------------------------
(* Properties *)

\* An open public listener has a handler that will close it, and a tunnel that is
\* open without having the name has somebody who will close it, now that the lock is
\* released between taking the old tunnel out of the map and entering the new one.
ListenersOwned ==
    \A s \in Sessions :
        /\ port[s] # 0 => handler[s] \in {"insert", "ack", "serve", "leave", "close"}
        /\ handler[s] \in {"ack", "serve"} /\ life[s] = "open" /\ tunnel # s =>
              \E t \in Sessions : handler[t] = "evict" /\ existing[t] = s

\* A pending connection has a timer, or an accept goroutine that will start one or
\* remove it; a relayed one is out of the reach of timer and close(); a connection
\* that is neither pending nor in somebody's hands is not left open.
PendingOwned ==
    \A c \in Conns :
        /\ pending[c] => fate[c] = "held" /\ (timer[c] \/ accepting[c] = "write")
        /\ fate[c] = "held" /\ ~pending[c] => accepting[c] # "no" \/ opening[c] = "answer"

LegacySafe == TypeOK /\ ListenersOwned /\ PendingOwned

\* An open message overtakes the response, which the client takes for a refusal.
Overtaken == \E c \in Conns : accepting[c] = "write" /\ home[c] = link /\ handler[link] = "ack"
                              /\ timer'[c]

\* A client whose connection broke, perhaps without the server noticing, gets its
\* tunnel back at the port it had, or the server is stopped, or every registration is
\* overtaken by a public connection.
Served == tunnel # None /\ tunnel = link /\ port[tunnel] # 0 /\ port[tunnel] = publicPort
ServedAgain == <>[](phase # "running") \/ []<>Served \/ []<><<Overtaken>>_vars

\* The server's side of the name refines the common specification of the engines.
Registry == INSTANCE NameService WITH
    Names <- {None}, NameOf <- [s \in Sessions |-> None],
    owner <- [n \in {None} |-> tunnel],
    serving <- {s \in Sessions : handler[s] \in {"ack", "serve", "leave"}}
ImplementsNameService == Registry!Spec

\* Every public connection is relayed or closed: a lost message, a broken connection
\* or a stopped server never leaves it waiting for good.
ConnsSettle == \A c \in Conns : fate[c] = "held" ~> fate[c] # "held"

\* A client that was once assigned a port never gets another one instead.
KeepsPort == [][publicPort # 0 => publicPort' = publicPort]_vars

LegacyLive == ServedAgain /\ ConnsSettle /\ KeepsPort
=============================================================================
