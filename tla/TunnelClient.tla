---------------------------- MODULE TunnelClient ----------------------------
(***************************************************************************)
(* The managed tunnel client: its reconnect loop, for the classic and the  *)
(* QUIC engine (src/internal/tunnel/managed_client.go, quic_client.go),    *)
(* and the slot of the web manager that runs it                            *)
(* (src/internal/web/service_tunnel_client.go).                            *)
(*                                                                         *)
(* A member of Runs stands for one client object, created by a start and   *)
(* gone when watchManagedTunnelClient returns.  Its goroutine (Run inside  *)
(* watch) is sequential; what overlaps with it are the handlers that start *)
(* and stop clients, the server and the network, and, if the slot did not  *)
(* prevent it, the goroutines of other client objects.                     *)
(*                                                                         *)
(* One step is one critical section of Manager.mu, one blocking call of    *)
(* the client, or one test of its context.                                 *)
(***************************************************************************)

CONSTANTS
    Runs,       \* client objects
    NoRun,      \* nil
    Routes      \* names of routes the server may send

ASSUME NoRunAssumption == NoRun \notin Runs

VARIABLES
    slot,           \* Manager.tunnelClient (and tunnelClientCancel): the running client
    connected,      \* Manager.tunnelClientConnected
    lastError,      \* Manager.tunnelClientError
    shownRoutes,    \* Manager.tunnelClientRoutes
    cancels,        \* cancel functions read by stop handlers and not called yet
    shutdownCtx,    \* Manager.shutdownCtx is cancelled
    pc,             \* where the goroutine of a client is
    engine,         \* classic or QUIC
    cancelled,      \* the context of the client itself is cancelled
    routes,         \* the routes map of the client
    result,         \* what runOnce, and then Run, returned
    link,           \* the control connection of the client is up
    serverUp        \* the server can be dialled, and nobody else uses the client's name

slotVars == <<slot, connected, lastError, shownRoutes>>
runVars == <<pc, engine, cancelled, routes, result, link>>
vars == <<slotVars, cancels, shutdownCtx, runVars, serverUp>>

Engines == {"classic", "quic"}
Errors == {"temporary", "permanent"}

PCs == {"idle", "validate", "dial", "register", "announce", "loop", "read", "show",
        "ended", "clear", "showNone", "notify", "delay", "watch"}

TypeOK ==
    /\ slot \in Runs \cup {NoRun}
    /\ connected \in BOOLEAN
    /\ lastError \in Errors \cup {"none"}
    /\ shownRoutes \in SUBSET Routes
    /\ cancels \in SUBSET Runs
    /\ shutdownCtx \in BOOLEAN
    /\ pc \in [Runs -> PCs]
    /\ engine \in [Runs -> Engines]
    /\ cancelled \in [Runs -> BOOLEAN]
    /\ routes \in [Runs -> SUBSET Routes]
    /\ result \in [Runs -> Errors \cup {"none", "stopped"}]
    /\ link \in [Runs -> BOOLEAN]
    /\ serverUp \in BOOLEAN

\* The context of a client is a child of the context of the manager.
CtxDone(c) == cancelled[c] \/ shutdownCtx

Goto(c, label) == pc' = [pc EXCEPT ![c] = label]

-----------------------------------------------------------------------------
(* The handlers of the web manager *)

\* A client object that no goroutine and no handler refers to.
Free(c) == pc[c] = "idle" /\ c \notin cancels

SlotIsFreeOrStopping == \A c \in Runs : slot = c => cancelled[c]
SlotIsFree == slot = NoRun

\* startManagedTunnelClientWithTLS; one that is refused changes nothing here.
StartClient(c, e) ==
    /\ Free(c) /\ SlotIsFree
    /\ slot' = c
    /\ connected' = FALSE /\ lastError' = "none" /\ shownRoutes' = {}
    /\ Goto(c, "validate")
    /\ engine' = [engine EXCEPT ![c] = e]
    /\ UNCHANGED <<cancels, shutdownCtx, cancelled, routes, result, link, serverUp>>

\* stopManagedTunnelClient reads the cancel function under the read lock ...
StopClient ==
    /\ slot # NoRun
    /\ cancels' = cancels \cup {slot}
    /\ UNCHANGED <<slotVars, shutdownCtx, runVars, serverUp>>

\* ... and calls it later, without the lock.  The slot stays taken.
CallCancel(c) ==
    /\ c \in cancels
    /\ cancels' = cancels \ {c}
    /\ cancelled' = [cancelled EXCEPT ![c] = pc[c] # "idle"]
    /\ UNCHANGED <<slotVars, shutdownCtx, pc, engine, routes, result, link, serverUp>>

\* Shutdown cancels the context of the manager.  Start handlers may still be running.
Shutdown ==
    /\ ~shutdownCtx
    /\ shutdownCtx' = TRUE
    /\ UNCHANGED <<slotVars, cancels, runVars, serverUp>>

\* StartConfiguredTunnelClient leaves the error of a client that cannot be started.
LaunchErrors == {"none", "permanent"}

\* The process ends, whatever its goroutines do, and is started again.
ExitProcess ==
    /\ shutdownCtx
    /\ slot' = NoRun /\ connected' = FALSE /\ lastError' \in LaunchErrors /\ shownRoutes' = {}
    /\ cancels' = {} /\ shutdownCtx' = FALSE
    /\ pc' = [c \in Runs |-> "idle"]
    /\ engine' = [c \in Runs |-> "classic"]
    /\ cancelled' = [c \in Runs |-> FALSE]
    /\ routes' = [c \in Runs |-> {}]
    /\ result' = [c \in Runs |-> "none"]
    /\ link' = [c \in Runs |-> FALSE]
    /\ UNCHANGED serverUp

-----------------------------------------------------------------------------
(* Run: one connection after the other *)

\* validate: a QUIC client without TLS configuration ends before it begins.
Validate(c) ==
    /\ pc[c] = "validate"
    /\ \/ Goto(c, "dial") /\ UNCHANGED result
       \/ /\ engine[c] = "quic"
          /\ Goto(c, "watch") /\ result' = [result EXCEPT ![c] = "permanent"]
    /\ UNCHANGED <<slotVars, cancels, shutdownCtx, engine, cancelled, routes, link, serverUp>>

\* runOnce returns an error.
RunOnceReturns(c, err) ==
    /\ Goto(c, "ended")
    /\ result' = [result EXCEPT ![c] = err]
    /\ link' = [link EXCEPT ![c] = FALSE]

\* dialServer succeeds only under a context that is alive.
CanDialAnyway(c) == serverUp
CanDial(c) == serverUp /\ ~CtxDone(c)

Dial(c) ==
    /\ pc[c] = "dial"
    /\ \/ /\ CanDial(c)
          /\ Goto(c, "register") /\ link' = [link EXCEPT ![c] = TRUE]
          /\ UNCHANGED result
       \/ ~CanDial(c) /\ RunOnceReturns(c, "temporary")
    /\ UNCHANGED <<slotVars, cancels, shutdownCtx, engine, cancelled, routes, serverUp>>

\* The server answers the registration.  A wrong token is a permanent error; any other
\* answer that is not OK is retried, such as that of a QUIC server whose first heartbeat
\* failed, and so is a message of the sync loop that overtook the answer.
RegisterAnswered(c) ==
    /\ pc[c] = "register" /\ link[c] /\ serverUp
    /\ \/ Goto(c, "announce") /\ UNCHANGED <<result, link>>
       \/ \E err \in Errors : RunOnceReturns(c, err)
    /\ UNCHANGED <<slotVars, cancels, shutdownCtx, engine, cancelled, routes, serverUp>>

\* No stream is to be had, the message cannot be written, or no answer is read.
RegisterFails(c) ==
    /\ pc[c] = "register"
    /\ RunOnceReturns(c, "temporary")
    /\ UNCHANGED <<slotVars, cancels, shutdownCtx, engine, cancelled, routes, serverUp>>

\* It has to fail when the connection is lost; the classic client has a deadline.
RegisterEnds(c) == (~link[c] \/ engine[c] = "classic") /\ RegisterFails(c)

\* Both engines read the next message; QUIC looks at its context before.
NextMessage(c) == IF engine[c] = "quic" THEN "loop" ELSE "read"

\* The callbacks act only for the client that is in the slot.
OnConnected(c) ==
    /\ pc[c] = "announce"
    /\ Goto(c, NextMessage(c))
    /\ IF slot = c THEN connected' = TRUE /\ lastError' = "none"
                   ELSE UNCHANGED <<connected, lastError>>
    /\ UNCHANGED <<slot, shownRoutes, cancels, shutdownCtx, engine, cancelled, routes, result, link, serverUp>>

\* QUIC: the context is done, or one of the helper goroutines has failed.
QuicLoop(c) ==
    /\ pc[c] = "loop"
    /\ \/ (CtxDone(c) \/ ~link[c]) /\ RunOnceReturns(c, "temporary")
       \/ ~CtxDone(c) /\ Goto(c, "read") /\ UNCHANGED <<result, link>>
    /\ UNCHANGED <<slotVars, cancels, shutdownCtx, engine, cancelled, routes, serverUp>>

\* A message with the routes: replaceRoutes, then its callback.
ReceiveRoutes(c, R) ==
    /\ pc[c] = "read" /\ link[c] /\ serverUp
    /\ routes' = [routes EXCEPT ![c] = R]
    /\ Goto(c, "show")
    /\ UNCHANGED <<slotVars, cancels, shutdownCtx, engine, cancelled, result, link, serverUp>>

OnRoutesChanged(c, label) ==
    /\ shownRoutes' = IF slot = c THEN routes[c] ELSE shownRoutes
    /\ Goto(c, label)
    /\ UNCHANGED <<slot, connected, lastError, cancels, shutdownCtx, engine, cancelled, routes, result, link, serverUp>>

ShowRoutes(c) == pc[c] = "show" /\ OnRoutesChanged(c, NextMessage(c))

\* The read returns when the connection is gone.  Cancelling does not end it.
ReadFails(c) ==
    /\ pc[c] = "read" /\ ~link[c]
    /\ RunOnceReturns(c, "temporary")
    /\ UNCHANGED <<slotVars, cancels, shutdownCtx, engine, cancelled, routes, serverUp>>

(* After a connection *)

\* Run looks at its context.  Only the classic client then forgets its routes.
NotifyFromHere(c) == "notify"
NotifyFrom(c) == IF engine[c] = "classic" THEN "clear" ELSE "notify"

RunChecksNothing(c) ==
    /\ pc[c] = "ended"
    /\ Goto(c, NotifyFrom(c))
    /\ UNCHANGED <<slotVars, cancels, shutdownCtx, engine, cancelled, routes, result, link, serverUp>>

RunChecks(c) ==
    /\ pc[c] = "ended"
    /\ result' = [result EXCEPT ![c] = IF CtxDone(c) THEN "stopped" ELSE result[c]]
    /\ Goto(c, NotifyFrom(c))
    /\ UNCHANGED <<slotVars, cancels, shutdownCtx, engine, cancelled, routes, link, serverUp>>

\* replaceRoutes(nil), then its callback.
ClearRoutes(c) ==
    /\ pc[c] = "clear"
    /\ routes' = [routes EXCEPT ![c] = {}]
    /\ Goto(c, "showNone")
    /\ UNCHANGED <<slotVars, cancels, shutdownCtx, engine, cancelled, result, link, serverUp>>

ShowNoRoutes(c) == pc[c] = "showNone" /\ OnRoutesChanged(c, "notify")

\* A temporary error is waited out, any other ends Run.
AfterNotifyGivesUp(c) == "watch"
AfterNotify(c) == IF result[c] = "temporary" THEN "delay" ELSE "watch"

OnDisconnected(c) ==
    /\ pc[c] = "notify"
    /\ Goto(c, AfterNotify(c))
    /\ IF slot = c
          THEN /\ connected' = FALSE /\ shownRoutes' = {}
               /\ lastError' = IF result[c] \in Errors THEN result[c] ELSE lastError
          ELSE UNCHANGED <<connected, shownRoutes, lastError>>
    /\ UNCHANGED <<slot, cancels, shutdownCtx, engine, cancelled, routes, result, link, serverUp>>

\* select: when the timer and the context are both ready, either is taken.
Delay(c) ==
    /\ pc[c] = "delay"
    /\ \/ Goto(c, "dial") /\ UNCHANGED result
       \/ /\ CtxDone(c)
          /\ result' = [result EXCEPT ![c] = "stopped"] /\ Goto(c, NotifyFrom(c))
    /\ UNCHANGED <<slotVars, cancels, shutdownCtx, engine, cancelled, routes, link, serverUp>>

\* watchManagedTunnelClient, after Run has returned; then the object is garbage.
Watch(c) ==
    /\ pc[c] = "watch"
    /\ Goto(c, "idle")
    /\ IF slot = c
          THEN /\ slot' = NoRun /\ connected' = FALSE /\ shownRoutes' = {}
               /\ lastError' = IF result[c] \in Errors THEN result[c]
                               ELSE IF CtxDone(c) THEN lastError ELSE "none"
          ELSE UNCHANGED slotVars
    /\ engine' = [engine EXCEPT ![c] = "classic"]
    /\ cancelled' = [cancelled EXCEPT ![c] = FALSE]
    /\ routes' = [routes EXCEPT ![c] = {}]
    /\ result' = [result EXCEPT ![c] = "none"]
    /\ UNCHANGED <<cancels, shutdownCtx, link, serverUp>>

-----------------------------------------------------------------------------
(* The world outside *)

ServerChanges ==
    /\ serverUp' = ~serverUp
    /\ UNCHANGED <<slotVars, cancels, shutdownCtx, runVars>>

\* The server or the network drops a control connection.
Drop(c) ==
    /\ link[c] /\ ~serverUp
    /\ link' = [link EXCEPT ![c] = FALSE]
    /\ UNCHANGED <<slotVars, cancels, shutdownCtx, pc, engine, cancelled, routes, result, serverUp>>

-----------------------------------------------------------------------------

Init ==
    /\ slot = NoRun /\ connected = FALSE /\ lastError \in LaunchErrors /\ shownRoutes = {}
    /\ cancels = {} /\ shutdownCtx = FALSE
    /\ pc = [c \in Runs |-> "idle"]
    /\ engine = [c \in Runs |-> "classic"]
    /\ cancelled = [c \in Runs |-> FALSE]
    /\ routes = [c \in Runs |-> {}]
    /\ result = [c \in Runs |-> "none"]
    /\ link = [c \in Runs |-> FALSE]
    /\ serverUp \in BOOLEAN

\* What the goroutine of a client does once it can.  A message with routes may never
\* come; a server that is reachable answers a registration, in one way or another.
RunStep(c) ==
    \/ Validate(c) \/ Dial(c) \/ RegisterAnswered(c) \/ RegisterEnds(c)
    \/ OnConnected(c) \/ QuicLoop(c) \/ ShowRoutes(c) \/ ReadFails(c)
    \/ RunChecks(c) \/ ClearRoutes(c) \/ ShowNoRoutes(c) \/ OnDisconnected(c)
    \/ Delay(c) \/ Watch(c)

Next ==
    \/ StopClient \/ Shutdown \/ ExitProcess \/ ServerChanges
    \/ \E c \in Runs :
        \/ \E e \in Engines : StartClient(c, e)
        \/ CallCancel(c) \/ RunStep(c) \/ RegisterFails(c) \/ Drop(c)
        \/ \E R \in SUBSET Routes : ReceiveRoutes(c, R)

Spec == Init /\ [][Next]_vars

\* Goroutines run; handlers finish.
FairSpec == Spec /\ \A c \in Runs : WF_vars(RunStep(c)) /\ WF_vars(CallCancel(c))

-----------------------------------------------------------------------------
(* Properties *)

\* The client is between its callbacks OnConnected and OnDisconnected.
Online(c) == pc[c] \in {"loop", "read", "show", "ended", "clear", "showNone", "notify"}

\* At most one client object has a goroutine, and it is the one in the slot,
\* whatever starts, stops and late cancellations overlap: the manager never
\* keeps two control connections under one name, which would displace each
\* other on the server for ever.
OneClient == \A c \in Runs : pc[c] # "idle" => slot = c

\* The administrator is shown "connected" only while the client in the slot is
\* between its two callbacks, and then without an old error.
ConnectedIsOnline ==
    connected => slot # NoRun /\ Online(slot) /\ lastError = "none"

ClientSafe == TypeOK /\ OneClient /\ ConnectedIsOnline

\* The routes shown are those the client serves, except between replacing the
\* map and the callback; a QUIC client, which keeps its map when it loses the
\* connection, shows none until it has received them anew.
ShownRoutesAreServed ==
    slot # NoRun /\ pc[slot] \notin {"show", "showNone"} =>
        \/ shownRoutes = routes[slot]
        \/ engine[slot] = "quic" /\ shownRoutes = {}

\* A client that was told to stop never opens another control connection, not
\* even when its timer wins against the cancelled context.
NoReconnectAfterStop ==
    [][\A c \in Runs : CtxDone(c) /\ pc[c] # "idle" => ~(link'[c] /\ ~link[c])]_vars

\* The client waits for the server and does not look at its context.
HeldByServer(c) ==
    link[c] /\ (pc[c] = "read" \/ (pc[c] = "register" /\ engine[c] = "quic"))

\* A client that was told to stop is gone in the end, unless the server keeps
\* its connection: nothing but the connection itself ends the read.
StopTakesEffect ==
    \A c \in Runs : cancelled[c] ~> (pc[c] = "idle" \/ HeldByServer(c))

\* A registration ended without an OK, and not for good.
Refused(c) == pc[c] = "register" /\ pc'[c] = "ended" /\ result'[c] = "temporary"

\* From some time on the server is reachable and turns no registration down.
ServerAccepts == <>[]serverUp /\ <>[][\A c \in Runs : ~Refused(c)]_vars

\* Once the server accepts registrations a client that is running gets connected, however
\* often and wherever it failed before, unless it is stopped or refused for good.
Reconnects ==
    ServerAccepts =>
        [](slot # NoRun => <>(connected \/ lastError = "permanent" \/ shutdownCtx
                                \/ \E c \in Runs : cancelled[c]))
=============================================================================
