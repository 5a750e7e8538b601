# A verification of go-proxy-server

go-proxy-server is a SOCKS5/HTTP proxy with a web administration and a reverse tunnel: clients in private
networks keep a control connection to a public server, which exposes their services on public ports. This
directory holds TLA+ models of its concurrent parts, the TLC configurations that check them on small instances,
and TLAPS proofs, for instances of any size, of every safety property the runs check: of the three tunnel servers,
the managed client, the connection limiter, what the web manager saves and runs, and the access to the proxies.

Every definition is translated from the Go source; `PROJECT.json` ("map") names the lines each one stands for.
The comments of the modules use the names of the source.

## The system

| Component | State | Operations | Module |
|---|---|---|---|
| Classic tunnel server, registry (`tunnel/managed_server.go`) | `clients`, `closed`, a session object per control connection | `Start`, `close`, `Wait`, `registerClient`, `unregisterClient`, `heartbeatLoop` | TunnelControl |
| Classic tunnel server, routes | `session.routes`, a listener object per exposed route | `applyRoutes` from the sync loop and from each handler, port allocation | TunnelRoutes |
| Classic tunnel server, data path (`relay.go`, `managed_sessions.go`) | pending map per listener, expiry timers, list of active sessions | accept, announce, expire, `handleDataConn`, relay | TunnelData |
| QUIC tunnel server (`quic_server.go`) | as classic, plus two maps of UDP sessions per route | as classic, plus streams, datagrams, idle sessions | QuicControl, QuicData |
| Classic and QUIC client (`managed_client.go`, `quic_client.go`) | control connection, routes, UDP sessions | reconnect loop, streams, datagrams | TunnelClient, QuicData, TunnelData |
| Legacy tunnel (`server.go`, `client.go`) | one tunnel per name, pending connections | register, open, expire, close | LegacyTunnel |
| Managed store (`managed_store.go`) | rows of clients and routes | heartbeat, mark disconnected, desired routes, runtime columns, save, delete | part of the servers' modules |
| Connection limiter (`proxy/limiter.go`, `config/limiter.go`) | semaphore, counter per address, total; the configuration | `Acquire`, `Release`, `UpdateLimiterConfig`, `RecreateLimiters` | ConnLimiter |
| Web manager, tunnel services (`web/`) | slot of the client and of each server, saved configurations, TLS files | start, stop, save, upload, watch, shutdown | TunnelClient, WebServices |
| Web manager, proxies and access | running listener, users and whitelist in database and memory, password | start, stop, add, delete, reload, bootstrap | ProxyAccess, AdminAccess |
| Proxies (`proxy/`) | one goroutine per connection, two copiers per relay | log in, serve requests, dial, relay | ProxyAccess |
| Activity recorder, metrics, LRU cache, bind policy, SSRF checks, runner, binaries, OS integration, front end | independent counters, queues, input/output | - | none |

`PROJECT.json` lists all 30 components with their files and says why the ones without a module have none.

What is hard here is not any one function but the windows between them. The servers take a mutex to look
something up, release it, and act on what they saw: they close a displaced session, write a presence flag, create
a listener, insert a pending connection. Between the two, a client reconnects, the administrator changes a row, a
timer fires or the server is closed. The limiter does the same with lock-free objects, and the web manager with
rows and files that hold more than one thing. `PROJECT.json` lists these hazards at their lines, each with the
properties that would show it going wrong, or a note.

What would make each component correct:

- **registry**: a name belongs to a live session, displaced sessions end, the shutdown ends, the presence flag
  follows what really happened;
- **routes**: a connected client has the routes of the database, a port stays with its route, no socket survives
  its session or its route;
- **data path**: every public connection has exactly one owner and is relayed or closed, the pending map is bounded;
- **QUIC**: as classic, and a UDP session belongs to one source and one route and ends with the connection;
- **limiter**: no slot leaks, the capacity is kept, no address is charged for what it does not hold (that the limit
  per address is kept does not hold, see the observations);
- **client and web services**: at most one instance runs, stop leads to stopped, callbacks of an old instance
  change nothing, what is saved changes only as asked;
- **access**: what was reported as added stays, what was deleted loses its access, the password is set once.

## The modules

One step is one critical section, one atomic operation, one database or file access, one message, or one call of
`Listen`, `Accept` or `Close`. Object identities are reused when nobody refers to them any more, so the state
spaces are finite without state constraints; the bounds on a run are the sizes of the sets and, in `LegacyTunnel`,
`MaxDrops`.

### NameService: what a tunnel server promises about names

The abstract specification: a name belongs to at most one session, which loses it only to a newer session of that
name, by leaving, or to the server; a session served without owning its name stops being served. `TunnelControl`
and `LegacyTunnel` implement it (`Registry == INSTANCE NameService WITH ...`, checked as a PROPERTY with its
fairness). `QuicControl` does not: a session whose first heartbeat cannot be written keeps a name that nobody serves.

### TunnelControl: registry and presence of the classic server

A *session* is one control connection. Its handler goes through `replace` (it displaced a session and has to close
it), `upsert` (first heartbeat), `serve` (initial sync and read loop), `close`/`closeActive` (`unregisterClient`
found another session, or itself, under its name) and `mark`. The heartbeat goroutine alternates between `wait`
and `upsert`. The closer is `CloseListener`, `CloseRegistry` and, for each captured session, `CloseNext` and
`CloseMark`. `Crash` loses everything but the database; `Start` is a new server object and runs
`InitializeRuntimeState`; `OtherEngineStart` is the QUIC server resetting the same tables. A read loop may end at
any time, because peers and networks fail, and has to end only after its session was closed. Each database write
of the server may fail when `StoreMayFail`.

### TunnelRoutes: applying the routes of the database

*Workers* are the sync loop and the session handlers. `job[w]` holds the local variables of a worker that is in
`applyRoutes`: the rows it read, its copy of `session.routes`, the route in hand, the listener it created. The
two loops, the port allocation (`Reserve`, `Listen`), the insertion (`Publish`), the write-back and the final
message are separate steps, so all overlaps of two workers with each other, with the administrator, with a
reconnection and with a crash are explored. Ports are `1..MaxPort`; `BusyPorts` belong to other programs;
`AutoRange` is the configured range.

### TunnelData: public connections of the classic server

One route of one session, withdrawn and exposed again. A public connection is in the hands of the accept loop
(`check`, `insert`, `announce`, `drop`), in the pending map with its timer, or with the handler of a data
connection (`reply`, `track`, `relay`, `end`). The client may present any ID it was told, at any time and any
number of times. `Shut`/`ClearPending` are the two halves of `managedRouteListener.close`.

### QuicControl: the QUIC server

The same roles as in `TunnelControl` and `TunnelRoutes`, for the sessions of one name, with what the QUIC server
does differently: a failing first heartbeat leaves the session in the registry (`FirstHeartbeat`), the end of a
handler marks the client disconnected whoever holds the name (`MarkOwn`), heartbeats come from the client
(`ClientHeartbeat`), the sync loop copies the sessions and visits them later, and the datagram receiver
is a goroutine of its own that ends with the connection. A *binding* is a TCP listener or a UDP socket. Port
numbers are left out; `TunnelRoutes` has the same allocation.

### QuicData: streams and datagrams of one QUIC connection

On the server each UDP route has two maps, session by ID and ID by source, changed by packets, by close frames, by
the tick of `cleanupLoop` and by `close()`; on the client there are a map of sessions, a reader per session and
`closeUDPSessions`. Public TCP connections are streams with two copiers at each end. Datagrams are lost and
reordered. The module begins with a connected client and ends with the connection.

### LegacyTunnel: the single-route tunnel

One name. `registerTunnel` takes the old tunnel out of the map in one critical section, closes it, opens a listener,
and enters the new tunnel in another one. Its accept loop runs before the handler has written the response to the
registration, so that an open message may come first on the connection; the client takes what it reads first for the
response (`Respond`, `ReadsOpen`). The client asks for the port it was given before. Data connections look their
tunnel up by name and may find a newer one.

### ConnLimiter: the connection limiter

Each step is one operation on the channel, the concurrent map or an atomic. A connection keeps the limiter it
entered with, `Release` reads the configuration again and looks its counter up again. `UpdateMax`, `UpdatePerIP`
and `RecreateLimiters` are the three effects of a reload; `Restart` is a new process, whose limiters are built by
`init()` before the configuration is loaded. The two loads of `GetLimiterConfig` are one step. The value of a counter
is an integer, not a natural number: a connection may be charged on one counter object and subtracted from its
successor, and a refused one then takes back an increment that is no longer there.

### TunnelClient: the reconnect loop and its slot

A *run* is one client object of the web manager, from `startManagedTunnelClientWithTLS` to the end of
`watchManagedTunnelClient`. `pc` is where its goroutine is: `validate`, `dial`, `register`, `announce`
(`OnConnected`), `loop` (the QUIC client looks at its context), `read`, `show` (`OnRoutesChanged`), `ended` (Run
looks at its context), `clear`/`showNone` (the classic client forgets its routes), `notify` (`OnDisconnected`),
`delay`, `watch`. `slot`, `connected`, `lastError` and `shownRoutes` are the fields of the manager under its mutex;
the callbacks test the slot as the code does, so that the properties, not the guards, say that a stale callback is
harmless. `StopClient` reads the cancel function, `CallCancel` calls it later, when the client may be gone.
`Shutdown` cancels the parent context, `ExitProcess` ends the process and starts it again. The server is external: it
is reachable or not, accepts a registration, refuses it for now (its first heartbeat could not be written, or a
message came before the response) or for good, sends routes, drops connections.

### WebServices: the tunnel servers of the web manager

Both engines, their saved configurations (one row) and the TLS files. A start reads certificate and key, loads,
changes and stores the row, and only then takes the mutex and looks whether a server runs (`Launch`). `LoadCert`
depends on what the configuration says: the managed files, files at paths of their own, or a classic server without
TLS. A watcher gives the slot back when its server ends. A QUIC server may be held by a silent peer
(`PeerFallsSilent`): it does not end when its context is cancelled until the peer goes. `ShutdownApplication` cancels
the servers it finds and then the context all servers derive from. `Restart` is a new process with the configured
automatic starts.

### ProxyAccess and AdminAccess: who may use the proxies

`ProxyAccess` has the table of names and its copy in memory (users and whitelist are twins), handlers that
add and delete, the reloader, one proxy that is started and stopped with an accept loop per listener, and
connections from the first byte to the end of the relay: SOCKS5 (`methods`, `login`, `request`), HTTP
(`wait` between requests, with the counter that forces a new look-up), `dial`, `relay` with its two copiers.
It extends `AdminAccess`, the bootstrap of the administrator's password: a check of the row, a check of the token,
an insertion that does nothing if the row exists.

### MC modules and proof modules

`MC<Module>` gives the constants their sets, with symmetry sets and views. Two of them keep apart instances of one
module that would be too large together; they leave steps out and add none. `MCRouteScenarios` (which extends
`MCTunnelRoutes`) has an action constraint, by which the client has its second session or its second route, and
`MCWebServices` a variable `scenario`, chosen in the initial state. Symmetry is used in runs with safety properties
only. The views identify states that differ in the names of the counter objects (`MCConnLimiter`) or of the listener
objects, which are replaced by their records, and in local variables that are not read again (`MCRouteScenarios`).
The theorems about a module are in `<Module>_proofs`, which exists for `TunnelControl`, `TunnelRoutes`, `TunnelData`,
`QuicControl`, `QuicData`, `LegacyTunnel` and `ConnLimiter`; those about what the web manager runs (`TunnelClient`,
`WebServices`, `ProxyAccess` with `AdminAccess`) are together in `WebManager_proofs`.

## The runs

| Run | Instance | What it shows |
|---|---|---|
| `control` | 1 client, 3 sessions, failing writes, second engine | the registry implements `NameService`; its invariants; shutdowns end; the presence flag of a client that stays registered recovers |
| `routes` | 2 free ports; `compete`: 1 session, 2 routes, 2 workers; `reconnect`: 2 sessions, 1 route, 3 workers | a displaced session publishes nothing, even if a worker was creating a listener for it; recorded ports are unique and shown truly, although two routes want the same one; sockets are lost only by overlapping workers |
| `routes_live` | 1 session, 1 route switched on and off or to UDP, 2 ports | the client ends up with the routes of the database; a withdrawn route ends up without a socket; recorded ports never move |
| `data` | 2 public connections, 2 data connections, 2 listeners, `MaxPending` 1 | one owner, none forgotten, bounded, all settle |
| `limiter` | 3 connections of one address, 2 limiters, 4 counters, limits moved between (1, 2) and (3, 1) | no slot leaks, no overcharge, capacity kept |
| `client` | 2 client objects, 1 route, both engines | one client at a time; what is shown is the case; a stopped client does not reconnect and ends, unless the server holds it; a running one gets connected once the server accepts it |
| `quic` | 2 sessions, failing presence writes, no routes | no session is forgotten, presence recovers, shutdowns end |
| `quic_routes` | 2 sessions, 1 route, 2 bindings | sockets are lost only by overlapping workers; when a connection ends somebody will close its bindings |
| `quic_data` | 1 UDP route, 1 source, 1 ID, 1 TCP connection, 2 client sockets | the maps stay inverse; both ends clean up after the connection |
| `legacy` | 2 sessions, 1 public connection, 2 ports, 1 broken connection | the names implement `NameService`; listeners and pending connections have an owner; the client is served again at its port, unless its registrations are overtaken; connections settle |
| `web` | 2 handlers, 2 engines, 2 servers, 3 configurations, 2 certificates; `servers`: start, stop, shut down; `stores`: upload, save, start | servers are in their slots; what is saved changes only as asked; stopped servers end unless a silent peer holds them |
| `access` | 1 name, 2 handlers, 2 listeners, 1 connection, 2 requests per look-up | additions stay, deletions take effect, the password is set once, accept loops end |

**Why the bounds suffice.** The races of the registry are between a session and the next one of the same name; a
third one arrives while the second still has to close the first (and the invariants are proved for any number). In
the route runs two workers are needed to overlap and two free ports so that the second `Listen` does not fail. In
`compete` one route asks for port 1 and the other for an automatic port, which may be port 1 as well: a port may be
reserved, listened on and recorded for one while the other tries, and the handler and the sync loop hold two
listeners of one route at a time. In `reconnect` the handlers of both sessions and the sync loop apply one route.
Requests that change while the routes are served are in `routes_live`. Two routes and two sessions at the same time
are covered by the proof. `MaxPending` 1 with two connections puts every insertion at the limit. Three connections
let one hold a slot while two others race in the limiter; a capacity of three lets all of them work on one counter,
which two cannot bring below zero. Two limiters are the current one and the one it replaced; a limiter that is still
in use is not reused, so a second reload waits for the connections of the limiter before the last. Four counters are
never exhausted. In `client` two objects are needed because a handler may call the cancel function of a client that
is gone while its successor runs. In `quic_data` two sockets of the client may share one ID, which is the case its
readers could get wrong. One ID per source means the server does not open a second session of that source; with two
IDs the safety properties were checked separately. In `web` two handlers overlap two saves, a save with a start, two
starts of one engine and two uploads; with two certificates the files of two uploads can be mixed. The scenarios
separate what runs from what is stored: in `servers` both engines are started, stopped and shut down, the second
handler starts the QUIC engine only; in `stores` uploads and saved settings of the classic engine meet each other and
a QUIC start that stores its part of the row and then fails. The three configurations are the default, one without
TLS, and one with certificates at paths of its own that is started with the process. In `access` two handlers let one
load overtake another, two listeners are a stopped one and its successor. The limit of two requests reaches the reset
of the counter in a few steps.

**Larger instances** of earlier versions were checked once, with the safety properties: `LegacyTunnel` with 2 public
connections (11.3 million states) and with 3 sessions (2.2 million), `QuicData` with 2 IDs (9.5 million),
`WebServices` with 2 certificates and 1 handler (8.8 million), `TunnelRoutes` with 2 sessions on one port without
symmetry (5.8 million, types only).

**Fairness.** Weak fairness of goroutines that can run, everywhere. Beyond that:

- `TunnelControl`: the read loop must return only once the session was closed; a heartbeat loop that keeps writing
  succeeds eventually (strong fairness of the successful write: the database fails now and then, not forever).
- `TunnelRoutes`: the sync loop ticks forever, which its ticker justifies while the server runs.
- `TunnelData`: `PendingTimeout` passes, and `writeControl` returns, which assumes that the client reads its control
  connection: there is no write deadline.
- `QuicControl`: the heartbeats of a connected client are written again and again (strong fairness). A peer may
  never send its register message.
- `QuicData`: after the connection is closed the server closes the bindings (`CleanupCommitted` of `QuicControl`
  says that somebody is about to), streams fail, silent readers time out, `cleanupLoop` ticks forever.
- `LegacyTunnel`: timers fire and the client dials again. The server need not notice that a client is gone: its
  read has no deadline.
- `TunnelClient`: the goroutine and the handlers that hold a cancel function go on, and a registration is answered or
  fails in one way or another; that the server accepts is the premise of `Reconnects`, not an assumption. Nothing
  else is assumed of the server, its messages or the network.
- `WebServices`: handlers and watchers go on, and a cancelled server that no silent peer holds ends, which is
  `ShutdownTerminates` of its engine. A silent peer need not go.
- `ProxyAccess`: handlers, the reloader, accept loops, dials, idle time-outs and maximum ages; the SOCKS5 handshake
  has no deadline and is not assumed to end.

No fairness is assumed for peers, administrators, crashes, the arrival of connections or the end of a relay
that is in use.

**Deadlock** is checked everywhere but in `data`, `quic_data` and `legacy`, where connections are used once and the
system stops when all have settled.

## Exceptions the properties state

These properties hold only with the exception in their statement, and fail without it:

- `LostOnlyByOverlap`, `WithdrawnEventually`: when two workers apply routes to one session at the same time, both
  may create a listener, and the first is lost, still listening.
- `StopTakesEffect`: cancelling the context of a managed client does not end its read: the classic read loop has no
  deadline and does not look at the context, and the QUIC client looks at it before a read only. While the server
  keeps the connection, a client that was reported as stopped goes on serving its routes and holds the slot, so that
  the next start is refused (`HeldByServer`).
- `ShutdownTerminates` of `QuicControl`, `StopsEnd`: the read of the register message has no deadline, so that a
  silent peer blocks `Wait`. A QUIC server that was reported as stopped then keeps its slot, and the next start is
  refused.
- `PresenceOwned`, `CleanupCommitted`: a QUIC session whose first heartbeat cannot be written keeps its name after
  its handler returned, and the sync loop opens listeners for it.
- `StoresKept`: overlapping saves of two engines lose one, since both store the whole row; a row that cannot be
  read is replaced by the defaults of the other engine; overlapping uploads mix their files.
- `AckedKept`: an addition whose reload fails deletes the row by name, so that it may take another addition with it
  that was reported while it was under way.
- `AcceptLoopsEnd`: the loop of a closed listener takes the flag `Running` of its successor for its own. One restart
  before it looks is enough: it spins for as long as the successor runs, which may be for ever.
- `Reconnects`: a server that is reachable may keep turning registrations down, for instance because it cannot write
  the first heartbeat (`quic_server.go:352`); the client tries again and again.
- `LegacyLive` (`ServedAgain`): a public connection that arrives before the response is written (`server.go:231`
  before `server.go:173`) makes the client take the open message for a refusal and disconnect (`client.go:133`). This
  can happen to every registration.

## Observations

Behaviour met while modelling that no property is about, or whose exception is left out of the model:

- The presence flag: `MarkClientDisconnected` of an old session may overwrite the heartbeat of its successor; until
  the next heartbeat `DeleteClient` accepts the client although it is served (`managed_server.go:333`).
- A listener created from an old snapshot may record its port after the administrator asked for another one; from
  then on `UpdateRouteRuntime` refuses the real port (`managed_store.go:439`) and the row does not show it.
- `init()` builds both limiters before the configuration is loaded (`limiter.go:143`), so that after a start the
  configured maximum is not the one enforced.
- `Release` deletes the entry of a counter it brought to zero (`limiter.go:97`). An `Acquire` of the same address may
  have loaded that counter before; it adds to an object that is no longer in the map, and the next `Acquire` starts a
  new one. With a limit of one per address two connections of it hold slots, although the type "limits the number of
  concurrent connections globally and per IP" (`limiter.go:10`). This came up when an inductive invariant was looked
  for; with limits (2, 1) that never change, TLC finds the trace in 20 steps. What holds is the other direction,
  `NeverOvercharged`, and the global limit.
- By the same race the counter of an address may fall below zero, which the comment at `limiter.go:89` says should not
  happen, and an entry below zero may stay in the map of a limiter nobody uses; the address is then admitted more often.
- One JSON line is limited to 4 KiB (`protocol.go:20`), the message with all routes of a client included.
- `cleanupLoop` of a UDP route never returns: its socket is never nil (`quic_server.go:1024`).
- A close frame is swallowed by the first UDP binding that is asked, whether the session is its own or not
  (`quic_server.go:744`): the session is then left to the idle timer.
- The half of a relay that finishes first cancels the other (`http.go:467`, `socks5.go:307`): half-closed
  connections are cut.
- A legacy data connection looks its tunnel up by name, and a registration for any port may take a
  port another name is about to ask for again.
- A record sent to the activity recorder during `Close` meets a closed channel (`recorder.go:140`).

## The proofs

`TunnelControl_proofs` proves for every set of clients and sessions that types (`TypeCorrect`), `RegistrySafe`,
`NoOrphan` and `RestartForgets` hold in every reachable state, and that initial states and steps are those of
`NameService` or stutter (`RegistryImplementsNames`). The assumptions are those the module declares: `ClientOf` names
a client for each session, `NoSession` is not a session, the two switches are Booleans. The invariants are not
inductive one by one. `NoOrphan` says that a session that lost its name is closed or is going to be; for the step
that captures the registry one has to know that the closer's queue was empty (`QueueWhileClosing`).
`RestartForgets` survives `Start`, which empties the set of clients seen, only if no goroutine of the earlier server
can write a heartbeat any more: `QuietWhenDown` and `WritersSeen`. `IInv` is the conjunction; there is one lemma per
conjunct, with one step per action that can disturb it. For the refinement each action is mapped to `Take`, `Leave`,
`End`, `Evict`, `Reset` or a stutter; that a session leaves a name only as its owner comes from `IInv`.

`TunnelRoutes_proofs` proves for every set of sessions, routes and listener objects and any port range that
`RoutesSafe` (`RoutesAreSafe`), `LostOnlyByOverlap` (`ListenersAreKept`) and `AssignedStable` (`AssignedPortsStay`)
hold. The inductive invariant says what the local variables of a worker mean at each step (`JobsOK`), that every
reference from a map, a snapshot or a worker is to an object of the right session and route, that a listener that was
created and not published is known to its creator only (`References`), that closed sessions and withdrawn listeners
are out of the maps, that two workers past the beginning of `applyRoutes` for one session are recorded as overlapping
(`Exclusive`), and, the heart of it, that while a worker that overlaps with nobody is creating the listener of a
route, the map has none for it (`SlotStaysEmpty`). Hence `Publish` overwrites nothing. Reuse of objects adds nothing
to trust: `Live` keeps what is referenced.

`WebManager_proofs` extends the three modules about what the web manager runs, which is why the names they have in
common carry a prefix in `WebServices` and `ProxyAccess` (`ServicesSpec`, `AccessSpec`). It has a part for each.

*The tunnel client.* For every set of client objects and routes `ClientSafe` (`ClientIsSafe`: one goroutine, the one
in the slot; what the status shows is the case), `ShownRoutesAreServed` and `NoReconnectAfterStop` hold. The only
assumption is that nil is no client. That one client runs is inductive once the slot is known to hold a live goroutine
(`SlotIsLive`). The routes shown also need `RoutesForgotten`: a classic client that dials has cleared its map, which
is why nothing has to be shown when it connects.

*The tunnel servers.* For every set of engines, server objects, configurations, certificates and handlers `WebSafe`
(`ServersAreInSlots`) and both halves of `StoresKept` (`StoresAreKept`) hold, under the assumptions of the module:
`None` is none of them, the default and the automatic configurations are configurations, requests are for an engine
and a configuration, and only the classic engine is started without TLS. `ServersInSlots` needs that a slot holds a
server whose watcher has not returned (`SlotsHeld`): a free server object that is started is then in no other slot,
and the watcher that gives a slot back finds its own server there or a newer one. Types need that a handler about to
write the row has read a configuration for each engine; that what it has read is still in the row unless somebody
wrote since (`RowsRead`) gives `ConfigKept`: such a write changes its own engine only. `UploadMatches` follows from
`LoneUpload`: an upload that overlapped with none finds the files it has written so far, whichever write failed
earlier and wherever the process was cut off, because an upload that fails ends. Two lemmas say which steps cannot
disturb a conjunct (`RowsUntouched`, `UploadsUntouched`), and `WhoWrites` names the only writers of the stores.

*The proxies.* For every set of names, listeners, connections and handlers and every `MaxRequests` of at least one
`AccessSafe` (`AccessIsSafe`) holds. `AccessParts` splits the invariant by the state it is about: connections,
listeners, users and the administrator. `AckedKept` must survive the rollback that deletes by name: `AddsUnderWay`
says that nobody with an addition under way holds an acknowledged name, because `Store` acknowledges one only when no
other addition of it is left. `RecheckedInTime` needs that every request since the last look-up was counted
(`LookupsCounted`); a connection is handled by one lemma, `ConnSteps`: whatever it does, it becomes a state a
connection may be in, with its count no lower than its requests.

`TunnelData_proofs` proves for every set of connections, listeners and data handlers and every `MaxPending` of at
least one `DataSafe`, `NoneForgotten` and `OneTaker`. The argument follows a connection from hand to hand: one the
accept loop holds was not announced, so that no data handler knows it and no timer runs (`InHandOK`); a pending one is
open and has its timer, or its announcement is still due (`PendingOK`). `PendingBounded` needs that the room found
in one critical section is still there in the next (`RoomKept`): one accept loop serves a listener, and everybody
else takes connections out.

`LegacyTunnel_proofs` proves for every number of sessions, connections and ports `LegacySafe`, the action property
`KeepsPort` (the safety part of `LegacyLive`), and that initial states and steps are those of `NameService` or
stutter. The invariant adds that a tunnel that is in the map, was taken out of it or was captured is a registered one,
so that nobody closes a tunnel that is being registered (`SessionsOK`), that a connection is with its accept loop
until its open message is written (`ConnsOK`), and that the client asks for the port it has (`AskedOK`). Of the
actions only `TakeName`, `Insert` and `Unregister` matter to the refinement; they are `Evict`, `Take`, and `Leave` or
`End`.

`QuicControl_proofs` proves for every set of sessions, routes and bindings `QuicSafe`, `LostOnlyByOverlap` and
`CleanupCommitted`. The half about sessions says who will close one that does not have the name, or that nothing
points to it yet (`OwnedOK`): an identity is reused when it is `Fresh`. The half about bindings is that of
`TunnelRoutes_proofs` (`References`, `Exclusive`, `SlotStaysEmpty`), with `RemovedIsClosed` because the QUIC server
closes a binding before it takes it out of the map. `CleanupCommitted` follows from the others. The object a worker
creates is a `CHOOSE` among the unused ones, about which the proof uses membership only. `BindingAssumption` says
that nil is no record.

`QuicData_proofs` proves for every set of routes, sources, IDs, sockets and TCP connections `UdpSafe`. An ID in a map
was drawn and is in the map of one binding only (`IDsDrawnOnce`), and an open socket has an ID (`ObjectsOK`). The
step to look at is `removeUDPSession`, which closes whatever socket is known under the ID of the reader.

`ConnLimiter_proofs` proves for every finite set of connections and any addresses, limiters, counters and
configurations with limits above zero `LimiterSafe`, `Drained` and `NeverOvercharged`. A semaphore and a total count
exactly the connections between the operations that raise and lower them (`SlotsCounted`, `TotalCounted`); capacity
and drained limiters follow, because no configuration switches the global limit off (`LimitsSet`, from
`ConfigAssumption`, which is what the web manager accepts). `ChargesBound` bounds the counter of an address by the
connections that may still be charged to it, with those included that were added to an object that was deleted, since
they will subtract from its successor; `OneHome` says that a counter object is in one place and its holders belong
there. Each step moves one connection between sets, whose cardinalities are compared by one lemma (`OneMoves`).

Every constant assumption of a proof is an `ASSUME` of the module it is about and evaluated by its runs.

Every invariant and every action property of the runs is stated by a theorem, and so are the initial states and steps
of the refinements. Only model-checked are the liveness properties and the fairness part of the refinements
(`PresenceHeals`, `ShutdownTerminates`, `RoutesSynced`, `WithdrawnEventually`, `Settles`, `StopTakesEffect`,
`Reconnects`, `ServerCleansUp`, `ClientCleansUp`, `LegacyLive`, `StopsEnd`, `RevocationReaches`, `AcceptLoopsEnd`, and
`ImplementsNameService` as a whole): temporal reasoning under fairness and ENABLED are out of the prover's reach.

## Not modelled

Inside the modelled parts: contents of messages and rows beyond what the properties tell apart, token checks, byte
counts, idle deadlines, accept errors of the classic tunnel server, failing database reads, failing writes in
`TunnelRoutes`, a control write that blocks for good. The web manager refuses 0 for both limits, so `ConnLimiter` has
no reload that switches a limit on or off; a 0 written into the database by other means is outside the model
(`Drained` would not hold of it). `Drained` is about slots and totals; a counter entry may be left over.

Around the web manager: login sessions and the rewrite of an old password hash, the captcha, the stored
configuration of the client and of the proxies, the last error shown, generation and parsing of certificates.

The remaining components and the reasons are in `PROJECT.json`: counters, a cache, parsers, input and output
against the platform, start-up sequences and the front end.

## What is left

1. Failing database calls in `TunnelRoutes` and accept errors of the tunnel listeners.
2. Login sessions of the administrator and the stored configuration of the client.
