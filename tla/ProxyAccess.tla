----------------------------- MODULE ProxyAccess -----------------------------
(***************************************************************************)
(* The SOCKS5 and HTTP proxies: who may use them, the listeners they       *)
(* accept on, and the life of a connection (src/internal/auth/user.go,     *)
(* whitelist.go, state.go; src/internal/proxy/http.go, socks5.go, copy.go; *)
(* src/internal/web/manager.go, handlers_access.go, handlers_proxy.go).    *)
(*                                                                         *)
(* Users and the IP whitelist are twins: a table of the database and a     *)
(* copy of it in memory that connections are checked against.  Here they   *)
(* are one table of names, a name being a user or a client address.  The   *)
(* counting of connections is ConnLimiter's, and what an address may not   *)
(* be dialled for is one of the reasons a dial fails.                      *)
(***************************************************************************)
EXTENDS AdminAccess

CONSTANTS
    Names,          \* users, or addresses of clients
    Listeners,      \* listener objects, each with its accept loop
    Conns,          \* client connections
    MaxRequests,    \* MaxRequestsBeforeReauth
    NoListener

ASSUME NoListenerAssumption == NoListener \notin Listeners
ASSUME MaxAssumption == MaxRequests \in Nat \ {0}

VARIABLES
    table,      \* the names in the database
    known,      \* the names in memory, credentialsAtomic or ipWhitelistAtomic
    accessJob,  \* what each handler is doing
    reloader,   \* the state reloader: what it has read, if anything
    acked,      \* history: names whose addition was reported and that nobody has deleted since
    running,    \* ProxyServer.Running
    listener,   \* ProxyServer.Listener: the last one, closed or not
    open,       \* listeners that are open
    loop,       \* where the accept loop of a listener is
    conn        \* connections

accessVars      == <<table, known, accessJob, reloader, acked>>
proxyVars       == <<running, listener, open, loop>>
proxyAccessVars == <<accessVars, proxyVars, conn, adminVars>>

NoEdit  == [op |-> "none"]
EditJob == [op : {"add", "delete"}, at : {"load", "undo"}, name : Names]
           \cup [op : {"add", "delete"}, at : {"store"}, name : Names, read : SUBSET Names]
Closed  == [at |-> "closed"]
Reloader(at, read) == [at |-> at, read |-> read]
\* An HTTP connection between two requests: isAuthenticated, requestCount, and how many
\* requests were served since the name was last looked up.
Waiting(n, auth, count, since) ==
    [at |-> "wait", name |-> n, auth |-> auth, count |-> count, since |-> since]
Handshake == [at : {"methods", "login", "request"}, name : Names]
Dialling  == [at : {"dial"}]
Relay     == [at : {"relay"}, copying : SUBSET {"up", "down"}, stage : {"copy", "cleanup", "left"}]

AccessTypeOK ==
    /\ AdminTypeOK
    /\ table \subseteq Names /\ known \subseteq Names /\ acked \subseteq Names
    /\ accessJob \in [Handlers -> {NoEdit} \cup EditJob]
    /\ reloader \in [at : {"off", "idle"}, read : {{}}] \cup [at : {"store"}, read : SUBSET Names]
    /\ running \in BOOLEAN
    /\ listener \in Listeners \cup {NoListener}
    /\ open \subseteq Listeners
    /\ loop \in [Listeners -> {"off", "check", "accept"}]
    /\ conn \in [Conns -> {Closed} \cup Handshake \cup Dialling \cup Relay
                          \cup [at : {"wait"}, name : Names, auth : BOOLEAN,
                                count : 0..MaxRequests, since : Nat]]

-----------------------------------------------------------------------------
(* AddUser, DeleteUser, AddIPToWhitelist, DeleteIPFromWhitelist *)

\* A handler of a request that needs a session, and so a password that is set.
FreeHandler(h) == configured /\ accessJob[h] = NoEdit /\ boot[h] = "none"

SetJob(h, j) == accessJob' = [accessJob EXCEPT ![h] = j]

AddOrUndo(h, n) ==
    /\ FreeHandler(h)
    /\ table' = table \cup {n}
    /\ SetJob(h, [op |-> "add", at |-> IF n \in table THEN "undo" ELSE "load", name |-> n])
    /\ UNCHANGED <<known, reloader, acked, proxyVars, conn, adminVars>>

\* The insertion; a name that is there already is refused by the unique constraint.
Add(h, n) ==
    /\ FreeHandler(h) /\ n \notin table
    /\ table' = table \cup {n}
    /\ SetJob(h, [op |-> "add", at |-> "load", name |-> n])
    /\ UNCHANGED <<known, reloader, acked, proxyVars, conn, adminVars>>

Delete(h, n) ==
    /\ FreeHandler(h)
    /\ table' = table \ {n} /\ acked' = acked \ {n}
    /\ SetJob(h, [op |-> "delete", at |-> "load", name |-> n])
    /\ UNCHANGED <<known, reloader, proxyVars, conn, adminVars>>

\* LoadCredentialsFromDB reads the whole table ...
Load(h) ==
    /\ accessJob[h] # NoEdit /\ accessJob[h].at = "load"
    /\ SetJob(h, [op |-> accessJob[h].op, at |-> "store", name |-> accessJob[h].name, read |-> table])
    /\ UNCHANGED <<table, known, reloader, acked, proxyVars, conn, adminVars>>

\* ... and may fail: a deletion stands, an addition is taken back ...
LoadFails(h) ==
    /\ accessJob[h] # NoEdit /\ accessJob[h].at = "load"
    /\ SetJob(h, IF accessJob[h].op = "add" THEN [accessJob[h] EXCEPT !.at = "undo"] ELSE NoEdit)
    /\ UNCHANGED <<table, known, reloader, acked, proxyVars, conn, adminVars>>

\* ... by its name, whoever has added that by now.
Undo(h) ==
    /\ accessJob[h] # NoEdit /\ accessJob[h].at = "undo"
    /\ table' = table \ {accessJob[h].name}
    /\ SetJob(h, NoEdit)
    /\ UNCHANGED <<known, reloader, acked, proxyVars, conn, adminVars>>

AddsOf(n) == {h \in Handlers : accessJob[h] # NoEdit /\ accessJob[h].op = "add" /\ accessJob[h].name = n}

\* The write lock orders the stores, not the reads before them.
Store(h) ==
    /\ accessJob[h] # NoEdit /\ accessJob[h].at = "store"
    /\ known' = accessJob[h].read
    /\ LET n == accessJob[h].name IN
       acked' = IF AddsOf(n) = {h} /\ n \in table THEN acked \cup {n} ELSE acked
    /\ SetJob(h, NoEdit)
    /\ UNCHANGED <<table, reloader, proxyVars, conn, adminVars>>

\* SyncState, every ten seconds; a tick on which the database cannot be read is lost.
ReloadRead ==
    /\ reloader.at = "idle"
    /\ reloader' = Reloader("store", table)
    /\ UNCHANGED <<table, known, accessJob, acked, proxyVars, conn, adminVars>>

ReloadStore ==
    /\ reloader.at = "store"
    /\ known' = reloader.read
    /\ reloader' = Reloader("idle", {})
    /\ UNCHANGED <<table, accessJob, acked, proxyVars, conn, adminVars>>

-----------------------------------------------------------------------------
(* startProxy, stopProxy and the accept loops *)

\* handleProxyStart and AutoStartProxy refuse a proxy that is running; all is done under
\* Manager.mu.  A port that is busy leaves everything as it was.  The reloader is started
\* with the first proxy.
StartProxy(l) ==
    /\ ~running
    /\ l \notin open /\ loop[l] = "off" /\ l # listener
    /\ listener' = l /\ running' = TRUE
    /\ open' = open \cup {l}
    /\ loop' = [loop EXCEPT ![l] = "check"]
    /\ reloader' = IF reloader.at = "off" THEN Reloader("idle", {}) ELSE reloader
    /\ UNCHANGED <<table, known, accessJob, acked, conn, adminVars>>

\* The accept loop is not waited for.
StopProxy ==
    /\ running
    /\ running' = FALSE
    /\ open' = open \ {listener}
    /\ UNCHANGED <<listener, loop, accessVars, conn, adminVars>>

CheckNothing(l) ==
    /\ loop[l] = "check"
    /\ loop' = [loop EXCEPT ![l] = "accept"]
    /\ UNCHANGED <<running, listener, open, accessVars, conn, adminVars>>

\* The head of the accept loop, which takes no lock: Running is an atomic.
CheckRunning(l) ==
    /\ loop[l] = "check"
    /\ loop' = [loop EXCEPT ![l] = IF running THEN "accept" ELSE "off"]
    /\ UNCHANGED <<running, listener, open, accessVars, conn, adminVars>>

\* Accept returns at once on a closed listener, and the loop goes on.
AcceptFails(l) ==
    /\ loop[l] = "accept" /\ l \notin open
    /\ loop' = [loop EXCEPT ![l] = "check"]
    /\ UNCHANGED <<running, listener, open, accessVars, conn, adminVars>>

\* A connection to the HTTP or to the SOCKS5 proxy that finds room in its limiter.
Accept(l, c) ==
    /\ loop[l] = "accept" /\ l \in open /\ conn[c] = Closed
    /\ loop' = [loop EXCEPT ![l] = "check"]
    /\ \E n \in Names :
         conn' = [conn EXCEPT ![c] = Waiting(n, FALSE, 0, 0)]
         \/ conn' = [conn EXCEPT ![c] = [at |-> "methods", name |-> n]]
    /\ UNCHANGED <<running, listener, open, accessVars, adminVars>>

-----------------------------------------------------------------------------
(* HandleHTTPConnection and HandleSocks5Connection *)

Become(c, s) ==
    /\ conn' = [conn EXCEPT ![c] = s]
    /\ UNCHANGED <<accessVars, proxyVars, adminVars>>

\* The client goes away, at any point of a handshake, or sends what is refused.
Hangup(c) == conn[c].at \in {"methods", "login", "request"} /\ Become(c, Closed)

\* A client that is whitelisted needs no login; others log in if they can.
Methods(c) ==
    /\ conn[c].at = "methods"
    /\ \/ conn[c].name \in known /\ Become(c, [conn[c] EXCEPT !.at = "request"])
       \/ Become(c, [conn[c] EXCEPT !.at = "login"])

Login(c) ==
    /\ conn[c].at = "login"
    /\ Become(c, IF conn[c].name \in known THEN [conn[c] EXCEPT !.at = "request"] ELSE Closed)

SocksRequest(c) == conn[c].at = "request" /\ Become(c, [at |-> "dial"])

\* The count that decides whether the name is looked up again.
Recheck(c) == conn[c].count + 1 > MaxRequests
Count(c)   == IF Recheck(c) THEN 0 ELSE conn[c].count + 1

CachedAuth(c)    == conn[c].auth /\ ~Recheck(c)

Served(c) == [conn[c] EXCEPT !.auth = TRUE, !.count = Count(c),
                             !.since = IF CachedAuth(c) THEN @ + 1 ELSE 0]

\* A request: 407 and the end for a name that is not known, a tunnel for CONNECT, and an
\* answer for the others, after which the connection is kept or closed.
HttpRequest(c) ==
    /\ conn[c].at = "wait"
    /\ IF CachedAuth(c) \/ conn[c].name \in known
         THEN Become(c, Served(c)) \/ Become(c, [at |-> "dial"]) \/ Become(c, Closed)
         ELSE Become(c, Closed)

\* The client hangs up, or says nothing for IdleRead.
HttpIdle(c) == conn[c].at = "wait" /\ Become(c, Closed)

\* The destination is refused, does not answer in time, or is connected.
DialDestination(c) ==
    /\ conn[c].at = "dial"
    /\ \/ Become(c, Closed)
       \/ Become(c, [at |-> "relay", copying |-> {"up", "down"}, stage |-> "copy"])

-----------------------------------------------------------------------------
(* The two copies of a relay and the handler that waits for them *)

Stage(c, s) == conn[c].at = "relay" /\ conn[c].stage = s
CopyDone(c, d) == [conn[c] EXCEPT !.copying = @ \ {d}]

\* A copy ends at the end of its stream, at an error, or idle.
CopyEnds(c, d) ==
    /\ conn[c].at = "relay" /\ d \in conn[c].copying
    /\ Become(c, IF conn[c].stage = "left" /\ conn[c].copying = {d} THEN Closed ELSE CopyDone(c, d))

\* It ends for sure when the context is cancelled or the connections are closed: a read it
\* is in ends with data or by its deadline.
CopyStops(c, d) == conn[c].at = "relay" /\ conn[c].stage # "copy" /\ CopyEnds(c, d)

AgeReachedLate(c) ==
    /\ Stage(c, "copy") /\ conn[c].copying # {"up", "down"}
    /\ Become(c, [conn[c] EXCEPT !.stage = "cleanup"])

\* MaxConnectionAge: the context is cancelled whatever the copies do ...
AgeReached(c) == Stage(c, "copy") /\ Become(c, [conn[c] EXCEPT !.stage = "cleanup"])

\* ... and by the handler, when the first copy has ended.
FirstEnds(c) ==
    /\ Stage(c, "copy") /\ conn[c].copying # {"up", "down"}
    /\ Become(c, [conn[c] EXCEPT !.stage = "cleanup"])

\* Both copies have ended, or CleanupTimeout is over: the handler returns, which closes
\* both connections.
HandlerReturns(c) ==
    /\ Stage(c, "cleanup")
    /\ Become(c, IF conn[c].copying = {} THEN Closed ELSE [conn[c] EXCEPT !.stage = "left"])

-----------------------------------------------------------------------------

AccessInit ==
    /\ AdminInit
    /\ table = {} /\ known = {} /\ acked = {}
    /\ accessJob = [h \in Handlers |-> NoEdit] /\ reloader = Reloader("off", {})
    /\ running = FALSE /\ listener = NoListener
    /\ open = {} /\ loop = [l \in Listeners |-> "off"]
    /\ conn = [c \in Conns |-> Closed]

HandleEdit(h) == Load(h) \/ LoadFails(h) \/ Undo(h) \/ Store(h)

Admin(h) == accessJob[h] = NoEdit /\ AdminNext(h) /\ UNCHANGED <<accessVars, proxyVars, conn>>

Reload == ReloadRead \/ ReloadStore

Proxy(c) ==
    \/ DialDestination(c) \/ HttpRequest(c) \/ HttpIdle(c)
    \/ AgeReached(c) \/ FirstEnds(c) \/ HandlerReturns(c)

AccessNext ==
    \/ \E h \in Handlers : HandleEdit(h) \/ Admin(h) \/ \E n \in Names : Add(h, n) \/ Delete(h, n)
    \/ Reload
    \/ StopProxy
    \/ \E l \in Listeners :
          StartProxy(l) \/ CheckRunning(l) \/ AcceptFails(l) \/ \E c \in Conns : Accept(l, c)
    \/ \E c \in Conns :
          \/ Hangup(c) \/ Methods(c) \/ Login(c) \/ SocksRequest(c) \/ Proxy(c)
          \/ \E d \in {"up", "down"} : CopyEnds(c, d)

AccessSpec == AccessInit /\ [][AccessNext]_proxyAccessVars

\* Handlers and the reloader make progress, the database answers the reloader again some
\* time, the accept loops run, dials, idle clients and relays are timed out.  Nobody has
\* to connect, to speak, or to start or stop anything; a SOCKS5 handshake has no deadline.
AccessFairSpec ==
    /\ AccessSpec
    /\ \A h \in Handlers : WF_proxyAccessVars(HandleEdit(h))
    /\ WF_proxyAccessVars(Reload)
    /\ \A l \in Listeners : WF_proxyAccessVars(CheckRunning(l)) /\ WF_proxyAccessVars(AcceptFails(l))
    /\ \A c \in Conns :
          /\ WF_proxyAccessVars(Proxy(c))
          /\ \A d \in {"up", "down"} : WF_proxyAccessVars(CopyStops(c, d))

-----------------------------------------------------------------------------
(* Properties *)

\* A name whose addition was reported stays in the table until somebody deletes it.  An
\* addition that has to be taken back removes the name, whoever added it: only one that
\* was still under way when the other was reported is excepted.
AckedKept == acked \subseteq table

\* An HTTP connection serves at most MaxRequests requests between two look-ups of its
\* name, however the counter and its reset fall.
RecheckedInTime == \A c \in Conns : conn[c].at = "wait" => conn[c].since <= MaxRequests

\* The listener of a proxy is open while it runs, and no other one is: what was accepted
\* on is closed by the stop, although the loop that accepts on it is not waited for.
OneListener == open = IF running THEN {listener} ELSE {}

AccessSafe == AccessTypeOK /\ SetOnce /\ AckedKept /\ RecheckedInTime /\ OneListener

\* The access of a name that was deleted comes to an end, once a proxy has been started:
\* the reloader repairs a memory that two overlapping loads or a failed one have left
\* behind, a kept connection looks its name up again, and relays have a maximum age.
RevocationReaches ==
    (<>[](table = {} /\ reloader.at # "off" /\ \A h \in Handlers : accessJob[h] = NoEdit))
        => <>[](\A c \in Conns : conn[c].at # "relay"
                                 /\ (conn[c].at = "wait" => ~conn[c].auth))

\* The accept loop of a closed listener ends, unless the proxy is started again before
\* the loop looks at Running: it then takes the successor's flag for its own and spins for
\* as long as that one runs, which may be for ever.
AcceptLoopsEnd == []<>(running \/ \A l \in Listeners \ open : loop[l] = "off")
=============================================================================
