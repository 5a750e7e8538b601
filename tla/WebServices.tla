----------------------------- MODULE WebServices -----------------------------
(***************************************************************************)
(* The tunnel servers the web manager starts and stops: one of each        *)
(* engine, with their saved configuration and the TLS files they share     *)
(* (src/internal/web/manager.go, service_tunnel_server.go,                 *)
(* service_tunnel_tls_assets.go, handlers_tunnel.go).                      *)
(*                                                                         *)
(* HTTP handlers run concurrently.  What a handler does under Manager.mu,  *)
(* one database access and one file access is one step each.  The tunnel   *)
(* client is the subject of TunnelClient, the proxies of ProxyAccess, and  *)
(* what a tunnel server does once it runs of TunnelControl and QuicControl.*)
(* The last error shown for a server is left out.                          *)
(*                                                                         *)
(* Names that TunnelClient or ProxyAccess need too carry the name of the   *)
(* servers or the services here: WebManager_proofs extends all three.      *)
(***************************************************************************)

CONSTANTS
    ServiceHandlers, \* request handlers that may be active at a time
    ServerEngines,   \* "classic" and "quic"
    Servers,         \* tunnel server objects
    Configs,         \* tunnel server configurations
    StartRequests,   \* what start requests may carry: engine and configuration
    SaveRequests,    \* what requests to save a configuration may carry
    Default,         \* the configuration of an engine that was never configured
    AutoStart,       \* the configurations to be started with the process
    Insecure,        \* those with AllowInsecure, which need no certificate
    OwnPaths,        \* those with a certificate and a key of their own, at paths they name
    Pairs,           \* certificates: each is a certificate, its key and its CA
    None

ASSUME NoneAssumption == None \notin Servers \cup Pairs \cup Configs
ASSUME ConfigAssumption ==
    /\ Default \in Configs /\ AutoStart \cup Insecure \cup OwnPaths \subseteq Configs
    /\ Insecure \cap OwnPaths = {}
ASSUME RequestAssumption == StartRequests \cup SaveRequests \subseteq ServerEngines \X Configs
ASSUME InsecureAssumption == \A r \in StartRequests \cup SaveRequests : r[2] \in Insecure => r[1] # "quic"

VARIABLES
    serverJob,       \* what each handler is doing
    saved,           \* the row KeyTunnelServerConfig: a configuration for each engine
    files,           \* server.crt, server.key and ca.pem
    serverSlot,      \* Manager.tunnelServers (and tunnelCancels)
    server,          \* tunnel server objects
    serverCancelled, \* servers whose context was cancelled
    serverBoot,      \* the configurations StartConfiguredTunnelServer has still to start
    stage,           \* how far ShutdownApplication is
    toCancel,        \* the cancel functions it has read and not called yet
    serversCtx       \* Manager.shutdownCtx is cancelled

tunnelVars   == <<saved, serverSlot, server, serverCancelled, serverBoot>>
stopVars     == <<stage, toCancel, serversCtx>>
servicesVars == <<serverJob, files, tunnelVars, stopVars>>

Idle == [op |-> "none"]
ServerJob == [op : {"start", "save", "boot"}, at : {"cert", "key", "load", "write", "launch"},
              engine : ServerEngines, config : Configs, cert : Pairs \cup {None},
              read : [ServerEngines -> Configs] \cup {None}, alone : BOOLEAN]
UploadJob == [op : {"upload"}, at : {"cert", "key", "ca"}, pair : Pairs, alone : BOOLEAN]
StopJob == [op : {"stop"}, target : Servers]
NoServer == [engine |-> None, state |-> "idle"]

ServicesTypeOK ==
    /\ serverJob \in [ServiceHandlers -> {Idle} \cup ServerJob \cup UploadJob \cup StopJob]
    /\ saved \in [ServerEngines -> Configs]
    /\ files \in [{"cert", "key", "ca"} -> Pairs \cup {None}]
    /\ serverSlot \in [ServerEngines -> Servers \cup {None}]
    /\ serverBoot \in [ServerEngines -> Configs \cup {None}]
    /\ server \in [Servers -> {NoServer} \cup [engine : ServerEngines, state : {"running", "held", "ended"}]]
    /\ serverCancelled \subseteq Servers /\ toCancel \subseteq Servers
    /\ stage \in {"up", "servers", "web"}
    /\ serversCtx \in BOOLEAN

-----------------------------------------------------------------------------
(* Requests *)

Finish(h) == serverJob' = [serverJob EXCEPT ![h] = Idle]

NewServerJob(op, at, e, c) ==
    [op |-> op, at |-> at, engine |-> e, config |-> c, cert |-> None, read |-> None, alone |-> FALSE]

ConfigOps == {"start", "save", "boot"}

\* main starts the web server when the configured tunnel servers have been started ...
Serving == /\ \A e \in ServerEngines : serverBoot[e] = None
           /\ \A h \in ServiceHandlers : serverJob[h].op # "boot"

\* ... one after the other, in either order.
BootStart(h, e) ==
    /\ serverBoot[e] # None /\ \A k \in ServiceHandlers : serverJob[k] = Idle
    /\ serverBoot' = [serverBoot EXCEPT ![e] = None]
    /\ serverJob' = [serverJob EXCEPT ![h] = NewServerJob("boot", "cert", e, serverBoot[e])]
    /\ UNCHANGED <<files, saved, serverSlot, server, serverCancelled, stopVars>>

\* startManagedTunnelServer; a configuration that is not valid is refused before
\* anything happens.
RequestStart(h, e, c) ==
    /\ Serving /\ serverJob[h] = Idle
    /\ serverJob' = [serverJob EXCEPT ![h] = NewServerJob("start", "cert", e, c)]
    /\ UNCHANGED <<files, tunnelVars, stopVars>>

\* handleTunnelServerConfig.
RequestSave(h, e, c) ==
    /\ Serving /\ serverJob[h] = Idle
    /\ serverJob' = [serverJob EXCEPT ![h] = NewServerJob("save", "load", e, c)]
    /\ UNCHANGED <<files, tunnelVars, stopVars>>

\* storeManagedTunnelServerCertificates: an upload, or certificates that were generated.
\* An upload is alone while no other one is under way.
RequestUpload(h, p) ==
    /\ Serving /\ serverJob[h] = Idle
    /\ LET others == {k \in ServiceHandlers : serverJob[k].op = "upload"} IN
       serverJob' = [k \in ServiceHandlers |->
                  CASE k = h -> [op |-> "upload", at |-> "cert", pair |-> p, alone |-> others = {}]
                    [] k \in others -> [serverJob[k] EXCEPT !.alone = FALSE]
                    [] OTHER -> serverJob[k]]
    /\ UNCHANGED <<files, tunnelVars, stopVars>>

\* stopManagedTunnelServer reads the cancel function (a stop that names no engine reads
\* both: it is two of these) ...
RequestStop(h, e) ==
    /\ Serving /\ serverJob[h] = Idle /\ serverSlot[e] # None
    /\ serverJob' = [serverJob EXCEPT ![h] = [op |-> "stop", target |-> serverSlot[e]]]
    /\ UNCHANGED <<files, tunnelVars, stopVars>>

\* ... and calls it after the lock was released, whatever became of the server.
CallServerCancel(h) ==
    /\ serverJob[h].op = "stop"
    /\ serverCancelled' = IF server[serverJob[h].target] = NoServer THEN serverCancelled
                    ELSE serverCancelled \cup {serverJob[h].target}
    /\ Finish(h)
    /\ UNCHANGED <<files, saved, serverSlot, server, serverBoot, stopVars>>

-----------------------------------------------------------------------------
(* startManagedTunnelServer and saveManagedTunnelServerConfig *)

At(h, ops, label) == serverJob[h].op \in ops /\ serverJob[h].at = label

\* resolveTunnelServerTLSFiles and LoadServerTLSConfig: an insecure server needs no
\* files; one with paths of its own uses them, if they are there and nothing was ever
\* uploaded; for any other both files must be there ...
LoadCert(h) ==
    /\ At(h, ConfigOps, "cert")
    /\ IF serverJob[h].config \in Insecure
         THEN serverJob' = [serverJob EXCEPT ![h].at = "load"]
         ELSE \/ /\ serverJob[h].config \in OwnPaths /\ \A f \in DOMAIN files : files[f] = None
                 /\ serverJob' = [serverJob EXCEPT ![h].at = "load"]
              \/ /\ files["cert"] # None /\ files["key"] # None
                 /\ serverJob' = [serverJob EXCEPT ![h].at = "key", ![h].cert = files["cert"]]
              \/ /\ files["cert"] = None \/ files["key"] = None
                 /\ Finish(h)
    /\ UNCHANGED <<files, tunnelVars, stopVars>>

\* ... and the key must be the key of the certificate.
LoadKey(h) ==
    /\ At(h, ConfigOps, "key")
    /\ IF files["key"] # serverJob[h].cert
         THEN Finish(h)
         ELSE serverJob' = [serverJob EXCEPT ![h].at = "load", ![h].cert = None]
    /\ UNCHANGED <<files, tunnelVars, stopVars>>

\* saveManagedTunnelServerConfig reads the configurations of both engines; when they
\* cannot be read it goes on with the defaults ...
LoadConfigs(h) ==
    /\ At(h, ConfigOps, "load")
    /\ \E ok \in BOOLEAN :
         serverJob' = [serverJob EXCEPT ![h].at = "write", ![h].alone = ok,
                            ![h].read = IF ok THEN saved ELSE [e \in ServerEngines |-> Default]]
    /\ UNCHANGED <<files, tunnelVars, stopVars>>

\* What others have read is not what the row holds any more.
Written(h) ==
    LET readers == {k \in ServiceHandlers \ {h} : At(k, ConfigOps, "write")} IN
    serverJob' = [k \in ServiceHandlers |->
               CASE k \in readers -> [serverJob[k] EXCEPT !.alone = FALSE]
                 [] k = h -> IF serverJob[h].op = "save" THEN Idle
                             ELSE [serverJob[h] EXCEPT !.at = "launch", !.read = None, !.alone = FALSE]
                 [] OTHER -> serverJob[k]]

\* ... changes the one of its engine, and writes both.
WriteConfigs(h) ==
    /\ At(h, ConfigOps, "write")
    /\ \/ saved' = [serverJob[h].read EXCEPT ![serverJob[h].engine] = serverJob[h].config] /\ Written(h)
       \/ Finish(h) /\ UNCHANGED saved
    /\ UNCHANGED <<files, serverSlot, server, serverCancelled, serverBoot, stopVars>>

FreeServer(s) ==
    /\ server[s] = NoServer /\ s \notin toCancel
    /\ \A h \in ServiceHandlers : serverJob[h].op = "stop" => serverJob[h].target # s

StartServer(e) ==
    /\ \E s \in Servers : FreeServer(s)
    /\ LET s == CHOOSE x \in Servers : FreeServer(x) IN
          /\ server' = [server EXCEPT ![s] = [engine |-> e, state |-> "running"]]
          /\ serverCancelled' = serverCancelled \ {s}
          /\ serverSlot' = [serverSlot EXCEPT ![e] = s]

\* Under mu: an engine that runs is refused, although its configuration has been
\* saved by then; otherwise the server is created and started, which may fail.
Launch(h) ==
    /\ At(h, ConfigOps, "launch")
    /\ \/ /\ serverSlot[serverJob[h].engine] = None
          /\ StartServer(serverJob[h].engine)
          /\ Finish(h)
       \/ Finish(h) /\ UNCHANGED <<server, serverCancelled, serverSlot>>
    /\ UNCHANGED <<files, saved, serverBoot, stopVars>>

-----------------------------------------------------------------------------
(* storeManagedTunnelServerCertificates: three files, then the metadata *)

After(file) == IF file = "cert" THEN "key" ELSE "ca"

WriteFileGoesOn(h, file) ==
    /\ At(h, {"upload"}, file)
    /\ files' \in {files, [files EXCEPT ![file] = serverJob[h].pair]}
    /\ IF file = "ca" THEN Finish(h) ELSE serverJob' = [serverJob EXCEPT ![h].at = After(file)]
    /\ UNCHANGED <<tunnelVars, stopVars>>

\* A write may fail, which leaves the files as they are then.
WriteFile(h, file) ==
    /\ At(h, {"upload"}, file)
    /\ \/ /\ files' = [files EXCEPT ![file] = serverJob[h].pair]
          /\ IF file = "ca" THEN Finish(h) ELSE serverJob' = [serverJob EXCEPT ![h].at = After(file)]
       \/ /\ Finish(h)
          /\ files' \in {files, [files EXCEPT ![file] = None]}
    /\ UNCHANGED <<tunnelVars, stopVars>>

-----------------------------------------------------------------------------
(* Tunnel servers and their watchers *)

ServerBecomes(s, state) ==
    /\ server' = [server EXCEPT ![s].state = state]
    /\ UNCHANGED <<serverJob, files, saved, serverSlot, serverCancelled, serverBoot, stopVars>>

ServerStopsOwnContext(s) ==
    /\ server[s].state = "running"
    /\ s \in serverCancelled
    /\ ServerBecomes(s, "ended")

\* A peer of a QUIC server has opened its control stream and sends no register message:
\* handleConn reads without a deadline, and Wait waits for it ...
PeerFallsSilent(s) ==
    /\ server[s].engine = "quic" /\ server[s].state = "running"
    /\ ServerBecomes(s, "held")

\* ... until the message comes or the connection ends, which nobody has to see to.
PeerGoes(s) ==
    /\ server[s].state = "held"
    /\ ServerBecomes(s, "running")

\* Wait returns: the context was cancelled ...
ServerStops(s) ==
    /\ server[s].state = "running"
    /\ s \in serverCancelled \/ serversCtx
    /\ ServerBecomes(s, "ended")

\* ... or the server gave up.
ServerFails(s) ==
    /\ server[s].state = "running"
    /\ ServerBecomes(s, "ended")

WatchIgnoresSlot(s) ==
    /\ server[s].state = "ended"
    /\ server' = [server EXCEPT ![s] = NoServer]
    /\ serverCancelled' = serverCancelled \ {s}
    /\ UNCHANGED <<serverJob, files, saved, serverSlot, serverBoot, stopVars>>

\* watchManagedTunnelServer gives the slot back, unless it holds a newer server.
WatchServer(s) ==
    /\ server[s].state = "ended"
    /\ server' = [server EXCEPT ![s] = NoServer]
    /\ serverCancelled' = serverCancelled \ {s}
    /\ serverSlot' = [e \in ServerEngines |-> IF serverSlot[e] = s THEN None ELSE serverSlot[e]]
    /\ UNCHANGED <<serverJob, files, saved, serverBoot, stopVars>>

-----------------------------------------------------------------------------
(* ShutdownApplication *)

\* The cancel functions are read under the lock ...
BeginShutdown ==
    /\ Serving /\ stage = "up"
    /\ stage' = "servers"
    /\ toCancel' = {serverSlot[e] : e \in ServerEngines} \ {None}
    /\ UNCHANGED <<serversCtx, serverJob, files, tunnelVars>>

\* ... and called without it ...
ShutdownCancels ==
    /\ stage = "servers"
    /\ serverCancelled' = serverCancelled \cup {s \in toCancel : server[s] # NoServer}
    /\ toCancel' = {}
    /\ stage' = "web"
    /\ UNCHANGED <<serversCtx, serverJob, files, saved, serverSlot, server, serverBoot>>

\* ... and Shutdown cancels the context every tunnel server was started under.
CancelShutdownCtx ==
    /\ stage = "web" /\ ~serversCtx
    /\ serversCtx' = TRUE
    /\ UNCHANGED <<stage, toCancel, serverJob, files, tunnelVars>>

\* The process exits or is killed, and is started again.
Restart ==
    /\ serverJob' = [h \in ServiceHandlers |-> Idle]
    /\ serverSlot' = [e \in ServerEngines |-> None]
    /\ server' = [s \in Servers |-> NoServer] /\ serverCancelled' = {}
    /\ serverBoot' = [e \in ServerEngines |-> IF saved[e] \in AutoStart THEN saved[e] ELSE None]
    /\ stage' = "up" /\ toCancel' = {} /\ serversCtx' = FALSE
    /\ UNCHANGED <<saved, files>>

ServicesInit ==
    /\ serverJob = [h \in ServiceHandlers |-> Idle]
    /\ saved = [e \in ServerEngines |-> Default]
    /\ files = [f \in {"cert", "key", "ca"} |-> None]
    /\ serverSlot = [e \in ServerEngines |-> None]
    /\ server = [s \in Servers |-> NoServer] /\ serverCancelled = {}
    /\ serverBoot = [e \in ServerEngines |-> None]
    /\ stage = "up" /\ toCancel = {} /\ serversCtx = FALSE

Request(h) ==
    \/ \E e \in ServerEngines : BootStart(h, e) \/ RequestStop(h, e)
    \/ \E r \in StartRequests : RequestStart(h, r[1], r[2])
    \/ \E r \in SaveRequests : RequestSave(h, r[1], r[2])
    \/ \E p \in Pairs : RequestUpload(h, p)

Handle(h) ==
    \/ CallServerCancel(h) \/ LoadCert(h) \/ LoadKey(h) \/ LoadConfigs(h) \/ WriteConfigs(h) \/ Launch(h)
    \/ \E file \in {"cert", "key", "ca"} : WriteFile(h, file)

ShutdownGoesOn == ShutdownCancels \/ CancelShutdownCtx

ServicesNext ==
    \/ \E h \in ServiceHandlers : Request(h) \/ Handle(h)
    \/ \E s \in Servers : \/ WatchServer(s) \/ ServerStops(s) \/ ServerFails(s)
                          \/ PeerFallsSilent(s) \/ PeerGoes(s)
    \/ BeginShutdown \/ ShutdownGoesOn \/ Restart

ServicesSpec == ServicesInit /\ [][ServicesNext]_servicesVars

\* Handlers, watchers and the shutdown make progress, and a tunnel server whose context
\* is cancelled ends unless a silent peer holds it (ShutdownTerminates of both engines).
\* Nobody has to send a request or to end the process.
ServicesFairness ==
    /\ \A h \in ServiceHandlers : WF_servicesVars(Handle(h))
    /\ \A s \in Servers : WF_servicesVars(WatchServer(s)) /\ WF_servicesVars(ServerStops(s))
    /\ WF_servicesVars(ShutdownGoesOn)

ServicesFairSpec == ServicesSpec /\ ServicesFairness

-----------------------------------------------------------------------------
(* Properties *)

\* Every tunnel server that runs is in the slot of its engine, where status, stop and
\* shutdown find it, and every slot holds a server whose watcher will give it back:
\* the same Manager.mu guards the check, the start and the watcher.
ServersInSlots ==
    /\ \A s \in Servers : server[s] # NoServer => serverSlot[server[s].engine] = s
    /\ \A e \in ServerEngines : serverSlot[e] # None => server[serverSlot[e]].engine = e

WebSafe == ServicesTypeOK /\ ServersInSlots

\* Only a request for an engine changes the configuration saved for it, although both
\* are in one row: two saves that overlap, and a row that could not be read, are the
\* exceptions, in which a stale or a default configuration replaces it.
ConfigKept ==
    [][\A e \in ServerEngines : saved'[e] # saved[e] =>
          \E h \in ServiceHandlers : At(h, ConfigOps, "write")
               /\ (serverJob[h].engine = e \/ ~serverJob[h].alone)]_servicesVars

\* An upload that completes leaves a certificate, a key and a client CA that belong
\* together, whatever failed or was cut off before it, unless another upload
\* overlapped with it: nothing makes the three files change together.
UploadMatches ==
    [][\A h \in ServiceHandlers :
          At(h, {"upload"}, "ca") /\ serverJob[h].alone
          /\ serverJob'[h] = Idle /\ files'["ca"] = serverJob[h].pair
             => \A f \in DOMAIN files : files'[f] = serverJob[h].pair]_servicesVars

StoresKept == ConfigKept /\ UploadMatches

\* A stopped tunnel server gives its slot back, and after a shutdown so does every
\* server, one that was started while the shutdown was under way included, unless a
\* silent peer holds it: a QUIC server that was reported as stopped then keeps the
\* slot, and the next start is refused.
Gone(s) == server[s] = NoServer \/ server[s].state = "held"
StopsEnd ==
    \A s \in Servers :
        /\ (s \in serverCancelled) ~> Gone(s)
        /\ serversCtx ~> (Gone(s) \/ ~serversCtx)
=============================================================================
