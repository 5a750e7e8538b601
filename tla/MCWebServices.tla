---------------------------- MODULE MCWebServices ----------------------------
(***************************************************************************)
(* WebServices for TLC: two handlers at a time, both engines, in two       *)
(* scenarios.  In "servers" servers of both engines are started, stopped   *)
(* and shut down, with certificates at paths of their own or none.  In     *)
(* "stores" uploads of two certificates and the settings of the classic    *)
(* engine meet each other and the start of a QUIC server, which fails.     *)
(***************************************************************************)
EXTENDS WebServices, TLC

CONSTANTS h1, h2, v1, v2, p, q

StartBoth == {<<"classic", "insecure">>, <<"quic", "paths">>}
SaveClassic == {<<"classic", "paths">>}

VARIABLE scenario

ScenarioInit == ServicesInit /\ scenario \in {"servers", "stores"}

\* What a scenario is about.  Both handlers may start the same engine, or one each.
Asks(h) ==
    \/ serverJob'[h].op \in {"none", "boot"}
    \/ serverJob'[h].op = "start"
         /\ serverJob'[h].engine \in CASE scenario = "stores" -> {"quic"}
                                      [] h = h1 -> {"classic", "quic"}
                                      [] OTHER -> {"quic"}
    \/ serverJob'[h].op \in (IF scenario = "servers" THEN {"stop"} ELSE {"save", "upload"})

ScenarioNext ==
    /\ ServicesNext
    /\ \A h \in ServiceHandlers : Asks(h)
    /\ scenario = "stores" => stage' = "up" /\ \A s \in Servers : server'[s] = NoServer
    /\ UNCHANGED scenario

ScenarioSpec == ScenarioInit /\ [][ScenarioNext]_<<servicesVars, scenario>> /\ ServicesFairness
=============================================================================
