---------------------------- MODULE NameService ----------------------------
(***************************************************************************)
(* What a tunnel server promises about client names, whatever protocol it  *)
(* speaks: a name belongs to at most one session; a session loses it only  *)
(* when a newer session of the same name takes it, when its own handler    *)
(* leaves, or when the server takes it away; and a session that is served  *)
(* without owning its name stops being served.                             *)
(*                                                                         *)
(* TunnelControl and LegacyTunnel implement this specification: "owner" is *)
(* the registry map of the server, "serving" the sessions between          *)
(* registration and deregistration.  QuicControl does not: there a session *)
(* whose first heartbeat cannot be written keeps a name nobody serves.     *)
(***************************************************************************)
CONSTANTS
    Names,      \* client names
    Sessions,   \* sessions of all names
    NameOf,     \* the name each session announces, a function
    None        \* no session

VARIABLES
    owner,      \* the session a name belongs to
    serving     \* sessions whose handler is serving a client

vars == <<owner, serving>>

\* A session takes its name, from nobody or from an older session.
Take(s) ==
    /\ s \notin serving
    /\ owner' = [owner EXCEPT ![NameOf[s]] = s]
    /\ serving' = serving \cup {s}

\* The owner of a name leaves.
Leave(s) ==
    /\ s \in serving /\ owner[NameOf[s]] = s
    /\ owner' = [owner EXCEPT ![NameOf[s]] = None]
    /\ serving' = serving \ {s}

\* A session that does not own its name stops being served; the name is untouched.
End(s) ==
    /\ s \in serving /\ owner[NameOf[s]] # s
    /\ serving' = serving \ {s}
    /\ UNCHANGED owner

\* The server takes names away from their owners, which are still served for a while.
Evict ==
    \E taken \in SUBSET Names :
        /\ owner' = [n \in Names |-> IF n \in taken THEN None ELSE owner[n]]
        /\ UNCHANGED serving

\* The process dies.
Reset ==
    /\ owner' = [n \in Names |-> None]
    /\ serving' = {}

Init ==
    /\ owner = [n \in Names |-> None]
    /\ serving = {}

Next == (\E s \in Sessions : Take(s) \/ Leave(s) \/ End(s)) \/ Evict \/ Reset

Safe == Init /\ [][Next]_vars

\* Nobody keeps being served under a name it does not own.
Spec == Safe /\ \A s \in Sessions : WF_vars(End(s))
=============================================================================
