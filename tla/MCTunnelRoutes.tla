--------------------------- MODULE MCTunnelRoutes ---------------------------
(***************************************************************************)
(* TunnelRoutes for TLC: the values of the constants.                      *)
(***************************************************************************)
EXTENDS TunnelRoutes, TLC

CONSTANTS s1, s2, syncer, ra, rb

TcpAuto == [enabled |-> TRUE, pub |-> 0, udp |-> FALSE]
TcpAutoOff == [enabled |-> FALSE, pub |-> 0, udp |-> FALSE]
UdpAuto == [enabled |-> TRUE, pub |-> 0, udp |-> TRUE]
TcpOne == [enabled |-> TRUE, pub |-> 1, udp |-> FALSE]

\* A route that is switched on and off, or becomes a UDP route.
RequestsMoving == [r \in Routes |-> {TcpAuto, TcpAutoOff, UdpAuto}]

\* A route that asks for an automatic port and one that asks for port 1, which is
\* also the first of the automatic range.
RequestsCompeting == ra :> {TcpAuto} @@ rb :> {TcpOne}

\* Never exhausted: NewListener always finds a number.
ListenerIds == 1..4
=============================================================================
