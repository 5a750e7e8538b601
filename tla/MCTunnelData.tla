---------------------------- MODULE MCTunnelData ----------------------------
(***************************************************************************)
(* TunnelData for TLC: two public connections and two data connections,    *)
(* and a route that is withdrawn and exposed a second time.                *)
(***************************************************************************)
EXTENDS TunnelData, TLC

CONSTANTS c1, c2, l1, l2, d1, d2
=============================================================================
