--------------------------- MODULE MCTunnelClient ---------------------------
(***************************************************************************)
(* TunnelClient for TLC: two client objects, one after the other, and one  *)
(* route the server may send or withdraw.                                  *)
(***************************************************************************)
EXTENDS TunnelClient
=============================================================================
