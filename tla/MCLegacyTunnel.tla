--------------------------- MODULE MCLegacyTunnel ---------------------------
(* LegacyTunnel for TLC: two control connections of the tunnel, one public connection. *)
EXTENDS LegacyTunnel, TLC

CONSTANTS s1, s2, c1
=============================================================================
