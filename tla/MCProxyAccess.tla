---------------------------- MODULE MCProxyAccess ----------------------------
(* ProxyAccess for TLC: one name, two handlers, two listeners, one connection. *)
EXTENDS ProxyAccess, TLC

CONSTANTS h1, h2, l1, l2, c1, n1
=============================================================================
