-------------------------- MODULE MCTunnelControl --------------------------
(* TunnelControl for TLC: three connections of one client. *)
EXTENDS TunnelControl, TLC

CONSTANTS a, s1, s2, s3

ClientOfThree == s1 :> a @@ s2 :> a @@ s3 :> a
=============================================================================
