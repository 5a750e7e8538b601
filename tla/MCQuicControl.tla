--------------------------- MODULE MCQuicControl ---------------------------
(* QuicControl for TLC: two connections of one client, one route. *)
EXTENDS QuicControl, TLC

CONSTANTS s1, s2, syncer, ra

Tcp == [enabled |-> TRUE, proto |-> "tcp"]
RequestsTcp == {Tcp}

\* Two are enough for one of them to be lost.
BindingIds == 1..2

SymmetricSessions == Permutations({s1, s2})
=============================================================================
