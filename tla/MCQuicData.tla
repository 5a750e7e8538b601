----------------------------- MODULE MCQuicData -----------------------------
(* QuicData for TLC. *)
EXTENDS QuicData, TLC

CONSTANTS r1, r2, x, y, i1, i2, c1, o1, o2
=============================================================================
