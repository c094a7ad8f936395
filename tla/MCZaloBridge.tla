---------------------------- MODULE MCZaloBridge ----------------------------
(* A bridge with two messages of two groups. *)
EXTENDS ZaloBridge, TLC

CONSTANTS g1, g2, m1, m2

MCGroup == {g1, g2}
MCMessage == {m1, m2}
MCGroupOf == (m1 :> g1) @@ (m2 :> g2)
=============================================================================
