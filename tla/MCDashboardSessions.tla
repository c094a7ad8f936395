------------------------- MODULE MCDashboardSessions -------------------------
(* Two sessions of one browser and two requests in flight.  A session        *)
(* outlives one full renewal of its idle period; a second one is cut off.    *)
EXTENDS DashboardWrites, TLC

CONSTANTS h1, h2, s1, s2, p1

MCHandler == {h1, h2}
MCSession == {s1, s2}
MCOwnerOf == [s \in MCSession |-> p1]

Symmetry == Permutations(MCHandler) \cup Permutations(MCSession)
=============================================================================
