--------------------------- MODULE MCGoogleSignIn ---------------------------
(***************************************************************************)
(* Two browsers, two accounts and two operators.  A configuration          *)
(* bootstraps one operator for the address of one account or of the other, *)
(* or it names neither an address nor that operator.                       *)
(***************************************************************************)
EXTENDS GoogleSignIn, TLC

CONSTANTS p1, p2, a1, a2, b1, b2

MCPrincipal == {p1, p2}
MCAccount == {a1, a2}
MCBrowser == {b1, b2}

MCConfig ==
  {[principals |-> {p1, p2},
    bootstrap |-> [a \in MCAccount |-> IF a = owner THEN p1 ELSE Nobody]] : owner \in MCAccount}
  \cup {[principals |-> {p2}, bootstrap |-> [a \in MCAccount |-> Nobody]]}

\* At most one browser belongs to an operator from earlier versions.
MCEarlierSessions ==
  {f \in [MCBrowser -> {Nobody, p2}] : f[b1] = Nobody \/ f[b2] = Nobody}

Symmetry == Permutations(MCBrowser) \cup Permutations(Transaction)
            \cup Permutations(Handler) \cup Permutations(MCAccount)
=============================================================================
