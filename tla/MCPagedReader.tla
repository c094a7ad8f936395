---------------------------- MODULE MCPagedReader ----------------------------
(* Two inboxes that share a connection, and restarts that swap the scopes. *)
EXTENDS PagedReader

CONSTANTS k1, k2, i1, i2

MCConn == {k1, k2}
MCInbox == {i1, i2}

MCConfig ==
  {[i \in MCInbox |-> IF i = i1 THEN {k1} ELSE {k1, k2}],
   [i \in MCInbox |-> IF i = i1 THEN {k1, k2} ELSE {}]}
=============================================================================
