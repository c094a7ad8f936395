---------------------------- MODULE VisibleRows ----------------------------
(***************************************************************************)
(* What readers may assume of an append-only table with an identity        *)
(* column: rows become visible in the order of their ids, several at once  *)
(* when one transaction commits them, and never change.  Ids may be        *)
(* skipped.  HubLedger implements it for inbound_events and for            *)
(* outbound_commands; PagedReader reads two such tables.                   *)
(***************************************************************************)
EXTENDS Integers

CONSTANTS
  Conn,   \* connection ids
  MaxId   \* largest value of the identity column

VARIABLE visible   \* the rows a statement sees

Row == [id : 1..MaxId, conn : Conn]

UniqueIds(s) == \A r1, r2 \in s : r1.id = r2.id => r1 = r2

Init == visible \in SUBSET Row /\ UniqueIds(visible)

\* A transaction commits the rows new.
Append(new) ==
  /\ UniqueIds(new)
  /\ \A r \in new, old \in visible : old.id < r.id
  /\ visible' = visible \cup new

Next == \E new \in (SUBSET Row) \ {{}} : Append(new)

Spec == Init /\ [][Next]_visible
=============================================================================
