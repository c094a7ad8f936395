---------------------------- MODULE PagedReader ----------------------------
(***************************************************************************)
(* Walking a table backwards, page by page, while it grows: the three      *)
(* PostgreSQL readers, the routes in front of them and the opaque cursors  *)
(* that tie one request to the next.                                       *)
(*                                                                         *)
(* The first request of a walk runs two statements, the highest id in      *)
(* scope and then a page up to it; writers may commit between them.  The   *)
(* cursor of the answer carries everything the next request needs, so the  *)
(* hub keeps no state for a walk and may be restarted with another         *)
(* configuration in the middle of one.                                     *)
(*                                                                         *)
(* One client is modelled: walks share nothing but the tables.  It keeps   *)
(* to its walk, repeats a request that brought no answer, gives up, or     *)
(* presents its cursor to a route it does not belong to.                   *)
(***************************************************************************)
EXTENDS Integers, Sequences, Functions

CONSTANTS
  Conn,        \* connection ids
  Inbox,       \* inbox ids
  Config,      \* configurations: the connections of each inbox
  Limit,       \* page sizes a caller may ask for
  MaxId,       \* largest value of the identity columns
  MaxRestarts, \* bound on restarts of the process
  NoCursor

VARIABLES
  events,    \* visible rows of inbound_events
  commands,  \* visible rows of outbound_commands
  config,    \* configuration of the running process
  restarts,  \* how often it was restarted
  handler,   \* the request being served
  held,      \* the cursor the client got last, if any
  walk,      \* the client's walk
  reply      \* how its last request ended

tables == <<events, commands>>
vars == <<events, commands, config, restarts, handler, held, walk, reply>>

Events == INSTANCE VisibleRows WITH visible <- events
Commands == INSTANCE VisibleRows WITH visible <- commands

ASSUME ReaderAssumption ==
  /\ Config \subseteq [Inbox -> SUBSET Conn]
  /\ Limit \subseteq Nat \ {0} /\ MaxRestarts \in Nat /\ MaxId \in Nat

(***************************************************************************)
(* A view is a route with the owner its credential selects: the inbox      *)
(* feed, the reply-command history of an inbox, the events of one          *)
(* connection.  The dashboard pages use the first two.                     *)
(***************************************************************************)
View == [route : {"feed", "history"}, owner : Inbox]
        \cup [route : {"connection"}, owner : Conn]

TableOf(v) == IF v.route = "history" THEN commands ELSE events

ScopeOf(v) == IF v.route = "connection" THEN {v.owner} ELSE config[v.owner]

\* Rows of the table the statements of view v range over.
InScope(v) == {r \in TableOf(v) : r.conn \in ScopeOf(v)}

Cursor == [form : {"inbox", "connection"}, version : {1, 2},
           owner : Inbox \cup Conn, scope : SUBSET Conn,
           before : 1..MaxId, snapshot : 1..MaxId]

ASSUME CursorAssumption == NoCursor \notin Cursor

Idle == [at |-> "idle", view |-> {}, limit |-> 0, cursor |-> NoCursor,
         snapshot |-> 0]

NoWalk == [at |-> "none", view |-> {}, taken |-> {}, seen |-> <<>>]

-----------------------------------------------------------------------------
(* Cursors.                                                                *)

\* Fault: the scope is not part of the cursor.
UnscopedBinding(v) ==
  [form |-> IF v.route = "connection" THEN "connection" ELSE "inbox",
   version |-> IF v.route = "history" THEN 1 ELSE 2,
   owner |-> v.owner, scope |-> {}]

\* What a cursor says besides its two positions.  The cursor of a connection
\* has another schema, which the strict parsers tell apart, and no scope hash.
Binding(v) ==
  [form |-> IF v.route = "connection" THEN "connection" ELSE "inbox",
   version |-> IF v.route = "history" THEN 1 ELSE 2,
   owner |-> v.owner,
   scope |-> IF v.route = "connection" THEN {} ELSE ScopeOf(v)]

EncodeCursor(v, before, snapshot) ==
  LET b == Binding(v) IN
  [form |-> b.form, version |-> b.version, owner |-> b.owner,
   scope |-> b.scope, before |-> before, snapshot |-> snapshot]

\* decodeCursor does not return null.
Accepts(v, cursor) ==
  \/ cursor = NoCursor
  \/ cursor = EncodeCursor(v, cursor.before, cursor.snapshot)
     /\ cursor.before <= cursor.snapshot

-----------------------------------------------------------------------------
(* Statements.                                                             *)

Descending(s) == \A i, j \in DOMAIN s : i < j => s[i].id > s[j].id

\* s is a beginning of the list of rows from the highest id down.
Begins(s, rows) ==
  /\ Descending(s) /\ Range(s) \subseteq rows
  /\ \A r \in rows \ Range(s), i \in DOMAIN s : r.id < s[i].id

\* SNAPSHOT_MAX_SEQUENCE_SQL
MaximumId(rows) ==
  CHOOSE i \in {r.id : r \in rows} : \A r \in rows : r.id <= i

\* Fault: the last row of a page is read again.
InclusiveRows(h) ==
  {r \in InScope(h.view) :
     /\ r.id <= h.snapshot
     /\ h.cursor # NoCursor => r.id <= h.cursor.before}

\* The rows FIRST_PAGE_SQL or CONTINUATION_PAGE_SQL selects from.
PageRows(h) ==
  {r \in InScope(h.view) :
     /\ r.id <= h.snapshot
     /\ h.cursor # NoCursor => r.id < h.cursor.before}

\* What ORDER BY and LIMIT make of them, with the look-ahead row.
Query(h) ==
  LET rows == PageRows(h) IN
  {s \in UNION {[1..n -> rows] : n \in 0..(h.limit + 1)} :
     Begins(s, rows) /\ (Len(s) <= h.limit => Range(s) = rows)}

\* The parsers of the rows throw when one is outside the snapshot or the page.
Parses(h, rows) ==
  \A i \in DOMAIN rows :
    rows[i].id <= h.snapshot /\ (h.cursor # NoCursor => rows[i].id < h.cursor.before)

\* The rows a page answers with.
Selected(h, rows) == SubSeq(rows, 1, IF Len(rows) > h.limit THEN h.limit ELSE Len(rows))

NextCursor(h, rows) ==
  IF Len(rows) <= h.limit THEN NoCursor
  ELSE EncodeCursor(h.view, rows[h.limit].id, h.snapshot)

-----------------------------------------------------------------------------
Init ==
  /\ events = {} /\ commands = {}
  /\ config \in Config
  /\ restarts = 0
  /\ handler = Idle
  /\ held = NoCursor
  /\ walk = NoWalk
  /\ reply = "none"

\* The writers of both tables, of which nothing but VisibleRows is known.
Write ==
  /\ \/ Events!Next /\ UNCHANGED commands
     \/ Commands!Next /\ UNCHANGED events
  /\ UNCHANGED <<config, restarts, handler, held, walk, reply>>

\* A request reaches its route: 401, 400, or the first await.
Arrive(v, cursor) ==
  /\ handler = Idle
  /\ IF ScopeOf(v) = {} \/ ~Accepts(v, cursor)
     THEN reply' = "rejected" /\ UNCHANGED handler
     ELSE /\ reply' = "none"
          /\ \E n \in Limit :
               handler' = [at |-> IF cursor = NoCursor THEN "snapshot" ELSE "page",
                           view |-> v, limit |-> n, cursor |-> cursor,
                           snapshot |-> IF cursor = NoCursor THEN 0
                                        ELSE cursor.snapshot]
  /\ UNCHANGED <<tables, config, restarts>>

Open(v) ==
  /\ walk.at # "walking"
  /\ Arrive(v, NoCursor)
  /\ walk' = [NoWalk EXCEPT !.at = "walking", !.view = v]
  /\ held' = NoCursor

\* The next page, or once more the request that brought no answer.  A client
\* that is rejected gives up.
Follow ==
  /\ walk.at = "walking"
  /\ Arrive(walk.view, held)
  /\ walk' = IF reply' = "rejected" THEN NoWalk ELSE walk
  /\ UNCHANGED held

\* The cursor is presented to another route or owner.
Stray(v) ==
  /\ walk.at = "walking" /\ held # NoCursor /\ v # walk.view
  /\ Arrive(v, held)
  /\ UNCHANGED <<held, walk>>

GiveUp ==
  /\ walk.at = "walking" /\ handler = Idle
  /\ walk' = NoWalk /\ held' = NoCursor
  /\ UNCHANGED <<tables, config, restarts, handler, reply>>

\* A page reaches the client.
Respond(cursor) ==
  /\ handler' = Idle
  /\ reply' = "page"
  /\ held' = cursor
  /\ UNCHANGED <<tables, config, restarts>>

\* The first statement of a walk; an empty scope is answered at once.
ReadSnapshot ==
  LET scope == InScope(handler.view) IN
  /\ handler.at = "snapshot"
  /\ IF scope = {}
     THEN /\ Respond(NoCursor)
          /\ walk' = [walk EXCEPT !.at = "ended", !.taken = {}, !.seen = <<>>]
     ELSE /\ handler' = [handler EXCEPT !.at = "page",
                                        !.snapshot = MaximumId(scope)]
          /\ walk' = [walk EXCEPT !.taken = scope, !.seen = <<>>]
          /\ UNCHANGED <<tables, config, restarts, held, reply>>

\* The statement of the page, and the answer.
ReadPage ==
  /\ handler.at = "page"
  /\ \E rows \in Query(handler) :
       IF Parses(handler, rows)
       THEN /\ Respond(NextCursor(handler, rows))
            /\ walk' = [walk EXCEPT
                 !.at = IF NextCursor(handler, rows) = NoCursor THEN "ended" ELSE "walking",
                 !.seen = @ \o Selected(handler, rows)]
       ELSE /\ handler' = Idle /\ reply' = "failed"
            /\ UNCHANGED <<tables, config, restarts, held, walk>>

\* The process is restarted, perhaps with another configuration: requests get
\* no answer.
Restart(cfg) ==
  /\ restarts < MaxRestarts
  /\ restarts' = restarts + 1
  /\ config' = cfg
  /\ handler' = Idle
  /\ reply' = "failed"
  /\ UNCHANGED <<tables, held, walk>>

Next ==
  \/ Write
  \/ \E v \in View : Open(v) \/ Stray(v)
  \/ Follow \/ GiveUp
  \/ ReadSnapshot \/ ReadPage
  \/ \E cfg \in Config : Restart(cfg)

Spec == Init /\ [][Next]_vars

(***************************************************************************)
(* Statements return; a client with a walk goes on with it.  Writers are   *)
(* under no obligation to write, or to pause.                              *)
(***************************************************************************)
Fairness == WF_vars(ReadSnapshot) /\ WF_vars(ReadPage) /\ WF_vars(Follow)

FairSpec == Spec /\ Fairness

-----------------------------------------------------------------------------
\* A walk shows the table as it was when its first statement ran: a finished
\* walk has returned each row that was then visible in scope exactly once,
\* from the highest id down, and an unfinished one a beginning of that list;
\* although rows are committed between the two statements of the first page
\* and between pages, page sizes vary, requests are repeated, and the hub is
\* restarted with another scope half-way.
WalkIsSnapshot ==
  /\ walk.at \in {"walking", "ended"} => Begins(walk.seen, walk.taken)
  /\ walk.at = "ended" => Range(walk.seen) = walk.taken

\* A client that follows the cursors it is given comes to the last page, or
\* is told that its walk belongs to another scope, however much is appended
\* meanwhile and wherever the hub was restarted.
WalkEnds == walk.at = "walking" ~> walk.at # "walking"
=============================================================================
