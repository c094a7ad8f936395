-------------------------- MODULE DashboardSessions --------------------------
(***************************************************************************)
(* Sessions of the operator dashboard: the rows of dashboard_sessions, the *)
(* request handlers that create, touch, read and revoke them, and one      *)
(* browser with several tabs and a single cookie jar.                      *)
(*                                                                         *)
(* A handler takes the time when it starts and gives it to the statement   *)
(* it then awaits, so statements can reach PostgreSQL in another order     *)
(* than their timestamps, and answers can reach the browser in another     *)
(* order than their statements.  Each statement is one step on one row.    *)
(* An anti-forgery token stands for the session it was issued with.        *)
(***************************************************************************)
EXTENDS Integers, FiniteSets

CONSTANTS
  Session,      \* sessions that may be issued
  Handler,      \* requests in flight at a time
  IdleTtl,      \* SESSION_IDLE_MILLISECONDS
  AbsoluteTtl,  \* SESSION_ABSOLUTE_MILLISECONDS
  MaxTime,      \* bound on the clock
  NoSession,    \* no cookie
  NoRow         \* no row in dashboard_sessions

Active == -1  \* revoked_at IS NULL

SessionRow == [issued : Nat, lastSeen : Nat, idle : Nat, absolute : Nat,
               revoked : Nat \cup {Active}]

ASSUME SessionAssumption ==
  /\ IdleTtl \in Nat \ {0} /\ AbsoluteTtl \in Nat /\ IdleTtl <= AbsoluteTtl
  /\ MaxTime \in Nat
  /\ NoSession \notin Session /\ NoRow \notin SessionRow

VARIABLES
  clock,
  rows,      \* dashboard_sessions
  handlers,  \* the requests in flight
  cookie,    \* the session cookie of the browser
  opened,    \* sessions of which a page was shown: some tab may have its forms
  loggedOut  \* sessions whose logout has been answered with success

vars == <<clock, rows, handlers, cookie, opened, loggedOut>>

(***************************************************************************)
(* A request in flight: its kind, the statement it awaits ("answer" when   *)
(* it awaits none), the session of its cookie, the session of its form,    *)
(* the time it passes to the statement, whether that session's logout had  *)
(* been answered before it arrived, and what its answer does to the jar.   *)
(***************************************************************************)
HandlerState ==
  [kind : {"none", "login", "page", "write", "logout"},
   at : {"idle", "insert", "touch", "read", "revoke", "record", "answer"},
   session : Session \cup {NoSession}, form : Session \cup {NoSession},
   time : Nat, late : BOOLEAN, served : BOOLEAN,
   effect : {"none", "set", "clear"}]

Free == [kind |-> "none", at |-> "idle", session |-> NoSession,
         form |-> NoSession, time |-> 0, late |-> FALSE, served |-> FALSE,
         effect |-> "none"]

Lesser(a, b) == IF a <= b THEN a ELSE b
Greater(a, b) == IF a >= b THEN a ELSE b

-----------------------------------------------------------------------------
(* Statements.                                                             *)

\* INSERT_SESSION_SQL, with the values of createSession.
NewRow(t) ==
  [issued |-> t, lastSeen |-> t, idle |-> t + IdleTtl,
   absolute |-> t + AbsoluteTtl, revoked |-> Active]

\* READ_ACTIVE_SESSION_SQL
Readable(r, t) ==
  /\ r # NoRow
  /\ r.revoked = Active
  /\ r.issued <= t /\ r.lastSeen <= t
  /\ r.idle > t /\ r.absolute > t

\* Faults: revocation is not compared, staleness is not compared.
TouchableRevoked(r, t) ==
  /\ r # NoRow
  /\ r.lastSeen <= t /\ r.idle > t /\ r.absolute > t
TouchableStale(r, t) ==
  /\ r # NoRow
  /\ r.revoked = Active /\ r.idle > t /\ r.absolute > t

\* The condition of TOUCH_ACTIVE_SESSION_SQL.
Touchable(r, t) ==
  /\ r # NoRow
  /\ r.revoked = Active
  /\ r.lastSeen <= t /\ r.idle > t /\ r.absolute > t

\* Fault: the renewal is not capped.
TouchedUncapped(r, t) ==
  [r EXCEPT !.lastSeen = t, !.idle = Greater(@, t + IdleTtl)]

\* Its assignments.
Touched(r, t) ==
  [r EXCEPT !.lastSeen = t,
            !.idle = Lesser(Greater(@, t + IdleTtl), r.absolute)]

\* REVOKE_SESSION_SQL
Revoked(r, t) == [r EXCEPT !.revoked = IF @ = Active THEN t ELSE @]

-----------------------------------------------------------------------------
Init ==
  /\ clock = 0
  /\ rows = [s \in Session |-> NoRow]
  /\ handlers = [h \in Handler |-> Free]
  /\ cookie = NoSession
  /\ opened = {}
  /\ loggedOut = {}

Tick ==
  /\ clock < MaxTime
  /\ clock' = clock + 1
  /\ UNCHANGED <<rows, handlers, cookie, opened, loggedOut>>

\* A request arrives with the cookie of the jar and calls the manager, which
\* reads the clock.
Arrive(h, kind, at, session, form) ==
  /\ handlers[h].at = "idle"
  /\ handlers' = [handlers EXCEPT ![h] =
       [kind |-> kind, at |-> at, session |-> session, form |-> form,
        time |-> clock, late |-> session \in loggedOut, served |-> FALSE,
        effect |-> "none"]]
  /\ UNCHANGED <<clock, rows, cookie, opened, loggedOut>>

\* The end of a sign-in: createSession, with fresh tokens.
Login(h, s) ==
  /\ rows[s] = NoRow
  /\ \A g \in Handler : handlers[g].session # s
  /\ Arrive(h, "login", "insert", s, NoSession)

\* GET of a dashboard page.
OpenPage(h) ==
  /\ cookie # NoSession
  /\ Arrive(h, "page", "touch", cookie, NoSession)

\* POST of a reply intent or of a delivery authorization, from an open page.
SubmitWrite(h, form) ==
  /\ cookie # NoSession
  /\ Arrive(h, "write", "read", cookie, form)

\* POST of the logout form of an open page.
SubmitLogout(h, form) ==
  /\ cookie # NoSession
  /\ Arrive(h, "logout", "read", cookie, form)

-----------------------------------------------------------------------------
(* What the handlers do when their statement returns.                      *)

Answer(h, effect, served) ==
  handlers' = [handlers EXCEPT ![h] =
    [@ EXCEPT !.at = "answer", !.effect = effect, !.served = served, !.time = 0]]

Await(h, at) ==
  handlers' = [handlers EXCEPT ![h] = [@ EXCEPT !.at = at, !.time = clock]]

InsertSession(h) ==
  LET q == handlers[h] IN
  /\ q.at = "insert"
  /\ rows' = [rows EXCEPT ![q.session] = NewRow(q.time)]
  /\ Answer(h, "set", FALSE)
  /\ UNCHANGED <<clock, cookie, opened, loggedOut>>

\* touchDashboardSession: the page is served, with the cookie signed again if
\* the signing key was rotated, or the cookie is cleared.
TouchSession(h) ==
  LET q == handlers[h]
      r == rows[q.session]
  IN
  /\ q.at = "touch"
  /\ \/ /\ Touchable(r, q.time)
        /\ rows' = [rows EXCEPT ![q.session] = Touched(r, q.time)]
        /\ \E effect \in {"none", "set"} : Answer(h, effect, TRUE)
     \/ /\ ~Touchable(r, q.time)
        /\ Answer(h, "clear", FALSE)
        /\ UNCHANGED rows
  /\ UNCHANGED <<clock, cookie, opened, loggedOut>>

\* readDashboardSession of a write: no session clears the cookie, a foreign
\* form is forbidden, and a write without a grant or over the throttle is
\* refused.
ReadForWrite(h) ==
  LET q == handlers[h] IN
  /\ q.at = "read" /\ q.kind = "write"
  /\ IF ~Readable(rows[q.session], q.time) THEN Answer(h, "clear", FALSE)
     ELSE \/ Answer(h, "none", FALSE)
          \/ q.form = q.session /\ Await(h, "record")
  /\ UNCHANGED <<clock, rows, cookie, opened, loggedOut>>

\* readDashboardSession of a logout: whatever does not fit clears the cookie.
ReadForLogout(h) ==
  LET q == handlers[h] IN
  /\ q.at = "read" /\ q.kind = "logout"
  /\ IF Readable(rows[q.session], q.time) /\ q.form = q.session
     THEN Await(h, "revoke")
     ELSE Answer(h, "clear", FALSE)
  /\ UNCHANGED <<clock, rows, cookie, opened, loggedOut>>

\* The reply intent or the authorization is recorded, as in HubLedger.
RecordWrite(h) ==
  /\ handlers[h].at = "record"
  /\ Answer(h, "none", TRUE)
  /\ UNCHANGED <<clock, rows, cookie, opened, loggedOut>>

RevokeSession(h) ==
  LET q == handlers[h] IN
  /\ q.at = "revoke"
  /\ rows' = [rows EXCEPT ![q.session] = Revoked(@, q.time)]
  /\ Answer(h, "clear", FALSE)
  /\ loggedOut' = loggedOut \cup {q.session}
  /\ UNCHANGED <<clock, cookie, opened>>

\* A statement fails, before or after it took effect: the answer is a 500
\* that leaves the cookie alone.
StatementFails(h) ==
  LET q == handlers[h]
      r == rows[q.session]
  IN
  /\ q.at \in {"insert", "touch", "read", "revoke", "record"}
  /\ \/ UNCHANGED rows
     \/ q.at = "insert" /\ rows' = [rows EXCEPT ![q.session] = NewRow(q.time)]
     \/ /\ q.at = "touch" /\ Touchable(r, q.time)
        /\ rows' = [rows EXCEPT ![q.session] = Touched(r, q.time)]
     \/ q.at = "revoke" /\ rows' = [rows EXCEPT ![q.session] = Revoked(@, q.time)]
  /\ Answer(h, "none", FALSE)
  /\ UNCHANGED <<clock, cookie, opened, loggedOut>>

\* The answer reaches the browser: the cookie is set or cleared by name, and
\* a page that was served is shown.
Deliver(h) ==
  LET q == handlers[h] IN
  /\ q.at = "answer"
  /\ cookie' = CASE q.effect = "none"  -> cookie
                 [] q.effect = "set"   -> q.session
                 [] q.effect = "clear" -> NoSession
  /\ opened' = IF q.kind = "page" /\ q.served THEN opened \cup {q.session} ELSE opened
  /\ handlers' = [handlers EXCEPT ![h] = Free]
  /\ UNCHANGED <<clock, rows, loggedOut>>

\* Everything but the admission of writes, which DashboardWrites makes precise.
SessionNext ==
  \/ Tick
  \/ \E h \in Handler :
       \/ \E s \in Session : Login(h, s)
       \/ OpenPage(h)
       \/ \E s \in opened : SubmitWrite(h, s) \/ SubmitLogout(h, s)
       \/ InsertSession(h) \/ TouchSession(h) \/ ReadForLogout(h)
       \/ RecordWrite(h) \/ RevokeSession(h)
       \/ StatementFails(h) \/ Deliver(h)

Next == SessionNext \/ \E h \in Handler : ReadForWrite(h)

Spec == Init /\ [][Next]_vars

-----------------------------------------------------------------------------
\* Every variable has its type.
TypeOK ==
  /\ clock \in 0..MaxTime
  /\ rows \in [Session -> SessionRow \cup {NoRow}]
  /\ handlers \in [Handler -> HandlerState]
  /\ cookie \in Session \cup {NoSession}
  /\ opened \subseteq Session /\ loggedOut \subseteq Session

Issued(s) == rows[s] # NoRow

\* The expiry of a session is always the idle period after the page it was
\* last seen with, cut off at eight hours after it was issued, in whatever
\* order the touches of concurrent requests arrive; what a request with an
\* older timestamp writes never shows.
ExpiryFollowsActivity ==
  \A s \in Session : Issued(s) =>
    /\ rows[s].idle = Lesser(rows[s].lastSeen + IdleTtl, rows[s].absolute)
    /\ rows[s].absolute = rows[s].issued + AbsoluteTtl
    /\ rows[s].issued <= rows[s].lastSeen /\ rows[s].lastSeen <= clock

\* A logout that was answered with success is final: the session is revoked,
\* and no request that arrives later, from another tab or with a cookie that
\* a late answer put back into the jar, is served or records anything.
LogoutIsFinal ==
  /\ \A s \in loggedOut : rows[s].revoked # Active
  /\ \A h \in Handler : handlers[h].late => handlers[h].at # "record"
                                            /\ ~handlers[h].served

\* A session only moves on: it is not issued again, it is never seen earlier
\* than before, its expiry is never brought forward, and once it is revoked
\* nothing about it changes, not even the time of the revocation.
RowsAdvance ==
  \A s \in Session : Issued(s) =>
    /\ rows'[s] # NoRow
    /\ rows'[s].issued = rows[s].issued /\ rows'[s].absolute = rows[s].absolute
    /\ rows'[s].lastSeen >= rows[s].lastSeen
    /\ rows'[s].idle >= rows[s].idle
    /\ rows[s].revoked # Active => rows'[s] = rows[s]

SessionsOnlyAdvance == [][RowsAdvance]_vars

\* The logout form revokes the session and clears the cookie, as the operating
\* guide says: when the logout of a session, from a page of that very session,
\* clears the cookie, the session is revoked or has expired.
LogoutRevokes ==
  \A h \in Handler :
    LET q == handlers[h] IN
    q.kind = "logout" /\ q.effect = "clear" /\ q.form = q.session =>
      \/ rows[q.session].revoked # Active
      \/ rows[q.session].idle <= clock
=============================================================================
