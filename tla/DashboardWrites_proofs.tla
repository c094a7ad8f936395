------------------------ MODULE DashboardWrites_proofs ------------------------
(***************************************************************************)
(* Dashboard sessions, for any number of sessions and requests in flight,  *)
(* any idle period and any length of a session; then the writes, which are *)
(* writes of those sessions whatever the throttle says, and the throttle.  *)
(***************************************************************************)
EXTENDS DashboardWrites, Limiter_proofs

-----------------------------------------------------------------------------
(* The inductive invariant.                                                *)

\* The cookie, the open pages and the logouts answered name issued sessions.
KnownAreIssued ==
  /\ cookie # NoSession => Issued(cookie)
  /\ \A s \in opened \cup loggedOut : Issued(s)

\* What holds of a request: its time has been the clock once; its session is
\* issued, except while it is being issued and nobody else can know it; and
\* once the logout of its session was answered before it arrived, it neither
\* records anything nor is served.
HandlerInv(h) ==
  LET q == handlers[h] IN
  /\ q.time <= clock
  /\ q.at \in {"touch", "read", "revoke", "record"} => q.session \in Session /\ Issued(q.session)
  /\ q.effect = "set" \/ q.served => q.session \in Session /\ Issued(q.session)
  /\ q.at = "insert" => /\ q.session \in Session /\ ~Issued(q.session)
                        /\ \A g \in Handler \ {h} : handlers[g].session # q.session
  /\ q.late => q.session \in loggedOut /\ q.at # "record" /\ ~q.served

LogoutRevoked == \A s \in loggedOut : rows[s].revoked # Active

SessionsInv ==
  /\ TypeOK
  /\ KnownAreIssued
  /\ \A h \in Handler : HandlerInv(h)
  /\ LogoutRevoked
  /\ ExpiryFollowsActivity

-----------------------------------------------------------------------------
(* Statements on one row.                                                  *)

\* A row an insert, a touch or a revocation leaves behind is one of the table.
LEMMA NewRowType == ASSUME NEW t \in Nat PROVE NewRow(t) \in SessionRow
<1>1. t + IdleTtl \in Nat /\ t + AbsoluteTtl \in Nat
  BY SessionAssumption DEF SessionAssumption
<1> QED
  BY <1>1 DEF NewRow, SessionRow

LEMMA RevokedType ==
  ASSUME NEW r \in SessionRow, NEW t \in Nat PROVE Revoked(r, t) \in SessionRow
BY DEF Revoked, SessionRow

LEMMA TouchedType ==
  ASSUME NEW r \in SessionRow, NEW t \in Nat PROVE Touched(r, t) \in SessionRow
<1>1. r.idle \in Nat /\ r.absolute \in Nat /\ t + IdleTtl \in Nat
  BY SessionAssumption DEF SessionAssumption, SessionRow
<1>2. Lesser(Greater(r.idle, t + IdleTtl), r.absolute) \in Nat
  BY <1>1 DEF Lesser, Greater
<1> QED
  BY <1>2 DEF Touched, SessionRow

\* A touch only moves a row on.
LEMMA TouchAdvances ==
  ASSUME NEW r \in SessionRow, NEW t \in Nat, r.lastSeen <= t,
         r.idle = Lesser(r.lastSeen + IdleTtl, r.absolute)
  PROVE  LET n == Touched(r, t) IN
         /\ n.issued = r.issued /\ n.absolute = r.absolute /\ n.revoked = r.revoked
         /\ n.lastSeen = t
         /\ n.idle = Lesser(t + IdleTtl, r.absolute) /\ n.idle >= r.idle
BY SessionAssumption DEF SessionAssumption, Touched, SessionRow, Active, Lesser, Greater

-----------------------------------------------------------------------------
(* Preservation.                                                           *)

\* The first state has no session and no request.
LEMMA SessionsInit == Init => SessionsInv
<1> SUFFICES ASSUME Init PROVE SessionsInv
  OBVIOUS
<1>1. TypeOK
  BY SessionAssumption DEF SessionAssumption, Init, TypeOK, HandlerState, Free
<1>2. \A h \in Handler : HandlerInv(h)
  BY DEF Init, HandlerInv, Free
<1>3. KnownAreIssued /\ LogoutRevoked /\ ExpiryFollowsActivity
  BY DEF Init, KnownAreIssued, LogoutRevoked, ExpiryFollowsActivity, Issued
<1> QED
  BY <1>1, <1>2, <1>3 DEF SessionsInv

\* A handler and what it does to its own state.
LEMMA AnswerType ==
  ASSUME TypeOK, NEW h \in Handler, NEW e \in {"none", "set", "clear"},
         NEW b \in BOOLEAN, Answer(h, e, b)
  PROVE  /\ handlers' \in [Handler -> HandlerState]
         /\ \A g \in Handler \ {h} : handlers'[g] = handlers[g]
         /\ handlers'[h].at = "answer" /\ handlers'[h].effect = e
         /\ handlers'[h].served = b /\ handlers'[h].time = 0
         /\ handlers'[h].session = handlers[h].session
         /\ handlers'[h].late = handlers[h].late
<1> DEFINE n == [handlers[h] EXCEPT !.at = "answer", !.effect = e, !.served = b, !.time = 0]
<1>1. handlers[h] \in HandlerState /\ handlers \in [Handler -> HandlerState]
  BY DEF TypeOK
<1>2. n \in HandlerState
  BY <1>1 DEF HandlerState
<1>3. /\ n.at = "answer" /\ n.effect = e /\ n.served = b /\ n.time = 0
      /\ n.session = handlers[h].session /\ n.late = handlers[h].late
  BY <1>1 DEF HandlerState
<1>4. handlers' = [handlers EXCEPT ![h] = n]
  BY DEF Answer
<1> HIDE DEF n
<1> QED
  BY <1>1, <1>2, <1>3, <1>4

LEMMA AwaitType ==
  ASSUME TypeOK, NEW h \in Handler, NEW at \in {"revoke", "record"}, Await(h, at)
  PROVE  /\ handlers' \in [Handler -> HandlerState]
         /\ \A g \in Handler \ {h} : handlers'[g] = handlers[g]
         /\ handlers'[h].at = at /\ handlers'[h].time = clock
         /\ handlers'[h].effect = handlers[h].effect
         /\ handlers'[h].served = handlers[h].served
         /\ handlers'[h].session = handlers[h].session
         /\ handlers'[h].late = handlers[h].late
<1> DEFINE n == [handlers[h] EXCEPT !.at = at, !.time = clock]
<1>1. handlers[h] \in HandlerState /\ handlers \in [Handler -> HandlerState] /\ clock \in Nat
  BY SessionAssumption DEF TypeOK, SessionAssumption
<1>2. n \in HandlerState
  BY <1>1 DEF HandlerState
<1>3. /\ n.at = at /\ n.time = clock /\ n.effect = handlers[h].effect
      /\ n.served = handlers[h].served
      /\ n.session = handlers[h].session /\ n.late = handlers[h].late
  BY <1>1 DEF HandlerState
<1>4. handlers' = [handlers EXCEPT ![h] = n]
  BY DEF Await
<1> HIDE DEF n
<1> QED
  BY <1>1, <1>2, <1>3, <1>4

LEMMA ArriveType ==
  ASSUME TypeOK, NEW h \in Handler, NEW k \in {"login", "page", "write", "logout"},
         NEW at \in {"insert", "touch", "read"}, NEW s \in Session,
         NEW f \in Session \cup {NoSession}, Arrive(h, k, at, s, f)
  PROVE  /\ handlers' \in [Handler -> HandlerState]
         /\ \A g \in Handler \ {h} : handlers'[g] = handlers[g]
         /\ handlers'[h].at = at /\ handlers'[h].time = clock
         /\ handlers'[h].effect = "none" /\ handlers'[h].served = FALSE
         /\ handlers'[h].session = s
         /\ (handlers'[h].late => s \in loggedOut)
<1>1. handlers \in [Handler -> HandlerState] /\ clock \in Nat
  BY SessionAssumption DEF TypeOK, SessionAssumption
<1> DEFINE late == s \in loggedOut
           n == [kind |-> k, at |-> at, session |-> s, form |-> f, time |-> clock,
                 late |-> late, served |-> FALSE, effect |-> "none"]
<1>2. late \in BOOLEAN
  OBVIOUS
<1>3. handlers' = [handlers EXCEPT ![h] = n]
  BY Zenon DEF Arrive
<1>4. late => s \in loggedOut
  BY Zenon
<1> HIDE DEF late
<1>5. n \in HandlerState
  BY <1>1, <1>2 DEF HandlerState
<1> QED
  BY <1>1, <1>3, <1>4, <1>5

-----------------------------------------------------------------------------
(* What a statement does to the table, and what is left to show of the     *)
(* request that awaited it.                                                *)

\* The statement of request h touches no row but its own, and moves that on.
RowStep(h) ==
  /\ rows' \in [Session -> SessionRow \cup {NoRow}]
  /\ \A s \in Session : s # handlers[h].session => rows'[s] = rows[s]
  /\ RowsAdvance
  /\ ExpiryFollowsActivity'

\* No statement, or one that had no effect.
LEMMA UnchangedRows ==
  ASSUME SessionsInv, NEW h \in Handler, UNCHANGED <<rows, clock>>
  PROVE  RowStep(h)
<1>1. ASSUME NEW s \in Session, Issued(s)
      PROVE  rows[s] \in SessionRow
  BY <1>1 DEF SessionsInv, TypeOK, Issued
<1>2. RowsAdvance
  BY <1>1 DEF RowsAdvance, Issued, SessionRow
<1>3. ExpiryFollowsActivity'
  BY DEF SessionsInv, ExpiryFollowsActivity, Issued
<1> QED
  BY <1>2, <1>3 DEF SessionsInv, TypeOK, RowStep

\* The insert of a session nobody has.
LEMMA InsertedRow ==
  ASSUME SessionsInv, NEW h \in Handler, handlers[h].at = "insert", clock' = clock,
         rows' = [rows EXCEPT ![handlers[h].session] = NewRow(handlers[h].time)]
  PROVE  RowStep(h) /\ rows'[handlers[h].session] # NoRow
<1> DEFINE s == handlers[h].session
           t == handlers[h].time
           n == NewRow(t)
<1>1. /\ rows \in [Session -> SessionRow \cup {NoRow}] /\ clock \in Nat
      /\ t \in Nat /\ t <= clock
      /\ s \in Session /\ ~Issued(s)
  BY SessionAssumption
     DEF SessionAssumption, SessionsInv, TypeOK, HandlerState, HandlerInv
<1>2. n \in SessionRow
  BY <1>1, NewRowType
<1>3. /\ n.idle = Lesser(n.lastSeen + IdleTtl, n.absolute)
      /\ n.absolute = n.issued + AbsoluteTtl
      /\ n.issued <= n.lastSeen /\ n.lastSeen <= clock
  BY <1>1, SessionAssumption DEF SessionAssumption, NewRow, Lesser
<1> HIDE DEF n
<1>4. rows' = [rows EXCEPT ![s] = n]
  BY DEF n
<1>5. rows' \in [Session -> SessionRow \cup {NoRow}]
  BY <1>1, <1>2, <1>4
<1>6. ASSUME NEW r \in Session, r # s
      PROVE  rows'[r] = rows[r]
  BY <1>1, <1>4, <1>6
<1>7. RowsAdvance
  <2> SUFFICES ASSUME NEW r \in Session, Issued(r)
               PROVE  r # s /\ rows'[r] = rows[r] /\ rows[r] \in SessionRow /\ rows'[r] # NoRow
    BY DEF RowsAdvance, SessionRow
  <2> QED
    BY <1>1, <1>6 DEF Issued
<1>8. ExpiryFollowsActivity'
  BY <1>1, <1>3, <1>4, <1>6 DEF SessionsInv, ExpiryFollowsActivity, Issued
<1>9. rows'[s] # NoRow
  BY <1>1, <1>2, <1>4, SessionAssumption DEF Issued, SessionAssumption
<1> QED
  BY <1>5, <1>6, <1>7, <1>8, <1>9 DEF RowStep

\* The touch of a session that accepts it.
LEMMA TouchedRow ==
  ASSUME SessionsInv, NEW h \in Handler, handlers[h].at = "touch", clock' = clock,
         Touchable(rows[handlers[h].session], handlers[h].time),
         rows' = [rows EXCEPT ![handlers[h].session] =
                    Touched(rows[handlers[h].session], handlers[h].time)]
  PROVE  RowStep(h)
<1> DEFINE s == handlers[h].session
           t == handlers[h].time
           r == rows[s]
           n == Touched(r, t)
<1>1. /\ rows \in [Session -> SessionRow \cup {NoRow}] /\ clock \in Nat
      /\ t \in Nat /\ t <= clock
      /\ s \in Session /\ Issued(s)
  BY SessionAssumption
     DEF SessionAssumption, SessionsInv, TypeOK, HandlerState, HandlerInv
<1>2. /\ r \in SessionRow /\ r.lastSeen <= t /\ r.revoked = Active
      /\ r.idle = Lesser(r.lastSeen + IdleTtl, r.absolute)
      /\ r.absolute = r.issued + AbsoluteTtl
      /\ r.issued <= r.lastSeen
  BY <1>1 DEF Issued, Touchable, SessionsInv, ExpiryFollowsActivity
<1>3. n \in SessionRow
  BY <1>1, <1>2, TouchedType
<1>4. /\ n.issued = r.issued /\ n.absolute = r.absolute /\ n.revoked = r.revoked
      /\ n.lastSeen = t
      /\ n.idle = Lesser(t + IdleTtl, r.absolute) /\ n.idle >= r.idle
  BY <1>1, <1>2, TouchAdvances
<1>5. rows' = [rows EXCEPT ![s] = n]
  OBVIOUS
<1> HIDE DEF n
<1>6. rows' \in [Session -> SessionRow \cup {NoRow}] /\ rows'[s] = n
  BY <1>1, <1>3, <1>5
<1>7. ASSUME NEW v \in Session, v # s
      PROVE  rows'[v] = rows[v]
  BY <1>1, <1>5, <1>7
<1>8. RowsAdvance
  <2> SUFFICES ASSUME NEW v \in Session, Issued(v)
               PROVE  /\ rows'[v] # NoRow
                      /\ rows'[v].issued = rows[v].issued
                      /\ rows'[v].absolute = rows[v].absolute
                      /\ rows'[v].lastSeen >= rows[v].lastSeen
                      /\ rows'[v].idle >= rows[v].idle
                      /\ rows[v].revoked # Active => rows'[v] = rows[v]
    BY DEF RowsAdvance
  <2>1. CASE v = s
    BY <2>1, <1>1, <1>2, <1>3, <1>4, <1>6, SessionAssumption DEF SessionAssumption, SessionRow
  <2>2. CASE v # s
    <3>1. rows[v] \in SessionRow /\ rows'[v] = rows[v]
      BY <2>2, <1>1, <1>7 DEF Issued
    <3> QED
      BY <3>1 DEF SessionRow, Issued
  <2> QED
    BY <2>1, <2>2
<1>9. ExpiryFollowsActivity'
  <2> SUFFICES ASSUME NEW v \in Session, Issued(v)'
               PROVE  /\ rows'[v].idle = Lesser(rows'[v].lastSeen + IdleTtl, rows'[v].absolute)
                      /\ rows'[v].absolute = rows'[v].issued + AbsoluteTtl
                      /\ rows'[v].issued <= rows'[v].lastSeen /\ rows'[v].lastSeen <= clock
    BY DEF ExpiryFollowsActivity
  <2>1. CASE v = s
    <3>1. r.issued \in Nat /\ r.lastSeen \in Nat
      BY <1>2 DEF SessionRow
    <3> QED
      BY <2>1, <3>1, <1>1, <1>2, <1>4, <1>6
  <2>2. CASE v # s
    BY <2>2, <1>7 DEF SessionsInv, ExpiryFollowsActivity, Issued
  <2> QED
    BY <2>1, <2>2
<1> QED
  BY <1>6, <1>7, <1>8, <1>9 DEF RowStep

\* The revocation of a session.
LEMMA RevokedRow ==
  ASSUME SessionsInv, NEW h \in Handler, handlers[h].at = "revoke", clock' = clock,
         rows' = [rows EXCEPT ![handlers[h].session] = Revoked(@, handlers[h].time)]
  PROVE  RowStep(h) /\ rows'[handlers[h].session].revoked # Active
<1> DEFINE s == handlers[h].session
           t == handlers[h].time
           r == rows[s]
           n == Revoked(r, t)
<1>1. /\ rows \in [Session -> SessionRow \cup {NoRow}] /\ clock \in Nat
      /\ t \in Nat
      /\ s \in Session /\ Issued(s) /\ r \in SessionRow
  BY SessionAssumption
     DEF SessionAssumption, SessionsInv, TypeOK, HandlerState, HandlerInv, Issued
<1>2. n \in SessionRow
  BY <1>1, RevokedType
<1>3. /\ n.issued = r.issued /\ n.absolute = r.absolute /\ n.lastSeen = r.lastSeen
      /\ n.idle = r.idle /\ n.revoked # Active
      /\ r.revoked # Active => n.revoked = r.revoked
  BY <1>1 DEF Revoked, SessionRow, Active
<1>4. r.revoked # Active => n = r
  BY <1>1 DEF Revoked, SessionRow
<1>5. rows' = [rows EXCEPT ![s] = n]
  OBVIOUS
<1> HIDE DEF n
<1>6. rows' \in [Session -> SessionRow \cup {NoRow}] /\ rows'[s] = n
  BY <1>1, <1>2, <1>5
<1>7. ASSUME NEW v \in Session, v # s
      PROVE  rows'[v] = rows[v]
  BY <1>1, <1>5, <1>7
<1>8. RowsAdvance
  <2> SUFFICES ASSUME NEW v \in Session, Issued(v)
               PROVE  /\ rows'[v] # NoRow
                      /\ rows'[v].issued = rows[v].issued
                      /\ rows'[v].absolute = rows[v].absolute
                      /\ rows'[v].lastSeen >= rows[v].lastSeen
                      /\ rows'[v].idle >= rows[v].idle
                      /\ rows[v].revoked # Active => rows'[v] = rows[v]
    BY DEF RowsAdvance
  <2>1. CASE v = s
    BY <2>1, <1>1, <1>2, <1>3, <1>4, <1>6, SessionAssumption DEF SessionAssumption, SessionRow
  <2>2. CASE v # s
    <3>1. rows[v] \in SessionRow /\ rows'[v] = rows[v]
      BY <2>2, <1>1, <1>7 DEF Issued
    <3> QED
      BY <3>1 DEF SessionRow, Issued
  <2> QED
    BY <2>1, <2>2
<1>9. ExpiryFollowsActivity'
  BY <1>1, <1>3, <1>6, <1>7 DEF SessionsInv, ExpiryFollowsActivity, Issued
<1> QED
  BY <1>3, <1>6, <1>7, <1>8, <1>9 DEF RowStep

\* A step of one request: the others keep what holds of them when the table
\* moves on and nobody takes the session that one of them is issuing.
LEMMA RequestStep ==
  ASSUME SessionsInv, NEW h \in Handler, RowStep(h),
         clock' = clock, cookie' = cookie, opened' = opened,
         handlers' \in [Handler -> HandlerState],
         \A g \in Handler \ {h} : handlers'[g] = handlers[g],
         handlers'[h].session = handlers[h].session \/ Issued(handlers'[h].session),
         HandlerInv(h)',
         loggedOut \subseteq loggedOut',
         \A s \in loggedOut' \ loggedOut :
           s \in Session /\ Issued(s) /\ rows'[s].revoked # Active
  PROVE  SessionsInv'
<1>1. /\ rows \in [Session -> SessionRow \cup {NoRow}]
      /\ opened \subseteq Session /\ loggedOut \subseteq Session
      /\ cookie \in Session \cup {NoSession}
  BY DEF SessionsInv, TypeOK
<1>2. ASSUME NEW s \in Session, Issued(s)
      PROVE  rows'[s] # NoRow /\ (rows[s].revoked # Active => rows'[s].revoked # Active)
  BY <1>2 DEF RowStep, RowsAdvance
<1>3. TypeOK'
  BY <1>1 DEF SessionsInv, TypeOK, RowStep
<1>4. KnownAreIssued'
  BY <1>1, <1>2 DEF SessionsInv, KnownAreIssued, Issued
<1>5. LogoutRevoked'
  BY <1>1, <1>2 DEF SessionsInv, LogoutRevoked, KnownAreIssued
<1>6. ASSUME NEW g \in Handler, g # h
      PROVE  HandlerInv(g)'
  <2> DEFINE q == handlers[g]
  <2>1. handlers'[g] = q /\ HandlerInv(g)
    BY <1>6 DEF SessionsInv
  <2>2. q.at \in {"touch", "read", "revoke", "record"} \/ q.effect = "set" \/ q.served =>
          q.session \in Session /\ rows'[q.session] # NoRow
    BY <2>1, <1>2 DEF HandlerInv
  <2>3. ASSUME q.at = "insert"
        PROVE  /\ q.session \in Session /\ rows'[q.session] = NoRow
               /\ \A f \in Handler \ {g} : handlers'[f].session # q.session
    <3>1. /\ q.session \in Session /\ rows[q.session] = NoRow
          /\ \A f \in Handler \ {g} : handlers[f].session # q.session
      BY <2>1, <2>3 DEF HandlerInv, Issued
    <3>2. handlers[h].session # q.session /\ handlers'[h].session # q.session
      BY <1>6, <3>1 DEF Issued
    <3> QED
      BY <3>1, <3>2, <1>6 DEF RowStep
  <2>4. q.time <= clock' /\ (q.late => q.session \in loggedOut' /\ q.at # "record" /\ ~q.served)
    BY <2>1 DEF HandlerInv
  <2> QED
    BY <2>1, <2>2, <2>3, <2>4 DEF HandlerInv, Issued
<1>7. \A g \in Handler : HandlerInv(g)'
  BY <1>6
<1> QED
  BY <1>3, <1>4, <1>5, <1>7 DEF SessionsInv, RowStep

\* What a request becomes when it has its answer.
LEMMA AnswerInv ==
  ASSUME SessionsInv, NEW h \in Handler, NEW e \in {"none", "set", "clear"},
         NEW b \in BOOLEAN, Answer(h, e, b), clock' = clock,
         loggedOut \subseteq loggedOut',
         e = "set" \/ b => /\ handlers[h].session \in Session
                           /\ rows'[handlers[h].session] # NoRow,
         b => ~handlers[h].late
  PROVE  HandlerInv(h)' /\ handlers'[h].session = handlers[h].session
         /\ handlers' \in [Handler -> HandlerState]
         /\ \A g \in Handler \ {h} : handlers'[g] = handlers[g]
<1>1. /\ handlers' \in [Handler -> HandlerState]
      /\ \A g \in Handler \ {h} : handlers'[g] = handlers[g]
      /\ handlers'[h].at = "answer" /\ handlers'[h].effect = e
      /\ handlers'[h].served = b /\ handlers'[h].time = 0
      /\ handlers'[h].session = handlers[h].session
      /\ handlers'[h].late = handlers[h].late
  BY AnswerType DEF SessionsInv
<1>2. clock \in Nat /\ HandlerInv(h)
  BY SessionAssumption DEF SessionAssumption, SessionsInv, TypeOK
<1> QED
  BY <1>1, <1>2 DEF HandlerInv, Issued

-----------------------------------------------------------------------------
(* The actions.                                                            *)

LEMMA TickStep == ASSUME SessionsInv, Tick PROVE SessionsInv' /\ RowsAdvance
<1>1. clock \in Nat /\ MaxTime \in Nat /\ clock' \in 0..MaxTime /\ clock <= clock'
  BY SessionAssumption DEF SessionAssumption, SessionsInv, TypeOK, Tick
<1>2. TypeOK'
  BY <1>1 DEF SessionsInv, TypeOK, Tick
<1>3. ASSUME NEW h \in Handler PROVE HandlerInv(h)'
  <2>1. handlers[h].time \in Nat /\ HandlerInv(h)
    BY DEF SessionsInv, TypeOK, HandlerState
  <2> QED
    BY <1>1, <2>1 DEF Tick, HandlerInv, Issued
<1>4. KnownAreIssued' /\ LogoutRevoked'
  BY DEF SessionsInv, KnownAreIssued, LogoutRevoked, Issued, Tick
<1>5. ExpiryFollowsActivity'
  <2> SUFFICES ASSUME NEW s \in Session, Issued(s)
               PROVE  rows[s].lastSeen <= clock'
    BY DEF Tick, SessionsInv, ExpiryFollowsActivity, Issued
  <2>1. rows[s].lastSeen \in Nat /\ rows[s].lastSeen <= clock
    BY DEF SessionsInv, TypeOK, Issued, SessionRow, ExpiryFollowsActivity
  <2> QED
    BY <1>1, <2>1
<1>6. RowsAdvance
  BY DEF Tick, SessionsInv, TypeOK, RowsAdvance, Issued, SessionRow
<1> QED
  BY <1>2, <1>3, <1>4, <1>5, <1>6 DEF SessionsInv

\* A request that names an issued session.
LEMMA KnownArrives ==
  ASSUME SessionsInv, NEW h \in Handler, NEW k \in {"login", "page", "write", "logout"},
         NEW at \in {"insert", "touch", "read"}, at # "insert", NEW s \in Session, Issued(s),
         NEW f \in Session \cup {NoSession}, Arrive(h, k, at, s, f)
  PROVE  SessionsInv' /\ RowsAdvance
<1>1. /\ handlers' \in [Handler -> HandlerState]
      /\ \A g \in Handler \ {h} : handlers'[g] = handlers[g]
      /\ handlers'[h].at = at /\ handlers'[h].time = clock
      /\ handlers'[h].effect = "none" /\ handlers'[h].served = FALSE
      /\ handlers'[h].session = s
      /\ (handlers'[h].late => s \in loggedOut)
  <2>1. TypeOK
    BY DEF SessionsInv
  <2> QED
    BY <2>1, ArriveType, ZenonT(120)
<1>2. /\ UNCHANGED <<clock, rows, cookie, opened, loggedOut>>
      /\ clock \in Nat
  BY SessionAssumption DEF SessionAssumption, Arrive, SessionsInv, TypeOK
<1>3. RowStep(h)
  BY <1>2, UnchangedRows
<1>4. HandlerInv(h)'
  BY <1>1, <1>2 DEF HandlerInv, Issued
<1>5. SessionsInv'
  BY <1>1, <1>2, <1>3, <1>4, RequestStep
<1> QED
  BY <1>3, <1>5 DEF RowStep

LEMMA OpenPageStep ==
  ASSUME SessionsInv, NEW h \in Handler, OpenPage(h) PROVE SessionsInv' /\ RowsAdvance
<1>1. cookie \in Session /\ Issued(cookie)
  BY DEF OpenPage, SessionsInv, TypeOK, KnownAreIssued
<1> QED
  BY <1>1, KnownArrives DEF OpenPage

LEMMA SubmitStep ==
  ASSUME SessionsInv, NEW h \in Handler, NEW f \in opened,
         SubmitWrite(h, f) \/ SubmitLogout(h, f)
  PROVE  SessionsInv' /\ RowsAdvance
<1>1. cookie \in Session /\ Issued(cookie) /\ f \in Session
  BY DEF SubmitWrite, SubmitLogout, SessionsInv, TypeOK, KnownAreIssued
<1> QED
  BY <1>1, KnownArrives DEF SubmitWrite, SubmitLogout

\* The session a sign-in takes is nobody's, and nobody takes it.
LEMMA LoginStep ==
  ASSUME SessionsInv, NEW h \in Handler, NEW s \in Session, Login(h, s)
  PROVE  SessionsInv' /\ RowsAdvance
<1>1. /\ handlers' \in [Handler -> HandlerState]
      /\ \A g \in Handler \ {h} : handlers'[g] = handlers[g]
      /\ handlers'[h].at = "insert" /\ handlers'[h].time = clock
      /\ handlers'[h].effect = "none" /\ handlers'[h].served = FALSE
      /\ handlers'[h].session = s
      /\ (handlers'[h].late => s \in loggedOut)
  BY ArriveType DEF SessionsInv, Login
<1>2. /\ UNCHANGED <<clock, rows, cookie, opened, loggedOut>>
      /\ clock \in Nat
      /\ ~Issued(s) /\ \A g \in Handler : handlers[g].session # s
  BY SessionAssumption DEF SessionAssumption, Arrive, SessionsInv, TypeOK, Login, Issued
<1>3. RowStep(h)
  BY <1>2, UnchangedRows
<1>4. s \notin loggedOut
  BY <1>2 DEF SessionsInv, KnownAreIssued
<1>5. \A g \in Handler : HandlerInv(g)'
  <2>1. HandlerInv(h)'
    BY <1>1, <1>2, <1>4 DEF HandlerInv, Issued
  <2>2. ASSUME NEW g \in Handler, g # h PROVE HandlerInv(g)'
    <3>1. HandlerInv(g) /\ handlers'[g] = handlers[g]
      BY <1>1, <2>2 DEF SessionsInv
    <3>2. \A f \in Handler : f # h => handlers'[f] = handlers[f]
      BY <1>1
    <3>3. handlers[g].session # s
      BY <1>2
    <3> QED
      BY <1>1, <1>2, <3>1, <3>2, <3>3 DEF HandlerInv, Issued
  <2> QED
    BY <2>1, <2>2
<1>6. TypeOK' /\ KnownAreIssued' /\ LogoutRevoked'
  BY <1>1, <1>2 DEF SessionsInv, TypeOK, KnownAreIssued, LogoutRevoked, Issued
<1> QED
  BY <1>3, <1>5, <1>6 DEF RowStep, SessionsInv

\* A sign-in is answered with the cookie of the session it inserted.
LEMMA InsertStep ==
  ASSUME SessionsInv, NEW h \in Handler, InsertSession(h)
  PROVE  SessionsInv' /\ RowsAdvance
<1>1. /\ handlers[h].at = "insert" /\ Answer(h, "set", FALSE)
      /\ UNCHANGED <<clock, cookie, opened, loggedOut>>
      /\ rows' = [rows EXCEPT ![handlers[h].session] = NewRow(handlers[h].time)]
  BY DEF InsertSession
<1>2. RowStep(h) /\ rows'[handlers[h].session] # NoRow
  BY <1>1, InsertedRow
<1>3. handlers[h].session \in Session
  BY <1>1 DEF SessionsInv, HandlerInv
<1>4. /\ HandlerInv(h)' /\ handlers'[h].session = handlers[h].session
      /\ handlers' \in [Handler -> HandlerState]
      /\ \A g \in Handler \ {h} : handlers'[g] = handlers[g]
  BY <1>1, <1>2, <1>3, AnswerInv
<1> QED
  BY <1>1, <1>2, <1>4, RequestStep DEF RowStep

\* A touch that finds its session serves the page, and no late one does.
LEMMA TouchStep ==
  ASSUME SessionsInv, NEW h \in Handler, TouchSession(h)
  PROVE  SessionsInv' /\ RowsAdvance
<1> DEFINE q == handlers[h]
<1>1. /\ q.at = "touch" /\ UNCHANGED <<clock, cookie, opened, loggedOut>>
      /\ HandlerInv(h) /\ q.session \in Session /\ Issued(q.session)
  BY DEF TouchSession, SessionsInv, HandlerInv
<1>2. CASE /\ Touchable(rows[q.session], q.time)
           /\ rows' = [rows EXCEPT ![q.session] = Touched(rows[q.session], q.time)]
           /\ \E effect \in {"none", "set"} : Answer(h, effect, TRUE)
  <2>1. PICK effect \in {"none", "set", "clear"} : Answer(h, effect, TRUE)
    BY <1>2
  <2>2. RowStep(h)
    BY <1>1, <1>2, TouchedRow
  <2>3. ~q.late
    BY <1>1, <1>2 DEF HandlerInv, SessionsInv, LogoutRevoked, Touchable
  <2>4. rows'[q.session] # NoRow
    BY <1>1, <2>2 DEF RowStep, RowsAdvance
  <2>5. /\ HandlerInv(h)' /\ handlers'[h].session = handlers[h].session
        /\ handlers' \in [Handler -> HandlerState]
        /\ \A g \in Handler \ {h} : handlers'[g] = handlers[g]
    BY <1>1, <2>1, <2>3, <2>4, AnswerInv
  <2> QED
    BY <1>1, <2>2, <2>5, RequestStep DEF RowStep
<1>3. CASE Answer(h, "clear", FALSE) /\ UNCHANGED rows
  <2>1. RowStep(h)
    BY <1>1, <1>3, UnchangedRows
  <2>2. /\ HandlerInv(h)' /\ handlers'[h].session = handlers[h].session
        /\ handlers' \in [Handler -> HandlerState]
        /\ \A g \in Handler \ {h} : handlers'[g] = handlers[g]
    BY <1>1, <1>3, AnswerInv
  <2> QED
    BY <1>1, <2>1, <2>2, RequestStep DEF RowStep
<1> QED
  BY <1>2, <1>3 DEF TouchSession

\* A request that goes on to its second statement keeps its session.
LEMMA AwaitStep ==
  ASSUME SessionsInv, NEW h \in Handler, NEW at \in {"revoke", "record"}, Await(h, at),
         handlers[h].at = "read", Readable(rows[handlers[h].session], handlers[h].time),
         UNCHANGED <<clock, rows, cookie, opened, loggedOut>>
  PROVE  SessionsInv' /\ RowsAdvance
<1>1. /\ handlers' \in [Handler -> HandlerState]
      /\ \A g \in Handler \ {h} : handlers'[g] = handlers[g]
      /\ handlers'[h].at = at /\ handlers'[h].time = clock
      /\ handlers'[h].effect = handlers[h].effect
      /\ handlers'[h].served = handlers[h].served
      /\ handlers'[h].session = handlers[h].session
      /\ handlers'[h].late = handlers[h].late
  BY AwaitType DEF SessionsInv
<1>2. HandlerInv(h) /\ clock \in Nat /\ RowStep(h)
  BY SessionAssumption, UnchangedRows DEF SessionAssumption, SessionsInv, TypeOK
<1>3. ~handlers[h].late
  BY <1>2 DEF HandlerInv, SessionsInv, LogoutRevoked, Readable
<1>4. HandlerInv(h)'
  BY <1>1, <1>2, <1>3 DEF HandlerInv, Issued
<1> QED
  BY <1>1, <1>2, <1>4, RequestStep DEF RowStep

\* A request that is answered without any change of the table.
LEMMA RefuseStep ==
  ASSUME SessionsInv, NEW h \in Handler, NEW e \in {"none", "clear"}, NEW b \in BOOLEAN,
         Answer(h, e, b), b => handlers[h].at = "record",
         UNCHANGED <<clock, rows, cookie, opened, loggedOut>>
  PROVE  SessionsInv' /\ RowsAdvance
<1>1. HandlerInv(h) /\ RowStep(h)
  BY UnchangedRows DEF SessionsInv
<1>2. b => /\ handlers[h].session \in Session /\ rows'[handlers[h].session] # NoRow
           /\ ~handlers[h].late
  BY <1>1 DEF HandlerInv, Issued
<1>3. /\ HandlerInv(h)' /\ handlers'[h].session = handlers[h].session
      /\ handlers' \in [Handler -> HandlerState]
      /\ \A g \in Handler \ {h} : handlers'[g] = handlers[g]
  BY <1>2, AnswerInv
<1> QED
  BY <1>1, <1>3, RequestStep DEF RowStep

LEMMA ReadForWriteStep ==
  ASSUME SessionsInv, NEW h \in Handler, ReadForWrite(h)
  PROVE  SessionsInv' /\ RowsAdvance
<1>1. /\ handlers[h].at = "read"
      /\ UNCHANGED <<clock, rows, cookie, opened, loggedOut>>
  BY DEF ReadForWrite
<1>2. CASE \E e \in {"none", "clear"} : Answer(h, e, FALSE)
  BY <1>1, <1>2, RefuseStep
<1>3. CASE /\ Readable(rows[handlers[h].session], handlers[h].time)
           /\ Await(h, "record")
  BY <1>1, <1>3, AwaitStep
<1> QED
  BY <1>2, <1>3 DEF ReadForWrite

LEMMA ReadForLogoutStep ==
  ASSUME SessionsInv, NEW h \in Handler, ReadForLogout(h)
  PROVE  SessionsInv' /\ RowsAdvance
<1>1. /\ handlers[h].at = "read"
      /\ UNCHANGED <<clock, rows, cookie, opened, loggedOut>>
  BY DEF ReadForLogout
<1>2. CASE Answer(h, "clear", FALSE)
  BY <1>1, <1>2, RefuseStep
<1>3. CASE /\ Readable(rows[handlers[h].session], handlers[h].time)
           /\ Await(h, "revoke")
  BY <1>1, <1>3, AwaitStep
<1> QED
  BY <1>2, <1>3 DEF ReadForLogout

LEMMA RecordStep ==
  ASSUME SessionsInv, NEW h \in Handler, RecordWrite(h)
  PROVE  SessionsInv' /\ RowsAdvance
BY RefuseStep DEF RecordWrite

\* A logout is answered with success after its revocation.
LEMMA RevokeStep ==
  ASSUME SessionsInv, NEW h \in Handler, RevokeSession(h)
  PROVE  SessionsInv' /\ RowsAdvance
<1> DEFINE q == handlers[h]
<1>1. /\ q.at = "revoke" /\ UNCHANGED <<clock, cookie, opened>>
      /\ Answer(h, "clear", FALSE)
      /\ loggedOut' = loggedOut \cup {q.session}
      /\ rows' = [rows EXCEPT ![q.session] = Revoked(@, q.time)]
  BY DEF RevokeSession
<1>2. RowStep(h) /\ rows'[q.session].revoked # Active
  BY <1>1, RevokedRow
<1>3. q.session \in Session /\ Issued(q.session)
  BY <1>1 DEF SessionsInv, HandlerInv
<1>4. /\ HandlerInv(h)' /\ handlers'[h].session = handlers[h].session
      /\ handlers' \in [Handler -> HandlerState]
      /\ \A g \in Handler \ {h} : handlers'[g] = handlers[g]
  BY <1>1, AnswerInv
<1> QED
  BY <1>1, <1>2, <1>3, <1>4, RequestStep DEF RowStep

\* A statement that failed may have taken effect all the same.
LEMMA FailStep ==
  ASSUME SessionsInv, NEW h \in Handler, StatementFails(h)
  PROVE  SessionsInv' /\ RowsAdvance
<1> DEFINE q == handlers[h]
<1>1. UNCHANGED <<clock, cookie, opened, loggedOut>> /\ Answer(h, "none", FALSE)
  BY DEF StatementFails
<1>2. RowStep(h)
  <2>1. CASE UNCHANGED rows
    BY <1>1, <2>1, UnchangedRows
  <2>2. CASE q.at = "insert" /\ rows' = [rows EXCEPT ![q.session] = NewRow(q.time)]
    BY <1>1, <2>2, InsertedRow
  <2>3. CASE /\ q.at = "touch" /\ Touchable(rows[q.session], q.time)
             /\ rows' = [rows EXCEPT ![q.session] = Touched(rows[q.session], q.time)]
    BY <1>1, <2>3, TouchedRow
  <2>4. CASE q.at = "revoke" /\ rows' = [rows EXCEPT ![q.session] = Revoked(@, q.time)]
    BY <1>1, <2>4, RevokedRow
  <2> QED
    BY <2>1, <2>2, <2>3, <2>4 DEF StatementFails
<1>3. /\ HandlerInv(h)' /\ handlers'[h].session = handlers[h].session
      /\ handlers' \in [Handler -> HandlerState]
      /\ \A g \in Handler \ {h} : handlers'[g] = handlers[g]
  BY <1>1, AnswerInv
<1> QED
  BY <1>1, <1>2, <1>3, RequestStep DEF RowStep

\* An answer sets a cookie of, and opens a page of, an issued session.
LEMMA DeliverStep ==
  ASSUME SessionsInv, NEW h \in Handler, Deliver(h)
  PROVE  SessionsInv' /\ RowsAdvance
<1> DEFINE q == handlers[h]
<1>1. /\ UNCHANGED <<clock, rows, loggedOut>> /\ HandlerInv(h) /\ TypeOK
      /\ handlers' = [handlers EXCEPT ![h] = Free]
      /\ q.effect \in {"none", "set", "clear"}
  BY DEF Deliver, SessionsInv, TypeOK, HandlerState
<1>2. /\ Free \in HandlerState /\ Free.session = NoSession /\ Free.at = "idle"
      /\ Free.time = 0 /\ Free.late = FALSE /\ Free.served = FALSE /\ Free.effect = "none"
  BY DEF Free, HandlerState
<1>3. RowStep(h)
  BY <1>1, UnchangedRows
<1>4. /\ cookie' \in Session \cup {NoSession} /\ (cookie' # NoSession => Issued(cookie'))
  BY <1>1 DEF Deliver, TypeOK, SessionsInv, KnownAreIssued, HandlerInv
<1>5. opened' \subseteq Session /\ \A s \in opened' : Issued(s)
  <2>1. opened \subseteq Session /\ \A s \in opened : Issued(s)
    BY DEF SessionsInv, TypeOK, KnownAreIssued
  <2>2. CASE q.kind = "page" /\ q.served
    BY <1>1, <2>1, <2>2 DEF Deliver, HandlerInv
  <2>3. CASE ~(q.kind = "page" /\ q.served)
    BY <2>1, <2>3 DEF Deliver
  <2> QED
    BY <2>2, <2>3
<1>6. TypeOK' /\ KnownAreIssued' /\ LogoutRevoked'
  BY <1>1, <1>2, <1>4, <1>5 DEF SessionsInv, TypeOK, KnownAreIssued, LogoutRevoked, Issued
<1>7. ASSUME NEW g \in Handler PROVE HandlerInv(g)'
  <2>1. handlers'[h] = Free /\ \A f \in Handler : f # h => handlers'[f] = handlers[f]
    BY <1>1 DEF TypeOK
  <2>2. CASE g = h
    <3>1. clock \in Nat
      BY SessionAssumption DEF TypeOK, SessionAssumption, SessionsInv
    <3> QED
      BY <1>1, <1>2, <2>1, <2>2, <3>1 DEF HandlerInv
  <2>3. CASE g # h
    BY <1>1, <1>2, <2>1, <2>3, SessionAssumption
       DEF SessionsInv, HandlerInv, Issued, SessionAssumption
  <2> QED
    BY <2>2, <2>3
<1> QED
  BY <1>3, <1>6, <1>7 DEF RowStep, SessionsInv

\* Every step keeps the invariant and only moves rows on.
LEMMA SessionsStep ==
  ASSUME SessionsInv, [Next]_vars PROVE SessionsInv' /\ [RowsAdvance]_vars
<1>1. CASE Next
  <2>1. CASE Tick
    BY <2>1, TickStep
  <2>2. CASE \E h \in Handler, s \in Session : Login(h, s)
    BY <2>2, LoginStep
  <2>3. CASE \E h \in Handler : OpenPage(h)
    BY <2>3, OpenPageStep
  <2>4. CASE \E h \in Handler, s \in opened : SubmitWrite(h, s) \/ SubmitLogout(h, s)
    BY <2>4, SubmitStep
  <2>5. CASE \E h \in Handler : InsertSession(h) \/ TouchSession(h)
    BY <2>5, InsertStep, TouchStep
  <2>6. CASE \E h \in Handler : ReadForWrite(h) \/ ReadForLogout(h)
    BY <2>6, ReadForWriteStep, ReadForLogoutStep
  <2>7. CASE \E h \in Handler : RecordWrite(h) \/ RevokeSession(h)
    BY <2>7, RecordStep, RevokeStep
  <2>8. CASE \E h \in Handler : StatementFails(h) \/ Deliver(h)
    BY <2>8, FailStep, DeliverStep
  <2> QED
    BY <1>1, <2>1, <2>2, <2>3, <2>4, <2>5, <2>6, <2>7, <2>8 DEF Next, SessionNext
<1>2. CASE UNCHANGED vars
  BY <1>2 DEF vars, SessionsInv, TypeOK, KnownAreIssued, HandlerInv, LogoutRevoked,
              ExpiryFollowsActivity, Issued
<1> QED
  BY <1>1, <1>2

-----------------------------------------------------------------------------
(* The theorems.                                                           *)

\* The inductive invariant holds.
LEMMA SessionsInvariant == Spec => []SessionsInv
BY SessionsInit, SessionsStep, PTL DEF Spec

\* Every variable has its type.
THEOREM SessionsTyped == Spec => []TypeOK
<1>1. SessionsInv => TypeOK
  BY DEF SessionsInv
<1> QED
  BY <1>1, SessionsInvariant, PTL

\* Whatever the order in which concurrent touches arrive, the expiry is the
\* idle period after the last one, cut off at the absolute end.
THEOREM ExpiryFollows == Spec => []ExpiryFollowsActivity
<1>1. SessionsInv => ExpiryFollowsActivity
  BY DEF SessionsInv
<1> QED
  BY <1>1, SessionsInvariant, PTL

\* An answered logout is final: nothing that arrives later with its session
\* is served or records anything.
THEOREM FinalLogout == Spec => []LogoutIsFinal
<1>1. SessionsInv => LogoutIsFinal
  BY DEF SessionsInv, LogoutIsFinal, LogoutRevoked, HandlerInv
<1> QED
  BY <1>1, SessionsInvariant, PTL

\* A session only moves on, and not at all once it is revoked.
THEOREM SessionsAdvance == Spec => SessionsOnlyAdvance
<1>1. SessionsInv /\ [Next]_vars => [RowsAdvance]_vars
  BY SessionsStep
<1> QED
  BY <1>1, SessionsInvariant, PTL DEF Spec, SessionsOnlyAdvance

-----------------------------------------------------------------------------
(* A metered write is a write of DashboardSessions: what is proved of the   *)
(* sessions is true with the throttle.                                     *)


\* A metered write is admitted or refused as DashboardSessions lets it be.
LEMMA MeteredIsRead ==
  ASSUME NEW h \in Handler, AdmitWrite(h) PROVE ReadForWrite(h)
<1>1. CASE Readable(rows[handlers[h].session], handlers[h].time)
  <2>1. \/ Answer(h, "none", FALSE)
        \/ handlers[h].form = handlers[h].session /\ Await(h, "record")
    BY <1>1 DEF AdmitWrite, Reserve
  <2> QED
    BY <1>1, <2>1 DEF AdmitWrite, ReadForWrite
<1>2. CASE ~Readable(rows[handlers[h].session], handlers[h].time)
  BY <1>2 DEF AdmitWrite, ReadForWrite
<1> QED
  BY <1>1, <1>2

\* The dashboard with its throttle implements the dashboard whose writes are refused
\* as they please, for any limit and any operators.
THEOREM WritesImplementSessions == WritesSpec => Spec
<1>1. WritesInit => Init
  BY DEF WritesInit
<1>2. [WritesNext]_<<vars, meter>> => [Next]_vars
  BY MeteredIsRead DEF WritesNext, Next
<1> QED
  BY <1>1, <1>2, PTL DEF WritesSpec, Spec

\* After an answered logout no metered write records anything either.
THEOREM MeteredLogout == WritesSpec => []LogoutIsFinal
BY WritesImplementSessions, FinalLogout

-----------------------------------------------------------------------------
(* The throttle.  It forgets at every request what attempts still has: it  *)
(* always is the end of attempts, and what it lacks has left the window.   *)

MeterOf(p) ==
  /\ throttle[p] \in Seq(Int)
  /\ Ordered(attempts[p], clock)
  /\ Covers(throttle[p], attempts[p], clock - Window - 1)
  /\ Len(attempts[p]) <= MaxWrites

MeterInv ==
  /\ throttle = [p \in Principal |-> throttle[p]]
  /\ attempts = [p \in Principal |-> attempts[p]]
  /\ \A p \in Principal : MeterOf(p)

LEMMA MeterStarts == WritesInit => MeterInv
<1> SUFFICES ASSUME WritesInit PROVE MeterInv
  OBVIOUS
<1>1. ASSUME NEW p \in Principal PROVE MeterOf(p)
  <2>1. throttle[p] = <<>> /\ attempts[p] = <<>>
    BY DEF WritesInit
  <2>2. Covers(<<>>, <<>>, clock - Window - 1)
    <3>1. <<>> \in Seq(Int)
      OBVIOUS
    <3> QED
      BY <3>1, CoversItself, Zenon
  <2>3. Ordered(<<>>, clock)
    BY DEF Ordered
  <2> QED
    BY <2>1, <2>2, <2>3, WritesAssumption DEF MeterOf, WritesAssumption
<1> QED
  BY <1>1 DEF WritesInit, MeterInv

\* To forget what is old keeps the throttle of an operator what it is.
LEMMA MeterForgets ==
  ASSUME MeterInv, NEW p \in Principal, clock \in Int
  PROVE  /\ RecentWrites(throttle[p]) \in Seq(Int)
         /\ Covers(RecentWrites(throttle[p]), attempts[p], clock - Window - 1)
         /\ RecentWrites(throttle[p]) = After(attempts[p], clock - Window - 1)
<1> DEFINE moment == clock - Window - 1
           kept == throttle[p]
           all == attempts[p]
<1>1. kept \in Seq(Int) /\ Ordered(all, clock) /\ Covers(kept, all, moment)
  BY DEF MeterInv, MeterOf
<1>2. moment \in Int /\ RecentWrites(kept) = After(kept, moment)
  BY WritesAssumption DEF WritesAssumption, RecentWrites
<1> HIDE DEF moment, kept, all
<1>3. After(kept, moment) \in Seq(Int) /\ Covers(After(kept, moment), all, moment)
      /\ After(kept, moment) = After(all, moment)
  BY <1>1, <1>2, AfterCovers
<1> QED
  BY <1>2, <1>3 DEF moment, kept, all

\* A recording is begun at a time later than, or at, those that are remembered.
LEMMA MeterCounts ==
  ASSUME MeterInv, NEW p \in Principal, clock \in Int,
         Len(RecentWrites(throttle[p])) < MaxWrites
  PROVE  LET more == Append(RecentWrites(throttle[p]), clock) IN
         /\ more \in Seq(Int) /\ Ordered(more, clock) /\ Len(more) <= MaxWrites
         /\ Covers(more, more, clock - Window - 1)
<1> DEFINE left == RecentWrites(throttle[p])
           more == Append(left, clock)
<1>1. left \in Seq(Int) /\ Ordered(attempts[p], clock)
      /\ Covers(left, attempts[p], clock - Window - 1)
  BY MeterForgets DEF MeterInv, MeterOf
<1>2. Len(left) < MaxWrites /\ MaxWrites \in Nat
  BY WritesAssumption DEF WritesAssumption
<1> HIDE DEF left
<1>3. Ordered(left, clock)
  <2> DEFINE moment == clock - Window - 1
  <2>1. Covers(left, attempts[p], moment)
    BY <1>1
  <2> HIDE DEF moment
  <2> QED
    BY <1>1, <2>1, EndOfCovered
<1>4. more \in Seq(Int) /\ Len(more) <= MaxWrites
  BY <1>1, <1>2
<1>5. Ordered(more, clock)
  BY <1>3, OrderedAppend
<1> HIDE DEF more
<1>6. Covers(more, more, clock - Window - 1)
  BY <1>4, CoversItself
<1> QED
  BY <1>4, <1>5, <1>6 DEF more, left

\* One step, of whatever session or request, keeps what the throttle knows.
LEMMA MeterStep ==
  ASSUME SessionsInv, MeterInv, [WritesNext]_<<vars, meter>> PROVE MeterInv'
<1>1. clock \in Int /\ Window \in Nat
  BY SessionAssumption, WritesAssumption
     DEF SessionsInv, TypeOK, SessionAssumption, WritesAssumption
<1>2. ASSUME clock' \in {clock, clock + 1}, UNCHANGED meter
      PROVE  MeterInv'
  <2>1. ASSUME NEW p \in Principal PROVE MeterOf(p)'
    <3> DEFINE all == attempts[p]
               kept == throttle[p]
               moment == clock - Window - 1
               later == clock' - Window - 1
    <3>1. /\ kept \in Seq(Int) /\ Ordered(all, clock) /\ Covers(kept, all, moment)
          /\ Len(all) <= MaxWrites
      BY DEF MeterInv, MeterOf
    <3>2. /\ moment \in Int /\ later \in Int /\ moment <= later
          /\ clock' \in Int /\ clock <= clock'
      <4>1. clock' = clock \/ clock' = clock + 1
        BY <1>2
      <4>2. clock' \in Int /\ clock <= clock'
        BY <1>1, <4>1
      <4>3. ASSUME NEW a \in Int, NEW b \in Int, NEW w \in Int, a <= b
            PROVE  a - w - 1 \in Int /\ b - w - 1 \in Int /\ a - w - 1 <= b - w - 1
        BY <4>3
      <4>4. Window \in Int
        BY <1>1
      <4> QED
        BY <1>1, <4>2, <4>3, <4>4
    <3>3. throttle'[p] = kept /\ attempts'[p] = all
      BY <1>2 DEF meter
    <3> HIDE DEF all, kept, moment, later
    <3>4. Ordered(all, clock') /\ Covers(kept, all, later)
      BY <1>1, <3>1, <3>2, OrderedLater, CoversLater
    <3> QED
      BY <3>1, <3>3, <3>4 DEF MeterOf, later
  <2> QED
    BY <1>2, <2>1 DEF MeterInv, meter
<1>3. ASSUME NEW h \in Handler, AdmitWrite(h)
      PROVE  MeterInv'
  <2>1. clock' = clock
    BY <1>3 DEF AdmitWrite
  <2>2. CASE UNCHANGED meter
    BY <1>2, <2>1, <2>2
  <2>3. CASE Reserve(h, OwnerOf[handlers[h].session])
    <3>1. PICK p \in Principal : p = OwnerOf[handlers[h].session]
      <4>1. handlers[h].session \in Session
        BY <1>3 DEF AdmitWrite, SessionsInv, HandlerInv
      <4> QED
        BY <4>1, WritesAssumption DEF WritesAssumption
    <3>2. CASE Len(RecentWrites(throttle[p])) < MaxWrites
      <4>1. /\ throttle' = Reserved(p)
            /\ attempts' = [attempts EXCEPT ![p] =
                 Append(After(attempts[p], clock - Window - 1), clock)]
        BY <2>3, <3>1, <3>2 DEF Reserve
      <4> DEFINE more == Append(RecentWrites(throttle[p]), clock)
      <4>2. attempts' = [attempts EXCEPT ![p] = more]
        BY <1>1, <4>1, MeterForgets
      <4>3. /\ more \in Seq(Int) /\ Ordered(more, clock) /\ Len(more) <= MaxWrites
            /\ Covers(more, more, clock - Window - 1)
        BY <1>1, <3>2, MeterCounts
      <4>4. throttle' = [o \in Principal |-> IF o = p THEN more ELSE RecentWrites(throttle[o])]
        BY <4>1 DEF Reserved
      <4> HIDE DEF more
      <4>5. throttle'[p] = more /\ attempts'[p] = more
        BY <4>2, <4>4 DEF MeterInv
      <4>6. ASSUME NEW o \in Principal, o # p
            PROVE  throttle'[o] = RecentWrites(throttle[o]) /\ attempts'[o] = attempts[o]
        BY <4>2, <4>4, <4>6 DEF MeterInv
      <4>7. ASSUME NEW o \in Principal, o # p PROVE MeterOf(o)'
        BY <1>1, <2>1, <4>6, <4>7, MeterForgets DEF MeterInv, MeterOf
      <4>8. MeterOf(p)'
        BY <2>1, <4>3, <4>5 DEF MeterOf
      <4> QED
        BY <4>2, <4>4, <4>7, <4>8 DEF MeterInv
    <3>3. CASE ~(Len(RecentWrites(throttle[p])) < MaxWrites)
      <4>1. throttle' = [o \in Principal |-> RecentWrites(throttle[o])] /\ attempts' = attempts
        BY <2>3, <3>1, <3>3 DEF Reserve
      <4>2. ASSUME NEW o \in Principal PROVE MeterOf(o)'
        <5>1. throttle'[o] = RecentWrites(throttle[o]) /\ attempts'[o] = attempts[o]
          BY <4>1
        <5> QED
          BY <1>1, <2>1, <5>1, MeterForgets DEF MeterInv, MeterOf
      <4> QED
        BY <4>1, <4>2 DEF MeterInv
    <3> QED
      BY <3>2, <3>3
  <2> QED
    BY <1>3, <2>2, <2>3 DEF AdmitWrite
<1>4. CASE SessionNext /\ UNCHANGED meter
  <2>1. clock' \in {clock, clock + 1}
    BY <1>4 DEF SessionNext, Tick, Arrive, Login, OpenPage, SubmitWrite, SubmitLogout,
      InsertSession, TouchSession, ReadForLogout, RecordWrite, RevokeSession,
      StatementFails, Deliver
  <2> QED
    BY <1>2, <1>4, <2>1
<1>5. CASE UNCHANGED <<vars, meter>>
  <2>1. clock' = clock /\ UNCHANGED meter
    BY <1>5 DEF vars
  <2> QED
    BY <1>2, <2>1
<1> QED
  BY <1>3, <1>4, <1>5 DEF WritesNext

\* No operator begins more recordings in a rolling window than he may: for any limit,
\* any window, any sessions and operators, and any length of the statements awaited.
THEOREM MeteredWrites == WritesSpec => []WritesAreMetered
<1>1. MeterInv => WritesAreMetered
  BY DEF MeterInv, MeterOf, WritesAreMetered
<1>2. [WritesNext]_<<vars, meter>> => [Next]_vars
  BY MeteredIsRead DEF WritesNext, Next
<1>3. WritesInit => Init
  BY DEF WritesInit
<1> QED
  BY <1>1, <1>2, <1>3, MeterStarts, MeterStep, SessionsInit, SessionsStep, PTL DEF WritesSpec
==============================================================================
