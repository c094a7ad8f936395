---------------------------- MODULE DashboardWrites ----------------------------
(***************************************************************************)
(* The writes of operators: reply intents and delivery authorizations from *)
(* the forms of dashboard pages, and the throttle of the process that      *)
(* meters both together, over all sessions of an operator.                 *)
(*                                                                         *)
(* The throttle is asked between two statements that are awaited, the read *)
(* of the session and the recording of the write.  A process tracks more   *)
(* operators than a document may configure, so none is ever forgotten to   *)
(* make room for another.                                                  *)
(***************************************************************************)
EXTENDS DashboardSessions, Limiter

CONSTANTS
  Principal,  \* configured operators
  OwnerOf,    \* the operator a session was issued to
  MaxWrites,  \* MAXIMUM_WRITES_PER_WINDOW
  Window      \* WINDOW_MILLISECONDS

ASSUME WritesAssumption ==
  OwnerOf \in [Session -> Principal] /\ MaxWrites \in Nat \ {0} /\ Window \in Nat

VARIABLES
  throttle,  \* writesByPrincipal: when each operator has written
  attempts   \* recordings begun in the window that ended with the last one

meter == <<throttle, attempts>>

WritesInit ==
  /\ Init
  /\ throttle = [p \in Principal |-> <<>>]
  /\ attempts = [p \in Principal |-> <<>>]

-----------------------------------------------------------------------------
\* Fault: the end of the window is not part of it.
RecentShort(writes) == After(writes, clock - Window)

\* The writes prune keeps: those of which the age is at most the window.
RecentWrites(writes) == After(writes, clock - Window - 1)

\* prune, and one more write of the operator.
Reserved(p) ==
  [o \in Principal |->
     IF o = p THEN Append(RecentWrites(throttle[p]), clock) ELSE RecentWrites(throttle[o])]

\* reserve
Reserve(h, p) ==
  IF Len(RecentWrites(throttle[p])) < MaxWrites
  THEN /\ throttle' = Reserved(p)
       /\ attempts' = [attempts EXCEPT ![p] =
            Append(After(@, clock - Window - 1), clock)]
       /\ Await(h, "record")
  ELSE /\ throttle' = [o \in Principal |-> RecentWrites(throttle[o])]
       /\ UNCHANGED attempts
       /\ Answer(h, "none", FALSE)

\* The session of a write has been read: there is none and the cookie is cleared, or
\* the form is of another session or the operator lacks the grant, or he is metered.
AdmitWrite(h) ==
  LET q == handlers[h]
      readable == Readable(rows[q.session], q.time)
  IN
  /\ q.at = "read" /\ q.kind = "write"
  /\ \/ ~readable /\ Answer(h, "clear", FALSE) /\ UNCHANGED meter
     \/ readable /\ Answer(h, "none", FALSE) /\ UNCHANGED meter
     \/ readable /\ q.form = q.session /\ Reserve(h, OwnerOf[q.session])
  /\ UNCHANGED <<clock, rows, cookie, opened, loggedOut>>

WritesNext ==
  \/ SessionNext /\ UNCHANGED meter
  \/ \E h \in Handler : AdmitWrite(h)

WritesSpec == WritesInit /\ [][WritesNext]_<<vars, meter>>

-----------------------------------------------------------------------------
\* No operator begins more recordings in a rolling window than he may, whatever
\* sessions, tabs and forms he uses, however often he signs in again, and however
\* long the statements before and after the throttle take.
WritesAreMetered == \A p \in Principal : Len(attempts[p]) <= MaxWrites
=============================================================================
