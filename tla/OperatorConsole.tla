---------------------------- MODULE OperatorConsole ----------------------------
(***************************************************************************)
(* The operator page of the Zalo user bridge: the login with its throttle, *)
(* sessions in the memory of the process, and pages whose forms name a     *)
(* group by a reference that is made for the page.                         *)
(*                                                                         *)
(* A handler reads its session when the request arrives and then awaits a  *)
(* body, a verification of the password or the list of groups; meanwhile   *)
(* the bridge, other pages and a logout go on.  What the page asks of the  *)
(* bridge is SendGroup of ZaloBridge.  A password is right or wrong, a     *)
(* form is accepted or not.  The notices of a page are left out, and so is *)
(* the provider's answer to a send, which decides on nothing else.         *)
(***************************************************************************)
EXTENDS ZaloBridge

CONSTANTS
  Token,             \* session tokens that may be made
  Request,           \* requests that are served at a time
  IdleTtl,           \* SESSION_IDLE_MILLISECONDS
  AbsoluteTtl,       \* SESSION_ABSOLUTE_MILLISECONDS
  MaxFailures,       \* MAXIMUM_LOGIN_FAILURES
  MaxVerifications,  \* MAXIMUM_IN_FLIGHT_VERIFICATIONS
  MaxPages           \* bound on the pages with groups

ASSUME ConsoleAssumption ==
  /\ IdleTtl \in Nat /\ AbsoluteTtl \in Nat \ {0} /\ MaxPages \in Nat
  /\ MaxFailures \in Nat \ {0} /\ MaxVerifications \in Nat \ {0}

VARIABLES
  sessions,   \* the sessions, those taken out of the map included
  requests,   \* the requests being served
  throttle,   \* the fields of LoginThrottle
  pages,      \* pages with groups so far
  guesses,    \* when wrong passwords were found wrong, since the last right one
  born, used, \* when a session was opened and when it last was found alive
  loggedOut   \* sessions whose logout was answered

consoleVars == <<sessions, requests, throttle, pages, guesses, born, used, loggedOut>>
bridgeVars == vars
allVars == <<vars, consoleVars>>

\* page, offered: the references of a session, all made for one page.
NoSession == [open |-> FALSE, idle |-> 0, absolute |-> 0, page |-> 0, offered |-> {}]

\* outlived: whether the session should have been over when the request arrived.
NoRequest == [step |-> "none", outlived |-> FALSE]

ConsoleInit ==
  /\ Init
  /\ sessions = [s \in Token |-> NoSession]
  /\ requests = [r \in Request |-> NoRequest]
  /\ throttle = [failures |-> <<>>, inFlight |-> 0]
  /\ pages = 0 /\ guesses = <<>> /\ loggedOut = {}
  /\ born = [s \in Token |-> 0] /\ used = [s \in Token |-> 0]

Serve(r, request) ==
  requests[r] = NoRequest /\ requests' = [requests EXCEPT ![r] = request]
Done(r) == requests' = [requests EXCEPT ![r] = NoRequest]

-----------------------------------------------------------------------------
(* The login.                                                              *)

\* Fault: one failure more is let pass.
MayTryOnceMore(t) ==
  t.inFlight < MaxVerifications /\ Len(Recent(t.failures)) <= MaxFailures

\* LoginThrottle.reserve
MayTry(t) ==
  t.inFlight < MaxVerifications /\ Len(Recent(t.failures)) < MaxFailures

\* A session token that was not made yet will be left (bound).
TokensLeft ==
  LET opening == {r \in Request : requests[r].step = "verify" /\ requests[r].right}
  IN  Cardinality({s \in Token : sessions[s] = NoSession}) > Cardinality(opening)

\* POST of the login form, from a login page of this process.
Login(r, right) ==
  /\ requests[r] = NoRequest /\ (right => TokensLeft)
  /\ IF MayTry(throttle)
     THEN /\ Serve(r, [step |-> "verify", right |-> right, outlived |-> FALSE])
          /\ throttle' = [failures |-> Recent(throttle.failures),
                          inFlight |-> throttle.inFlight + 1]
     ELSE /\ throttle' = [throttle EXCEPT !.failures = Recent(@)]
          /\ UNCHANGED requests
  /\ UNCHANGED <<bridgeVars, sessions, pages, guesses, born, used, loggedOut>>

\* The complete of a reservation.
Completed(t, right) ==
  [failures |-> IF right THEN <<>> ELSE Append(t.failures, clock),
   inFlight |-> t.inFlight - 1]

NewSession ==
  [open |-> TRUE, idle |-> clock + IdleTtl, absolute |-> clock + AbsoluteTtl,
   page |-> 0, offered |-> {}]

\* The verification is over; a right password opens a session.
Verified(r) ==
  /\ requests[r].step = "verify"
  /\ Done(r)
  /\ throttle' = Completed(throttle, requests[r].right)
  /\ IF requests[r].right
     THEN /\ \E s \in Token :
               /\ sessions[s] = NoSession
               /\ sessions' = [sessions EXCEPT ![s] = NewSession]
               /\ born' = [born EXCEPT ![s] = clock]
               /\ used' = [used EXCEPT ![s] = clock]
          /\ guesses' = <<>>
     ELSE guesses' = Append(guesses, clock) /\ UNCHANGED <<sessions, born, used>>
  /\ UNCHANGED <<bridgeVars, pages, loggedOut>>

-----------------------------------------------------------------------------
(* Sessions.                                                               *)

\* The condition of readSession.
Alive(s) ==
  sessions[s].open /\ clock <= sessions[s].idle /\ clock <= sessions[s].absolute

\* readSession: the idle period starts again, or the session is deleted.
ReadSession(s) ==
  IF Alive(s)
  THEN LET idle == clock + IdleTtl IN
       [sessions EXCEPT ![s].idle =
          IF idle <= sessions[s].absolute THEN idle ELSE sessions[s].absolute]
  ELSE [sessions EXCEPT ![s].open = FALSE]

Outlived(s) ==
  s \in loggedOut \/ clock > born[s] + AbsoluteTtl \/ clock > used[s] + IdleTtl

\* A request comes with the cookie of a session that was opened once.
Arrive(r, s) ==
  /\ requests[r] = NoRequest /\ sessions[s] # NoSession
  /\ used' = IF Alive(s) THEN [used EXCEPT ![s] = clock] ELSE used
  /\ UNCHANGED <<bridgeVars, throttle, guesses, born, loggedOut>>

\* GET of the code to scan, which reads the session and nothing else.
ViewQr(r, s) ==
  /\ Arrive(r, s)
  /\ sessions' = ReadSession(s)
  /\ UNCHANGED <<requests, pages>>

\* The references of the session are those of the one page.
WithForms(session, page, groups) == [session EXCEPT !.page = page, !.offered = groups]

\* GET of the page: without a connection the references are cleared at once,
\* otherwise after the list of the groups has come.
OpenPage(r, s) ==
  /\ Arrive(r, s) /\ pages < MaxPages
  /\ IF Alive(s) /\ bridge.status = "connected"
     THEN /\ Serve(r, [step |-> "list", session |-> s, outlived |-> Outlived(s)])
          /\ sessions' = ReadSession(s)
     ELSE /\ sessions' = IF Alive(s)
                          THEN [ReadSession(s) EXCEPT ![s] = WithForms(@, 0, {})]
                          ELSE ReadSession(s)
          /\ UNCHANGED requests
  /\ UNCHANGED pages

\* The list of the groups, or a failure.  Every group a message was admitted of
\* gets a form, and no older form of the session is good any more.
Listed(r) ==
  /\ requests[r].step = "list"
  /\ pages' = pages + 1
  /\ \E groups \in SUBSET Group :
       sessions' = [sessions EXCEPT
         ![requests[r].session] = WithForms(@, pages + 1, groups \cap bridge.known)]
  /\ Done(r)
  /\ UNCHANGED <<bridgeVars, throttle, guesses, born, used, loggedOut>>

\* POST of a form of some page, for a group of that page.
Submit(r, s, page, g) ==
  /\ Arrive(r, s)
  /\ sessions' = ReadSession(s)
  /\ IF Alive(s)
     THEN Serve(r, [step |-> "send", session |-> s, page |-> page, group |-> g,
                    outlived |-> Outlived(s)])
     ELSE UNCHANGED requests
  /\ UNCHANGED pages

\* handleTextSend, handleImageSend: the reference is looked up when the body is
\* there, and leads to its group as long as no other page has replaced it.
Refers(request) ==
  /\ request.page = sessions[request.session].page
  /\ request.group \in sessions[request.session].offered

Sent(r) ==
  /\ requests[r].step = "send" /\ Len(calls) < MaxCalls
  /\ Done(r)
  /\ \/ UNCHANGED <<timestamps, calls>>
     \/ Refers(requests[r]) /\ process.phase # "login" /\ SendGroup(requests[r].group)
  /\ UNCHANGED <<process, bridge, socket, retries, fatal, network, clock, control>>
  /\ UNCHANGED <<sessions, throttle, pages, guesses, born, used, loggedOut>>

\* POST of the logout form; a session that has expired is deleted on the way.
SubmitLogout(r, s) ==
  /\ Arrive(r, s)
  /\ sessions' = ReadSession(s)
  /\ IF Alive(s)
     THEN Serve(r, [step |-> "logout", session |-> s, outlived |-> Outlived(s)])
     ELSE UNCHANGED requests
  /\ UNCHANGED pages

\* Fault: the cookie is cleared, the session stays.
DeletedNever(s) == sessions

Deleted(s) == [sessions EXCEPT ![s].open = FALSE]

\* The form is there: it is of this session, or the logout is ignored.
LoggedOut(r) ==
  /\ requests[r].step = "logout"
  /\ Done(r)
  /\ \/ UNCHANGED <<sessions, loggedOut>>
     \/ /\ sessions' = Deleted(requests[r].session)
        /\ loggedOut' = loggedOut \cup {requests[r].session}
  /\ UNCHANGED <<bridgeVars, throttle, pages, guesses, born, used>>

-----------------------------------------------------------------------------
\* The stop of the page server, after the bridge has been stopped.
CloseSessions ==
  /\ process.phase = "stopping"
  /\ sessions' = [s \in Token |-> [sessions[s] EXCEPT !.open = FALSE]]
  /\ UNCHANGED <<bridgeVars, requests, throttle, pages, guesses, born, used, loggedOut>>

\* Nothing of the page survives the process.
RestartBoth ==
  /\ Restart
  /\ sessions' = [s \in Token |-> NoSession]
  /\ requests' = [r \in Request |-> NoRequest]
  /\ throttle' = [failures |-> <<>>, inFlight |-> 0]
  /\ pages' = 0 /\ guesses' = <<>> /\ loggedOut' = {}
  /\ born' = [s \in Token |-> 0] /\ used' = [s \in Token |-> 0]

\* The bridge loses its connection or is stopped, and the control server takes
\* commands.  To the page all losses are alike.
BridgeGoesOn ==
  /\ \/ Stop \/ Closed("abnormal") \/ Tick
     \/ \E g \in Group : ControlSends(g)
  /\ UNCHANGED consoleVars

\* The login at Zalo, connections that come and go, and messages on their way to
\* the hub.
BridgeComesUp ==
  /\ \/ Start \/ Connected \/ TimerFires \/ (\E code \in Code : Closed(code))
     \/ \E m \in Message :
          \/ Inbound(m) \/ HubStores(m) \/ HubFails(m) \/ LateRequest(m)
          \/ Answered(m) \/ DeliveryTimesOut(m)
  /\ UNCHANGED consoleVars

\* What one connection of the bridge sees.
PageNext ==
  \/ BridgeGoesOn \/ CloseSessions
  \/ \E r \in Request :
       \/ \E right \in BOOLEAN : Login(r, right)
       \/ Verified(r) \/ Listed(r) \/ Sent(r) \/ LoggedOut(r)
       \/ \E s \in Token :
            \/ ViewQr(r, s) \/ OpenPage(r, s) \/ SubmitLogout(r, s)
            \/ \E page \in 1..pages, g \in Group : Submit(r, s, page, g)

ConsoleNext == PageNext \/ BridgeComesUp \/ RestartBoth

ConsoleSpec == ConsoleInit /\ [][ConsoleNext]_allVars

-----------------------------------------------------------------------------
\* Between two right passwords the page answers at most so many guesses in any
\* window: those that are counted, and those that were under way when the last
\* of them was admitted.  The limit is looked at before the verification and the
\* failure is noted after it, so it is not MaxFailures alone.
GuessesAreBounded ==
  LET bound == MaxFailures + MaxVerifications - 1 IN
  \A i \in 1..Len(guesses) : i + bound <= Len(guesses) =>
    guesses[i + bound] >= guesses[i] + Window

\* No request is served that has arrived after the logout of its session was
\* answered, after the idle period or after the whole period of the session,
\* however many pages and forms of it were under way.
PageSessionsEnd == \A r \in Request : ~requests[r].outlived
=============================================================================
