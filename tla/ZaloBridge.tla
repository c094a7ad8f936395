------------------------------ MODULE ZaloBridge ------------------------------
(***************************************************************************)
(* The Zalo user bridge: one process that keeps a provider session over a  *)
(* listener socket, hands every group message it receives to the hub with  *)
(* one request, and sends to groups on explicit operator commands.         *)
(*                                                                         *)
(* Callbacks of the listener, the reconnect timer, answers of the hub and  *)
(* commands interleave between the awaits of the process.  A process that  *)
(* stops or crashes is started again with a fresh login; nothing but what  *)
(* the hub has stored survives it.                                         *)
(***************************************************************************)
EXTENDS Limiter, FiniteSets

CONSTANTS
  Group,        \* groups of the account
  Message,      \* group texts the provider may emit, once or again
  GroupOf,      \* the group of a message
  MaxAttempts,  \* MAXIMUM_RECONNECT_ATTEMPTS = Len(RECONNECT_DELAYS)
  MaxSends,     \* sends per window
  Window,       \* the window of both limiters
  MaxTime,      \* bound on the clock
  MaxCalls,     \* bound on provider calls
  MaxProcesses  \* bound on process starts

ASSUME BridgeAssumption ==
  /\ GroupOf \in [Message -> Group]
  /\ MaxAttempts \in Nat
  /\ MaxSends \in Nat \ {0} /\ Window \in Nat \ {0}
  /\ MaxTime \in Nat /\ MaxCalls \in Nat
  /\ MaxProcesses \in Nat \ {0}

VARIABLES
  process,    \* how many times the bridge was started, and its phase
  bridge,     \* the fields of ZaloUserBridge, and whether its timer is due
  socket,     \* the listener's socket
  delivery,   \* handleInboundMessage of each message
  late,       \* requests nobody waits for that still are on their way
  stored,     \* messages durable in the hub
  accepted,   \* messages this process has posted
  reported,   \* failures this process has reported
  retries,    \* listener starts by the timer since the last connection
  fatal,      \* the codes of closes that are no network failure
  clock,
  timestamps, \* of the bridge's limiter
  control,    \* of the limiter of the control server
  calls       \* the sendMessage calls the provider has seen, of every process

network == <<delivery, late, stored, accepted, reported>>
limits == <<clock, timestamps, control, calls>>
vars == <<process, bridge, socket, retries, fatal, network, limits>>

Status == {"disconnected", "connected", "error", "reauthentication_required"}

\* Close codes: 1006, 3000 or 3003, and any other.
Code == {"abnormal", "kick", "other"}

\* handle: #reconnectHandle is set.  due: its callback is scheduled.
NewBridge == [status |-> "disconnected", stopped |-> FALSE, attempts |-> 0,
              handle |-> FALSE, due |-> FALSE, known |-> {}]

\* stopScheduledReconnect
Cancelled(b) == IF b.handle THEN [b EXCEPT !.handle = FALSE, !.due = FALSE] ELSE b

-----------------------------------------------------------------------------
(* The process.                                                            *)

Init ==
  /\ process = [count |-> 1, phase |-> "login"]
  /\ bridge = NewBridge
  /\ socket = "none"
  /\ delivery = [m \in Message |-> "idle"]
  /\ late = {} /\ stored = {} /\ accepted = {} /\ reported = {}
  /\ retries = 0 /\ fatal = {}
  /\ clock = 0 /\ timestamps = <<>> /\ control = <<>> /\ calls = <<>>

\* The QR login has succeeded: start attaches the listener and starts it.
Start ==
  /\ process.phase = "login"
  /\ process' = [process EXCEPT !.phase = "running"]
  /\ bridge' = [Cancelled(bridge) EXCEPT !.status = "disconnected",
                                         !.stopped = FALSE, !.attempts = 0]
  /\ socket' = "opening"
  /\ UNCHANGED <<retries, fatal, network, limits>>

\* The process has been asked to stop: the finally of runZaloUserBridge.  What
\* is in flight goes on until the process is gone.
Stop ==
  /\ process.phase = "running"
  /\ process' = [process EXCEPT !.phase = "stopping"]
  /\ bridge' = [Cancelled(bridge) EXCEPT !.stopped = TRUE,
                                         !.status = "disconnected"]
  /\ socket' = IF socket \in {"opening", "open"} THEN "closing" ELSE socket
  /\ UNCHANGED <<retries, fatal, network, limits>>

\* The process is gone, after a stop, a failed login or a crash, and is
\* started again.  Requests it had sent may still reach the hub.
Restart ==
  /\ process.count < MaxProcesses
  /\ process' = [count |-> process.count + 1, phase |-> "login"]
  /\ bridge' = NewBridge
  /\ socket' = "none"
  /\ late' = late \cup {m \in Message : delivery[m] = "posted"}
  /\ delivery' = [m \in Message |-> "idle"]
  /\ accepted' = {} /\ reported' = {}
  /\ retries' = 0 /\ fatal' = {}
  /\ timestamps' = <<>> /\ control' = <<>>
  /\ UNCHANGED <<stored, clock, calls>>

-----------------------------------------------------------------------------
(* Listener and reconnects.                                                *)

\* Fault: a late event of a listener that was stopped is believed.
ConnectedAfterStop(b) ==
  [Cancelled(b) EXCEPT !.attempts = 0, !.status = "connected"]

\* The 'connected' callback.
OnConnected(b) ==
  IF b.stopped THEN b
  ELSE [Cancelled(b) EXCEPT !.attempts = 0, !.status = "connected"]

Connected ==
  /\ socket \in {"opening", "closing"}
  /\ socket' = IF socket = "opening" THEN "open" ELSE socket
  /\ bridge' = OnConnected(bridge)
  /\ retries' = IF bridge.stopped THEN retries ELSE 0
  /\ UNCHANGED <<process, fatal, network, limits>>

\* A reconnect is scheduled.
Scheduled(b) ==
  [b EXCEPT !.attempts = @ + 1, !.status = "disconnected",
            !.handle = TRUE, !.due = TRUE]

\* Fault: a kick is retried like a lost network.
OnClosedKickRetried(b, code) ==
  CASE b.stopped -> b
    [] ~b.stopped /\ (code = "other" \/ b.attempts >= MaxAttempts) ->
         [b EXCEPT !.status = "error"]
    [] OTHER -> IF b.handle THEN b ELSE Scheduled(b)

\* handleClosed; a close while a handle is set is left to its timer.
OnClosed(b, code) ==
  CASE b.stopped -> b
    [] ~b.stopped /\ code = "kick" ->
         [Cancelled(b) EXCEPT !.status = "reauthentication_required"]
    [] ~b.stopped /\ code # "kick"
         /\ (code = "other" \/ b.attempts >= MaxAttempts) ->
         [b EXCEPT !.status = "error"]
    [] OTHER -> IF b.handle THEN b ELSE Scheduled(b)

\* A socket closes once.
Closed(code) ==
  /\ socket \in {"opening", "open", "closing"}
  /\ socket' = "closed"
  /\ bridge' = OnClosed(bridge, code)
  /\ fatal' = IF code = "abnormal" \/ bridge.stopped THEN fatal ELSE fatal \cup {code}
  /\ UNCHANGED <<process, retries, network, limits>>

\* Fault: the callback leaves its handle behind.
HandleKept(b) == [b EXCEPT !.due = FALSE]

\* The callback of the timer runs: it forgets the handle.
Fired(b) == [b EXCEPT !.handle = FALSE, !.due = FALSE]

TimerFires ==
  /\ bridge.due
  /\ bridge' = Fired(bridge)
  /\ IF bridge.stopped THEN UNCHANGED <<socket, retries>>
     ELSE socket' = "opening" /\ retries' = retries + 1
  /\ UNCHANGED <<process, fatal, network, limits>>

-----------------------------------------------------------------------------
(* Messages on their way to the hub.                                       *)

\* The 'message' callback: outside a connection the message is dropped,
\* otherwise it is posted.  The provider may emit a message again.
Inbound(m) ==
  /\ socket = "open" /\ delivery[m] = "idle"
  /\ ~bridge.stopped /\ bridge.status = "connected"
  /\ delivery' = [delivery EXCEPT ![m] = "posted"]
  /\ accepted' = accepted \cup {m}
  /\ reported' = reported \ {m}
  /\ UNCHANGED <<process, bridge, socket, retries, fatal, late, stored, limits>>

\* The hub stores the event, again or for the first time, and answers 204.
HubStores(m) ==
  /\ delivery[m] = "posted"
  /\ stored' = stored \cup {m}
  /\ delivery' = [delivery EXCEPT ![m] = "204"]
  /\ UNCHANGED <<process, bridge, socket, retries, fatal, late, accepted, reported, limits>>

\* The hub refuses the request or fails before or after it stored the event.
HubFails(m) ==
  /\ delivery[m] = "posted"
  /\ \E s \in {stored, stored \cup {m}} : stored' = s
  /\ delivery' = [delivery EXCEPT ![m] = "refused"]
  /\ UNCHANGED <<process, bridge, socket, retries, fatal, late, accepted, reported, limits>>

\* A request nobody waits for is stored after all, or lost.
LateRequest(m) ==
  /\ m \in late
  /\ late' = late \ {m}
  /\ \E s \in {stored, stored \cup {m}} : stored' = s
  /\ UNCHANGED <<process, bridge, socket, retries, fatal, delivery, accepted, reported, limits>>

\* Fault: any answer of the hub counts.
AdmitsAnyAnswer(answer) == answer \in {"204", "refused"}

\* What createZaloUserHubDelivery takes for success.
Admits(answer) == answer = "204"

\* The rest of handleInboundMessage.
Answered(m) ==
  /\ delivery[m] \in {"204", "refused"}
  /\ delivery' = [delivery EXCEPT ![m] = "idle"]
  /\ IF Admits(delivery[m])
     THEN /\ bridge' = [bridge EXCEPT !.known = @ \cup {GroupOf[m]}]
          /\ UNCHANGED reported
     ELSE reported' = reported \cup {m} /\ UNCHANGED bridge
  /\ UNCHANGED <<process, socket, retries, fatal, late, stored, accepted, limits>>

\* Fault: the abort signal ends at the first byte of the request.
NeverTimesOut(m) == delivery[m] \notin {"idle", "posted", "204", "refused"}

\* AbortSignal.timeout, at any moment of an exchange.
MayTimeOut(m) == delivery[m] # "idle"

DeliveryTimesOut(m) ==
  /\ MayTimeOut(m)
  /\ late' = IF delivery[m] = "posted" THEN late \cup {m} ELSE late
  /\ delivery' = [delivery EXCEPT ![m] = "idle"]
  /\ reported' = reported \cup {m}
  /\ UNCHANGED <<process, bridge, socket, retries, fatal, stored, accepted, limits>>

-----------------------------------------------------------------------------
(* Commands.                                                               *)

Tick ==
  /\ clock < MaxTime
  /\ clock' = clock + 1
  /\ UNCHANGED <<process, bridge, socket, retries, fatal, network, timestamps, control, calls>>

\* Fault: the edge of the window is off by one.
RecentOffByOne(ts) == After(ts, clock - Window + 1)

\* The timestamps a limiter keeps.
Recent(ts) == After(ts, clock - Window)

HasRoom(ts) == Len(Recent(ts)) < MaxSends
Reserved(ts) == IF HasRoom(ts) THEN Append(Recent(ts), clock) ELSE Recent(ts)

\* Fault: a group that was admitted once is sent to whatever has become of the
\* session since.
EligibleOnceKnown(g) == g \in bridge.known

Eligible(g) ==
  g \in bridge.known /\ ~bridge.stopped /\ bridge.status = "connected"

Call(g) == [group |-> g, time |-> clock, process |-> process.count]

\* sendGroupText and sendGroupImage: rejected without a trace, over the limit,
\* or one provider call, whose failure is returned and never retried.
SendGroup(g) ==
  IF ~Eligible(g) THEN UNCHANGED <<timestamps, calls>>
  ELSE /\ timestamps' = Reserved(timestamps)
       /\ calls' = IF HasRoom(timestamps)
                   THEN Append(calls, Call(g)) ELSE calls

\* From the operator page, which asks the bridge at once.
PageSends(g) ==
  /\ process.phase # "login" /\ Len(calls) < MaxCalls
  /\ SendGroup(g)
  /\ UNCHANGED <<process, bridge, socket, retries, fatal, network, clock, control>>

\* From the control server, which has a limiter of its own in front.
ControlSends(g) ==
  /\ process.phase # "login" /\ Len(calls) < MaxCalls
  /\ control' = Reserved(control)
  /\ IF HasRoom(control) THEN SendGroup(g) ELSE UNCHANGED <<timestamps, calls>>
  /\ UNCHANGED <<process, bridge, socket, retries, fatal, network, clock>>

Next ==
  \/ Start \/ Stop \/ Restart
  \/ Connected \/ (\E code \in Code : Closed(code)) \/ TimerFires
  \/ \E m \in Message :
       \/ Inbound(m) \/ HubStores(m) \/ HubFails(m) \/ LateRequest(m)
       \/ Answered(m) \/ DeliveryTimesOut(m)
  \/ Tick
  \/ \E g \in Group : PageSends(g) \/ ControlSends(g)

Spec == Init /\ [][Next]_vars

\* A listener that is started reports how that ended, timers fire, and the
\* event loop goes on.  Nothing is assumed of the hub.
Opens == socket = "opening" /\ (Connected \/ \E code \in Code : Closed(code))
Fairness ==
  /\ WF_vars(Opens) /\ WF_vars(TimerFires)
  /\ \A m \in Message : WF_vars(Answered(m)) /\ WF_vars(DeliveryTimesOut(m))

LiveSpec == Spec /\ Fairness

-----------------------------------------------------------------------------
Stamps == Seq(0..MaxTime)

\* Every variable has its type.
TypeOK ==
  /\ process \in [count : 1..MaxProcesses, phase : {"login", "running", "stopping"}]
  /\ bridge \in [status : Status, stopped : BOOLEAN, attempts : 0..MaxAttempts,
                 handle : BOOLEAN, due : BOOLEAN, known : SUBSET Group]
  /\ socket \in {"none", "opening", "open", "closing", "closed"}
  /\ delivery \in [Message -> {"idle", "posted", "204", "refused"}]
  /\ late \subseteq Message /\ stored \subseteq Message
  /\ accepted \subseteq Message /\ reported \subseteq Message
  /\ retries \in Nat /\ fatal \subseteq Code /\ clock \in 0..MaxTime
  /\ timestamps \in Stamps /\ control \in Stamps
  /\ calls \in Seq([group : Group, time : 0..MaxTime, process : 1..MaxProcesses])

\* The status the operator sees is the state of the socket: connected exactly
\* while it is open, waiting for a reconnect exactly while one is scheduled or
\* under way, and nothing is scheduled, open or opening after a stop, whatever
\* callbacks were still queued.
StatusIsSocket ==
  /\ bridge.status = "connected" <=> socket = "open"
  /\ bridge.handle = bridge.due
  /\ process.phase = "running" =>
       (bridge.status = "disconnected" <=> bridge.due \/ socket = "opening")
  /\ bridge.due => socket = "closed"
  /\ process.phase = "stopping" => ~bridge.due /\ socket \in {"closing", "closed"}

\* A message that was accepted and is no longer under way is stored in the
\* hub, or its failure has been reported to the operator: with one request
\* per message and no retry, none is lost silently, unless the process dies.
NothingLostSilently ==
  \A m \in accepted : delivery[m] = "idle" => m \in stored \cup reported

\* Sends go only over an open connection, and only to a group of which this
\* process, not an earlier one, has made a message durable in the hub, also when
\* the answer of the hub that admits the group comes after a kick or a stop.
SendsAreEligible ==
  [][calls' # calls =>
       /\ socket = "open"
       /\ \E m \in accepted \cap stored : GroupOf[m] = calls'[Len(calls')].group]_vars

\* A kick or a duplicate login asks for a new login, any other unexpected
\* close is an error, and both are final, as is the last retry: until the
\* process is started again nothing is opened or scheduled, so that the
\* operator who was told to restart it can rely on it.
GivingUpIsFinal ==
  /\ process.phase = "running" =>
       /\ "kick" \in fatal => bridge.status = "reauthentication_required"
       /\ "other" \in fatal => bridge.status = "error"
  /\ bridge.status \in {"error", "reauthentication_required"} =>
       socket = "closed" /\ ~bridge.due

\* Between two connections there are at most MaxAttempts reconnects.
RetriesBounded == retries <= MaxAttempts

\* The provider sees at most MaxSends calls in any window for each process that
\* made them, from the operator page and the control server together: a limiter
\* forgets its window with its process, and each restart gives way to MaxSends
\* further calls and no more.
WithinRate ==
  \A i, j \in 1..Len(calls) :
    i < j /\ j - i >= MaxSends * (1 + calls[j].process - calls[i].process)
      => calls[j].time >= calls[i].time + Window

\* A bridge that is waiting for a reconnect connects or gives up visibly.
ReconnectEnds ==
  process.phase = "running" /\ bridge.status = "disconnected"
    ~> process.phase # "running" \/ bridge.status # "disconnected"

\* No hub, however slow or silent, holds a delivery for ever.
DeliveryEnds == \A m \in Message : delivery[m] # "idle" ~> delivery[m] = "idle"
=============================================================================
